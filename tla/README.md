# Xazz in TLA+

TLA+ models, TLC runs and TLAPS proofs for Xazz, a pipeline language with built-in
differential privacy (DP), and the server that runs its pipelines for tenants.

## 1. The system

| Part | Source | State it keeps | Talks to |
|---|---|---|---|
| Tenant DP ledger | `xazz-server/src/store.rs` | SQLite tables `dp_budget`, `dp_reservation`, `tenant_dp_config` and its history, `dp_reset_history`; shared by all server instances | called by the handlers of `main.rs` |
| `POST /execute` | `xazz-server/src/main.rs` | tenant lock map (weak references), four execution permits, a reservation guard, one detached blocking task per run | ledger, audit log, run history, the `xazz` command |
| Audit log | `xazz-server/src/audit_log.rs` | `audit.jsonl`, a hash chain; a process mutex and a file lock | appended to by `/execute`, `/security/audit` and inference checks; read by `/security/audit/*` |
| Policy store | `store.rs`, `main.rs` | tenant policy packs, their history, its TTL and the history of that | guardrail, policy endpoints, a sweeper task |
| Authentication | `main.rs` | none (environment) | decides the tenant and actor of every request |
| Guardrail, remediation | `guardrail.rs`, `slm.rs` | none | policy engine of the compiler; an external model |
| Command line, runner | `src/`, `xazz-runner` | none; a child process and a timeout | started by `/execute`; starts `xazz-exec` |
| Execution engine | `xazz-exec` | one `PrivacyBudget` per process; data frames; models; a source cache | reports to its caller through `[xazz:...]` markers on stdout |
| Training | `xazz-exec` (`dl.rs`, `split.rs`, `classification.rs`, `backend.rs`) | model table, checkpoint files, an artifact cache | steps of the engine |
| Compiler | `xazz-compiler`, `xazz-core` | none | lexer, parser, modules, checker, optimizer, policy engine, code generation |
| Language server, IDEs, Python | `xazz-lsp`, `visual-ide`, `vscode-xazz`, `python` | editor state | clients |

### How they interact on the important path

`POST /execute` takes its tenant's in-process lock, then a permit, passes the policy
gate and the per-query cap, reads the tenant's effective window, and reserves the
whole remaining envelope in the shared store. It then hands lock, permit and
reservation to a blocking task, which starts `xazz run` with the reserved epsilon as
`XAZZ_DP_BUDGET`, waits for it, reads the last `[xazz:dp]` marker, settles (bill and
release), appends an audit record, records the run and only then drops the lock and
the permit. The handler only awaits that task, so a client that leaves takes nothing
with it. Other instances take the same steps on the same store; operators change the
window or reset the ledger meanwhile.

`xazz run` gates the text, starts `xazz-runner`, and that starts `xazz-exec` and watches
it. The engine expands imports, checks, gates the merged program and every module again,
lowers, optimizes, executes pipeline by pipeline, trains, charges its privacy budget and
prints markers. `xazz emit rust` and `xazz compile` turn the same AST into a Polars
program that is run later, without the engine. `/security/remediate` repairs a program
that the policy rejects, prints it, and may ask a model for a better one.

### What makes each part correct, and what is hard about it

- **Ledger.** What is billed plus what is handed out never exceeds the envelope; no
  spend is lost; nobody releases another's reservation; a reservation left behind does
  not block a tenant for ever; spend expires only with its window. Hard: a reserve call
  is three separate statements, other processes work between them, wall-clock time
  passes, runs outlive their TTL, settles fail, settings change in mid-run.
- **`/execute`.** One run per tenant and process; permits balance; every run that was
  started is billed, audited and recorded whether or not its client is there. Hard: a
  lock that lives only as long as somebody refers to it, futures dropped at an await,
  a dozen early returns, bookkeeping calls that fail on their own.
- **Audit log.** One hash chain with gapless indices; acknowledged records survive;
  readers see whole records. Hard: a read-modify-write over a file shared by processes,
  torn writes, failed fsyncs.
- **Policy store.** A change and its history row commit together; pruning and sweeping
  take only what has expired or exceeds the limit; pages neither repeat nor skip. Hard:
  sweeps, prunes and window changes between pages, and time stamps that are taken before
  a transaction has a lock.
- **Guardrail.** Nothing runs that its tenant's policy rejects; what is called verified is
  let through; what is said to be repaired is. Hard: packs change or stop loading under a
  request, three headers and four ways to authenticate, a model that may answer anything,
  late or never, and repair by printing an AST.
- **Engine, accounting, runner.** What is written is what the program means; noise is paid
  for before it goes anywhere and billed whatever happens; a violation anywhere stops a run
  before it has an effect; the caller is told the truth. Hard: filters moved by the
  optimizer, a hand-written column tracker, composition that is not a sum, a timeout that
  races the end of the engine.
- **Code generation.** A generated program that compiles computes what the engine would.
  Hard: the emitter carries open chains and pending groups from one operation to the next.
- **Training.** No row is trained on and validated with; training stops when it should;
  the reported winner won; a prediction uses its own model, and is computed with the inputs
  and the network of the training. Hard: small tables, ties, missing values, four
  implementations of one network, checkpoints that two variables share.

`PROJECT.json` lists every component with its status, and every hazard at its line.

## 2. Modules

| Module | What it is |
|---|---|
| `DpEnvelope` | abstract: a tenant's envelope, granted to one run at a time |
| `DpReservation` | the ledger, `/execute`'s use of it, the budget endpoints, time and crashes |
| `DpReservationProofs` | theorems about `DpReservation` |
| `Execute` | one process: lock map, permits, handler, task, disconnects |
| `ExecuteProofs` | theorems about `Execute` |
| `AuditTrail` | abstract: a hash chain of which only unconfirmed records can be lost |
| `AuditLog` | `append_to_path` and `read_all` with locks, writes, fsync and failures |
| `AuditLogProofs` | theorems about `AuditLog` |
| `ChangeTrail` | abstract: a change history of which rows may be forgotten, not altered |
| `PolicyStore` | three kinds of tenant settings, their histories, retention, sweep, pages |
| `PolicyStoreProofs` | theorems about `PolicyStore` |
| `Access` | who a request is served as |
| `Guardrail` | the gate and the remediation endpoint, several requests at a time |
| `GuardrailProofs` | theorems about `Guardrail` |
| `Parser` | lexemes to tokens to AST |
| `Policy`, `Remediation`, `Printer` | the rules, the repair of an AST with what it promises, its print |
| `Polars`, `Expressions` | external: frames, the operations the engine and generated programs use, and scalar expressions |
| `Checker`, `Lowering`, `Optimizer`, `ModuleLoader`, `PrivacyBudget` | the compiler's and the engine's pure parts |
| `Engine` | one engine process, step by step |
| `Launch` | `xazz run`: gate, runner, timeout, the caller's reading of the markers |
| `EngineProofs`, `LoaderProofs` | theorems about `Engine` and `Launch`, and about import expansion |
| `Emitter`, `Codegen` | the generated program, and the flow that is shown for it |
| `Meaning` | what a program means, what a run owes to it, and what the generated program computes |
| `Split`, `Classification`, `Network`, `Tensors`, `EmittedSweep` | the pure parts of training |
| `Training` | training commands, sweeps, artifacts and predictions, by engine, device and export |
| `TrainingProofs` | theorems about `Training` |
| `MCDpReservation`, `MCExecute`, `MCAuditLog`, `MCPolicyStore`, `MCPipeline`, `MCTraining`, `MCGuardrail` | instances for TLC |

`Launch` composes `Engine` with the runner, `Engine` composes `ModuleLoader`, `Polars` and
`PrivacyBudget` and has the compiler as parameters (`Analyze`, `Optimized`, `Lowered`), for which
`Pipeline.cfg` puts `Checker`, `Optimizer` and `Lowering`; `Meaning` compares the program's meaning with
what the engine and the emitted program compute; `MCGuardrail` puts `Parser`, `Policy`, `Remediation` and
`Printer` in the place of the parameters `Verdict` and `Repair` of `Guardrail`.

Operators with a comment "Slip:" or "mutant" are plausible mistakes in the operator that
follows them. Nothing refers to them; `PROJECT.json` pairs each with the property that
notices when it takes that operator's place.

### DpReservation

| State | Code |
|---|---|
| `now` | `now_epoch()` |
| `ledger` | row of `dp_budget`: `spent_epsilon`, `window_started_at` |
| `override`, `changedAt` | `tenant_dp_config.window_secs`; `changed_at` of the newest row of `tenant_dp_config_history` |
| `reservation` | row of `dp_reservation` |
| `pc`, `call` | position and locals of `handle_execute` and `run_execution_job` |
| `used` | `budget_spent` of the run's last marker |
| `view` | a budget endpoint between its store calls |

`ReadWindow`, `ReserveRoll`, `ReserveInsert`/`ReserveBlocked` and `ReserveReadBack`
are the statements of a reserve; each is atomic in SQLite and nothing
larger is, so other instances step in between. Within one instance the connection's
mutex is held through the call (`StoreFree`) and the tenant lock through the run
(`TenantLockFree`, which `Execute`'s `OneRunPerTenant` justifies). `Settle` is one
transaction. `ReserveError`, `SetupFails`, `SettleError` and `Crash` are the ways out.
A crashed server's runner finds its pipe closed at its next marker and ends, so it
releases nothing that would have to be billed.

Abstractions: epsilon in whole units (the tolerance 1e-9 and the floor 1e-12 handed to a
runner are below a unit); no delta column, which goes through the same statements; the
envelope is constant (lowering `XAZZ_TENANT_DP_BUDGET` between restarts is not
modelled); basic sequential composition in the runner (the other modes are in `PrivacyBudget`);
one budget request per tenant in flight.

`ReserveLimit` bounds a reserve call, standing for SQLite's busy timeout of 5 s, and
`HoldLimit` bounds a run, standing for the runner's timeout (300 s by default, against a
TTL of 3600 s). Both are parameters: properties that need them say so, and runs that
exceed the TTL are checked too.

### Execute

`lock`, `lockMap` and `queue` model `tenant_lock` and the fair tokio mutex: a lock is
named after the request that created it and lives while some request, guard or task
refers to it. `ReleaseSlot` drops permit and tenant guard together. `DropHandler` is
axum dropping the handler's future: possible only where it awaits, in the lock's queue
and behind the task. `Settling`, `AppendAudit`, `RecordRun` may fail and are then noted
in `warned`, which stands for the line on stderr. The store's reserve and settle are one
step each here, with another instance and TTL expiry as the environment. The constant
`Hazards` says which failures a run includes. The answer "ok" is HTTP 200, whose body may
say `success: false`. A panic inside the blocking task is not modelled.

### AuditLog

The file is a sequence of record texts, newlines and cut texts. `Build` reads and parses
under both locks; `WriteSome`, `WriteText`, `WriteNewline` are `writeln!` on an
unbuffered `File`; `synced` is what survives `PowerLoss`. `Faults` says which failures a
run includes. `Digest` is injective in the model. In the code the optional fields are
concatenated without a mark for the absent ones, so distinct records can have one hash
input; the chain properties here do not depend on that. The creation of the file and of
its directory entry are not modelled.

### PolicyStore

| State | Code |
|---|---|
| `setting` | rows of `tenant_policies`, `tenant_policy_history_config`, `tenant_dp_config` |
| `rows`, `lastId` | the three history tables and their AUTOINCREMENT counters |
| `walk` | a client between the pages of one history; the locals of the page being read |
| `owed` | history variable: the rows that were listable ever since the walk began |

The three kinds go through the same statements, with one difference: only the history of
the packs expires by time. `Change` is a set or a delete with its row and its prune,
`Sweep` the periodic task, both whole transactions; one that fails changes nothing and is
not a step. Their time stamp may be up to `StampLag` seconds old, because
`unchecked_transaction` takes no lock and `now_epoch()` is called before the first
statement does; with a single instance, whose mutex is held, it is not old at all. A page
reads the retention window in one statement and the rows in the next (`StartWalk` or
`NextPage`, then `ListPage`). Left out: who made a change, offset pages (they promise
nothing about rows that come and go), and the window echoed in the response, which is read
by a call of its own and may differ from the one that filtered the page.

### Guardrail and Access

| State | Code |
|---|---|
| `stored` | row of `tenant_policies` of a tenant; `Broken` is one that does not load here |
| `req` | a request: where its handler is, its text, the tenant it is served as, the policy that was loaded, its answer |
| `req[r].seen` | history variable: the packs its own tenant had while it was handled |

`Arrive` is `optional_bearer_auth`, with the text either new or one that somebody was given
as remediated code. `LoadPolicyFor` is one read of the store. `Judge` is the gate;
`RemediateNow`, `SlmResponds`, `SlmFails` and `SlmProposes` are the awaits of
`remediate_with_slm`. `propose` puts a timeout around the response's headers only: the body
is read without one (`reading`). `Access` is a function of the server's tokens and of the
three headers a request carries.

### Parser, Policy, Remediation, Printer

A text is a sequence of tokens and what its comments contain, so that the lexer is left with
strings, escapes and the end of the file, and the parser with the grammar itself: precedence,
statements, and which arguments an operation accepts, in which form. Names, paths and literals are
members of small sets; what matters of them (the words of a quoted name, its normal form, the
path's fragments, the literal patterns it matches) is given by tables. So the scanners of
`patterns.rs` for personal data in literals appear as a property of a literal; their character-level
logic is not modelled. `Policy` is one pass over the statements
with the columns each operation lets through; `Remediation` rewrites the AST, `Printer` writes
it and the check is made on the result, as in `remediate.rs`.

### Engine, Launch, Meaning

| State | Code |
|---|---|
| `phase`, `why` | the step of `run_pipeline`, and why it failed |
| `loader` | `ModuleResolver`: stack, loaded, merged program, errors |
| `node`, `step`, `cur` | the loop of `execute_typed_program` |
| `table`, `models`, `cache` | `symbol_table`, `model_table`, `source_cache` |
| `budget`, `paid` | `PrivacyBudget`; history variable: the columns charged per noise step |
| `disk`, `markers` | files and stdout |
| `runner`, `elapsed`, `exit` | `xazz-runner`: its polling loop, clock and answer |

Cells are integers, strings as model values, or uninterpreted statistics; a column carries
the noise draws that entered it (`dp`). Operations whose order Polars leaves open have
several outcomes. A `withDp` step charges and prints its marker in one step: a kill in between
leaves nothing released. Epsilon is an integer; the concentrated modes are computed in
integers that are rounded up. The markers of all declared models count as one. The generated program is the list of calls the emitter writes and
`Meaning` runs them on the same frames.

### Training

A command trains or predicts. Losses and network outputs are arbitrary (`Losses`, `Outputs`):
what is checked is everything around the arithmetic. `Network` builds the same layers four times, as
`build_mlp`, as the ONNX graph, as the generated code, and as the meaning of the declaration;
`Tensors` computes the inputs, with exact ratios for mean and variance, in training, in
prediction and in generated code. Rounding to f32 is not modelled.

## 3. What TLC checks

| Run | Instance | Properties | States (about) |
|---|---|---|---|
| `DpRaces` | 2 runs of a tenant on 2 instances, all budget endpoints, windows 0 and 2, global window 1, clock to 4 | `EnvelopeRespected`, `ImplementsEnvelope` | 802k |
| `DpSlowRuns` | 3 runs that may outlive a TTL of 2, reserve calls shorter than it, retries, crashes, clock to 6; fair | `LedgerBalances`, `HolderKeepsReservation`, `RefusedIsServed` | 116k |
| `ExecuteFaults` | 3 interchangeable requests of a tenant, 2 permits; disconnects, at most 2 failures of settle, audit and record; another instance | `AllAccounted`, `WaitersHaveAnOwner`, `OneRunPerTenant`, `RefusedByOthersOnly` | 878k |
| `ExecuteLive` | 3 requests of 2 tenants, 1 permit; disconnects, failing set-up and store; fair | `PermitsBalance`, `ClientsAnswered`, `RunsRecorded` | 167k |
| `AuditLog` | 3 threads of 2 processes appending 2, 1 and 2 records, a reader; crashes, power loss, failing writes and fsyncs | `ChainIntact`, `AckedSurvive`, `ImplementsTrail` | 578k |
| `PolicyHistory` | 2 tenants' packs (3 changes, limit 2), one's retention window (3 changes, limit 2) and DP window, global TTL 1, clock to 2, stamps up to a second old, pages of 1 | `OverrideTrails`, `CursorWalkComplete`, `ShownRowsStay`, `ImplementsTrails`, `ExpiredAreSwept` | 204k |
| `Pipeline` | 1,688 jobs: every pair of some 35 operations, the triples the optimizer moves, 40 programs of several pipelines, module graphs, broken files and policies; time limit of one tick | `ResultIsMeaning`, `CheckedColumnsExist`, `NoUnpaidNoise`, `FailClosed`, `ImportsOnce`, `AnswerIsTrue`, `EmittedIsMeaning`, `Answers` | 276k |
| `Training` | tables of 2 to 6 rows, every split and every sequence of losses of 3 values; sweeps of 2 or 3 combinations with ties; networks with embeddings, convolutions and activations; two variables over one or two blocks; a variable that was never trained | `SplitSound`, `EarlyStopSound`, `MetricsAreDefinitions`, `SweepReportsWinner`, `PredictionsUseOwnModel`, `ServedAsTrained` | 338k |
| `Guardrail` | 37 texts, 2 policies, 3 requests of 2 tenants with headers of their own, of another tenant and of an administrator, one of which resubmits repaired code; one change of a pack; the model on | `AdmittedByItsPack`, `VerifiedIsAllowed`, `RoundTripExact`, `FixableIsFixed`, `RepairSettles`, `Answered` | 38k |

The runs `DpClearWindow` (`RollNeedsFullWindow`), `AuditTorn` (`ReadsAreWhole`) and
`PrinterGuarantee` are expected to find a violation; see below.

Why these bounds are enough to be interesting: a race needs two instances; a reclaim needs
a third run, or a second of an instance that was used already, and a clock that passes the
TTL once and a window once more; two units of epsilon tell "some" from "all" and allow two
`withDp` steps; a second tenant matters only for the permits and for the pruning of the
lock map, so `ExecuteFaults`, with the most failures, has one tenant and `ExecuteLive` two; a
torn or lost record needs one append before it and one after; a history needs
one change more than its limit to be trimmed, and one second more than its window to
expire. An optimizer pass moves one operation over another, so pairs show it and triples show
two passes that meet; a data file of three rows has a null, a duplicate and a difference. An
off-by-one of the split or of early stopping shows on four rows and four epochs; inputs are
compared over every table of at most 3 rows with values {missing, 0, 3}. A pack needs to be replaced
once to be another one. `MaxTime`, `MaxFailed`, `MaxAppends`, `MaxChanges`, `MaxPuts`, `Timeout` and the finite
sets of runs, requests, jobs and programs bound every run. `ExecuteFaults` uses the symmetry of its requests,
which is sound as it checks no liveness. Deadlock checking is off where every request is
served once and then the system rests.

Fairness. `DpSlowRuns` assumes that handlers, tasks and runners take their steps and that
refused clients retry, each weakly fair; that time passes is strong fairness, because
the guards of `Tick` only bound how long code takes. Nothing makes a step fail, a runner
spend or an instance crash. `ExecuteLive` assumes the scheduler runs handlers and tasks,
runners end (the runner kills them), and hyper notices a closed connection; clients need
not leave. `PolicyHistory` assumes only that the sweeper's loop goes on and does not fail
for ever. `Pipeline` assumes the clock and the runner's loop and nothing of the engine, which
may hang. `Guardrail` assumes that a handler's own steps are taken, that the timeout fires (`SlmFails` is
one of them) and that a response whose headers have come ends; the model need not answer.

### Where code and documentation disagree

- `DpClearWindow`: `set_dp_window` promises that changing the length "cannot retroactively
  expire spend"; `clear_dp_window` changes it as well and does not restart the window, so
  spend expires at once.
- `AuditTorn`: "waits for a complete JSONL record" excludes a writer at work, not one that
  died. A torn line disables reads and appends.
- `PrinterGuarantee`: `parse(print(parse(src))) == parse(src)` does not hold for operands in
  parentheses, names that are not single words, quotes in a separator, and the training
  options `patience`, `split` and `time_column`. `RoundTripExact` says exactly when it holds.
  Remediated code is such a print, so code that is answered as verified may filter otherwise.

### Remarks, not runs

Ledger and store. A run settles with the window it read before it started
(`main.rs:1206`), so a window lengthened meanwhile does not protect the spend of the old one.
`GET /dp/budget` reads the spend and then the live reservation (`main.rs:2656`); a settle between the two makes
`remaining_*` overstate, which its comment excludes. The read-back of
`reserve_dp_budget` is by tenant alone, so if a TTL passes within one reserve call it adopts a
newer holder's reservation; `HolderKept` names the hypothesis that excludes
it. `store.rs:1575` says a prune always preserves the newest rows; with two instances a
row can be stamped before and committed after another one (`StampLag`), and then expires
before that older row. `docs/design/dp-spec.md:112` says a duplicate settle cannot charge twice, but
`settle_dp_reservation` bills whatever the id is; the program never settles twice. The
comment at `main.rs:1036` says another instance holds the reservation; it may also be an
own run whose settle failed, which `RefusedByOthersOnly` states exactly.

Engine. The checker accepts `run m |> train(M)` over a model variable, which fails when it is run; it does not look at
the features and targets of predictions, and neither joins nor aggregates change the columns it
tracks (`CheckedColumnsExist` excludes what is downstream of an aggregate). `--output` writes nothing when
the last pipeline trains. The optimizer's result may succeed where the program as written fails.
`source_cache` serves a file as it was before a `save` of the same run to that path. `apply_dp`'s comment
says its caller deducts first; the runtime adds the noise and then charges, and drops the frame if refused. A kill
that meets a finished engine answers 1 with a result printed; if `try_wait` fails the engine is
left running. The server bills the last `[xazz:dp]` marker, the command line shows every one.

Generated code. `EmittedIsMeaning` excludes what the emitter documents or plainly does
differently: a `groupBy` followed by `count()` loses its group, `count()` leaves the table, `corr` keeps its first column's
name, columns made by `rename` and `withColumn` are unknown later, right join keys are looked up on the left,
expression statements and imports are not emitted, two models of one block share
their files. `codegen.rs` writes a `group_by` without an aggregate, which is no Polars chain. Generated training computes mean
and variance over all rows, those it validates on included, where the engine uses the training
rows; it ranks a sweep by the last epoch's loss where the engine evaluates again. A `Dropout` after
an activation makes the engine forget the activation and the emitter keep it, which `emitter.rs` calls
the same semantics (`DropoutOverwrites`).

Training. The weights are those of the last epoch, also after early stopping. Zero `epochs` and a
non-positive rate are refused in sweep lists only. A device or ONNX prediction reads a file of the
block, which a later training of that block has overwritten (`dl.rs:1879` promises "matching predictions"). With ONNX
the reverse happens as well: `backend.rs:924` says that a sweep's winner is exported on the first prediction, but `ensure_export`
exports whichever variable of the block predicts first, and `onnx_is_fresh` then takes that file for the winner's, so that the latest
training, too, predicts with older weights. `PredictionsUseOwnModel` names exactly these cases. Two engines in one directory share `checkpoints/`.

Guardrail. A proposal that is adopted is answered as verified with the residual violations of the
deterministic repair still listed (`docs/SECURITY_GUARDRAIL.md:373`). A trailing token without a newline is not seen by the parser. Repair
does not settle in one go when operations follow a chart. A repair that drops a column may leave later statements that use it.

## 4. What is proved

Eight modules hold the proofs. Each theorem holds for any number of tenants, instances, runs, requests,
threads, packs, tokens, programs or files and for any limits, windows, lags and budgets, and assumes nothing of the constants but
its module's named assumption (which TLC evaluates in the runs) and the hypothesis stated here.
Except for types, no property is inductive as it stands; each proof is a step lemma per part of
an invariant, with one step per action, and the theorem follows from the conjunction.

**`DpReservationProofs`** (`ConstantsAssumption`)

- `TypeCorrect`: `Spec => []TypeOK`, from the constants' assumptions alone.
- `EnvelopeHolds`: if `HoldLimit < Ttl`, `Spec => []EnvelopeRespected`. The property
  says nothing of a run between its insert and its read-back. The invariant
  `EnvelopeInv` adds that a run's clock is not further back than `HoldLimit` (`OnTime`),
  that the tenant's row belongs to every run that inserted it and fits the ledger
  (`HolderOwnsRow`), that what was read back is that row (`CallIsRow`), and that a runner
  stays within it (`SpendFits`). From these, no second insert finds the row expired
  (`HolderBlocks`), hence one holder (`OneHolder`); rolls and resets only lower spend
  (`LowerSpend`); a settle bills at most what was reserved (`SettleKeeps`).
- `EnvelopeImplemented`: if `HoldLimit < Ttl`, `Spec => ImplementsEnvelope`, each step of the four-statement
  reserve, the runner, the settle and the budget endpoints being one step of `DpEnvelope` or
  none. To the invariant above it adds `RowsInPlace`, that a row names a run of its own tenant.
- `HolderKept`: if `ReserveLimit < Ttl`, `Spec => HolderKeepsReservation`, however long runs
  last. The invariant `OwnershipInv` says that a reserve call still at work has its own row
  and that every granted run carries its own id.
- `Balances`: if the runs are finitely many (the property is a sum over them) and no window or
  endpoint takes spend away (`NothingForgets`), `Spec => []LedgerBalances`. No bound on time is assumed. The invariant adds
  `Cumulative`: every window read so far is the cumulative one and a missing row has no spend, so a roll
  changes nothing. A settle moves the run's units from "not settled" to the ledger, once.

**`ExecuteProofs`** (`ExecuteAssumption`). One invariant, `Invariant == Spec => []IInv`, carries all of them:
`LockInv` (the stages of handler and task fit together; whoever is at a lock owns it; the weak map names
the lock that all live owners of a tenant use; a queue is exactly the requests at its lock; only its head has
a slot), `SlotsCounted` (the slots in use are finitely many and make up the limit with the free permits),
`ReservationInv` (a reservation of this process belongs to a run that has not settled or could not) and
`LogInv` (what each stage has written, and in which order).

- `TypeCorrect`, where `permits` needs the balance; `OneRun` (`OneRunPerTenant`): two slot holders of a
  tenant are heads of one queue; `OwnerAtWork` (`WaitersHaveAnOwner`): the head of a queue that somebody
  waits in is at work; `Balanced` (`PermitsBalance`).
- `BusyMeansOthers` (`RefusedByOthersOnly`): by `LockInv`, no other run of the tenant is at work here, so what
  refuses is another instance or, by `ReservationInv`, an own run whose settle failed.
- `Accounted` (`AllAccounted`): what `LogInv` says of the stages is the property when all of them are final.
  That the records of two runs of a tenant are in the same order in both logs is kept because a task
  that appends is the only one of its tenant.

**`AuditLogProofs`** (`AuditAssumption`). `IInv` adds to the properties that a thread in the critical section owns the file
lock (`FlockHeld`), and what it knows of the file (`AppendInv`): the record it has built is the next link of the chain
that is in the file now, one whose text it has written is the last of the file, and one it has synced is in the part that
survives. `FileTyped` and `AckedIndexed` say that the file is a sequence and an acknowledged index a number.

- `Chained` (`ChainIntact`): what is appended links to the last record that the file still has, as the lock is held
  from the read to the newline.
- `AckedKept` (`AckedSurvive`): a power failure keeps the synced prefix, a torn or cut tail is refused
  by the next reader, and the acknowledged records lie before both.
- `TrailImplemented`: `Spec => ImplementsTrail`, that is `AuditTrail` with the records of the file as its chain.
- `TypeCorrect`: power failures shorten `file` and `synced` together.

**`PolicyStoreProofs`** (`PolicyStoreAssumption`)

- `StoreCorrect` and `TrailsImplemented`: the store keeps its types, and its three
  histories implement `ChangeTrail`.
- `OverridesTrailed` (`OverrideTrails`): `TrailInv` adds that a table's rows are finitely many with ids
  of their own (`Lists`) and that each row leads to the next and the newest to the value in force (`Trails`);
  the rows a prune leaves are the top of their table.
- `ShownStay` (`ShownRowsStay`): whatever a prune or sweep takes was expired when its clock was read, or has the limit above it.
- `WalkComplete` (`CursorWalkComplete`): `WalkInv` says that the pages so far are strictly descending, that everything
  owed at or above the cursor has been seen, and that what is owed is still listable.

**`GuardrailProofs`** (`TokenAssumption` and the shape of the constants)

- `AdmittedHolds`: `Spec => []AdmittedByItsPack`. It rests on `TokenAssumption` (each tenant has
  a token, no two the same, none an administrator's; a client has its tenant's token or none, or is
  an administrator that names the tenant), from which `ServedAsItself` follows by the cases of
  `Authenticate`. The invariant `IInv` adds to the property that a request in hand has seen the pack its
  tenant has now (`OwnPackSeen`), so that what is loaded is a pack it has seen (`LoadedWasSeen`);
  replacing a pack keeps this as it makes it seen.
- `VerifiedHolds`: if the engine finds safe what its repair calls verified (`RepairIsVerified`),
  `Spec => []VerifiedIsAllowed`, whatever the model proposes: the invariant ties every answer to the
  policy its request was loaded with (`AnsweredByPolicy`). In the run that hypothesis is not assumed: `Remediation`
  computes it.

**`EngineProofs`** (`BudgetAssumption`; `JobsAssumption`: data files are frames without noise of this run, programs are sequences;
`TimeoutAssumption`). Checker, optimizer and lowering are any operators whatever, so the theorems do
not rest on what the checker has promised the engine.

- `FailsClosed`: `Spec => []FailClosed`. `GateInv` follows the phases: up to the policy's verdict nothing has an
  effect (`Clean`), what comes after has passed it (`Vetted`) and is never read again, and a process that failed or was
  killed is one or the other.
- `NothingUnpaid`: `Spec /\ []LoweringKeepsNoise => []NoUnpaidNoise`. The hypothesis says that a data operation
  returns a frame with no noise but that of its tables. It is the one thing to be known of `Lowering`, whose
  operators are recursive; the run checks it of every operation, as the first conjunct of `NoUnpaidNoise`. `NoiseInv` adds that
  every frame the engine can reach (the current one, variables, the source cache, files) holds paid noise only, that a
  file is otherwise half written, and that paid draws were made by earlier steps (`PaidBefore`), so that the draw to come is
  new (`DrawIsNew`) and the columns that carry it are those it charges for (`NoiseIs`).
- `AnswersTruly`: `Spec /\ []LoweringKeepsNoise => []AnswerIsTrue`. `MarkersInv`: the last `[xazz:dp]` marker names what
  the budget has composed, and a result is reported by the last step only. `FilesInv`: a file is half written while it is
  being written or after a kill, and the output file has the result before it is reported. `LaunchInv`: an ended engine
  stays as it is (`EndedStays`). That the noise released costs no more than the bill is `ChargeInv`: what the budget has
  composed is measured by three sums (epsilon, that of the Laplace part, and rho), each of which equals the size of a set
  (`Lots`) to which every draw contributes its price as many times as it was charged. Composition never decreases
  when no sum does (`ComposedGrows`, `ZcdpGrows`), so a part of the draws costs no more than all (`CostBound`); that the
  fold over the draws exists and has these sums is `FoldExists` and `FoldMeasures`.

**`LoaderProofs`** (`JobsAssumption`). Programs and modules may import each other in any way.

- `ImportsAreOnce`: `Spec => []ImportsOnce`. A step of `ModuleLoader` moves on in the open program, opens a module or closes
  one (`Moves`, `Opens`, `Closes`). `LoaderInv` holds between them. `StackInv`: each open program is imported, directly or not, by
  the ones under it, its `rest` is the end of its text, loaded modules are usable and reachable, and an error has a cause
  (`ModuleErrors`). As long as there is no error, `ImportInv`: what was imported is loaded or open, and a loaded module
  imports only what was loaded before it, so none reaches itself; and `Laid`: the statements kept so far correspond one
  to one to the places in the text that have been read, an imported module's before what follows the import.
  At the end the loaded modules are a closed set, hence all that the main program reaches (`LoadedIs`), and equal
  statements are as many as their places (`AsOften`). The property's `Below` is the least closed set and not a
  recursion, so that it can be reasoned about.

**`TrainingProofs`** (`TrainingAssumption`: labels and times are numbers or missing, one of each per row, the strategy is one of the three,
patience is no negative number, losses are ordered like integers, the cache has a slot). What the network computes, and so which losses
and outputs there are, is arbitrary.

- `SplitsSoundly`: `Spec => []SplitSound`, for every table, strategy, fraction and time column. A fit begins with one of the
  `TableSplits` of its table and keeps it (`SplitInv`); the rest is about the operators of `Split`. `InOrder` is a permutation, because
  the rows that come before a row are as many as its place (`Places`, `InOrderIs`), so rows by time and rows in ascending order
  are each listed once. For the stratified split, a count that is one more adds one row to the last rows of the classes (`OneMoreRow`), and as long as
  rows are still wanted some class can spare one (`SomeCanSpare`), from which it follows that the code's error "cannot allocate validation rows" is
  never reached; no class gives its last row (`LeaveOne`, `ApportionIs`). That the recursive function exists is `GivenExists`.
  With a time column, the check of the one boundary between the parts is enough because the order ascends (`CutByTime`).
  Fractions are exact here. In the code the size is a product of doubles cut off, which for some longer tables is one row less
  (90 rows and 0.7: 62, not 63), and the shares of the classes are compared as doubles; nothing else in the argument uses either,
  only that the size is at least one and less than the rows, which the code tests.
- `StopsInTime`: `Spec => []EarlyStopSound`, for every sequence of losses, of the engine and of the generated program. `EpochInv` says what the loop's
  counters hold: `bestEpoch` is the first least loss so far (`LeastAt`), `stale` its distance to the last epoch, and no shorter
  prefix was exhausted. A loss that is no better leaves the first least where it is, a better one moves it
  to the end (`EpochKeeps`); that the property's `CHOOSE` is that epoch is `FirstBestIs`.
  The generated program's loop is a fold over the losses: `LoopExists` says that the fold exists, `Counts` what its
  counters hold after each prefix.
- `PredictsOwn`: `Spec => PredictionsUseOwnModel`, for every program, with any number of variables, blocks and cache
  slots. `HeldInv` says that weights named by the same command are the same wherever they are held, in memory or in a file;
  `CheckpointInv` that a block's checkpoint is of its last fit; `ExportInv` that the export is of some fit, and after a training without
  a sweep of that one and newer than the checkpoint; `StampInv` that a cached module with a file's present stamp is that
  file. It rests on each write having a later time stamp than the one before, as the model has it.

The hypotheses are needed. Without `HoldLimit < Ttl`, as in `DpSlowRuns`, a run that
outlives its TTL shares the budget with the run that reclaimed it, which the documentation
accepts; without `ReserveLimit < Ttl`, a reserve call can come back with another run's row or, when that
run has settled, with none, the branch of `ReserveReadBack` that no run takes; a window that ends or
is cleared takes spend off the ledger on purpose; if two
tenants share a token, the one may be served as the other.

Where an argument goes over the length of a text, the size of a set or the highest id, it is made with a set and a
least or greatest element of it (`LeastOf`, from the library's well-foundedness of `<`), because the induction theorems take an
operator as a parameter.

Only model-checked: liveness (`RefusedIsServed`, `ClientsAnswered`, `RunsRecorded`, `ExpiredAreSwept`, `Answers`, `Answered`), which is out of
the prover's reach; what is stated with recursive operators, that is `RoundTripExact`, `FixableIsFixed` and `RepairSettles`,
`ResultIsMeaning`, `CheckedColumnsExist` and `EmittedIsMeaning`, and `LoweringKeepsNoise` of `Lowering`; of `Training`, `MetricsAreDefinitions`, `SweepReportsWinner` and `ServedAsTrained`, which compare
results of folds and sorts over data.

## 5. Not modelled

- The body of `GET /dp/budget`, offset pages, who made a change, the inference check and the reports: reads and wording.
- `patterns.rs` inside a literal, messages, locations, error recovery of the parser, the checker's warnings, `catalog.rs` (column lineage for the editor).
- DuckDB and Postgres sources and the streaming collect: libraries behind the same operations. Numeric semantics of Polars and
  burn, sampling of noise, and the division in constant folding, which is folded through f64.
- Scaffolding, package registry, HTTP client commands, language server, IDEs, Python package: clients and file I/O.

## 6. What a next step would be

That the lowering keeps noise, as a theorem, with the values of expressions as parameters; that a sweep
keeps the first of the best, given that scores are ordered; the answer of `GET /dp/budget` as a reader of the ledger.
