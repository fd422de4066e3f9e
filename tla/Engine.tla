------------------------------- MODULE Engine -------------------------------
(* xazz-exec/src/runtime.rs: run_pipeline, the whole life of one engine      *)
(* process: expand imports, check, pass the policy gate, optimize, execute   *)
(* the pipelines in order, save the output and report.  The process can be   *)
(* killed from outside at any step (Launch).  The checker, the optimizer and *)
(* the lowering of data operations are parameters: a run is to be safe       *)
(* whatever they compute.                                                    *)
(*                                                                           *)
(* A job is what the process is started with:                                *)
(*   stmts, files   the main program and the module files                    *)
(*   tainted        the programs whose own text or AST violates the policy   *)
(*   crossFile      the merged AST violates it though no single file does    *)
(*   policy         whether the policy can be loaded                         *)
(*   opt, output    --opt, and the --output path or Null                     *)
(*   broken         paths that cannot be created                             *)
(*   data           the data files on disk at the start, path -> frame       *)
EXTENDS Polars, PrivacyBudget, ModuleLoader

CONSTANTS
    Jobs,        \* the jobs the process may be started with
    LargeFiles,  \* data files above the eager-load threshold
    MaxEpsilon,  \* XAZZ_DP_MAX_EPSILON, Null when unset
    Analyze(_),  \* the checker: [errors, pipelines, models, ...] of a program
    Optimized(_),         \* the pipelines that `--opt' makes of pipelines
    Lowered(_, _, _, _)   \* the outcomes of a data operation, see Lowering

Torn == Fail("half written")

(* Frames as Polars keeps them; the noise draws in one.                      *)
Draws(f) == UNION {f.cols[c].dp : c \in DOMAIN f.cols}
WellFormed(f) ==
    /\ f = Frame(f.names, f.cols, f.rows)
    /\ f.names \in Seq(Names(f)) /\ DOMAIN f.cols = Names(f)
    /\ \A c \in Names(f) : f.cols[c] = [t |-> f.cols[c].t, dp |-> f.cols[c].dp]

(* A program is a sequence of statements, and no data file of a job has      *)
(* noise of the run that is to come.                                         *)
Program(stmts) == stmts \in Seq(ToSet(stmts))
ASSUME JobsAssumption ==
    \A j \in Jobs :
        /\ Program(j.stmts) /\ \A m \in DOMAIN j.files : Program(j.files[m].stmts)
        /\ \A p \in DOMAIN j.data : WellFormed(j.data[p]) /\ Draws(j.data[p]) = {}

VARIABLES
    job, phase, why,     \* phase is a step of run_pipeline; why it failed
    loader,              \* import resolution
    ir, registry,        \* the typed IR: pipelines, and the declared models
    node, step, cur,     \* current pipeline, its next step, its [frame, group]
    table, models, last, \* symbol_table, model_table, last_var_name
    cache,               \* source_cache
    budget, paid,        \* the DP budget; paid: draw -> columns charged for it
    disk, markers        \* data files; the markers written to stdout
progress == <<phase, why, node, step, cur>>
memory == <<table, models, last, cache>>
privacy == <<budget, paid>>
outside == <<disk, markers>>
compiled == <<loader, ir, registry>>
engineVars == <<job, progress, compiled, memory, privacy, outside>>

Idle == [frame |-> Null, group |-> Null]
EngineInit ==
    /\ job \in Jobs
    /\ phase = "resolve" /\ why = "none" /\ loader = StartLoading(job.stmts)
    /\ ir = <<>> /\ registry = <<>> /\ node = 1 /\ step = 0 /\ cur = Idle
    /\ table = <<>> /\ models = <<>> /\ last = Null /\ cache = <<>>
    /\ budget = Fresh /\ paid = <<>> /\ disk = job.data /\ markers = <<>>

(* Every error ends run_pipeline with Err, and the process with code 1.      *)
Abort(reason) == phase' = "failed" /\ why' = reason /\ UNCHANGED <<node, step, cur>>
Enter(next) == phase' = next /\ UNCHANGED <<why, node, step, cur>>
Marker(kind, value) == [k |-> kind, v |-> value]
Emit(kinds) == markers' = markers \o [i \in DOMAIN kinds |-> Marker(kinds[i], Null)]
Silent == UNCHANGED markers

-----------------------------------------------------------------------------
(* Steps 1 to 4.5: from the source to the IR.                                *)
ResolveStep(next) ==
    /\ phase = "resolve" /\ loader' = next
    /\ UNCHANGED <<job, progress, ir, registry, memory, privacy, outside>>
KeepStatement == Visiting(loader) /\ ~AtImport(loader) /\ ResolveStep(KeepStmt(loader))
Import == AtImport(loader) /\ ResolveStep(ImportModule(loader, job.files))
CloseModule == Loading(loader) /\ ~Visiting(loader) /\ ResolveStep(CloseProgram(loader))

Resolved ==
    /\ phase = "resolve" /\ ~Loading(loader)
    /\ IF loader.errors = {} THEN Enter("check") ELSE Abort("module error")
    /\ UNCHANGED <<job, compiled, memory, privacy, outside>>

Check ==
    LET a == Analyze(loader.program) IN
    /\ phase = "check"
    /\ IF a.errors = {}
       THEN Enter("policy") /\ Silent /\ ir' = a.pipelines /\ registry' = a.models
       ELSE Abort("type error") /\ Emit(<<"diagnostics">>) /\ UNCHANGED <<ir, registry>>
    /\ UNCHANGED <<job, loader, memory, privacy, disk>>

(* The verdict covers the merged AST and the text of every module.           *)
MainViolates == job.crossFile \/ Root \in job.tainted  \* mutant: the modules are not judged
Violates == job.crossFile \/ Root \in job.tainted \/ \E m \in ToSet(loader.modules) : m \in job.tainted

PolicyLoads == job.policy # "unloadable"
PolicyGate ==
    /\ phase = "policy" /\ Emit(<<"policy">>)
    /\ IF ~PolicyLoads THEN Abort("policy cannot be loaded")
       ELSE IF Violates THEN Abort("policy violation")
       ELSE Enter(IF job.opt THEN "optimize" ELSE "declare")
    /\ UNCHANGED <<job, compiled, memory, privacy, disk>>

Optimize ==
    /\ phase = "optimize" /\ Enter("declare") /\ ir' = Optimized(ir)
    /\ UNCHANGED <<job, loader, registry, memory, privacy, outside>>

(* The markers of the declared models count as one.                         *)
DeclareModels ==
    /\ phase = "declare" /\ Enter("run")
    /\ Emit(IF registry = <<>> THEN <<>> ELSE <<"model">>)
    /\ UNCHANGED <<job, compiled, memory, privacy, disk>>

-----------------------------------------------------------------------------
(* Step 5: one pipeline after the other (execute_node).                      *)
Running == phase = "run" /\ node \in 1..Len(ir)
Node == ir[node]

(* bridge_and_cast_small, apply_dynamic_bridge + apply_schema_cast: the      *)
(* columns take the names and types of the schema by position.               *)
Bridge(raw, fields) ==
    LET n       == Min({Len(raw.names), Len(fields)})
        names   == [i \in DOMAIN raw.names |-> IF i =< n THEN fields[i].name ELSE raw.names[i]]
        At(c)   == CHOOSE i \in DOMAIN names : names[i] = c
        Type(c) == IF At(c) =< n THEN fields[At(c)].t ELSE raw.cols[c].t
        Old(c)  == raw.names[At(c)]
    IN  IF Len(fields) > Len(raw.names) THEN Fail("schema field not in source")
        ELSE IF ~Distinct(names) THEN Fail("duplicate column")
        ELSE Frame(names, [c \in ToSet(names) |-> [raw.cols[Old(c)] EXCEPT !.t = Type(c)]],
                   MapRows(LAMBDA r : [c \in ToSet(names) |-> CastCell(r[Old(c)], raw.cols[Old(c)].t, Type(c))],
                           raw.rows))

Continue(f, group) == cur' = [frame |-> f, group |-> group] /\ step' = step + 1 /\ UNCHANGED <<phase, why, node>>
AbortOr(f, group) == IF Failed(f) THEN Abort(f.err) ELSE Continue(f, group)

(* Small files are read once per run and path, large ones at every load.     *)
IsSmall(file) == file \notin LargeFiles
ReadSource(file) == IF file \in DOMAIN disk THEN disk[file] ELSE Fail("cannot read")
Load(file, fields) ==
    LET raw == IF file \in DOMAIN cache THEN cache[file] ELSE ReadSource(file)
    IN  /\ AbortOr(IF Failed(raw) THEN raw ELSE Bridge(raw, fields), Null)
        /\ cache' = IF ~Failed(raw) /\ IsSmall(file) THEN Bind(cache, file, raw) ELSE cache

StartNode ==
    /\ Running /\ step = 0
    /\ IF Node.from.from = "load" THEN Load(Node.from.file, Node.from.schema)
       ELSE /\ AbortOr(IF Node.from.var \in DOMAIN table THEN table[Node.from.var]
                       ELSE Fail("undeclared variable"), Null)
            /\ UNCHANGED cache
    /\ UNCHANGED <<job, compiled, table, models, last, privacy, outside>>

Op == Node.steps[step]
AtStep == Running /\ step \in 1..Len(Node.steps)
At(k) == AtStep /\ Op.k = k
SideKinds == {"train", "predict", "chart", "withDp", "save"}

DataStep ==
    /\ AtStep /\ Op.k \notin SideKinds
    /\ \E o \in Lowered(Op, cur.frame, cur.group, table) : AbortOr(o[1], o[2])
    /\ UNCHANGED <<job, compiled, memory, privacy, outside>>

NextNode == node' = node + 1 /\ step' = 0 /\ cur' = Idle /\ UNCHANGED <<phase, why>>

NumericNames(f) == {c \in Names(f) : f.cols[c].t \in Numeric}
Trained(f, op) == [model |-> op.model, target |-> op.config.target,
                   features |-> NumericNames(f) \ {op.config.target}]

(* train ends the pipeline; its model is kept if the pipeline names it.      *)
TrainStep ==
    /\ At("train")
    /\ IF Op.config.target \notin NumericNames(cur.frame)
       THEN Abort("no numeric target") /\ Silent /\ UNCHANGED <<models, last>>
       ELSE \/ Abort("training failed") /\ Silent /\ UNCHANGED <<models, last>>
            \/ /\ NextNode
               /\ Emit(IF Op.config.sweep # {} THEN <<"sweep", "train">> ELSE <<"train">>)
               /\ models' = IF Node.model /\ Node.name # Null
                            THEN Bind(models, Node.name, Trained(cur.frame, Op)) ELSE models
               /\ last' = IF Node.model THEN Null ELSE last
    /\ UNCHANGED <<job, compiled, table, cache, privacy, disk>>

Predicted(f, m, as) ==
    LET dp == UNION {f.cols[c].dp : c \in m.features} IN
    With(f, IF as = Null THEN m.target \o "_pred" ELSE as, [t |-> "float", dp |-> dp],
         LAMBDA r : <<"pred", m.model, [c \in m.features |-> r[c]]>>)

PredictStep ==
    /\ At("predict")
    /\ LET m == models[Op.var] IN
       IF Op.var \notin DOMAIN models THEN Abort("no such model") /\ Silent
       ELSE IF ~(m.features \subseteq NumericNames(cur.frame))
       THEN Abort("missing feature") /\ Silent
       ELSE Continue(Predicted(cur.frame, m, Op.as), cur.group) /\ Emit(<<"predict">>)
    /\ UNCHANGED <<job, compiled, memory, privacy, disk>>

(* The chart page is written on a best-effort basis.                         *)
ChartFile == (IF Node.name # Null THEN Node.name
              ELSE IF Node.from.from = "var" THEN Node.from.var
              ELSE "chart_" \o ToString(node)) \o "_chart.html"
ChartStep ==
    /\ At("chart")
    /\ IF Op.cols \subseteq Names(cur.frame)
       THEN /\ Continue(cur.frame, cur.group) /\ Emit(<<"chart">>)
            /\ disk' = IF ChartFile \in job.broken THEN disk ELSE Bind(disk, ChartFile, cur.frame)
       ELSE Abort("missing column") /\ UNCHANGED outside
    /\ UNCHANGED <<job, compiled, memory, privacy>>

(* withDp: noise every numeric column, then charge the budget once for each  *)
(* of them; a refused charge ends the run with the noised frame unseen.      *)
Draw == <<node, step>>
WithDraw(f, c) == IF c \in NumericNames(f) THEN [t |-> "float", dp |-> f.cols[c].dp \cup {Draw}] ELSE f.cols[c]
Noised(f) == Frame(f.names, [c \in Names(f) |-> WithDraw(f, c)], f.rows)
NoisedTable(f) == 1  \* mutant: one charge for the whole table
NoisedColumns(f) == Cardinality(NumericNames(f))
Spending(b) == [spent |-> ComposedEps(b), delta |-> ComposedDelta(b), queries |-> Len(b.queries)]

AboveCap(epsilon) == MaxEpsilon # Null /\ epsilon > MaxEpsilon
DpStep ==
    /\ At("withDp")
    /\ LET spend == SpendN(budget, Op.mechanism, Op.epsilon, Op.delta, NoisedColumns(cur.frame)) IN
       IF AboveCap(Op.epsilon)
       THEN Abort("epsilon above the cap") /\ Silent /\ UNCHANGED privacy
       ELSE IF NumericNames(cur.frame) = {}
       THEN Abort("nothing to noise") /\ Silent /\ UNCHANGED privacy
       ELSE /\ budget' = spend.budget
            /\ IF spend.ok
               THEN /\ Continue(Noised(cur.frame), cur.group)
                    /\ markers' = Append(markers, Marker("dp", Spending(spend.budget)))
                    /\ paid' = Bind(paid, Draw, Len(spend.budget.queries) - Len(budget.queries))
               ELSE Abort("budget exceeded") /\ Silent /\ UNCHANGED paid
    /\ UNCHANGED <<job, compiled, memory, disk>>

(* Saving truncates the file and then fills it.                              *)
CreateFile(path) == disk' = Bind(disk, path, Torn)
WriteFile(path, f) == disk' = Bind(disk, path, f)

SaveStep ==
    /\ At("save")
    /\ IF Op.path \in job.broken
       THEN Abort("cannot create file") /\ UNCHANGED disk
       ELSE CreateFile(Op.path) /\ phase' = "saving" /\ UNCHANGED <<why, node, step, cur>>
    /\ UNCHANGED <<job, compiled, memory, privacy, markers>>
SaveRows ==
    /\ phase = "saving" /\ WriteFile(Op.path, cur.frame)
    /\ phase' = "run" /\ step' = step + 1 /\ UNCHANGED <<why, node, cur>>
    /\ UNCHANGED <<job, compiled, memory, privacy, markers>>

EndNode ==
    /\ Running /\ step # 0 /\ ~AtStep /\ NextNode
    /\ IF Node.name # Null
       THEN table' = Bind(table, Node.name, cur.frame) /\ last' = Node.name
       ELSE UNCHANGED <<table, last>>
    /\ UNCHANGED <<job, compiled, models, cache, privacy, outside>>

-----------------------------------------------------------------------------
(* Step 6: the output file before the success markers.                       *)
HasResult == last # Null
EndRun ==
    /\ phase = "run" /\ node > Len(ir)
    /\ IF HasResult /\ job.output # Null
       THEN IF job.output \in job.broken
            THEN Abort("cannot create output") /\ UNCHANGED disk
            ELSE Enter("output") /\ CreateFile(job.output)
       ELSE Enter("report") /\ UNCHANGED disk
    /\ UNCHANGED <<job, compiled, memory, privacy, markers>>
SaveOutput ==
    /\ phase = "output" /\ Enter("report") /\ WriteFile(job.output, table[last])
    /\ UNCHANGED <<job, compiled, memory, privacy, markers>>
ReportRun ==
    /\ phase = "report" /\ Enter("done")
    /\ LET timed == Append(markers, Marker("timing", Null)) IN
       markers' = IF HasResult THEN Append(timed, Marker("result", table[last])) ELSE timed
    /\ UNCHANGED <<job, compiled, memory, privacy, disk>>

EngineEnded == phase \in {"done", "failed", "killed"}
EngineNext ==
    \/ KeepStatement \/ Import \/ CloseModule \/ Resolved
    \/ Check \/ PolicyGate \/ Optimize \/ DeclareModels
    \/ StartNode \/ DataStep \/ TrainStep \/ PredictStep \/ ChartStep
    \/ DpStep \/ SaveStep \/ SaveRows \/ EndNode
    \/ EndRun \/ SaveOutput \/ ReportRun

-----------------------------------------------------------------------------
(* A program none of whose modules may run has no effect: no file, no table  *)
(* and no training, privacy or result marker appears unless every import was *)
(* resolved, the checker accepted the merged program and the policy loaded   *)
(* and was violated by no module's text and not by the whole.                *)
EffectKinds == {"model", "train", "dp", "chart", "timing", "result"}
FailClosed ==
    disk # job.data \/ table # <<>> \/ models # <<>> \/ paid # <<>>
    \/ {markers[i].k : i \in DOMAIN markers} \cap EffectKinds # {} =>
        /\ loader.errors = {} /\ Analyze(loader.program).errors = {}
        /\ job.policy # "unloadable" /\ ~job.crossFile
        /\ Root \notin job.tainted /\ \A m \in ToSet(loader.modules) : m \notin job.tainted

(* A data operation has no other noise in its result than its tables have.   *)
LoweringKeepsNoise ==
    AtStep /\ Op.k \notin SideKinds =>
        \A o \in Lowered(Op, cur.frame, cur.group, table) : ~Failed(o[1]) =>
            /\ WellFormed(o[1])
            /\ Draws(o[1]) \subseteq Draws(cur.frame) \cup UNION {Draws(table[v]) : v \in DOMAIN table}

(* Noised data goes nowhere, not even to the next operation, before the      *)
(* budget was charged for it; a draw over several columns is charged once    *)
(* for each; and the mechanisms composed never pass the session's totals.    *)
Seen == UNION ({Draws(table[v]) : v \in DOMAIN table} \cup {Draws(disk[p]) : p \in DOMAIN disk}
               \cup (IF cur.frame = Null THEN {} ELSE {Draws(cur.frame)}))
NoUnpaidNoise ==
    /\ LoweringKeepsNoise
    /\ Seen \subseteq DOMAIN paid
    /\ \A d \in DOMAIN paid : d = <<node, step - 1>> /\ cur.frame # Null =>
          paid[d] = Cardinality({c \in Names(cur.frame) : d \in cur.frame.cols[c].dp})
    /\ ComposedEps(budget) =< TotalEps /\ ComposedDelta(budget) =< TotalDelta

-----------------------------------------------------------------------------
(* What the main program imports, directly and through modules.              *)
Stmts(m) == IF m = Root THEN job.stmts ELSE job.files[m].stmts
ImportAt(m, i) == Stmts(m)[i].s = "import"
TargetOf(m, i) == IF Stmts(m)[i].std \/ m[1] = "std" THEN <<"std", Stmts(m)[i].name>> ELSE <<"file", Stmts(m)[i].name>>
Usable(m) == m \in DOMAIN job.files /\ job.files[m].readable /\ job.files[m].parses
ImportsOf(m) == {TargetOf(m, i) : i \in {i \in DOMAIN Stmts(m) : ImportAt(m, i)}}
Imported == UNION {ImportsOf(m) : m \in {Root} \cup {m \in DOMAIN job.files : Usable(m)}}
Closed(ms) == \A m \in ms : Usable(m) => ImportsOf(m) \subseteq ms
Below(m) == {k \in Imported : \A ms \in SUBSET Imported : ImportsOf(m) \subseteq ms /\ Closed(ms) => k \in ms}
ModuleErrors == \E m \in Below(Root) : ~Usable(m) \/ m \in Below(m)

(* Where a statement is in the merged program, and where it is written.      *)
Occurrences(s) == {i \in DOMAIN loader.program : loader.program[i] = s}
Sites(s) == UNION {{m} \X {h \in DOMAIN Stmts(m) : Stmts(m)[h] = s} : m \in {Root} \cup Below(Root)}

(* Import expansion succeeds exactly when every module reachable from the    *)
(* main program is usable and none reaches itself.  The declarations of the  *)
(* reachable modules, and nothing else, are then in the merged program, as   *)
(* often as they are written, however many paths lead to a module; and what  *)
(* is written once comes before whatever follows the import in the importer. *)
ImportsOnce ==
    ~Loading(loader) =>
    /\ (loader.errors = {}) = ~ModuleErrors
    /\ ~ModuleErrors => \A x \in DOMAIN loader.program : Sites(loader.program[x]) # {}
    /\ ~ModuleErrors => \A m \in {Root} \cup Below(Root) : \A i \in DOMAIN Stmts(m) : ~ImportAt(m, i) =>
          /\ Cardinality(Occurrences(Stmts(m)[i])) = Cardinality(Sites(Stmts(m)[i]))
          /\ \A j \in 1..(i - 1) : ImportAt(m, j) =>
                LET t == TargetOf(m, j) IN
                \A h \in DOMAIN Stmts(t) :
                   /\ ~ImportAt(t, h) /\ Sites(Stmts(t)[h]) = {<<t, h>>} /\ Sites(Stmts(m)[i]) = {<<m, i>>}
                   => \A x \in Occurrences(Stmts(t)[h]), y \in Occurrences(Stmts(m)[i]) : x < y
=============================================================================
