--------------------------- MODULE DpReservation ---------------------------
(***************************************************************************)
(* The tenant DP ledger of xazz-server: several server instances share one *)
(* SQLite file and must not hand the same privacy budget to two runs.      *)
(*                                                                         *)
(* Modelled: the ledger (dp_budget), the window overrides                  *)
(* (tenant_dp_config) and the reservation table (dp_reservation) of        *)
(* xazz-server/src/store.rs, statement by statement; the part of           *)
(* POST /execute that reserves, runs and settles; the budget endpoints     *)
(* that roll, re-anchor and reset the ledger while runs are in flight;     *)
(* wall-clock time, reservation expiry and the crash of an instance.       *)
(*                                                                         *)
(* Epsilon is counted in whole units.  Delta goes through the same         *)
(* statements in a second column and is left out.                          *)
(***************************************************************************)
EXTENDS Integers, FiniteSets

CONSTANTS
  Tenants,        \* namespaces that own an envelope
  Instances,      \* server processes sharing the store file
  Runs,           \* POST /execute requests; a run is also its reservation's uuid
  TenantOf,       \* [Runs -> Tenants]
  InstOf,         \* [Runs -> Instances]
  None,           \* no row, no override
  TotalEps,       \* XAZZ_TENANT_DP_BUDGET
  OpeningSpend,   \* spend already in the ledger rows of the store file; 0: no row
  OpeningAnchor,  \* their window anchor; 0 in rows written before windows existed
  Ttl,            \* XAZZ_DP_RESERVATION_TTL_SECS
  GlobalWindow,   \* XAZZ_TENANT_DP_WINDOW_SECS; 0: cumulative
  Windows,        \* window lengths PUT /dp/budget/window is called with
  Endpoints,      \* budget endpoints in use: a subset of EndpointNames
  ReserveLimit,   \* how long the window read, or the reserve call after it, takes
  HoldLimit,      \* how long a run can keep its reservation (runner timeout)
  MaxTime         \* bound on the clock

EndpointNames == {"view", "set", "clear", "reset"}

ASSUME ConstantsAssumption ==
  /\ TenantOf \in [Runs -> Tenants]
  /\ InstOf \in [Runs -> Instances]
  /\ None \notin Runs /\ None \notin Nat
  /\ TotalEps \in Nat /\ OpeningSpend \in 0..TotalEps /\ OpeningAnchor \in {0, 1}
  /\ Ttl \in Nat \ {0}
  /\ GlobalWindow \in Nat /\ Windows \subseteq Nat
  /\ Endpoints \subseteq EndpointNames
  /\ ReserveLimit \in Nat /\ HoldLimit \in Nat
  /\ MaxTime \in Nat

VARIABLES
  now,          \* now_epoch(), seconds
  ledger,       \* dp_budget, by tenant
  override,     \* tenant_dp_config.window_secs, by tenant
  changedAt,    \* changed_at of its newest tenant_dp_config_history row, 0: none
  reservation,  \* dp_reservation, by tenant
  view,         \* budget request in flight, by tenant: its next store call
  pc,           \* where each run is in handle_execute / run_execution_job
  call,         \* the locals of those two functions, by run
  used          \* budget_spent of the run's last [xazz:dp] marker

store == <<ledger, override, changedAt, reservation>>
runState == <<pc, call, used>>
vars == <<now, ledger, override, changedAt, reservation, view, pc, call, used>>

-----------------------------------------------------------------------------
(* Rows of the store. *)

NoBudgetRow == [exists |-> FALSE, spent |-> 0, anchor |-> 0]
NoReservation == [id |-> None, eps |-> 0, expires |-> 0]
NoView == [stage |-> "none", window |-> 0]

\* window: read before reserving; clock: the `now` the reserve call read (before
\* that, when the window was read);
\* id, eps: the reservation it returned, eps being the runner's XAZZ_DP_BUDGET.
NoCall == [window |-> 0, clock |-> 0, id |-> None, eps |-> 0]

BudgetRow == [exists : BOOLEAN, spent : Nat, anchor : Nat]
ReservationRow == [id : Runs \cup {None}, eps : 0..TotalEps, expires : Nat]
CallLocals == [window : Nat, clock : Nat, id : Runs \cup {None}, eps : 0..TotalEps]

\* roll_dp_window: an elapsed window is zeroed and restarts at `at`.
RollRow(row, w, at) ==
  IF w > 0 /\ row.exists /\ (row.anchor = 0 \/ at - row.anchor >= w)
  THEN [row EXCEPT !.spent = 0, !.anchor = at]
  ELSE row

\* Slip: the conflict clause overwrites instead of adding.
BillOverwrites(row, e, at) ==
  IF e = 0 THEN row ELSE [exists |-> TRUE, spent |-> e, anchor |-> at]

\* The upsert of a settle: a zero spend writes nothing.
BillRow(row, e, at) ==
  IF e = 0 THEN row
  ELSE IF row.exists THEN [row EXCEPT !.spent = @ + e]
  ELSE [exists |-> TRUE, spent |-> e, anchor |-> at]

\* Slips: no guard; expiry off by one; expired rows never reclaimed.
NeverBlocks(row, at) == FALSE
BlocksUntilLastSecond(row, at) == row.id # None /\ row.expires > at + 1
BlocksForever(row, at) == row.id # None

\* WHERE NOT EXISTS (... expires_at > now): a live row blocks the insert.
Blocks(row, at) == row.id # None /\ row.expires > at

\* MAX(total - spent, 0)
Remaining(row) == IF row.spent < TotalEps THEN TotalEps - row.spent ELSE 0

\* Slip: the release forgets the reservation id.
ReleasedByTenant(row, id) == NoReservation

\* DELETE ... WHERE tenant = ? AND reservation_id = ?
Released(row, id) == IF row.id = id THEN NoReservation ELSE row

\* effective_dp_window: a stored override, 0 included, wins over the global.
EffectiveWindow(t) == IF override[t] = None THEN GlobalWindow ELSE override[t]

-----------------------------------------------------------------------------
(* Stages of a run. *)

MidReserve == {"rolled", "inserted"}          \* inside reserve_dp_budget
Granted    == {"armed", "running", "exited"}  \* owns what reserve returned
Holding    == {"inserted"} \cup Granted
Active     == {"waiting"} \cup MidReserve \cup Granted
Ended      == {"settled", "unbilled", "refused", "failed", "crashed"}
Stages     == {"idle"} \cup Active \cup Ended

TypeOK ==
  /\ now \in Nat
  /\ ledger \in [Tenants -> BudgetRow]
  /\ override \in [Tenants -> Windows \cup {None}]
  /\ changedAt \in [Tenants -> Nat]
  /\ reservation \in [Tenants -> ReservationRow]
  /\ view \in [Tenants -> [stage : {"none", "read", "roll"}, window : Nat]]
  /\ pc \in [Runs -> Stages]
  /\ call \in [Runs -> CallLocals]
  /\ used \in [Runs -> 0..TotalEps]

Init ==
  /\ now = 1
  /\ ledger = [t \in Tenants |->
       IF OpeningSpend = 0 THEN NoBudgetRow
       ELSE [exists |-> TRUE, spent |-> OpeningSpend, anchor |-> OpeningAnchor]]
  /\ override = [t \in Tenants |-> None]
  /\ changedAt = [t \in Tenants |-> 0]
  /\ reservation = [t \in Tenants |-> NoReservation]
  /\ view = [t \in Tenants |-> NoView]
  /\ pc = [r \in Runs |-> "idle"]
  /\ call = [r \in Runs |-> NoCall]
  /\ used = [r \in Runs |-> 0]

-----------------------------------------------------------------------------
(* Helpers of the actions. *)

\* The tenant mutex of one instance: its runs of a tenant are serialized.
TenantLockFree(r) ==
  \A q \in Runs : /\ TenantOf[q] = TenantOf[r]
                  /\ InstOf[q] = InstOf[r]
                  => pc[q] \notin Active

\* The connection mutex of one instance, held through a whole reserve call.
StoreFree(i) == \A q \in Runs : InstOf[q] = i => pc[q] \notin MidReserve

\* settle_dp_reservation as one transaction: roll, bill, release by id.
SettleTx(t, id, e, w) ==
  /\ ledger' = [ledger EXCEPT ![t] = BillRow(RollRow(@, w, now), e, now)]
  /\ reservation' = [reservation EXCEPT ![t] = Released(@, id)]
  /\ UNCHANGED <<override, changedAt>>

Goto(r, stage) == pc' = [pc EXCEPT ![r] = stage]

\* The request or its task returns: its locals are gone.
Return(r, stage) ==
  /\ Goto(r, stage)
  /\ call' = [call EXCEPT ![r] = NoCall]

-----------------------------------------------------------------------------
(* POST /execute. *)

\* The request owns its tenant's mutex, passed the gates, and reads the window.
ReadWindow(r) ==
  /\ pc[r] = "idle"
  /\ TenantLockFree(r)
  /\ StoreFree(InstOf[r])
  /\ call' = [call EXCEPT ![r].window = EffectiveWindow(TenantOf[r]),
                          ![r].clock = now]
  /\ Goto(r, "waiting")
  /\ UNCHANGED <<now, store, view, used>>

\* reserve_dp_budget reads the clock once and rolls an elapsed window.
ReserveRoll(r) ==
  /\ pc[r] = "waiting"
  /\ StoreFree(InstOf[r])
  /\ call' = [call EXCEPT ![r].clock = now]
  /\ ledger' = [ledger EXCEPT ![TenantOf[r]] = RollRow(@, call[r].window, now)]
  /\ Goto(r, "rolled")
  /\ UNCHANGED <<now, override, changedAt, reservation, view, used>>

\* INSERT ... SELECT ... WHERE NOT EXISTS ... ON CONFLICT DO UPDATE.
ReserveInsert(r) ==
  LET t == TenantOf[r]
  IN  /\ pc[r] = "rolled"
      /\ ~ Blocks(reservation[t], call[r].clock)
      /\ reservation' = [reservation EXCEPT ![t] =
           [id |-> r, eps |-> Remaining(ledger[t]), expires |-> call[r].clock + Ttl]]
      /\ Goto(r, "inserted")
      /\ UNCHANGED <<now, ledger, override, changedAt, view, call, used>>

\* No row changed: another run holds the tenant, and the request gets 429.
ReserveBlocked(r) ==
  /\ pc[r] = "rolled"
  /\ Blocks(reservation[TenantOf[r]], call[r].clock)
  /\ Return(r, "refused")
  /\ UNCHANGED <<now, store, view, used>>

\* The row is read back by tenant alone.  When none is left (it expired and its
\* next holder has settled), that is Ok(None) too, and 429.
ReserveReadBack(r) ==
  LET row == reservation[TenantOf[r]]
  IN  /\ pc[r] = "inserted"
      /\ IF row.id = None
         THEN Return(r, "refused")
         ELSE /\ call' = [call EXCEPT ![r].id = row.id, ![r].eps = row.eps]
              /\ Goto(r, "armed")
      /\ UNCHANGED <<now, store, view, used>>

\* A statement of the reserve call fails (SQLITE_BUSY, I/O): 500.  After the
\* insert, the row stays behind: the guard that would release it is not built.
ReserveError(r) ==
  /\ pc[r] \in {"waiting"} \cup MidReserve
  /\ Return(r, "failed")
  /\ UNCHANGED <<now, store, view, used>>

\* The temp file or the CLI is missing: DpReservationGuard::drop settles with
\* zero spend.  Its transaction may fail too, and then only the TTL releases.
SetupFails(r) ==
  /\ pc[r] = "armed"
  /\ StoreFree(InstOf[r])
  /\ \/ SettleTx(TenantOf[r], call[r].id, 0, call[r].window)
     \/ UNCHANGED store
  /\ Return(r, "failed")
  /\ UNCHANGED <<now, view, used>>

\* take_reservation disarms the guard and the detached task starts `xazz run`.
Spawn(r) ==
  /\ pc[r] = "armed"
  /\ Goto(r, "running")
  /\ UNCHANGED <<now, store, view, call, used>>

\* Slip: each withDp is checked on its own, not composed with the ones before.
FitsAlone(r, e) == e <= call[r].eps

\* PrivacyBudget::spend_n: sequential composition against the process budget.
Fits(r, e) == used[r] + e <= call[r].eps

\* One withDp step: noise is drawn, e = epsilon * columns is deducted, and the
\* marker with the new total goes to the server's pipe.
WithDp(r) ==
  /\ pc[r] = "running"
  /\ \E e \in 1..TotalEps :
       /\ Fits(r, e)
       /\ used' = [used EXCEPT ![r] = @ + e]
  /\ UNCHANGED <<now, store, view, pc, call>>

\* The runner ends: finished, failed, refused a withDp, or killed at its limit.
\* Markers printed so far are in the captured output in every case.
RunnerExits(r) ==
  /\ pc[r] = "running"
  /\ Goto(r, "exited")
  /\ UNCHANGED <<now, store, view, call, used>>

\* The task bills the last marker and releases, with the window read before
\* the run.
Settle(r) ==
  /\ pc[r] = "exited"
  /\ StoreFree(InstOf[r])
  /\ SettleTx(TenantOf[r], call[r].id, used[r], call[r].window)
  /\ Return(r, "settled")
  /\ UNCHANGED <<now, view, used>>

\* The settle transaction fails and is only logged.
SettleError(r) ==
  /\ pc[r] = "exited"
  /\ StoreFree(InstOf[r])
  /\ Return(r, "unbilled")
  /\ UNCHANGED <<now, store, view, used>>

\* A client that was told to try again shortly does.
Retry(r) ==
  /\ pc[r] = "refused"
  /\ Goto(r, "idle")
  /\ UNCHANGED <<now, store, view, call, used>>

-----------------------------------------------------------------------------
(* Budget endpoints, served by instance i.  A request is two or three store *)
(* calls; at most one request per tenant is in flight in the model.         *)

\* GET /dp/budget starts.
ViewBudget(t) ==
  /\ "view" \in Endpoints
  /\ view[t] = NoView
  /\ view' = [view EXCEPT ![t] = [stage |-> "read", window |-> 0]]
  /\ UNCHANGED <<now, store, runState>>

\* PUT /dp/budget/window: store the override, re-anchor an existing row, and
\* go on to dp_spent with the new length.
SetWindow(i, t, w) ==
  /\ "set" \in Endpoints
  /\ StoreFree(i)
  /\ view[t] = NoView
  /\ override' = [override EXCEPT ![t] = w]
  /\ changedAt' = [changedAt EXCEPT ![t] = now]
  /\ ledger' = [ledger EXCEPT ![t].anchor = IF ledger[t].exists THEN now ELSE @]
  /\ view' = [view EXCEPT ![t] = [stage |-> "roll", window |-> w]]
  /\ UNCHANGED <<now, reservation, runState>>

\* DELETE /dp/budget/window: drop the override; the anchor is left alone, and
\* a change is recorded only if there was an override.
ClearWindow(i, t) ==
  /\ "clear" \in Endpoints
  /\ StoreFree(i)
  /\ view[t] = NoView
  /\ override' = [override EXCEPT ![t] = None]
  /\ changedAt' = [changedAt EXCEPT ![t] = IF override[t] = None THEN @ ELSE now]
  /\ view' = [view EXCEPT ![t] = [stage |-> "read", window |-> 0]]
  /\ UNCHANGED <<now, ledger, reservation, runState>>

\* The request reads the effective window ...
ViewRead(i, t) ==
  /\ StoreFree(i)
  /\ view[t].stage = "read"
  /\ view' = [view EXCEPT ![t] = [stage |-> "roll", window |-> EffectiveWindow(t)]]
  /\ UNCHANGED <<now, store, runState>>

\* ... and dp_spent rolls the ledger with it.
ViewRoll(i, t) ==
  /\ StoreFree(i)
  /\ view[t].stage = "roll"
  /\ ledger' = [ledger EXCEPT ![t] = RollRow(@, view[t].window, now)]
  /\ view' = [view EXCEPT ![t] = NoView]
  /\ UNCHANGED <<now, override, changedAt, reservation, runState>>

\* POST /dp/budget/reset: zero the row (or create it) and restart its window.
ResetBudget(i, t) ==
  /\ "reset" \in Endpoints
  /\ StoreFree(i)
  /\ ledger' = [ledger EXCEPT ![t] = [exists |-> TRUE, spent |-> 0, anchor |-> now]]
  /\ UNCHANGED <<now, override, changedAt, reservation, view, runState>>

-----------------------------------------------------------------------------
(* Time and failure. *)

\* Time passes, but no reserve call outlives ReserveLimit and no run outlives
\* HoldLimit: the SQLite busy timeout and the runner's timeout see to that.
Tick ==
  /\ now < MaxTime
  /\ \A r \in Runs :
       /\ pc[r] \in {"waiting"} \cup MidReserve => now - call[r].clock < ReserveLimit
       /\ pc[r] \in {"rolled"} \cup Holding => now - call[r].clock < HoldLimit
  /\ now' = now + 1
  /\ UNCHANGED <<store, view, runState>>

\* An instance dies and starts again: its requests are gone, their runners
\* with them, and nobody will settle what they reserved.
Crash(i) ==
  /\ \E r \in Runs : InstOf[r] = i /\ pc[r] \in Active
  /\ pc' = [r \in Runs |->
       IF InstOf[r] = i /\ pc[r] \in Active THEN "crashed" ELSE pc[r]]
  /\ call' = [r \in Runs |->
       IF InstOf[r] = i /\ pc[r] \in Active THEN NoCall ELSE call[r]]
  /\ UNCHANGED <<now, store, view, used>>

-----------------------------------------------------------------------------

RunStep(r) ==
  \/ ReadWindow(r) \/ ReserveRoll(r) \/ ReserveInsert(r) \/ ReserveBlocked(r)
  \/ ReserveReadBack(r) \/ ReserveError(r)
  \/ SetupFails(r) \/ Spawn(r)
  \/ WithDp(r) \/ RunnerExits(r) \/ Settle(r) \/ SettleError(r) \/ Retry(r)

BudgetStep(t) ==
  \/ ViewBudget(t)
  \/ \E i \in Instances :
       \/ \E w \in Windows : SetWindow(i, t, w)
       \/ ClearWindow(i, t)
       \/ ViewRead(i, t)
       \/ ViewRoll(i, t)
       \/ ResetBudget(i, t)

Next ==
  \/ \E r \in Runs : RunStep(r)
  \/ \E t \in Tenants : BudgetStep(t)
  \/ \E i \in Instances : Crash(i)
  \/ Tick

Spec == Init /\ [][Next]_vars
-----------------------------------------------------------------------------
(* Properties. *)

\* The envelope.  Two runs of a tenant never own its budget at the same time,
\* and what is billed plus what the owner may still spend fits the envelope,
\* through window rolls, resets, crashes and retries.  This is what
\* reserve_dp_budget and settle_dp_reservation exist for; it needs runs that
\* end before their reservation expires.
EnvelopeRespected ==
  /\ \A t \in Tenants : ledger[t].spent <= TotalEps
  /\ \A r \in Runs : pc[r] \in Granted =>
       /\ ledger[TenantOf[r]].spent + call[r].eps <= TotalEps
       /\ used[r] <= call[r].eps
       /\ \A q \in Runs :
            pc[q] \in Granted /\ TenantOf[q] = TenantOf[r] => q = r

\* What makes EnvelopeRespected inductive when HoldLimit < Ttl: a holder's row
\* is its own and has not expired, because its run cannot last that long.
OnTime ==
  \A r \in Runs : pc[r] \in {"rolled"} \cup Holding =>
    call[r].clock <= now /\ now <= call[r].clock + HoldLimit

HolderOwnsRow ==
  \A r \in Runs : pc[r] \in Holding =>
    /\ reservation[TenantOf[r]].id = r
    /\ reservation[TenantOf[r]].expires = call[r].clock + Ttl
    /\ ledger[TenantOf[r]].spent + reservation[TenantOf[r]].eps <= TotalEps

CallIsRow ==
  \A r \in Runs : pc[r] \in Granted =>
    /\ call[r].id = r
    /\ call[r].eps = reservation[TenantOf[r]].eps

SpendFits ==
  /\ \A t \in Tenants : ledger[t].spent <= TotalEps
  /\ \A r \in Runs : pc[r] \in Granted => used[r] <= call[r].eps
  /\ \A r \in Runs :
       pc[r] \in {"idle", "waiting", "refused"} \cup MidReserve => used[r] = 0

EnvelopeInv == OnTime /\ HolderOwnsRow /\ CallIsRow /\ SpendFits

\* What makes HolderKeepsReservation inductive when ReserveLimit < Ttl, however
\* late runs settle: a reserve call reads back the row it inserted.
ReserveOnTime ==
  \A r \in Runs : pc[r] \in MidReserve =>
    call[r].clock <= now /\ now <= call[r].clock + ReserveLimit

OwnId ==
  \A r \in Runs :
    /\ pc[r] = "inserted" => /\ reservation[TenantOf[r]].id = r
                             /\ reservation[TenantOf[r]].expires = call[r].clock + Ttl
    /\ pc[r] \in Granted => call[r].id = r

OwnershipInv == ReserveOnTime /\ OwnId

\* A reservation whose run is still at work leaves the table only because that
\* run ended or because its TTL passed: no settle, however late, releases the
\* reservation of a newer holder.
HolderKeepsReservation ==
  [][\A t \in Tenants, r \in Runs :
       /\ reservation[t].id = r
       /\ pc[r] \in Holding
       /\ reservation'[t] # reservation[t]
       => pc'[r] \notin Holding \/ reservation[t].expires <= now]_vars

\* No release of noised data goes unaccounted: where no window and no reset
\* takes spend off the ledger, it holds every unit that settled runs reported,
\* however late they settled and whoever held the tenant by then.
SettledUnits(t) ==
  {unit \in Runs \X (1..TotalEps) :
     /\ TenantOf[unit[1]] = t
     /\ pc[unit[1]] = "settled"
     /\ unit[2] <= used[unit[1]]}

LedgerBalances ==
  \A t \in Tenants : ledger[t].spent = OpeningSpend + Cardinality(SettledUnits(t))

\* Spend leaves the ledger only under the window setting in force, and only
\* when that window has run in full since the setting last changed: "changing
\* the length cannot retroactively expire spend that was accrued under the
\* previous setting" (set_dp_window).  Said of systems without resets.
RollNeedsFullWindow ==
  [][\A t \in Tenants :
       ledger'[t].spent < ledger[t].spent =>
         /\ EffectiveWindow(t) > 0
         /\ now - changedAt[t] >= EffectiveWindow(t)]_vars

\* An instance that crashed cannot pin a tenant's budget: a client that keeps
\* retrying after 429 is in the end granted, fails for a reason of its own, or
\* loses its server.
RefusedIsServed ==
  \A r \in Runs : pc[r] = "refused" ~> pc[r] \in Granted \cup (Ended \ {"refused"})

-----------------------------------------------------------------------------
\* The ledger as an envelope: who holds it, and how much was granted.
HolderOf(t) ==
  IF reservation[t].id # None /\ pc[reservation[t].id] \in Holding
  THEN reservation[t].id ELSE None

Envelope == INSTANCE DpEnvelope WITH
  spent  <- [t \in Tenants |-> ledger[t].spent],
  holder <- [t \in Tenants |-> HolderOf(t)],
  grant  <- [t \in Tenants |-> IF HolderOf(t) = None THEN 0 ELSE reservation[t].eps]

\* The store protocol implements the abstract envelope: grants exclude each
\* other and are never larger than what is left, bills never exceed grants.
ImplementsEnvelope == Envelope!Spec
=============================================================================
