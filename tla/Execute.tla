------------------------------ MODULE Execute ------------------------------
(***************************************************************************)
(* POST /execute of one xazz-server process (xazz-server/src/main.rs): the *)
(* per-tenant lock map with its weak references, the execution permits,    *)
(* the gate, the reservation guard, and the detached task that runs the    *)
(* pipeline and does its bookkeeping whether or not the client is still    *)
(* there (GHSA-wxqx-r7f6-qq3p).                                            *)
(*                                                                         *)
(* The handler is a future: it is dropped only where it awaits, which is   *)
(* in the tenant lock's queue and behind the task.  The store's reserve    *)
(* and settle are single steps here; DpReservation has them in full.       *)
(***************************************************************************)
EXTENDS Naturals, FiniteSets, SequencesExt

CONSTANTS
  Requests,  \* POST /execute requests
  Tenants,   \* authenticated tenants
  TenantOf,  \* [Requests -> Tenants]
  MaxRuns,   \* MAX_CONCURRENT_EXECUTIONS
  Other,     \* another server instance, as the owner of a reservation
  None,
  Hazards,   \* what may happen around a run: a subset of HazardNames
  MaxFailed  \* bound on the bookkeeping calls that fail

\* Calls that may fail, clients that may leave, other instances that may reserve.
HazardNames == {"store", "setup", "settle", "audit", "record", "disconnect", "other"}

ASSUME ExecuteAssumption ==
  /\ TenantOf \in [Requests -> Tenants]
  /\ MaxRuns \in Nat /\ MaxFailed \in Nat
  /\ Hazards \subseteq HazardNames
  /\ None \notin Requests /\ Other \notin Requests \cup {None}

VARIABLES
  lockMap,     \* AppState.tenant_locks: the lock its weak reference names
  lock,        \* the lock whose Arc or guard a request (or its task) owns
  queue,       \* FIFO of each lock, which is named after the request that made it
  permits,     \* free permits of exec_permits
  handler,     \* the handler future of each request
  task,        \* its detached blocking task
  client,      \* what its client has got
  reservation, \* the store's reservation of each tenant
  audit,       \* the audit log, as <<request, outcome>>
  history,     \* the run history, as <<request, outcome>>
  warned       \* bookkeeping that failed and was only written to stderr

locks == <<lockMap, lock, queue>>
logs == <<audit, history>>
vars == <<lockMap, lock, queue, permits, handler, task, client, reservation,
          audit, history, warned>>

-----------------------------------------------------------------------------

HandlerStages ==
  {"idle", "arrived", "queued", "admitted", "gated", "reserved", "awaiting", "done"}
TaskStages ==
  {"none", "running", "exited", "settled", "audited", "recorded", "ended"}
Answers == {"ok", "unprocessable", "capacity", "busy", "error"}
Outcomes == {"blocked", "success", "failed"}

NoTask == [stage |-> "none", outcome |-> None]

TypeOK ==
  /\ lockMap \in [Tenants -> Requests \cup {None}]
  /\ lock \in [Requests -> Requests \cup {None}]
  /\ queue \in [Requests -> Seq(Requests)]
  /\ permits \in 0..MaxRuns
  /\ handler \in [Requests -> HandlerStages]
  /\ task \in [Requests -> [stage : TaskStages, outcome : Outcomes \cup {None}]]
  /\ client \in [Requests -> {"waiting", "gone"} \cup Answers]
  /\ reservation \in [Tenants -> Requests \cup {Other, None}]
  /\ audit \in Seq(Requests \X Outcomes)
  /\ history \in Seq(Requests \X Outcomes)
  /\ warned \in [Requests -> SUBSET {"settle", "audit", "record"}]

Init ==
  /\ lockMap = [t \in Tenants |-> None]
  /\ lock = [r \in Requests |-> None]
  /\ queue = [r \in Requests |-> <<>>]
  /\ permits = MaxRuns
  /\ handler = [r \in Requests |-> "idle"]
  /\ task = [r \in Requests |-> NoTask]
  /\ client = [r \in Requests |-> "waiting"]
  /\ reservation = [t \in Tenants |-> None]
  /\ audit = <<>>
  /\ history = <<>>
  /\ warned = [r \in Requests |-> {}]

-----------------------------------------------------------------------------
(* The tenant lock. *)

\* Slip: only a lock that two requests share is spared.
AliveIfContended(l) == l # None /\ Cardinality({q \in Requests : lock[q] = l}) > 1

\* Weak::upgrade, strong_count() > 0: some future, guard or task owns the lock.
Alive(l) == l # None /\ \E q \in Requests : lock[q] = l

\* tenant_lock: the tenant's live lock, or a new one once the dead are pruned.
LockFor(r) == IF Alive(lockMap[TenantOf[r]]) THEN lockMap[TenantOf[r]] ELSE r

MapWithLock(r) ==
  IF Alive(lockMap[TenantOf[r]]) THEN lockMap
  ELSE [t \in Tenants |-> IF t = TenantOf[r] THEN r
                          ELSE IF Alive(lockMap[t]) THEN lockMap[t] ELSE None]

\* The tokio mutex is fair: the head of its queue owns it.
OwnsLock(r) == lock[r] # None /\ queue[lock[r]] # <<>> /\ Head(queue[lock[r]]) = r

\* Slip: a waiter that goes away is not taken off the queue.
StaysQueued(r) ==
  /\ queue' = [queue EXCEPT ![lock[r]] = IF Head(@) = r THEN Tail(@) ELSE @]
  /\ lock' = [lock EXCEPT ![r] = None]
  /\ UNCHANGED lockMap

\* A queue without a request, which is in it once.
Without(q, r) == RemoveAt(q, CHOOSE i \in DOMAIN q : q[i] = r)

\* The guard, or the future in the queue, is dropped.
LeaveLock(r) ==
  /\ queue' = [queue EXCEPT ![lock[r]] = Without(@, r)]
  /\ lock' = [lock EXCEPT ![r] = None]
  /\ UNCHANGED lockMap

\* The permit and the tenant guard go, in this order, wherever they are owned:
\* the handler's locals, or the ExecutionSlot of the task.
ReleaseSlot(r) == permits' = permits + 1 /\ LeaveLock(r)

Reply(r, answer) ==
  client' = [client EXCEPT ![r] = IF @ = "waiting" THEN answer ELSE @]

\* The handler returns early: whatever it owns is dropped.
ReturnEarly(r, answer) ==
  /\ handler' = [handler EXCEPT ![r] = "done"]
  /\ Reply(r, answer)
  /\ ReleaseSlot(r)

\* A bookkeeping call fails and is only written to stderr.
Failed == {f \in Requests \X Hazards : f[2] \in warned[f[1]]}
Fails(r, call) ==
  /\ call \in Hazards
  /\ Cardinality(Failed) < MaxFailed
  /\ warned' = [warned EXCEPT ![r] = @ \cup {call}]

Goto(r, stage) == handler' = [handler EXCEPT ![r] = stage]

-----------------------------------------------------------------------------
(* The handler. *)

\* tenant_lock: one critical section of the map's own mutex.
Arrive(r) ==
  /\ handler[r] = "idle"
  /\ lock' = [lock EXCEPT ![r] = LockFor(r)]
  /\ lockMap' = MapWithLock(r)
  /\ Goto(r, "arrived")
  /\ UNCHANGED <<queue, permits, task, client, reservation, logs, warned>>

\* lock_owned() is polled for the first time.
Enqueue(r) ==
  /\ handler[r] = "arrived"
  /\ queue' = [queue EXCEPT ![lock[r]] = Append(@, r)]
  /\ Goto(r, "queued")
  /\ UNCHANGED <<lockMap, lock, permits, task, client, reservation, logs, warned>>

\* The lock is the handler's: try_acquire takes a permit ...
Admit(r) ==
  /\ handler[r] = "queued" /\ OwnsLock(r)
  /\ permits > 0
  /\ permits' = permits - 1
  /\ Goto(r, "admitted")
  /\ UNCHANGED <<locks, task, client, reservation, logs, warned>>

\* Slip: the refusal gives back a permit it never took.
GivesPermitBack(r) ==
  /\ handler[r] = "queued" /\ OwnsLock(r)
  /\ permits = 0
  /\ ReturnEarly(r, "capacity")
  /\ UNCHANGED <<task, reservation, logs, warned>>

\* ... or there is none, and the request is refused without queueing.
AtCapacity(r) ==
  /\ handler[r] = "queued" /\ OwnsLock(r)
  /\ permits = 0
  /\ Goto(r, "done")
  /\ Reply(r, "capacity")
  /\ LeaveLock(r)
  /\ UNCHANGED <<permits, task, reservation, logs, warned>>

\* gate_for or the per-query epsilon cap rejects the code: the block is
\* audited, if the log can be written, and nothing runs.
Reject(r) ==
  /\ handler[r] = "admitted"
  /\ \/ audit' = Append(audit, <<r, "blocked">>) /\ UNCHANGED warned
     \/ Fails(r, "audit") /\ UNCHANGED audit
  /\ ReturnEarly(r, "unprocessable")
  /\ UNCHANGED <<task, reservation, history>>

Pass(r) ==
  /\ handler[r] = "admitted"
  /\ Goto(r, "gated")
  /\ UNCHANGED <<locks, permits, task, client, reservation, logs, warned>>

Reserve(r) ==
  /\ handler[r] = "gated"
  /\ reservation[TenantOf[r]] = None
  /\ reservation' = [reservation EXCEPT ![TenantOf[r]] = r]
  /\ Goto(r, "reserved")
  /\ UNCHANGED <<locks, permits, task, client, logs, warned>>

\* The tenant is reserved already: fail closed, no queue.
ReserveRefused(r) ==
  /\ handler[r] = "gated"
  /\ reservation[TenantOf[r]] # None
  /\ ReturnEarly(r, "busy")
  /\ UNCHANGED <<task, reservation, logs, warned>>

\* The window or the reservation cannot be read.
StoreFails(r) ==
  /\ "store" \in Hazards
  /\ handler[r] = "gated"
  /\ ReturnEarly(r, "error")
  /\ UNCHANGED <<task, reservation, logs, warned>>

\* settle_dp_reservation: released, or an error that is only written to stderr.
Settling(r) ==
  \/ /\ reservation' = [reservation EXCEPT ![TenantOf[r]] = IF @ = r THEN None ELSE @]
     /\ UNCHANGED warned
  \/ Fails(r, "settle") /\ UNCHANGED reservation

\* Slip: an early return forgets the guard.
GuardForgotten(r) == UNCHANGED <<reservation, warned>>

\* DpReservationGuard::drop, still armed: settle with nothing spent.
DropGuard(r) == Settling(r)

\* No temp file, or no `xazz` to run.
SetupFails(r) ==
  /\ "setup" \in Hazards
  /\ handler[r] = "reserved"
  /\ DropGuard(r)
  /\ ReturnEarly(r, "error")
  /\ UNCHANGED <<task, logs>>

\* The reservation and the slot move into the blocking task.
Spawn(r) ==
  /\ handler[r] = "reserved"
  /\ task' = [task EXCEPT ![r].stage = "running"]
  /\ Goto(r, "awaiting")
  /\ UNCHANGED <<locks, permits, client, reservation, logs, warned>>

\* The task's result reaches the client, if it is still there.
Respond(r) ==
  /\ handler[r] = "awaiting"
  /\ task[r].stage = "ended"
  /\ Goto(r, "done")
  /\ Reply(r, "ok")
  /\ UNCHANGED <<locks, permits, task, reservation, logs, warned>>

-----------------------------------------------------------------------------
(* The client, and the detached task. *)

Disconnect(r) ==
  /\ "disconnect" \in Hazards
  /\ client[r] = "waiting" /\ handler[r] # "idle"
  /\ client' = [client EXCEPT ![r] = "gone"]
  /\ UNCHANGED <<locks, permits, handler, task, reservation, logs, warned>>

\* Slip: the slot stayed with the handler, so dropping it frees the slot.
DropOwnsSlot(r) ==
  /\ client[r] = "gone"
  /\ Goto(r, "done")
  /\ \/ handler[r] = "queued" /\ LeaveLock(r) /\ UNCHANGED permits
     \/ handler[r] = "awaiting" /\ lock[r] # None /\ ReleaseSlot(r)
  /\ UNCHANGED <<task, client, reservation, logs, warned>>

\* The server drops the future of a client that went away, at an await.
DropHandler(r) ==
  /\ client[r] = "gone"
  /\ Goto(r, "done")
  /\ \/ handler[r] = "queued" /\ LeaveLock(r)
     \/ handler[r] = "awaiting" /\ UNCHANGED locks
  /\ UNCHANGED <<permits, task, client, reservation, logs, warned>>

TaskGoto(r, from, to) ==
  /\ task[r].stage = from
  /\ task' = [task EXCEPT ![r].stage = to]

\* `xazz run` ends, or could not be started at all.
RunnerExits(r) ==
  /\ task[r].stage = "running"
  /\ \E outcome \in {"success", "failed"} :
       task' = [task EXCEPT ![r] = [stage |-> "exited", outcome |-> outcome]]
  /\ UNCHANGED <<locks, permits, handler, client, reservation, logs, warned>>

\* Slip: a failed run returns before its settle.
SettleOnSuccess(r) ==
  /\ TaskGoto(r, "exited", "settled")
  /\ IF task[r].outcome = "success" THEN Settling(r) ELSE UNCHANGED <<reservation, warned>>
  /\ UNCHANGED <<locks, permits, handler, client, logs>>

\* The run is billed and its reservation released; the task goes on either way.
Settle(r) ==
  /\ TaskGoto(r, "exited", "settled")
  /\ Settling(r)
  /\ UNCHANGED <<locks, permits, handler, client, logs>>

\* Slip: a clean run is not worth a record.
AuditFailuresOnly(r) ==
  /\ TaskGoto(r, "settled", "audited")
  /\ audit' = IF task[r].outcome = "failed" THEN Append(audit, <<r, "failed">>) ELSE audit
  /\ UNCHANGED <<locks, permits, handler, client, reservation, history, warned>>

\* audit_log::append_with_outcome; a failure is only written to stderr.
AppendAudit(r) ==
  /\ TaskGoto(r, "settled", "audited")
  /\ \/ audit' = Append(audit, <<r, task[r].outcome>>) /\ UNCHANGED warned
     \/ Fails(r, "audit") /\ UNCHANGED audit
  /\ UNCHANGED <<locks, permits, handler, client, reservation, history>>

\* Slip: the row is written by the handler, so only while a client waits.
RecordForClient(r) ==
  /\ TaskGoto(r, "audited", "recorded")
  /\ history' = IF handler[r] = "awaiting" THEN Append(history, <<r, task[r].outcome>>)
                ELSE history
  /\ UNCHANGED <<locks, permits, handler, client, reservation, audit, warned>>

\* record_run_in_store; likewise.
RecordRun(r) ==
  /\ TaskGoto(r, "audited", "recorded")
  /\ \/ history' = Append(history, <<r, task[r].outcome>>) /\ UNCHANGED warned
     \/ Fails(r, "record") /\ UNCHANGED history
  /\ UNCHANGED <<locks, permits, handler, client, reservation, audit>>

\* Slip: the slot outlives the closure when its client is gone.
SlotLeaks(r) ==
  /\ TaskGoto(r, "recorded", "ended")
  /\ IF client[r] = "gone" THEN UNCHANGED <<locks, permits>> ELSE ReleaseSlot(r)
  /\ UNCHANGED <<handler, client, reservation, logs, warned>>

\* The closure returns and drops its slot.
Finish(r) ==
  /\ TaskGoto(r, "recorded", "ended")
  /\ ReleaseSlot(r)
  /\ UNCHANGED <<handler, client, reservation, logs, warned>>

-----------------------------------------------------------------------------
(* The store, as other instances and the reservation TTL change it. *)

OtherReserves(t) ==
  /\ "other" \in Hazards
  /\ reservation[t] = None
  /\ reservation' = [reservation EXCEPT ![t] = Other]
  /\ UNCHANGED <<locks, permits, handler, task, client, logs, warned>>

OtherSettles(t) ==
  /\ reservation[t] = Other
  /\ reservation' = [reservation EXCEPT ![t] = None]
  /\ UNCHANGED <<locks, permits, handler, task, client, logs, warned>>

\* A row whose settle failed blocks the tenant until its TTL has passed.
Expire(t) ==
  /\ reservation[t] \in Requests
  /\ "settle" \in warned[reservation[t]]
  /\ reservation' = [reservation EXCEPT ![t] = None]
  /\ UNCHANGED <<locks, permits, handler, task, client, logs, warned>>

-----------------------------------------------------------------------------

HandlerStep(r) ==
  \/ Arrive(r) \/ Enqueue(r) \/ Admit(r) \/ AtCapacity(r)
  \/ Reject(r) \/ Pass(r) \/ Reserve(r) \/ ReserveRefused(r) \/ StoreFails(r)
  \/ SetupFails(r) \/ Spawn(r) \/ Respond(r)

TaskStep(r) ==
  \/ RunnerExits(r) \/ Settle(r) \/ AppendAudit(r) \/ RecordRun(r) \/ Finish(r)

Next ==
  \/ \E r \in Requests :
       HandlerStep(r) \/ TaskStep(r) \/ Disconnect(r) \/ DropHandler(r)
  \/ \E t \in Tenants : OtherReserves(t) \/ OtherSettles(t) \/ Expire(t)

\* Handlers and tasks are scheduled, runners end (the runner kills them at its
\* limit), and a dropped connection is noticed; clients need not disconnect.
Fairness ==
  \A r \in Requests :
    /\ WF_vars(HandlerStep(r))
    /\ WF_vars(TaskStep(r))
    /\ WF_vars(DropHandler(r))

Spec == Init /\ [][Next]_vars
LiveSpec == Spec /\ Fairness

-----------------------------------------------------------------------------
(* Properties. *)

TaskAlive(r) == task[r].stage \notin {"none", "ended"}
HasSlot(r) == handler[r] \in {"admitted", "gated", "reserved"} \/ TaskAlive(r)

\* "A tenant's precheck, run, accrue must be atomic": two requests of a tenant
\* are never past its lock together, although the lock object itself comes and
\* goes and a disconnected client's handler is gone while its runner works.
OneRunPerTenant ==
  \A r, q \in Requests :
    HasSlot(r) /\ HasSlot(q) /\ TenantOf[r] = TenantOf[q] => r = q

\* Permits are neither lost nor freed early, on any exit path or disconnect:
\* the free ones and the runs at work always make up the limit.
PermitsBalance ==
  permits + Cardinality({r \in Requests : HasSlot(r)}) = MaxRuns

\* A request is refused as "in flight" only because of another instance, or of
\* an own run whose settle failed: its own server's runs are settled before the
\* next one of the tenant reserves.
RefusedByOthersOnly ==
  [][\A r \in Requests :
       client'[r] = "busy" /\ client[r] # "busy" =>
         LET holder == reservation[TenantOf[r]]
         IN  holder = Other \/ "settle" \in warned[holder]]_vars

\* Every executed pipeline is accounted for once the server is quiet: one audit
\* record and one history row, with the outcome of the run, in the same order
\* for a tenant's runs; every step that is missing was warned about; nothing is
\* still reserved, locked or charged.  Blocked requests left one audit record
\* at most and no history.
Quiet == \A r \in Requests :
           handler[r] \in {"idle", "done"} /\ task[r].stage \in {"none", "ended"}

Entries(log, r) == {i \in DOMAIN log : log[i][1] = r}

\* The one entry of a run, unless the call that writes it failed.
Complete(log, r, call) ==
  IF call \in warned[r] THEN Entries(log, r) = {}
  ELSE \E i \in DOMAIN log : Entries(log, r) = {i} /\ log[i][2] = task[r].outcome

SameOrder ==
  \A r, q \in Requests :
    TenantOf[r] = TenantOf[q] =>
      \A i \in Entries(audit, r), j \in Entries(audit, q),
         k \in Entries(history, r), l \in Entries(history, q) : i < j <=> k < l

AllAccounted ==
  Quiet =>
    /\ \A r \in Requests :
         /\ task[r].stage = "ended" =>
              /\ task[r].outcome # "blocked"
              /\ Complete(audit, r, "audit") /\ Complete(history, r, "record")
         /\ task[r].stage = "none" =>
              /\ Entries(history, r) = {}
              /\ \A i, j \in Entries(audit, r) : i = j /\ audit[i][2] = "blocked"
         /\ r \in {reservation[t] : t \in Tenants} => "settle" \in warned[r]
         /\ ~ OwnsLock(r)
    /\ SameOrder
    /\ permits = MaxRuns

\* A request that queues for a tenant's lock waits for one that will let it go:
\* the head of the queue is a handler or a task at work, never a request that
\* went away while it queued or was answered already.
AtWork(r) == TaskAlive(r) \/ handler[r] \in {"queued", "admitted", "gated", "reserved"}

WaitersHaveAnOwner ==
  \A r \in Requests :
    lock[r] # None /\ queue[lock[r]] # <<>> =>
      LET owner == Head(queue[lock[r]]) IN lock[owner] = lock[r] /\ AtWork(owner)

\* A client that stays is answered, whatever the others do: requests waiting
\* for a tenant's lock are served in turn, past dropped ones.
ClientsAnswered ==
  \A r \in Requests : client[r] = "waiting" ~> client[r] # "waiting"

\* A run that was started reaches the audit log and the history although its
\* client may be gone before, during or after it (GHSA-wxqx-r7f6-qq3p).
Logged(log, r) == \E i \in DOMAIN log : log[i][1] = r

RunsRecorded ==
  \A r \in Requests :
    task[r].stage = "running" ~> Logged(audit, r) /\ Logged(history, r)
=============================================================================
