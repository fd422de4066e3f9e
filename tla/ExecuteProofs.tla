--------------------------- MODULE ExecuteProofs ---------------------------
(***************************************************************************)
(* What holds of POST /execute for every number of requests, tenants and   *)
(* permits, and whatever fails or disconnects: a tenant runs one pipeline  *)
(* at a time, permits balance, and every run is accounted for.             *)
(***************************************************************************)
EXTENDS Execute, FiniteSetTheorems, SequenceTheorems, TLAPS

-----------------------------------------------------------------------------
(* The inductive invariant.                                                *)

\* The handler and its task go through their stages together, and a run has
\* an outcome once its runner has ended.
StagesMatch ==
  \A r \in Requests :
    /\ task[r].stage = "none" => handler[r] # "awaiting"
    /\ task[r].stage # "none" => handler[r] \in {"awaiting", "done"}
    /\ task[r].stage \in {"none", "running"} => task[r].outcome = None
    /\ task[r].stage \notin {"none", "running"} => task[r].outcome \in {"success", "failed"}

\* A request owns an Arc or guard of a tenant lock from its arrival to its
\* return, or to the end of its task.
AtLock(r) ==
  handler[r] \in {"arrived", "queued", "admitted", "gated", "reserved"} \/ TaskAlive(r)
LocksOwned == \A r \in Requests : lock[r] # None <=> AtLock(r)

\* The map names the one lock that the requests of a tenant own, and a lock is
\* named after an earlier request of the tenant.
LocksMapped ==
  /\ \A r \in Requests : lock[r] # None => lockMap[TenantOf[r]] = lock[r]
  /\ \A t \in Tenants : lockMap[t] # None => /\ TenantOf[lockMap[t]] = t
                                             /\ handler[lockMap[t]] # "idle"

\* In a lock's queue are those who own it and have asked for it, once each.
Members(q) == {q[i] : i \in 1..Len(q)}
Distinct(q) == \A i, j \in 1..Len(q) : q[i] = q[j] => i = j
QueuesExact ==
  \A l \in Requests :
    /\ Members(queue[l]) = {r \in Requests : lock[r] = l /\ handler[r] # "arrived"}
    /\ Distinct(queue[l])

\* Whoever has a slot is at the head.
SlotsAtHead == \A r \in Requests : HasSlot(r) => OwnsLock(r)

LockInv == StagesMatch /\ LocksOwned /\ LocksMapped /\ QueuesExact /\ SlotsAtHead

\* The permits that are out are those of the slots.
Slots == {r \in Requests : HasSlot(r)}
SlotsCounted == IsFiniteSet(Slots) /\ PermitsBalance

\* A reservation belongs to a run that has not settled, or could not.
ReservationInv ==
  \A t \in Tenants : reservation[t] \in Requests =>
    /\ TenantOf[reservation[t]] = t
    /\ \/ handler[reservation[t]] = "reserved"
       \/ task[reservation[t]].stage \in {"running", "exited"}
       \/ "settle" \in warned[reservation[t]]

\* What each stage has written: the audit record comes with "audited", the
\* history row with "recorded", and a call that failed is not repeated.
Unwritten(log, r, call) == Entries(log, r) = {} /\ call \notin warned[r]
LogsOf(r) ==
  /\ task[r].stage = "none" =>
       /\ \A i, j \in Entries(audit, r) : i = j /\ audit[i][2] = "blocked"
       /\ handler[r] # "done" => Unwritten(audit, r, "audit")
  /\ task[r].stage \in {"running", "exited", "settled"} => Unwritten(audit, r, "audit")
  /\ task[r].stage \in {"audited", "recorded", "ended"} => Complete(audit, r, "audit")
  /\ task[r].stage \notin {"recorded", "ended"} => Unwritten(history, r, "record")
  /\ task[r].stage \in {"recorded", "ended"} => Complete(history, r, "record")
LogsMatch == \A r \in Requests : LogsOf(r)

\* A run that has its audit record and no history row yet was audited last of
\* its tenant.
AuditedLast ==
  \A r, q \in Requests :
    task[r].stage = "audited" /\ TenantOf[r] = TenantOf[q] =>
      \A i \in Entries(audit, r), j \in Entries(audit, q) : j <= i

LogInv == LogsMatch /\ AuditedLast /\ SameOrder

IInv == TypeOK /\ LockInv /\ SlotsCounted /\ ReservationInv /\ LogInv

-----------------------------------------------------------------------------
(* Queues. *)

LEMMA AppendMembers ==
  ASSUME NEW S, NEW q \in Seq(S), NEW r \in S, Distinct(q), r \notin Members(q)
  PROVE  /\ Append(q, r) \in Seq(S)
         /\ Members(Append(q, r)) = Members(q) \cup {r}
         /\ Distinct(Append(q, r))
         /\ Append(q, r) # <<>>
         /\ q # <<>> => Head(Append(q, r)) = Head(q)
BY DEF Members, Distinct

LEMMA WithoutMembers ==
  ASSUME NEW S, NEW q \in Seq(S), NEW r \in S, Distinct(q), r \in Members(q)
  PROVE  /\ Without(q, r) \in Seq(S)
         /\ Members(Without(q, r)) = Members(q) \ {r}
         /\ Distinct(Without(q, r))
         /\ \A h \in S : q # <<>> /\ Head(q) = h /\ h # r =>
              Without(q, r) # <<>> /\ Head(Without(q, r)) = h
<1> DEFINE p == CHOOSE i \in DOMAIN q : q[i] = r
           w == Without(q, r)
           front == SubSeq(q, 1, p - 1)
           back == SubSeq(q, p + 1, Len(q))
<1>1. p \in 1..Len(q) /\ q[p] = r
  BY DEF Members
<1>a. w = front \o back
  BY DEF Without, RemoveAt
<1> HIDE DEF p, w
<1>b. /\ front \in Seq(S) /\ Len(front) = p - 1 /\ \A i \in 1..p - 1 : front[i] = q[i]
      /\ back \in Seq(S) /\ Len(back) = Len(q) - p
      /\ \A i \in 1..Len(q) - p : back[i] = q[i + p]
  BY <1>1
<1> HIDE DEF front, back
<1>2. /\ w \in Seq(S) /\ Len(w) = Len(q) - 1
      /\ \A i \in 1..Len(w) : w[i] = IF i < p THEN q[i] ELSE q[i + 1]
  <2>1. /\ w \in Seq(S) /\ Len(w) = Len(front) + Len(back)
        /\ \A i \in 1..Len(front) + Len(back) :
             w[i] = IF i <= Len(front) THEN front[i] ELSE back[i - Len(front)]
    BY <1>a, <1>b, ConcatProperties
  <2>2. Len(w) = Len(q) - 1
    BY <1>1, <1>b, <2>1
  <2>3. ASSUME NEW i \in 1..Len(w)
        PROVE  w[i] = IF i < p THEN q[i] ELSE q[i + 1]
    <3>1. i \in 1..Len(front) + Len(back) /\ p \in Nat /\ Len(front) = p - 1
      BY <1>1, <1>b, <2>1
    <3>2. CASE i < p
      BY <1>b, <2>1, <3>1, <3>2
    <3>3. CASE ~(i < p)
      <4>1. i - Len(front) \in 1..Len(q) - p /\ (i - Len(front)) + p = i + 1
        BY <1>1, <1>b, <3>1, <3>3
      <4>2. w[i] = back[i - Len(front)] /\ back[i - Len(front)] = q[i + 1]
        BY <1>b, <2>1, <3>1, <3>3, <4>1
      <4>3. QED
        BY <3>3, <4>2
    <3>4. QED
      BY <3>2, <3>3
  <2>4. QED
    BY <2>1, <2>2, <2>3
<1>3. Distinct(w)
  BY <1>1, <1>2 DEF Distinct
<1>4. Members(w) \subseteq Members(q) \ {r}
  BY <1>1, <1>2 DEF Distinct, Members
<1>5. ASSUME NEW x \in Members(q) \ {r}
      PROVE  x \in Members(w)
  <2>1. PICK i \in 1..Len(q) : q[i] = x
    BY <1>5 DEF Members
  <2>2. CASE i < p
    BY <2>1, <2>2, <1>1, <1>2 DEF Members
  <2>3. CASE i > p
    <3>1. i - 1 \in 1..Len(w) /\ w[i - 1] = x
      BY <2>1, <2>3, <1>1, <1>2
    <3>2. QED
      BY <3>1 DEF Members
  <2>4. QED
    BY <1>1, <2>1, <2>2, <2>3
<1>6. ASSUME NEW h \in S, q # <<>>, Head(q) = h, h # r
      PROVE  w # <<>> /\ Head(w) = h
  BY <1>1, <1>2, <1>6
<1>7. QED
  BY <1>2, <1>3, <1>4, <1>5, <1>6 DEF w

-----------------------------------------------------------------------------
(* Tenant locks. *)

LEMMA StagesStep ==
  ASSUME TypeOK, LockInv, [Next]_vars
  PROVE  StagesMatch'
<1> USE DEF TypeOK, LockInv, StagesMatch, HandlerStages, TaskStages, locks, logs
<1>1. CASE UNCHANGED vars
  BY <1>1 DEF vars
<1>2. ASSUME NEW t \in Tenants, OtherReserves(t) \/ OtherSettles(t) \/ Expire(t)
      PROVE  StagesMatch'
  BY <1>2 DEF OtherReserves, OtherSettles, Expire
<1>3. ASSUME NEW r \in Requests, HandlerStep(r)
      PROVE  StagesMatch'
  <2>1. CASE Arrive(r) \/ Enqueue(r) \/ Admit(r)
    BY <2>1 DEF Arrive, Enqueue, Admit, Goto
  <2>2. CASE Pass(r)
    BY <2>2 DEF Pass, Goto
  <2>3. CASE Reserve(r)
    BY <2>3 DEF Reserve, Goto
  <2>4. CASE AtCapacity(r) \/ Reject(r) \/ ReserveRefused(r) \/ StoreFails(r) \/ SetupFails(r)
    BY <2>4 DEF AtCapacity, Reject, ReserveRefused, StoreFails, SetupFails, ReturnEarly, Goto
  <2>5. CASE Spawn(r)
    BY <2>5 DEF Spawn, Goto
  <2>6. CASE Respond(r)
    BY <2>6 DEF Respond, Goto
  <2>7. QED
    BY <1>3, <2>1, <2>2, <2>3, <2>4, <2>5, <2>6 DEF HandlerStep
<1>4. ASSUME NEW r \in Requests, TaskStep(r)
      PROVE  StagesMatch'
  <2>1. CASE RunnerExits(r)
    BY <2>1 DEF RunnerExits
  <2>2. CASE Settle(r) \/ AppendAudit(r) \/ RecordRun(r) \/ Finish(r)
    <3>1. /\ handler' = handler /\ task[r].stage \in {"exited", "settled", "audited", "recorded"}
          /\ \E to \in {"settled", "audited", "recorded", "ended"} :
               task' = [task EXCEPT ![r].stage = to]
      BY <2>2 DEF Settle, AppendAudit, RecordRun, Finish, TaskGoto
    <3>2. QED
      BY <3>1
  <2>3. QED
    BY <1>4, <2>1, <2>2 DEF TaskStep
<1>5. ASSUME NEW r \in Requests, Disconnect(r) \/ DropHandler(r)
      PROVE  StagesMatch'
  BY <1>5 DEF Disconnect, DropHandler, Goto
<1>6. QED
  BY <1>1, <1>2, <1>3, <1>4, <1>5 DEF Next

\* A step that leaves the locks alone and brings no request to or from one.
LEMMA LocksKept ==
  ASSUME TypeOK, LockInv, UNCHANGED locks,
         \A q \in Requests :
           /\ AtLock(q)' <=> AtLock(q)
           /\ HasSlot(q)' => HasSlot(q) \/ OwnsLock(q)
           /\ handler'[q] = "arrived" <=> handler[q] = "arrived"
           /\ handler'[q] = "idle" => handler[q] = "idle"
  PROVE  LocksOwned' /\ LocksMapped' /\ QueuesExact' /\ SlotsAtHead'
<1> USE DEF locks, LockInv
<1>1. LocksOwned'
  BY DEF LocksOwned
<1>2. LocksMapped'
  BY DEF TypeOK, LocksMapped
<1>3. QueuesExact'
  BY DEF QueuesExact
<1>4. SlotsAtHead'
  BY DEF SlotsAtHead, OwnsLock
<1>5. QED
  BY <1>1, <1>2, <1>3, <1>4

\* A request leaves its lock for good: the next in the queue, if it was the
\* head, or else the same one, owns the lock.
LEMMA LockLeft ==
  ASSUME TypeOK, LockInv, NEW r \in Requests, LeaveLock(r),
         lock[r] # None, handler[r] # "arrived",
         ~ AtLock(r)', handler'[r] # "idle",
         \A q \in Requests \ {r} : handler'[q] = handler[q] /\ task'[q] = task[q]
  PROVE  LocksOwned' /\ LocksMapped' /\ QueuesExact' /\ SlotsAtHead'
<1> USE DEF LockInv
<1>1. /\ lock[r] \in Requests /\ lockMap' = lockMap
      /\ lock' = [lock EXCEPT ![r] = None]
      /\ queue' = [queue EXCEPT ![lock[r]] = Without(@, r)]
  BY DEF TypeOK, LeaveLock
<1>2. \A q \in Requests \ {r} : /\ lock'[q] = lock[q]
                                /\ AtLock(q)' <=> AtLock(q)
                                /\ HasSlot(q)' <=> HasSlot(q)
  BY <1>1 DEF TypeOK, AtLock, HasSlot, TaskAlive
<1>3. lock'[r] = None /\ ~ HasSlot(r)'
  BY <1>1 DEF TypeOK, AtLock, HasSlot
<1>4. LocksOwned'
  BY <1>2, <1>3 DEF LocksOwned
<1>5. LocksMapped'
  BY <1>1, <1>2, <1>3, ExecuteAssumption DEF TypeOK, LocksMapped
<1> DEFINE l == lock[r]
<1>6. /\ queue[l] \in Seq(Requests) /\ r \in Members(queue[l]) /\ Distinct(queue[l])
      /\ Members(queue[l]) = {q \in Requests : lock[q] = l /\ handler[q] # "arrived"}
  BY <1>1 DEF TypeOK, QueuesExact
<1>7. /\ Members(Without(queue[l], r)) = Members(queue[l]) \ {r}
      /\ Distinct(Without(queue[l], r))
      /\ \A h \in Requests : queue[l] # <<>> /\ Head(queue[l]) = h /\ h # r =>
           Without(queue[l], r) # <<>> /\ Head(Without(queue[l], r)) = h
  BY <1>6, WithoutMembers
<1>8. queue'[l] = Without(queue[l], r) /\ \A k \in Requests \ {l} : queue'[k] = queue[k]
  BY <1>1 DEF TypeOK
<1>9. QueuesExact'
  <2>1. ASSUME NEW k \in Requests
        PROVE  /\ Members(queue'[k]) = {q \in Requests : lock'[q] = k /\ handler'[q] # "arrived"}
               /\ Distinct(queue'[k])
    <3>1. CASE k = l
      <4>1. {q \in Requests : lock'[q] = l /\ handler'[q] # "arrived"}
            = {q \in Requests : lock[q] = l /\ handler[q] # "arrived"} \ {r}
        BY <1>1, <1>2, <1>3, ExecuteAssumption
      <4>2. QED
        BY <3>1, <4>1, <1>6, <1>7, <1>8
    <3>2. CASE k # l
      <4>1. {q \in Requests : lock'[q] = k /\ handler'[q] # "arrived"}
            = {q \in Requests : lock[q] = k /\ handler[q] # "arrived"}
        BY <1>1, <1>2, <1>3, <3>2, ExecuteAssumption
      <4>2. QED
        BY <3>2, <4>1, <1>8 DEF QueuesExact
    <3>3. QED
      BY <3>1, <3>2
  <2>2. QED
    BY <2>1 DEF QueuesExact, Members, Distinct
<1>10. SlotsAtHead'
  <2>1. SUFFICES ASSUME NEW q \in Requests, HasSlot(q)'
                 PROVE  OwnsLock(q)'
    BY DEF SlotsAtHead
  <2>2. q # r /\ lock'[q] = lock[q] /\ OwnsLock(q)
    BY <1>2, <1>3, <2>1 DEF SlotsAtHead
  <2>3. lock[q] \in Requests
    BY <2>2 DEF TypeOK, OwnsLock
  <2>4. CASE lock[q] = l
    BY <2>2, <2>4, <1>7, <1>8 DEF OwnsLock
  <2>5. CASE lock[q] # l
    BY <2>2, <2>3, <2>5, <1>8 DEF OwnsLock
  <2>6. QED
    BY <2>4, <2>5
<1>11. QED
  BY <1>4, <1>5, <1>9, <1>10

\* A request comes to its tenant's lock: the one that is alive, or its own.
LEMMA LockReached ==
  ASSUME TypeOK, LockInv, NEW r \in Requests, Arrive(r)
  PROVE  LocksOwned' /\ LocksMapped' /\ QueuesExact' /\ SlotsAtHead'
<1> USE DEF LockInv
<1> DEFINE m == lockMap[TenantOf[r]]
<1>1. /\ TenantOf[r] \in Tenants /\ handler[r] = "idle" /\ handler'[r] = "arrived"
      /\ lock'[r] = LockFor(r) /\ lockMap' = MapWithLock(r)
      /\ queue' = queue /\ task' = task
      /\ \A q \in Requests \ {r} : handler'[q] = handler[q] /\ lock'[q] = lock[q]
  BY ExecuteAssumption DEF TypeOK, Arrive, Goto
<1>2. lock[r] = None /\ task[r].stage = "none" /\ ~ HasSlot(r)' /\ AtLock(r)'
  BY <1>1 DEF TypeOK, StagesMatch, TaskStages, LocksOwned, AtLock, HasSlot, TaskAlive
<1>3. \A q \in Requests \ {r} : /\ AtLock(q)' <=> AtLock(q)
                                /\ HasSlot(q)' <=> HasSlot(q)
  BY <1>1 DEF AtLock, HasSlot, TaskAlive
<1>4. LockFor(r) \in Requests /\ LockFor(r) # None
  BY <1>1, ExecuteAssumption DEF TypeOK, LockFor, Alive
<1>5. LocksOwned'
  BY <1>1, <1>2, <1>3, <1>4 DEF LocksOwned
<1>6. LocksMapped'
  <2>1. CASE Alive(m)
    <3>1. lockMap' = lockMap /\ lock'[r] = m
      BY <1>1, <2>1 DEF MapWithLock, LockFor
    <3>2. \A q \in Requests : lock'[q] # None => lockMap'[TenantOf[q]] = lock'[q]
      BY <1>1, <3>1 DEF LocksMapped
    <3>3. \A t \in Tenants : lockMap[t] # None =>
            lockMap[t] \in Requests \ {r} /\ TenantOf[lockMap[t]] = t
                                        /\ handler[lockMap[t]] # "idle"
      BY <1>1 DEF TypeOK, LocksMapped
    <3>4. QED
      BY <1>1, <3>1, <3>2, <3>3 DEF LocksMapped
  <2>2. CASE ~ Alive(m)
    <3>1. /\ lockMap' = [t \in Tenants |-> IF t = TenantOf[r] THEN r
                                         ELSE IF Alive(lockMap[t]) THEN lockMap[t] ELSE None]
          /\ lock'[r] = r
      BY <1>1, <2>2 DEF MapWithLock, LockFor
    <3>2. ASSUME NEW q \in Requests, lock'[q] # None
          PROVE  lockMap'[TenantOf[q]] = lock'[q]
      <4>1. CASE q = r
        BY <1>1, <3>1, <4>1
      <4>2. CASE q # r
        <5>1. /\ lock'[q] = lock[q] /\ lockMap[TenantOf[q]] = lock[q]
              /\ TenantOf[q] \in Tenants
          BY <1>1, <3>2, <4>2, ExecuteAssumption DEF LocksMapped
        <5>2. Alive(lockMap[TenantOf[q]])
          BY <3>2, <5>1 DEF Alive
        <5>3. QED
          BY <2>2, <3>1, <5>1, <5>2
      <4>3. QED
        BY <4>1, <4>2
    <3>3. ASSUME NEW t \in Tenants, lockMap'[t] # None
          PROVE  TenantOf[lockMap'[t]] = t /\ handler'[lockMap'[t]] # "idle"
      <4>1. CASE t = TenantOf[r]
        BY <1>1, <3>1, <4>1
      <4>2. CASE t # TenantOf[r]
        BY <1>1, <3>1, <3>3, <4>2 DEF TypeOK, LocksMapped
      <4>3. QED
        BY <4>1, <4>2
    <3>4. QED
      BY <3>2, <3>3 DEF LocksMapped
  <2>3. QED
    BY <2>1, <2>2
<1>7. QueuesExact'
  <2>1. ASSUME NEW l \in Requests
        PROVE  {q \in Requests : lock'[q] = l /\ handler'[q] # "arrived"}
               = {q \in Requests : lock[q] = l /\ handler[q] # "arrived"}
    BY <1>1, <1>2, ExecuteAssumption
  <2>2. QED
    BY <2>1, <1>1 DEF QueuesExact, Members, Distinct
<1>8. SlotsAtHead'
  BY <1>1, <1>2, <1>3 DEF SlotsAtHead, OwnsLock
<1>9. QED
  BY <1>5, <1>6, <1>7, <1>8

LEMMA LockQueued ==
  ASSUME TypeOK, LockInv, NEW r \in Requests, Enqueue(r)
  PROVE  LocksOwned' /\ LocksMapped' /\ QueuesExact' /\ SlotsAtHead'
<1> USE DEF LockInv
<1> DEFINE l == lock[r]
<1>1. /\ handler[r] = "arrived" /\ handler'[r] = "queued"
      /\ queue' = [queue EXCEPT ![lock[r]] = Append(@, r)]
      /\ lock' = lock /\ lockMap' = lockMap /\ task' = task
      /\ \A q \in Requests \ {r} : handler'[q] = handler[q]
  BY DEF TypeOK, Enqueue, Goto
<1>2. \A q \in Requests : /\ AtLock(q)' <=> AtLock(q)
                          /\ HasSlot(q)' <=> HasSlot(q)
  BY <1>1 DEF AtLock, HasSlot, TaskAlive
<1>3. lock[r] # None /\ l \in Requests
  BY <1>1 DEF TypeOK, LocksOwned, AtLock
<1>4. LocksOwned'
  BY <1>1, <1>2 DEF LocksOwned
<1>5. LocksMapped'
  BY <1>1 DEF TypeOK, LocksMapped
<1>6. /\ queue[l] \in Seq(Requests) /\ r \notin Members(queue[l]) /\ Distinct(queue[l])
      /\ Members(queue[l]) = {q \in Requests : lock[q] = l /\ handler[q] # "arrived"}
  BY <1>1, <1>3 DEF TypeOK, QueuesExact
<1>7. /\ Members(Append(queue[l], r)) = Members(queue[l]) \cup {r}
      /\ Distinct(Append(queue[l], r)) /\ Append(queue[l], r) # <<>>
      /\ queue[l] # <<>> => Head(Append(queue[l], r)) = Head(queue[l])
  BY <1>6, AppendMembers
<1>8. queue'[l] = Append(queue[l], r) /\ \A k \in Requests \ {l} : queue'[k] = queue[k]
  BY <1>1, <1>3 DEF TypeOK
<1>9. QueuesExact'
  <2>1. ASSUME NEW k \in Requests
        PROVE  /\ Members(queue'[k]) = {q \in Requests : lock'[q] = k /\ handler'[q] # "arrived"}
               /\ Distinct(queue'[k])
    <3>1. CASE k = l
      <4>1. {q \in Requests : lock'[q] = l /\ handler'[q] # "arrived"}
            = {q \in Requests : lock[q] = l /\ handler[q] # "arrived"} \cup {r}
        BY <1>1
      <4>2. QED
        BY <3>1, <4>1, <1>6, <1>7, <1>8
    <3>2. CASE k # l
      <4>1. {q \in Requests : lock'[q] = k /\ handler'[q] # "arrived"}
            = {q \in Requests : lock[q] = k /\ handler[q] # "arrived"}
        BY <1>1, <3>2
      <4>2. QED
        BY <3>2, <4>1, <1>8 DEF QueuesExact
    <3>3. QED
      BY <3>1, <3>2
  <2>2. QED
    BY <2>1 DEF QueuesExact, Members, Distinct
<1>10. SlotsAtHead'
  <2>1. SUFFICES ASSUME NEW q \in Requests, HasSlot(q)
                 PROVE  OwnsLock(q)'
    BY <1>2 DEF SlotsAtHead
  <2>2. OwnsLock(q) /\ lock[q] \in Requests
    BY <2>1 DEF SlotsAtHead, OwnsLock, TypeOK
  <2>3. QED
    BY <2>2, <1>1, <1>7, <1>8 DEF OwnsLock
<1>11. QED
  BY <1>4, <1>5, <1>9, <1>10

\* Every step keeps a tenant's requests on one lock, and its owner at the head.
LEMMA LockStep ==
  ASSUME TypeOK, LockInv, [Next]_vars
  PROVE  LockInv'
<1>1. StagesMatch'
  BY StagesStep
<1>2. LocksOwned' /\ LocksMapped' /\ QueuesExact' /\ SlotsAtHead'
  <2> USE DEF locks, AtLock, HasSlot, TaskAlive
  <2>1. CASE UNCHANGED vars
    BY <2>1, LocksKept DEF vars
  <2>2. ASSUME NEW t \in Tenants, OtherReserves(t) \/ OtherSettles(t) \/ Expire(t)
        PROVE  LocksOwned' /\ LocksMapped' /\ QueuesExact' /\ SlotsAtHead'
    BY <2>2, LocksKept DEF OtherReserves, OtherSettles, Expire
  <2>3. ASSUME NEW r \in Requests, HandlerStep(r)
        PROVE  LocksOwned' /\ LocksMapped' /\ QueuesExact' /\ SlotsAtHead'
    <3>1. CASE Arrive(r)
      BY <3>1, LockReached
    <3>2. CASE Enqueue(r)
      BY <3>2, LockQueued
    <3>3. CASE Admit(r) \/ Pass(r) \/ Reserve(r)
      BY <3>3, LocksKept DEF TypeOK, Admit, Pass, Reserve, Goto
    <3>4. CASE Spawn(r)
      BY <3>4, LocksKept DEF TypeOK, LockInv, StagesMatch, Spawn, Goto
    <3>5. CASE Respond(r)
      BY <3>5, LocksKept DEF TypeOK, Respond, Goto
    <3>6. CASE AtCapacity(r) \/ Reject(r) \/ ReserveRefused(r) \/ StoreFails(r) \/ SetupFails(r)
      <4>1. /\ LeaveLock(r) /\ task' = task
            /\ handler[r] \in {"queued", "admitted", "gated", "reserved"}
            /\ handler' = [handler EXCEPT ![r] = "done"]
        BY <3>6 DEF AtCapacity, Reject, ReserveRefused, StoreFails, SetupFails,
                    ReturnEarly, ReleaseSlot, Goto
      <4>2. /\ lock[r] # None /\ task[r].stage = "none"
        BY <4>1 DEF TypeOK, TaskStages, LockInv, LocksOwned, StagesMatch
      <4>3. QED
        BY <4>1, <4>2, LockLeft DEF TypeOK
    <3>7. QED
      BY <2>3, <3>1, <3>2, <3>3, <3>4, <3>5, <3>6 DEF HandlerStep
  <2>4. ASSUME NEW r \in Requests, TaskStep(r)
        PROVE  LocksOwned' /\ LocksMapped' /\ QueuesExact' /\ SlotsAtHead'
    <3>1. CASE RunnerExits(r)
      BY <3>1, LocksKept DEF TypeOK, RunnerExits
    <3>2. CASE Settle(r) \/ AppendAudit(r) \/ RecordRun(r)
      <4>1. /\ handler' = handler /\ UNCHANGED locks
            /\ task[r].stage \in {"exited", "settled", "audited"}
            /\ \E to \in {"settled", "audited", "recorded"} :
                 task' = [task EXCEPT ![r].stage = to]
        BY <3>2 DEF Settle, AppendAudit, RecordRun, TaskGoto
      <4>2. QED
        BY <4>1, LocksKept DEF TypeOK
    <3>3. CASE Finish(r)
      <4>1. /\ LeaveLock(r) /\ handler' = handler /\ task[r].stage = "recorded"
            /\ task' = [task EXCEPT ![r].stage = "ended"]
        BY <3>3 DEF Finish, TaskGoto, ReleaseSlot
      <4>2. lock[r] # None /\ handler[r] \in {"awaiting", "done"}
        BY <4>1 DEF LockInv, LocksOwned, StagesMatch
      <4>3. QED
        BY <4>1, <4>2, LockLeft DEF TypeOK
    <3>4. QED
      BY <2>4, <3>1, <3>2, <3>3 DEF TaskStep
  <2>5. ASSUME NEW r \in Requests, Disconnect(r) \/ DropHandler(r)
        PROVE  LocksOwned' /\ LocksMapped' /\ QueuesExact' /\ SlotsAtHead'
    <3>1. CASE Disconnect(r)
      BY <3>1, LocksKept DEF Disconnect
    <3>2. CASE handler[r] = "awaiting" /\ DropHandler(r)
      BY <3>2, LocksKept DEF TypeOK, DropHandler, Goto
    <3>3. CASE handler[r] = "queued" /\ DropHandler(r)
      <4>1. LeaveLock(r) /\ task' = task /\ handler' = [handler EXCEPT ![r] = "done"]
        BY <3>3 DEF DropHandler, Goto
      <4>2. lock[r] # None /\ task[r].stage = "none"
        BY <3>3 DEF TypeOK, TaskStages, LockInv, LocksOwned, StagesMatch
      <4>3. QED
        BY <3>3, <4>1, <4>2, LockLeft DEF TypeOK
    <3>4. QED
      BY <2>5, <3>1, <3>2, <3>3 DEF DropHandler
  <2>6. QED
    BY <2>1, <2>2, <2>3, <2>4, <2>5 DEF Next
<1>3. QED
  BY <1>1, <1>2 DEF LockInv

-----------------------------------------------------------------------------
(* Permits. *)

LEMMA SlotTaken ==
  ASSUME TypeOK, SlotsCounted, NEW r \in Requests, ~ HasSlot(r),
         Slots' = Slots \cup {r}, permits > 0, permits' = permits - 1
  PROVE  SlotsCounted'
<1>1. IsFiniteSet(Slots) /\ permits + Cardinality(Slots) = MaxRuns /\ r \notin Slots
  BY DEF SlotsCounted, PermitsBalance, Slots
<1>2. /\ IsFiniteSet(Slots') /\ Cardinality(Slots') = Cardinality(Slots) + 1
      /\ Cardinality(Slots) \in Nat
  BY <1>1, FS_AddElement, FS_CardinalityType
<1>3. permits' + Cardinality(Slots') = MaxRuns
  BY <1>1, <1>2, ExecuteAssumption DEF TypeOK
<1>4. QED
  BY <1>2, <1>3 DEF SlotsCounted, PermitsBalance, Slots

LEMMA SlotFreed ==
  ASSUME TypeOK, SlotsCounted, NEW r \in Requests, HasSlot(r),
         Slots' = Slots \ {r}, permits' = permits + 1
  PROVE  SlotsCounted'
<1>1. IsFiniteSet(Slots) /\ permits + Cardinality(Slots) = MaxRuns /\ r \in Slots
  BY DEF SlotsCounted, PermitsBalance, Slots
<1>2. /\ IsFiniteSet(Slots') /\ Cardinality(Slots') = Cardinality(Slots) - 1
      /\ Cardinality(Slots) \in Nat
  BY <1>1, FS_RemoveElement, FS_CardinalityType
<1>3. permits' + Cardinality(Slots') = MaxRuns
  BY <1>1, <1>2, ExecuteAssumption DEF TypeOK
<1>4. QED
  BY <1>2, <1>3 DEF SlotsCounted, PermitsBalance, Slots

LEMMA SlotsStep ==
  ASSUME TypeOK, LockInv, SlotsCounted, [Next]_vars
  PROVE  SlotsCounted'
<1> USE DEF HasSlot, TaskAlive
<1>1. ASSUME UNCHANGED permits, \A q \in Requests : HasSlot(q)' <=> HasSlot(q)
      PROVE  SlotsCounted'
  <2>1. Slots' = Slots
    BY <1>1 DEF Slots
  <2>2. QED
    BY <2>1, <1>1 DEF SlotsCounted, PermitsBalance, Slots
<1>2. CASE UNCHANGED vars
  BY <1>1, <1>2 DEF vars
<1>3. ASSUME NEW t \in Tenants, OtherReserves(t) \/ OtherSettles(t) \/ Expire(t)
      PROVE  SlotsCounted'
  BY <1>1, <1>3 DEF OtherReserves, OtherSettles, Expire
<1>4. ASSUME NEW r \in Requests, HandlerStep(r)
      PROVE  SlotsCounted'
  <2>1. CASE Arrive(r) \/ Enqueue(r) \/ Pass(r) \/ Reserve(r) \/ Respond(r) \/ AtCapacity(r)
    BY <2>1, <1>1 DEF TypeOK, Arrive, Enqueue, Pass, Reserve, Respond, AtCapacity, Goto
  <2>2. CASE Spawn(r)
    BY <2>2, <1>1 DEF TypeOK, Spawn, Goto
  <2>3. CASE Admit(r)
    <3>1. /\ handler[r] = "queued" /\ handler' = [handler EXCEPT ![r] = "admitted"]
          /\ task' = task /\ permits > 0 /\ permits' = permits - 1
      BY <2>3 DEF Admit, Goto
    <3>2. ~ HasSlot(r)
      BY <3>1 DEF TypeOK, TaskStages, LockInv, StagesMatch
    <3>3. Slots' = Slots \cup {r}
      BY <3>1 DEF TypeOK, Slots
    <3>4. QED
      BY <3>1, <3>2, <3>3, SlotTaken
  <2>4. CASE Reject(r) \/ ReserveRefused(r) \/ StoreFails(r) \/ SetupFails(r)
    <3>1. /\ handler[r] \in {"admitted", "gated", "reserved"}
          /\ handler' = [handler EXCEPT ![r] = "done"]
          /\ task' = task /\ permits' = permits + 1
      BY <2>4 DEF Reject, ReserveRefused, StoreFails, SetupFails, ReturnEarly, ReleaseSlot
    <3>2. task[r].stage = "none"
      BY <3>1 DEF TypeOK, TaskStages, LockInv, StagesMatch
    <3>3. HasSlot(r) /\ Slots' = Slots \ {r}
      BY <3>1, <3>2 DEF TypeOK, Slots
    <3>4. QED
      BY <3>1, <3>3, SlotFreed
  <2>5. QED
    BY <1>4, <2>1, <2>2, <2>3, <2>4 DEF HandlerStep
<1>5. ASSUME NEW r \in Requests, TaskStep(r)
      PROVE  SlotsCounted'
  <2>1. CASE RunnerExits(r)
    BY <2>1, <1>1 DEF TypeOK, RunnerExits
  <2>2. CASE Settle(r) \/ AppendAudit(r) \/ RecordRun(r)
    <3>1. /\ handler' = handler /\ permits' = permits
          /\ task[r].stage \in {"exited", "settled", "audited"}
          /\ \E to \in {"settled", "audited", "recorded"} :
               task' = [task EXCEPT ![r].stage = to]
      BY <2>2 DEF Settle, AppendAudit, RecordRun, TaskGoto
    <3>2. QED
      BY <3>1, <1>1 DEF TypeOK
  <2>3. CASE Finish(r)
    <3>1. /\ handler' = handler /\ permits' = permits + 1 /\ task[r].stage = "recorded"
          /\ task' = [task EXCEPT ![r].stage = "ended"]
      BY <2>3 DEF Finish, TaskGoto, ReleaseSlot
    <3>2. handler[r] \in {"awaiting", "done"}
      BY <3>1 DEF LockInv, StagesMatch
    <3>3. HasSlot(r) /\ Slots' = Slots \ {r}
      BY <3>1, <3>2 DEF TypeOK, Slots
    <3>4. QED
      BY <3>1, <3>3, SlotFreed
  <2>4. QED
    BY <1>5, <2>1, <2>2, <2>3 DEF TaskStep
<1>6. ASSUME NEW r \in Requests, Disconnect(r) \/ DropHandler(r)
      PROVE  SlotsCounted'
  BY <1>1, <1>6 DEF TypeOK, Disconnect, DropHandler, Goto
<1>7. QED
  BY <1>2, <1>3, <1>4, <1>5, <1>6 DEF Next

-----------------------------------------------------------------------------
(* Types and reservations. *)

\* The permits stay within their limit because slots and permits balance, and a
\* request leaves no lock but its own.
LEMMA TypeStep ==
  ASSUME TypeOK, LockInv, SlotsCounted, SlotsCounted', [Next]_vars
  PROVE  TypeOK'
<1> USE ExecuteAssumption DEF TypeOK, locks, logs
<1>0. ASSUME NEW log \in Seq(Requests \X Outcomes), NEW r \in Requests, NEW o \in Outcomes
      PROVE  Append(log, <<r, o>>) \in Seq(Requests \X Outcomes)
  BY AppendProperties
<1>1. ASSUME permits' \in Nat
      PROVE  permits' \in 0..MaxRuns
  <2>1. permits' + Cardinality(Slots') = MaxRuns /\ Cardinality(Slots') \in Nat
    BY FS_CardinalityType DEF SlotsCounted, PermitsBalance, Slots
  <2>2. QED
    BY <1>1, <2>1
<1>2. ASSUME NEW r \in Requests, LeaveLock(r), lock[r] # None, handler[r] # "arrived"
      PROVE  /\ lockMap' \in [Tenants -> Requests \cup {None}]
             /\ lock' \in [Requests -> Requests \cup {None}]
             /\ queue' \in [Requests -> Seq(Requests)]
  <2>1. /\ lock[r] \in Requests /\ queue[lock[r]] \in Seq(Requests)
        /\ r \in Members(queue[lock[r]]) /\ Distinct(queue[lock[r]])
    BY <1>2 DEF LockInv, QueuesExact
  <2>2. Without(queue[lock[r]], r) \in Seq(Requests)
    BY <2>1, WithoutMembers
  <2>3. QED
    BY <1>2, <2>1, <2>2 DEF LeaveLock
<1>3. ASSUME NEW r \in Requests, NEW call \in {"settle", "audit", "record"}, Fails(r, call)
      PROVE  warned' \in [Requests -> SUBSET {"settle", "audit", "record"}]
  BY <1>3 DEF Fails
<1>4. ASSUME NEW r \in Requests, Settling(r)
      PROVE  /\ reservation' \in [Tenants -> Requests \cup {Other, None}]
             /\ warned' \in [Requests -> SUBSET {"settle", "audit", "record"}]
  BY <1>3, <1>4 DEF Settling
<1>5. ASSUME NEW r \in Requests, NEW answer \in Answers, Reply(r, answer)
      PROVE  client' \in [Requests -> {"waiting", "gone"} \cup Answers]
  BY <1>5 DEF Reply, Answers
<1>6. ASSUME NEW r \in Requests, NEW stage \in HandlerStages, Goto(r, stage)
      PROVE  handler' \in [Requests -> HandlerStages]
  BY <1>6 DEF Goto
<1>7. CASE UNCHANGED vars
  BY <1>7 DEF vars
<1>8. ASSUME NEW t \in Tenants, OtherReserves(t) \/ OtherSettles(t) \/ Expire(t)
      PROVE  TypeOK'
  BY <1>8 DEF OtherReserves, OtherSettles, Expire
<1>9. ASSUME NEW r \in Requests, HandlerStep(r)
      PROVE  TypeOK'
  <2>1. CASE Arrive(r)
    <3>1. /\ lock' \in [Requests -> Requests \cup {None}]
          /\ lockMap' \in [Tenants -> Requests \cup {None}]
      BY <2>1 DEF Arrive, LockFor, MapWithLock
    <3>2. QED
      BY <2>1, <3>1, <1>6 DEF Arrive, HandlerStages
  <2>2. CASE Enqueue(r)
    <3>1. lock[r] \in Requests
      BY <2>2 DEF Enqueue, LockInv, LocksOwned, AtLock
    <3>2. queue' \in [Requests -> Seq(Requests)]
      BY <2>2, <3>1 DEF Enqueue
    <3>3. QED
      BY <2>2, <3>2, <1>6 DEF Enqueue, HandlerStages
  <2>3. CASE Admit(r)
    BY <2>3, <1>1, <1>6 DEF Admit, HandlerStages
  <2>4. CASE Pass(r) \/ Reserve(r)
    BY <2>4, <1>6 DEF Pass, Reserve, HandlerStages
  <2>5. CASE AtCapacity(r)
    BY <2>5, <1>2, <1>5, <1>6 DEF AtCapacity, OwnsLock, HandlerStages, Answers
  <2>6. CASE Reject(r) \/ ReserveRefused(r) \/ StoreFails(r) \/ SetupFails(r)
    <3>1. /\ LeaveLock(r) /\ permits' = permits + 1 /\ task' = task /\ history' = history
          /\ handler[r] \in {"admitted", "gated", "reserved"} /\ Goto(r, "done")
          /\ \E answer \in Answers : Reply(r, answer)
      BY <2>6 DEF Reject, ReserveRefused, StoreFails, SetupFails, ReturnEarly, ReleaseSlot,
                  Goto, Answers
    <3>2. lock[r] # None
      BY <3>1 DEF LockInv, LocksOwned, AtLock
    <3>3. /\ reservation' \in [Tenants -> Requests \cup {Other, None}]
          /\ warned' \in [Requests -> SUBSET {"settle", "audit", "record"}]
          /\ audit' \in Seq(Requests \X Outcomes)
      <4>1. CASE Reject(r)
        <5>1. Append(audit, <<r, "blocked">>) \in Seq(Requests \X Outcomes)
          BY <1>0 DEF Outcomes
        <5>2. /\ reservation' = reservation
              /\ \/ audit' = Append(audit, <<r, "blocked">>) /\ warned' = warned
                 \/ Fails(r, "audit") /\ audit' = audit
          BY <4>1 DEF Reject
        <5>3. QED
          BY <5>1, <5>2, <1>3
      <4>2. CASE ReserveRefused(r) \/ StoreFails(r)
        BY <4>2 DEF ReserveRefused, StoreFails
      <4>3. CASE SetupFails(r)
        BY <4>3, <1>4 DEF SetupFails, DropGuard
      <4>4. QED
        BY <2>6, <4>1, <4>2, <4>3
    <3>4. QED
      BY <3>1, <3>2, <3>3, <1>1, <1>2, <1>5, <1>6 DEF HandlerStages
  <2>7. CASE Spawn(r)
    <3>1. handler' \in [Requests -> HandlerStages]
      BY <2>7, <1>6 DEF Spawn, HandlerStages
    <3>2. task' \in [Requests -> [stage : TaskStages, outcome : Outcomes \cup {None}]]
      BY <2>7 DEF Spawn, TaskStages
    <3>3. QED
      BY <2>7, <3>1, <3>2 DEF Spawn
  <2>8. CASE Respond(r)
    BY <2>8, <1>5, <1>6 DEF Respond, HandlerStages, Answers
  <2>9. QED
    BY <1>9, <2>1, <2>2, <2>3, <2>4, <2>5, <2>6, <2>7, <2>8 DEF HandlerStep
<1>10. ASSUME NEW r \in Requests, TaskStep(r)
       PROVE  TypeOK'
  <2>1. ASSUME NEW from, NEW to \in TaskStages, TaskGoto(r, from, to)
        PROVE  task' \in [Requests -> [stage : TaskStages, outcome : Outcomes \cup {None}]]
    BY <2>1 DEF TaskGoto
  <2>2. CASE RunnerExits(r)
    BY <2>2 DEF RunnerExits, TaskStages, Outcomes
  <2>3. CASE Settle(r)
    BY <2>1, <2>3, <1>4 DEF Settle, TaskStages
  <2>4. CASE AppendAudit(r)
    <3>1. task[r].outcome \in Outcomes
      BY <2>4 DEF AppendAudit, TaskGoto, LockInv, StagesMatch, Outcomes
    <3>2. audit' \in Seq(Requests \X Outcomes)
      <4>1. Append(audit, <<r, task[r].outcome>>) \in Seq(Requests \X Outcomes)
        BY <3>1, <1>0
      <4>2. audit' = Append(audit, <<r, task[r].outcome>>) \/ audit' = audit
        BY <2>4 DEF AppendAudit
      <4>3. QED
        BY <4>1, <4>2
    <3>3. QED
      BY <2>1, <2>4, <3>2, <1>3 DEF AppendAudit, TaskStages
  <2>5. CASE RecordRun(r)
    <3>1. task[r].outcome \in Outcomes
      BY <2>5 DEF RecordRun, TaskGoto, LockInv, StagesMatch, Outcomes
    <3>2. history' \in Seq(Requests \X Outcomes)
      <4>1. Append(history, <<r, task[r].outcome>>) \in Seq(Requests \X Outcomes)
        BY <3>1, <1>0
      <4>2. history' = Append(history, <<r, task[r].outcome>>) \/ history' = history
        BY <2>5 DEF RecordRun
      <4>3. QED
        BY <4>1, <4>2
    <3>3. QED
      BY <2>1, <2>5, <3>2, <1>3 DEF RecordRun, TaskStages
  <2>6. CASE Finish(r)
    <3>1. lock[r] # None /\ handler[r] # "arrived"
      BY <2>6 DEF Finish, TaskGoto, LockInv, LocksOwned, AtLock, TaskAlive, StagesMatch
    <3>2. QED
      BY <2>1, <2>6, <3>1, <1>1, <1>2 DEF Finish, ReleaseSlot, TaskStages
  <2>7. QED
    BY <1>10, <2>2, <2>3, <2>4, <2>5, <2>6 DEF TaskStep
<1>11. ASSUME NEW r \in Requests, Disconnect(r) \/ DropHandler(r)
       PROVE  TypeOK'
  <2>1. CASE Disconnect(r)
    BY <2>1 DEF Disconnect
  <2>2. CASE DropHandler(r)
    <3>1. handler[r] = "queued" => lock[r] # None
      BY DEF LockInv, LocksOwned, AtLock
    <3>2. QED
      BY <2>2, <3>1, <1>2, <1>6 DEF DropHandler, HandlerStages
  <2>3. QED
    BY <1>11, <2>1, <2>2
<1>12. QED
  BY <1>7, <1>8, <1>9, <1>10, <1>11 DEF Next

\* At most one request of a tenant is past its lock: the locks' invariant says so.
LEMMA SlotsExclusive ==
  ASSUME TypeOK, LockInv
  PROVE  OneRunPerTenant
BY DEF LockInv, LocksMapped, SlotsAtHead, OwnsLock, OneRunPerTenant

\* A failed bookkeeping call leaves a warning and takes none away.
LEMMA FailsWarns ==
  ASSUME TypeOK, NEW r \in Requests, NEW call, Fails(r, call)
  PROVE  /\ warned'[r] = warned[r] \cup {call}
         /\ \A q \in Requests \ {r} : warned'[q] = warned[q]
BY DEF TypeOK, Fails

LEMMA ReservationStep ==
  ASSUME TypeOK, LockInv, ReservationInv, [Next]_vars
  PROVE  ReservationInv'
<1> USE ExecuteAssumption DEF TypeOK, ReservationInv, locks, logs
<1>1. CASE UNCHANGED vars
  BY <1>1 DEF vars
<1>2. ASSUME NEW t \in Tenants, OtherReserves(t) \/ OtherSettles(t) \/ Expire(t)
      PROVE  ReservationInv'
  BY <1>2 DEF OtherReserves, OtherSettles, Expire
<1>3. ASSUME NEW r \in Requests, Settling(r)
      PROVE  \A t \in Tenants : reservation'[t] \in Requests =>
               /\ reservation'[t] = reservation[t]
               /\ "settle" \in warned[reservation[t]] => "settle" \in warned'[reservation[t]]
               /\ reservation[t] = r /\ TenantOf[r] = t => "settle" \in warned'[r]
  BY <1>3 DEF Settling, Fails
<1>4. ASSUME NEW r \in Requests, HandlerStep(r)
      PROVE  ReservationInv'
  <2>1. CASE Arrive(r) \/ Enqueue(r) \/ Admit(r) \/ Pass(r) \/ Respond(r) \/ AtCapacity(r)
    BY <2>1 DEF Arrive, Enqueue, Admit, Pass, Respond, AtCapacity, Goto
  <2>2. CASE ReserveRefused(r) \/ StoreFails(r)
    BY <2>2 DEF ReserveRefused, StoreFails, ReturnEarly
  <2>3. CASE Reject(r)
    BY <2>3 DEF Reject, ReturnEarly, Fails
  <2>4. CASE Reserve(r)
    BY <2>4 DEF Reserve, Goto
  <2>5. CASE SetupFails(r)
    <3>1. /\ Settling(r) /\ task' = task /\ handler' = [handler EXCEPT ![r] = "done"]
      BY <2>5 DEF SetupFails, DropGuard, ReturnEarly
    <3>2. QED
      BY <3>1, <1>3
  <2>6. CASE Spawn(r)
    BY <2>6 DEF Spawn, Goto
  <2>7. QED
    BY <1>4, <2>1, <2>2, <2>3, <2>4, <2>5, <2>6 DEF HandlerStep
<1>5. ASSUME NEW r \in Requests, TaskStep(r)
      PROVE  ReservationInv'
  <2>1. CASE RunnerExits(r)
    BY <2>1 DEF RunnerExits
  <2>2. CASE Settle(r)
    <3>1. /\ Settling(r) /\ handler' = handler
          /\ task[r].stage = "exited" /\ task' = [task EXCEPT ![r].stage = "settled"]
      BY <2>2 DEF Settle, TaskGoto
    <3>2. QED
      BY <3>1, <1>3
  <2>3. CASE AppendAudit(r) \/ RecordRun(r) \/ Finish(r)
    <3>1. /\ handler' = handler /\ reservation' = reservation
          /\ task[r].stage \in {"settled", "audited", "recorded"}
          /\ \E to \in TaskStages : task' = [task EXCEPT ![r].stage = to]
      BY <2>3 DEF AppendAudit, RecordRun, Finish, TaskGoto, TaskStages
    <3>2. ASSUME NEW q \in Requests, "settle" \in warned[q]
          PROVE  "settle" \in warned'[q]
      <4>1. warned' = warned \/ Fails(r, "audit") \/ Fails(r, "record")
        BY <2>3 DEF AppendAudit, RecordRun, Finish
      <4>2. QED
        BY <3>2, <4>1, FailsWarns
    <3>3. QED
      BY <3>1, <3>2
  <2>4. QED
    BY <1>5, <2>1, <2>2, <2>3 DEF TaskStep
<1>6. ASSUME NEW r \in Requests, Disconnect(r) \/ DropHandler(r)
      PROVE  ReservationInv'
  BY <1>6 DEF Disconnect, DropHandler, Goto
<1>7. QED
  BY <1>1, <1>2, <1>4, <1>5, <1>6 DEF Next

-----------------------------------------------------------------------------
(* The audit log and the history. *)

LEMMA AppendEntries ==
  ASSUME NEW log \in Seq(Requests \X Outcomes), NEW r \in Requests, NEW o \in Outcomes
  PROVE  LET longer == Append(log, <<r, o>>)
         IN  /\ Len(log) \in Nat /\ \A q \in Requests : Entries(log, q) \subseteq 1..Len(log)
             /\ Entries(longer, r) = Entries(log, r) \cup {Len(log) + 1}
             /\ longer[Len(log) + 1][2] = o
             /\ \A q \in Requests \ {r} : Entries(longer, q) = Entries(log, q)
             /\ \A i \in 1..Len(log) : longer[i] = log[i]
<1> DEFINE longer == Append(log, <<r, o>>)
<1>1. /\ Len(log) \in Nat /\ longer \in Seq(Requests \X Outcomes)
      /\ Len(longer) = Len(log) + 1
      /\ longer[Len(log) + 1] = <<r, o>>
      /\ \A i \in 1..Len(log) : longer[i] = log[i]
  BY AppendProperties, LenProperties
<1> HIDE DEF longer
<1>2. /\ \A q : Entries(log, q) = {i \in 1..Len(log) : log[i][1] = q}
      /\ \A q : Entries(longer, q) = {i \in 1..Len(log) + 1 : longer[i][1] = q}
  BY <1>1, LenProperties DEF Entries
<1>3. /\ \A i \in 1..Len(log) + 1 : i \in 1..Len(log) \/ i = Len(log) + 1
      /\ \A i \in 1..Len(log) : i \in 1..Len(log) + 1
      /\ Len(log) + 1 \in 1..Len(log) + 1 /\ Len(log) + 1 \notin 1..Len(log)
  BY <1>1
<1>4. longer[Len(log) + 1][1] = r /\ longer[Len(log) + 1][2] = o
  BY <1>1
<1>5. ASSUME NEW q \in Requests \ {r}
      PROVE  Entries(longer, q) = Entries(log, q)
  <2>1. /\ Entries(log, q) = {i \in 1..Len(log) : log[i][1] = q}
        /\ Entries(longer, q) = {i \in 1..Len(log) + 1 : longer[i][1] = q}
    BY <1>2
  <2>2. \A i \in 1..Len(log) : longer[i][1] = log[i][1]
    BY <1>1
  <2>3. QED
    BY <1>3, <1>4, <2>1, <2>2
<1>6. Entries(longer, r) = Entries(log, r) \cup {Len(log) + 1}
  BY <1>1, <1>2, <1>3
<1>7. \A q \in Requests : Entries(log, q) \subseteq 1..Len(log)
  BY <1>2
<1>8. QED
  BY <1>1, <1>4, <1>5, <1>6, <1>7 DEF longer

\* What a log says of a request does not change when others write to it.
LEMMA LogsOfKept ==
  ASSUME NEW q \in Requests, LogsOf(q),
         task'[q] = task[q], handler'[q] = handler[q], warned'[q] = warned[q],
         Entries(audit, q)' = Entries(audit, q), Entries(history, q)' = Entries(history, q),
         \A i \in Entries(audit, q) : audit'[i] = audit[i],
         \A i \in Entries(history, q) : history'[i] = history[i]
  PROVE  LogsOf(q)'
<1>1. Complete(audit, q, "audit") => Complete(audit, q, "audit")'
  BY DEF Complete, Entries
<1>2. Complete(history, q, "record") => Complete(history, q, "record")'
  BY DEF Complete, Entries
<1>3. /\ Unwritten(audit, q, "audit") => Unwritten(audit, q, "audit")'
      /\ Unwritten(history, q, "record") => Unwritten(history, q, "record")'
  BY DEF Unwritten
<1>4. QED
  BY <1>1, <1>2, <1>3 DEF LogsOf

\* A step that writes to neither log leaves them in order, whatever stage it
\* takes a run to that does not require a record.
LEMMA LogsKept ==
  ASSUME TypeOK, LogInv, UNCHANGED logs,
         \A q \in Requests :
           /\ "audit" \in warned'[q] <=> "audit" \in warned[q]
           /\ "record" \in warned'[q] <=> "record" \in warned[q]
           /\ handler[q] = "done" => handler'[q] = "done"
           /\ \/ task'[q].stage = task[q].stage /\ task'[q].outcome = task[q].outcome
              \/ task[q].stage = "none" /\ handler[q] # "done" /\ task'[q].stage = "running"
              \/ task[q].stage = "running" /\ task'[q].stage = "exited"
              \/ task[q].stage = "exited" /\ task'[q].stage = "settled"
              \/ /\ task[q].stage = "recorded" /\ task'[q].stage = "ended"
                 /\ task'[q].outcome = task[q].outcome
  PROVE  LogInv'
<1> USE DEF logs, LogInv
<1>1. LogsMatch'
  BY DEF LogsMatch, LogsOf, Unwritten, Complete, Entries
<1>2. AuditedLast'
  BY DEF AuditedLast, Entries
<1>3. SameOrder'
  BY DEF SameOrder, Entries
<1>4. QED
  BY <1>1, <1>2, <1>3

\* A request is turned away and writes its one record, or a warning.
LEMMA RejectLogged ==
  ASSUME TypeOK, LockInv, LogInv, NEW r \in Requests, Reject(r)
  PROVE  LogInv'
<1> USE DEF LogInv
<1>1. /\ handler[r] = "admitted" /\ handler' = [handler EXCEPT ![r] = "done"]
      /\ task' = task /\ history' = history /\ task[r].stage = "none"
  BY DEF TypeOK, TaskStages, LockInv, StagesMatch, Reject, ReturnEarly
<1>2. /\ Unwritten(audit, r, "audit") /\ Unwritten(history, r, "record")
  BY <1>1 DEF LogsMatch, LogsOf
<1>3. CASE audit' = audit /\ Fails(r, "audit")
  <2>1. /\ warned'[r] = warned[r] \cup {"audit"}
        /\ \A q \in Requests \ {r} : warned'[q] = warned[q]
    BY <1>3, FailsWarns
  <2>2. ASSUME NEW q \in Requests
        PROVE  LogsOf(q)'
    <3>1. CASE q = r
      BY <1>1, <1>2, <1>3, <2>1, <3>1 DEF TypeOK, LogsOf, Unwritten, Entries
    <3>2. CASE q # r
      <4>1. /\ task'[q] = task[q] /\ handler'[q] = handler[q] /\ warned'[q] = warned[q]
            /\ UNCHANGED logs
        BY <1>1, <1>3, <2>1, <3>2 DEF TypeOK, logs
      <4>2. QED
        BY <4>1, LogsOfKept DEF LogsMatch, Entries, logs
    <3>3. QED
      BY <3>1, <3>2
  <2>3. AuditedLast' /\ SameOrder'
    BY <1>1, <1>3 DEF AuditedLast, SameOrder, Entries
  <2>4. QED
    BY <2>2, <2>3 DEF LogsMatch
<1>4. CASE audit' = Append(audit, <<r, "blocked">>) /\ UNCHANGED warned
  <2> DEFINE n == Len(audit) + 1
  <2>1. /\ Len(audit) \in Nat /\ \A q : Entries(audit, q) \subseteq 1..Len(audit)
        /\ Entries(audit', r) = Entries(audit, r) \cup {n} /\ audit'[n][2] = "blocked"
        /\ \A q \in Requests \ {r} : Entries(audit', q) = Entries(audit, q)
        /\ \A i \in 1..Len(audit) : audit'[i] = audit[i]
    <3>1. audit \in Seq(Requests \X Outcomes) /\ "blocked" \in Outcomes
      BY DEF TypeOK, Outcomes
    <3>2. QED
      BY <1>4, <3>1, AppendEntries DEF Entries
  <2>2. Entries(audit', r) = {n}
    BY <1>2, <2>1 DEF Unwritten
  <2> HIDE DEF n
  <2>3. ASSUME NEW q \in Requests
        PROVE  LogsOf(q)'
    <3>1. CASE q = r
      <4>1. Unwritten(history, r, "record")'
        BY <1>1, <1>2, <1>4 DEF Unwritten, Entries
      <4>2. handler'[r] = "done" /\ task'[r].stage = "none"
        BY <1>1 DEF TypeOK
      <4>3. \A i, j \in Entries(audit, r)' : i = j /\ audit'[i][2] = "blocked"
        BY <2>1, <2>2 DEF Entries
      <4>4. QED
        BY <3>1, <4>1, <4>2, <4>3 DEF LogsOf
    <3>2. CASE q # r
      <4>1. /\ task'[q] = task[q] /\ handler'[q] = handler[q] /\ warned'[q] = warned[q]
            /\ history' = history
        BY <1>1, <1>4, <3>2 DEF TypeOK
      <4>2. /\ Entries(audit, q)' = Entries(audit, q)
            /\ \A i \in Entries(audit, q) : audit'[i] = audit[i]
            /\ Entries(history, q)' = Entries(history, q)
        BY <2>1, <3>2, <4>1 DEF Entries
      <4>3. QED
        BY <4>1, <4>2, LogsOfKept DEF LogsMatch
    <3>3. QED
      BY <3>1, <3>2
  <2>4. AuditedLast'
    <3>1. ASSUME NEW p \in Requests, NEW q \in Requests, task[p].stage = "audited",
                 TenantOf[p] = TenantOf[q]
          PROVE  p # r /\ q # r
      BY <1>1, <3>1, SlotsExclusive DEF OneRunPerTenant, HasSlot, TaskAlive
    <3>2. QED
      BY <1>1, <2>1, <3>1 DEF AuditedLast, Entries
  <2>5. SameOrder'
    BY <1>1, <1>2, <2>1 DEF SameOrder, Unwritten, Entries
  <2>6. QED
    BY <2>3, <2>4, <2>5 DEF LogsMatch
<1>5. QED
  BY <1>3, <1>4 DEF Reject

\* A run is audited: its one record is the last of the log, or a warning is.
LEMMA RunAudited ==
  ASSUME TypeOK, LockInv, LogInv, NEW r \in Requests, AppendAudit(r)
  PROVE  LogInv'
<1> USE DEF LogInv
<1>1. /\ task[r].stage = "settled" /\ task' = [task EXCEPT ![r].stage = "audited"]
      /\ handler' = handler /\ history' = history
  BY DEF AppendAudit, TaskGoto
<1>2. /\ task'[r].stage = "audited" /\ task'[r].outcome = task[r].outcome
      /\ task[r].outcome \in Outcomes
      /\ \A q \in Requests \ {r} : task'[q] = task[q]
  BY <1>1 DEF TypeOK, LockInv, StagesMatch, Outcomes
<1>3. /\ Unwritten(audit, r, "audit") /\ Unwritten(history, r, "record")
  BY <1>1 DEF LogsMatch, LogsOf
<1>4. CASE audit' = audit /\ Fails(r, "audit")
  <2>1. /\ warned'[r] = warned[r] \cup {"audit"}
        /\ \A q \in Requests \ {r} : warned'[q] = warned[q]
    BY <1>4, FailsWarns
  <2>2. ASSUME NEW q \in Requests
        PROVE  LogsOf(q)'
    <3>1. CASE q = r
      BY <1>1, <1>2, <1>3, <1>4, <2>1, <3>1 DEF LogsOf, Unwritten, Complete, Entries
    <3>2. CASE q # r
      BY <1>1, <1>2, <1>4, <2>1, <3>2, LogsOfKept DEF LogsMatch, Entries
    <3>3. QED
      BY <3>1, <3>2
  <2>3. AuditedLast' /\ SameOrder'
    BY <1>1, <1>2, <1>3, <1>4 DEF AuditedLast, SameOrder, Entries, Unwritten
  <2>4. QED
    BY <2>2, <2>3 DEF LogsMatch
<1>5. CASE audit' = Append(audit, <<r, task[r].outcome>>) /\ UNCHANGED warned
  <2> DEFINE n == Len(audit) + 1
  <2>1. /\ Len(audit) \in Nat /\ \A q \in Requests : Entries(audit, q) \subseteq 1..Len(audit)
        /\ Entries(audit', r) = Entries(audit, r) \cup {n} /\ audit'[n][2] = task[r].outcome
        /\ \A q \in Requests \ {r} : Entries(audit', q) = Entries(audit, q)
        /\ \A i \in 1..Len(audit) : audit'[i] = audit[i]
    <3>1. audit \in Seq(Requests \X Outcomes)
      BY DEF TypeOK
    <3>2. QED
      BY <1>2, <1>5, <3>1, AppendEntries DEF Entries
  <2>2. Entries(audit', r) = {n} /\ \A i \in 1..Len(audit) : i < n
    BY <1>3, <2>1 DEF Unwritten
  <2> HIDE DEF n
  <2>3. ASSUME NEW q \in Requests
        PROVE  LogsOf(q)'
    <3>1. CASE q = r
      <4>1. Unwritten(history, r, "record")'
        BY <1>1, <1>3, <1>5 DEF Unwritten, Entries
      <4>2. n \in DOMAIN audit'
        BY <2>2 DEF Entries
      <4>3. Complete(audit, r, "audit")'
        BY <1>2, <1>3, <1>5, <2>1, <2>2, <4>2 DEF Complete, Unwritten, Entries
      <4>4. QED
        BY <1>2, <3>1, <4>1, <4>3 DEF LogsOf
    <3>2. CASE q # r
      <4>1. /\ task'[q] = task[q] /\ handler'[q] = handler[q] /\ warned'[q] = warned[q]
            /\ history' = history
        BY <1>1, <1>2, <1>5, <3>2
      <4>2. /\ Entries(audit, q)' = Entries(audit, q)
            /\ \A i \in Entries(audit, q) : audit'[i] = audit[i]
            /\ Entries(history, q)' = Entries(history, q)
        BY <2>1, <3>2, <4>1 DEF Entries
      <4>3. QED
        BY <4>1, <4>2, LogsOfKept DEF LogsMatch
    <3>3. QED
      BY <3>1, <3>2
  <2>4. AuditedLast'
    <3>1. SUFFICES ASSUME NEW p \in Requests, NEW q \in Requests,
                          task'[p].stage = "audited", TenantOf[p] = TenantOf[q],
                          NEW i \in Entries(audit', p), NEW j \in Entries(audit', q)
                   PROVE  j <= i
      BY DEF AuditedLast, Entries
    <3>2. CASE p = r
      BY <2>1, <2>2, <3>1, <3>2 DEF n
    <3>3. CASE p # r
      <4>1. task[p].stage = "audited" /\ q # r
        BY <1>1, <1>2, <3>1, <3>3, SlotsExclusive DEF OneRunPerTenant, HasSlot, TaskAlive
      <4>2. QED
        BY <2>1, <3>1, <3>3, <4>1 DEF AuditedLast
    <3>4. QED
      BY <3>2, <3>3
  <2>5. SameOrder'
    BY <1>1, <1>3, <2>1 DEF SameOrder, Unwritten, Entries
  <2>6. QED
    BY <2>3, <2>4, <2>5 DEF LogsMatch
<1>6. QED
  BY <1>4, <1>5 DEF AppendAudit

\* A run gets its history row, after those of the tenant's runs audited before it.
LEMMA RunInHistory ==
  ASSUME TypeOK, LockInv, LogInv, NEW r \in Requests, RecordRun(r)
  PROVE  LogInv'
<1> USE DEF LogInv
<1>1. /\ task[r].stage = "audited" /\ task' = [task EXCEPT ![r].stage = "recorded"]
      /\ handler' = handler /\ audit' = audit
  BY DEF RecordRun, TaskGoto
<1>2. /\ task'[r].stage = "recorded" /\ task'[r].outcome = task[r].outcome
      /\ task[r].outcome \in Outcomes
      /\ \A q \in Requests \ {r} : task'[q] = task[q]
  BY <1>1 DEF TypeOK, LockInv, StagesMatch, Outcomes
<1>3. Complete(audit, r, "audit") /\ Unwritten(history, r, "record")
  BY <1>1 DEF LogsMatch, LogsOf
<1>4. AuditedLast'
  <2>1. \A q \in Requests : task'[q].stage = "audited" => task[q].stage = "audited"
    BY <1>2
  <2>2. QED
    BY <1>1, <2>1 DEF AuditedLast, Entries
<1>5. CASE history' = history /\ Fails(r, "record")
  <2>1. /\ warned'[r] = warned[r] \cup {"record"}
        /\ \A q \in Requests \ {r} : warned'[q] = warned[q]
    BY <1>5, FailsWarns
  <2>2. ASSUME NEW q \in Requests
        PROVE  LogsOf(q)'
    <3>1. CASE q = r
      BY <1>1, <1>2, <1>3, <1>5, <2>1, <3>1 DEF LogsOf, Unwritten, Complete, Entries
    <3>2. CASE q # r
      BY <1>1, <1>2, <1>5, <2>1, <3>2, LogsOfKept DEF LogsMatch, Entries
    <3>3. QED
      BY <3>1, <3>2
  <2>3. SameOrder'
    BY <1>1, <1>5 DEF SameOrder, Entries
  <2>4. QED
    BY <1>4, <2>2, <2>3 DEF LogsMatch
<1>6. CASE history' = Append(history, <<r, task[r].outcome>>) /\ UNCHANGED warned
  <2> DEFINE n == Len(history) + 1
  <2>1. /\ Len(history) \in Nat /\ \A q \in Requests : Entries(history, q) \subseteq 1..Len(history)
        /\ Entries(history', r) = Entries(history, r) \cup {n}
        /\ history'[n][2] = task[r].outcome
        /\ \A q \in Requests \ {r} : Entries(history', q) = Entries(history, q)
        /\ \A i \in 1..Len(history) : history'[i] = history[i]
    <3>1. history \in Seq(Requests \X Outcomes)
      BY DEF TypeOK
    <3>2. QED
      BY <1>2, <1>6, <3>1, AppendEntries DEF Entries
  <2>2. Entries(history', r) = {n} /\ \A k \in 1..Len(history) : k < n /\ ~ (n < k)
    BY <1>3, <2>1 DEF Unwritten
  <2> HIDE DEF n
  <2>3. ASSUME NEW q \in Requests
        PROVE  LogsOf(q)'
    <3>1. CASE q = r
      <4>1. n \in DOMAIN history'
        BY <2>2 DEF Entries
      <4>2. Complete(history, r, "record")'
        BY <1>2, <1>3, <1>6, <2>1, <2>2, <4>1 DEF Complete, Unwritten, Entries
      <4>3. Complete(audit, r, "audit")'
        BY <1>1, <1>2, <1>3, <1>6 DEF Complete, Entries
      <4>4. QED
        BY <1>2, <3>1, <4>2, <4>3 DEF LogsOf
    <3>2. CASE q # r
      <4>1. /\ task'[q] = task[q] /\ handler'[q] = handler[q] /\ warned'[q] = warned[q]
            /\ audit' = audit
        BY <1>1, <1>2, <1>6, <3>2
      <4>2. /\ Entries(history, q)' = Entries(history, q)
            /\ \A i \in Entries(history, q) : history'[i] = history[i]
            /\ Entries(audit, q)' = Entries(audit, q)
        BY <2>1, <3>2, <4>1 DEF Entries
      <4>3. QED
        BY <4>1, <4>2, LogsOfKept DEF LogsMatch
    <3>3. QED
      BY <3>1, <3>2
  <2>4. SameOrder'
    <3>1. SUFFICES ASSUME NEW p \in Requests, NEW q \in Requests, TenantOf[p] = TenantOf[q],
                          NEW i \in Entries(audit, p), NEW j \in Entries(audit, q),
                          NEW k \in Entries(history', p), NEW l \in Entries(history', q)
                   PROVE  i < j <=> k < l
      BY <1>1 DEF SameOrder, Entries
    <3>2. CASE p # r /\ q # r
      BY <2>1, <3>1, <3>2 DEF SameOrder
    <3>3. audit \in Seq(Requests \X Outcomes)
      BY DEF TypeOK
    <3>4. i \in Nat /\ j \in Nat
      BY <3>1, <3>3, LenProperties DEF Entries
    <3>5. CASE p = r /\ q = r
      <4>1. i = j /\ k = n /\ l = n /\ n \in Nat
        BY <1>3, <2>1, <2>2, <3>1, <3>5 DEF Complete, n
      <4>2. QED
        BY <3>4, <4>1
    <3>6. CASE p = r /\ q # r
      <4>1. j <= i /\ k = n /\ l \in 1..Len(history)
        BY <1>1, <2>1, <2>2, <3>1, <3>6 DEF AuditedLast
      <4>2. QED
        BY <2>2, <3>4, <4>1
    <3>7. CASE p # r /\ q = r
      <4>1. i <= j /\ l = n /\ k \in 1..Len(history)
        BY <1>1, <2>1, <2>2, <3>1, <3>7 DEF AuditedLast
      <4>2. i # j
        BY <3>1, <3>7 DEF Entries
      <4>3. QED
        BY <2>2, <3>4, <4>1, <4>2
    <3>8. QED
      BY <3>2, <3>5, <3>6, <3>7
  <2>5. QED
    BY <1>4, <2>3, <2>4 DEF LogsMatch
<1>7. QED
  BY <1>5, <1>6 DEF RecordRun

LEMMA LogStep ==
  ASSUME TypeOK, LockInv, LogInv, [Next]_vars
  PROVE  LogInv'
<1> USE DEF locks, logs
<1>1. CASE UNCHANGED vars
  BY <1>1, LogsKept DEF vars
<1>2. ASSUME NEW t \in Tenants, OtherReserves(t) \/ OtherSettles(t) \/ Expire(t)
      PROVE  LogInv'
  BY <1>2, LogsKept DEF OtherReserves, OtherSettles, Expire
<1>3. ASSUME NEW r \in Requests, Settling(r)
      PROVE  \A q \in Requests : /\ "audit" \in warned'[q] <=> "audit" \in warned[q]
                                 /\ "record" \in warned'[q] <=> "record" \in warned[q]
  <2>1. CASE UNCHANGED warned
    BY <2>1
  <2>2. CASE Fails(r, "settle")
    BY <2>2, FailsWarns
  <2>3. QED
    BY <1>3, <2>1, <2>2 DEF Settling
<1>4. ASSUME NEW r \in Requests, HandlerStep(r)
      PROVE  LogInv'
  <2>1. CASE Arrive(r) \/ Enqueue(r) \/ Admit(r) \/ Pass(r) \/ Reserve(r) \/ Respond(r)
    BY <2>1, LogsKept DEF TypeOK, Arrive, Enqueue, Admit, Pass, Reserve, Respond, Goto
  <2>2. CASE AtCapacity(r) \/ ReserveRefused(r) \/ StoreFails(r)
    BY <2>2, LogsKept DEF TypeOK, AtCapacity, ReserveRefused, StoreFails, ReturnEarly, Goto
  <2>3. CASE Reject(r)
    BY <2>3, RejectLogged
  <2>4. CASE SetupFails(r)
    <3>1. /\ Settling(r) /\ task' = task /\ UNCHANGED logs
          /\ handler' = [handler EXCEPT ![r] = "done"]
      BY <2>4 DEF SetupFails, DropGuard, ReturnEarly
    <3>2. QED
      BY <3>1, <1>3, LogsKept DEF TypeOK
  <2>5. CASE Spawn(r)
    <3>1. /\ handler[r] = "reserved" /\ handler' = [handler EXCEPT ![r] = "awaiting"]
          /\ task' = [task EXCEPT ![r].stage = "running"]
          /\ UNCHANGED <<warned, logs>>
      BY <2>5 DEF Spawn, Goto
    <3>2. task[r].stage = "none" /\ task'[r].stage = "running"
      BY <3>1 DEF TypeOK, TaskStages, LockInv, StagesMatch
    <3>3. QED
      BY <3>1, <3>2, LogsKept DEF TypeOK
  <2>6. QED
    BY <1>4, <2>1, <2>2, <2>3, <2>4, <2>5 DEF HandlerStep
<1>5. ASSUME NEW r \in Requests, TaskStep(r)
      PROVE  LogInv'
  <2>1. CASE RunnerExits(r)
    BY <2>1, LogsKept DEF TypeOK, RunnerExits
  <2>2. CASE Settle(r)
    <3>1. /\ Settling(r) /\ handler' = handler /\ UNCHANGED logs
          /\ task[r].stage = "exited" /\ task' = [task EXCEPT ![r].stage = "settled"]
      BY <2>2 DEF Settle, TaskGoto
    <3>2. QED
      BY <3>1, <1>3, LogsKept DEF TypeOK
  <2>3. CASE AppendAudit(r)
    BY <2>3, RunAudited
  <2>4. CASE RecordRun(r)
    BY <2>4, RunInHistory
  <2>5. CASE Finish(r)
    BY <2>5, LogsKept DEF TypeOK, Finish, TaskGoto
  <2>6. QED
    BY <1>5, <2>1, <2>2, <2>3, <2>4, <2>5 DEF TaskStep
<1>6. ASSUME NEW r \in Requests, Disconnect(r) \/ DropHandler(r)
      PROVE  LogInv'
  BY <1>6, LogsKept DEF TypeOK, Disconnect, DropHandler, Goto
<1>7. QED
  BY <1>1, <1>2, <1>4, <1>5, <1>6 DEF Next

-----------------------------------------------------------------------------
(* The theorems. *)

LEMMA InvariantInit ==
  ASSUME Init
  PROVE  IInv
<1> USE ExecuteAssumption DEF Init, NoTask
<1>1. TypeOK
  BY DEF TypeOK, HandlerStages, TaskStages
<1>2. LockInv
  BY DEF LockInv, StagesMatch, LocksOwned, AtLock, TaskAlive, LocksMapped, QueuesExact,
         Members, Distinct, SlotsAtHead, HasSlot
<1>3. SlotsCounted
  <2>1. Slots = {}
    BY DEF Slots, HasSlot, TaskAlive
  <2>2. IsFiniteSet(Slots) /\ Cardinality(Slots) = 0
    BY <2>1, FS_EmptySet
  <2>3. QED
    BY <2>2 DEF SlotsCounted, PermitsBalance, Slots
<1>4. ReservationInv
  BY DEF ReservationInv
<1>5. LogInv
  BY DEF LogInv, LogsMatch, LogsOf, AuditedLast, SameOrder, Unwritten, Entries
<1>6. QED
  BY <1>1, <1>2, <1>3, <1>4, <1>5 DEF IInv

LEMMA InvariantStep ==
  ASSUME IInv, [Next]_vars
  PROVE  IInv'
<1> USE DEF IInv
<1>1. LockInv'
  BY LockStep
<1>2. SlotsCounted'
  BY SlotsStep
<1>3. TypeOK'
  BY <1>2, TypeStep
<1>4. ReservationInv'
  BY ReservationStep
<1>5. LogInv'
  BY LogStep
<1>6. QED
  BY <1>1, <1>2, <1>3, <1>4, <1>5

\* The stages, the locks with their queues, the permits, the reservation and the
\* logs stay in step through every action.
THEOREM Invariant == Spec => []IInv
<1>1. Init => IInv
  BY InvariantInit
<1>2. IInv /\ [Next]_vars => IInv'
  BY InvariantStep
<1>3. QED
  BY <1>1, <1>2, PTL DEF Spec

\* Every variable keeps its type; in particular the permits neither run below
\* zero nor above MAX_CONCURRENT_EXECUTIONS, and no log gets a stray outcome.
THEOREM TypeCorrect == Spec => []TypeOK
<1>1. IInv => TypeOK
  BY DEF IInv
<1>2. QED
  BY <1>1, Invariant, PTL

\* Two requests of a tenant are never between its lock and the end of their run
\* together, for any number of requests: the lock that the weak map names is the
\* one they all own, and the head of its queue the only one that got it.
THEOREM OneRun == Spec => []OneRunPerTenant
<1>1. IInv => OneRunPerTenant
  BY SlotsExclusive DEF IInv
<1>2. QED
  BY <1>1, Invariant, PTL

\* Whoever waits for a tenant's lock waits for a request or a run at work.
THEOREM OwnerAtWork == Spec => []WaitersHaveAnOwner
<1>1. ASSUME IInv
      PROVE  WaitersHaveAnOwner
  <2>1. SUFFICES ASSUME NEW r \in Requests, lock[r] # None, queue[lock[r]] # <<>>
                 PROVE  lock[Head(queue[lock[r]])] = lock[r] /\ AtWork(Head(queue[lock[r]]))
    BY DEF WaitersHaveAnOwner
  <2>2. lock[r] \in Requests /\ queue[lock[r]] \in Seq(Requests)
    BY <1>1, <2>1 DEF IInv, TypeOK
  <2>3. Head(queue[lock[r]]) \in Members(queue[lock[r]])
    BY <2>1, <2>2 DEF Members
  <2>4. QED
    BY <1>1, <2>2, <2>3, ExecuteAssumption
    DEF IInv, LockInv, QueuesExact, LocksOwned, AtLock, AtWork
<1>2. QED
  BY <1>1, Invariant, PTL

\* Free permits and slots in use always make up the limit, on every exit path
\* of the handler and of the task.
THEOREM Balanced == Spec => []PermitsBalance
<1>1. IInv => PermitsBalance
  BY DEF IInv, SlotsCounted
<1>2. QED
  BY <1>1, Invariant, PTL

\* A request is answered "busy" only because another instance, or a run whose
\* settle failed, holds the tenant's reservation.
THEOREM BusyMeansOthers == Spec => RefusedByOthersOnly
<1> DEFINE P == \A r \in Requests :
                  client'[r] = "busy" /\ client[r] # "busy" =>
                    LET holder == reservation[TenantOf[r]]
                    IN  holder = Other \/ "settle" \in warned[holder]
<1>1. ASSUME IInv, [Next]_vars
      PROVE  [P]_vars
  <2>1. SUFFICES ASSUME NEW r \in Requests, client'[r] = "busy", client[r] # "busy"
                 PROVE  \/ reservation[TenantOf[r]] = Other
                        \/ "settle" \in warned[reservation[TenantOf[r]]]
    OBVIOUS
  <2>2. ReserveRefused(r)
    <3> USE <1>1, <2>1 DEF IInv, TypeOK, Reply
    <3>1. ~ UNCHANGED client
      OBVIOUS
    <3>2. \A t \in Tenants : ~ OtherReserves(t) /\ ~ OtherSettles(t) /\ ~ Expire(t)
      BY <3>1 DEF OtherReserves, OtherSettles, Expire
    <3>3. \A q \in Requests : ~ TaskStep(q) /\ ~ Disconnect(q) /\ ~ DropHandler(q)
      <4>1. \A q \in Requests : ~ TaskStep(q)
        BY <3>1 DEF TaskStep, RunnerExits, Settle, AppendAudit, RecordRun, Finish
      <4>2. \A q \in Requests : ~ Disconnect(q) /\ ~ DropHandler(q)
        <5>1. \A q \in Requests : ~ DropHandler(q)
          BY <3>1 DEF DropHandler
        <5>2. \A q \in Requests : client' # [client EXCEPT ![q] = "gone"]
          OBVIOUS
        <5>3. QED
          BY <5>1, <5>2 DEF Disconnect
      <4>3. QED
        BY <4>1, <4>2
    <3>4. PICK q \in Requests : HandlerStep(q)
      BY <1>1, <3>1, <3>2, <3>3 DEF Next, vars
    <3>5. ~ (Arrive(q) \/ Enqueue(q) \/ Admit(q) \/ Pass(q) \/ Reserve(q) \/ Spawn(q))
      BY <3>1 DEF Arrive, Enqueue, Admit, Pass, Reserve, Spawn
    <3>6. ~ (AtCapacity(q) \/ Reject(q) \/ StoreFails(q) \/ SetupFails(q) \/ Respond(q))
      <4>1. ASSUME NEW answer \in {"ok", "unprocessable", "capacity", "error"}
            PROVE  ~ Reply(q, answer)
        OBVIOUS
      <4>2. QED
        BY <4>1 DEF AtCapacity, Reject, StoreFails, SetupFails, Respond, ReturnEarly
    <3>7. ReserveRefused(q)
      BY <3>4, <3>5, <3>6 DEF HandlerStep
    <3>8. q = r
      BY <3>7 DEF ReserveRefused, ReturnEarly
    <3>9. QED
      BY <3>7, <3>8
  <2>3. /\ handler[r] = "gated" /\ task[r].stage = "none"
        /\ TenantOf[r] \in Tenants /\ reservation[TenantOf[r]] # None
    BY <1>1, <2>2, ExecuteAssumption
    DEF ReserveRefused, IInv, TypeOK, TaskStages, LockInv, StagesMatch
  <2>4. CASE reservation[TenantOf[r]] \notin Requests
    BY <1>1, <2>3, <2>4 DEF IInv, TypeOK
  <2>5. CASE reservation[TenantOf[r]] \in Requests
    <3> DEFINE h == reservation[TenantOf[r]]
    <3>1. CASE HasSlot(h)
      <4>1. h = r
        BY <1>1, <2>3, <2>5, <3>1, SlotsExclusive
        DEF IInv, ReservationInv, OneRunPerTenant, HasSlot
      <4>2. QED
        BY <1>1, <2>3, <2>5, <4>1 DEF IInv, ReservationInv
    <3>2. CASE ~ HasSlot(h)
      BY <1>1, <2>3, <2>5, <3>2 DEF IInv, ReservationInv, HasSlot, TaskAlive
    <3>3. QED
      BY <3>1, <3>2
  <2>6. QED
    BY <2>4, <2>5
<1>2. QED
  BY <1>1, Invariant, PTL DEF Spec, RefusedByOthersOnly

\* Whenever the server is quiet, every run that was started has its one audit
\* record and its one history row, or a warning for the one it lacks, a
\* tenant's are in the same order in both, and nothing is still held.
THEOREM Accounted == Spec => []AllAccounted
<1>1. ASSUME IInv, Quiet
      PROVE  /\ \A r \in Requests :
                  /\ task[r].stage = "ended" =>
                       /\ task[r].outcome # "blocked"
                       /\ Complete(audit, r, "audit") /\ Complete(history, r, "record")
                  /\ task[r].stage = "none" =>
                       /\ Entries(history, r) = {}
                       /\ \A i, j \in Entries(audit, r) : i = j /\ audit[i][2] = "blocked"
                  /\ r \in {reservation[t] : t \in Tenants} => "settle" \in warned[r]
                  /\ ~ OwnsLock(r)
             /\ SameOrder
             /\ permits = MaxRuns
  <2> USE DEF IInv
  <2>1. ASSUME NEW r \in Requests
        PROVE  /\ ~ HasSlot(r) /\ ~ AtLock(r) /\ handler[r] # "reserved"
               /\ task[r].stage \in {"none", "ended"}
    BY <1>1 DEF Quiet, HasSlot, AtLock, TaskAlive
  <2>2. ASSUME NEW r \in Requests
        PROVE  /\ task[r].stage = "ended" =>
                    /\ task[r].outcome # "blocked"
                    /\ Complete(audit, r, "audit") /\ Complete(history, r, "record")
               /\ task[r].stage = "none" =>
                    /\ Entries(history, r) = {}
                    /\ \A i, j \in Entries(audit, r) : i = j /\ audit[i][2] = "blocked"
    BY <1>1 DEF LogInv, LogsMatch, LogsOf, Unwritten, LockInv, StagesMatch
  <2>3. ASSUME NEW r \in Requests, r \in {reservation[t] : t \in Tenants}
        PROVE  "settle" \in warned[r]
    BY <1>1, <2>1, <2>3 DEF ReservationInv
  <2>4. ASSUME NEW r \in Requests
        PROVE  ~ OwnsLock(r)
    BY <1>1, <2>1 DEF LockInv, LocksOwned, OwnsLock
  <2>5. permits = MaxRuns
    <3>1. Slots = {}
      BY <2>1 DEF Slots
    <3>2. Cardinality(Slots) = 0
      BY <3>1, FS_EmptySet
    <3>3. QED
      BY <1>1, <3>2 DEF SlotsCounted, PermitsBalance, Slots, TypeOK
  <2>6. QED
    BY <1>1, <2>2, <2>3, <2>4, <2>5 DEF LogInv
<1>2. IInv => AllAccounted
  BY <1>1 DEF AllAccounted
<1>3. QED
  BY <1>2, Invariant, PTL
=============================================================================
