------------------------ MODULE DpReservationProofs ------------------------
(***************************************************************************)
(* What holds of the DP ledger protocol for any number of tenants,         *)
(* instances, runs and operator requests, any envelope, TTL and windows:   *)
(* types, the envelope and its refinement, who holds a reservation, and    *)
(* what the ledger adds up to.  Each theorem names the limits it needs.    *)
(***************************************************************************)
EXTENDS DpReservation, FiniteSetTheorems, TLAPS

\* A roll keeps a row a row, and its spend is what it was or zero.
LEMMA RollRowFact ==
  ASSUME NEW row \in BudgetRow, NEW w \in Nat, NEW at \in Nat
  PROVE  /\ RollRow(row, w, at) \in BudgetRow
         /\ RollRow(row, w, at).spent \in {0, row.spent}
  BY DEF RollRow, BudgetRow

\* A roll never adds spend.
LEMMA RollLowers ==
  ASSUME NEW row \in BudgetRow, NEW w \in Nat, NEW at \in Nat
  PROVE  RollRow(row, w, at).spent <= row.spent
<1>1. row.spent \in Nat
  BY DEF BudgetRow
<1>2. RollRow(row, w, at).spent \in {0, row.spent}
  BY RollRowFact
<1>3. QED
  BY <1>1, <1>2

\* A bill keeps a row a row, and its spend is e, or e more than it was.
LEMMA BillRowFact ==
  ASSUME NEW row \in BudgetRow, NEW e \in Nat, NEW at \in Nat
  PROVE  /\ BillRow(row, e, at) \in BudgetRow
         /\ BillRow(row, e, at).spent \in {e, row.spent + e}
  BY DEF BillRow, BudgetRow

\* Rolling and then billing: the spend is e, or e more than it was.
LEMMA RollBillFact ==
  ASSUME NEW row \in BudgetRow, NEW w \in Nat, NEW e \in Nat, NEW at \in Nat
  PROVE  /\ BillRow(RollRow(row, w, at), e, at) \in BudgetRow
         /\ BillRow(RollRow(row, w, at), e, at).spent \in {e, row.spent + e}
<1>1. RollRow(row, w, at) \in BudgetRow /\ RollRow(row, w, at).spent \in {0, row.spent}
  BY RollRowFact
<1>2. row.spent \in Nat
  BY DEF BudgetRow
<1> DEFINE rolled == RollRow(row, w, at)
<1>3. /\ BillRow(rolled, e, at) \in BudgetRow
      /\ BillRow(rolled, e, at).spent \in {e, rolled.spent + e}
  BY <1>1, BillRowFact
<1> HIDE DEF rolled
<1>4. BillRow(rolled, e, at).spent \in {e, row.spent + e}
  <2>1. CASE rolled.spent = 0
    BY <1>3, <2>1
  <2>2. CASE rolled.spent = row.spent
    BY <1>3, <2>2
  <2>3. QED
    BY <1>1, <2>1, <2>2 DEF rolled
<1>5. QED
  BY <1>3, <1>4 DEF rolled

\* What is left of an envelope fits it.
LEMMA RemainingFact ==
  ASSUME NEW row \in BudgetRow
  PROVE  /\ Remaining(row) \in 0..TotalEps
         /\ row.spent <= TotalEps => row.spent + Remaining(row) = TotalEps
  BY ConstantsAssumption DEF Remaining, BudgetRow

-----------------------------------------------------------------------------
(* Types. *)

USE DEF Ended, Active, Granted, Holding, MidReserve

\* A settle transaction keeps the store well typed.
LEMMA SettleTxType ==
  ASSUME TypeOK, NEW t \in Tenants, NEW id \in Runs \cup {None},
         NEW e \in Nat, NEW w \in Nat, SettleTx(t, id, e, w)
  PROVE  /\ ledger' \in [Tenants -> BudgetRow]
         /\ reservation' \in [Tenants -> ReservationRow]
         /\ override' = override
         /\ changedAt' = changedAt
<1>1. ledger[t] \in BudgetRow /\ now \in Nat
  BY DEF TypeOK
<1>2. BillRow(RollRow(ledger[t], w, now), e, now) \in BudgetRow
  BY <1>1, RollBillFact
<1>3. Released(reservation[t], id) \in ReservationRow
  BY ConstantsAssumption DEF Released, NoReservation, ReservationRow, TypeOK
<1>4. QED
  BY <1>2, <1>3 DEF SettleTx, TypeOK

\* Every step keeps the types.
LEMMA TypeStep ==
  ASSUME TypeOK, [Next]_vars
  PROVE  TypeOK'
<1> USE ConstantsAssumption
<1>w. \A t \in Tenants : EffectiveWindow(t) \in Nat
  BY DEF EffectiveWindow, TypeOK
<1>1. ASSUME NEW r \in Runs, RunStep(r) PROVE TypeOK'
  <2>t. TenantOf[r] \in Tenants
    OBVIOUS
  <2>c. call[r] \in CallLocals /\ used[r] \in Nat
    BY DEF TypeOK
  <2>n. \A q \in Runs : NoCall \in CallLocals
    BY DEF NoCall, CallLocals
  <2>1. CASE ReadWindow(r)
    <3> DEFINE locals == [call[r] EXCEPT !.window = EffectiveWindow(TenantOf[r]),
                                         !.clock = now]
    <3>1. locals \in CallLocals
      BY <2>t, <2>c, <1>w DEF CallLocals, TypeOK
    <3>2. call' = [call EXCEPT ![r] = locals]
      BY <2>1, <2>c DEF ReadWindow, TypeOK, CallLocals
    <3> HIDE DEF locals
    <3>3. call' \in [Runs -> CallLocals]
      BY <3>1, <3>2 DEF TypeOK
    <3>4. QED
      BY <2>1, <3>3 DEF ReadWindow, Goto, store, TypeOK, Stages
  <2>2. CASE ReserveRoll(r)
    <3>1. RollRow(ledger[TenantOf[r]], call[r].window, now) \in BudgetRow
      BY <2>t, RollRowFact DEF TypeOK, CallLocals
    <3>2. ledger' \in [Tenants -> BudgetRow]
      BY <2>2, <3>1 DEF ReserveRoll, TypeOK
    <3>3. [call[r] EXCEPT !.clock = now] \in CallLocals
      BY <2>c DEF CallLocals, TypeOK
    <3>4. call' \in [Runs -> CallLocals]
      BY <2>2, <3>3 DEF ReserveRoll, TypeOK
    <3>5. QED
      BY <2>2, <3>2, <3>4 DEF ReserveRoll, Goto, TypeOK, Stages
  <2>3. CASE ReserveInsert(r)
    <3>1. Remaining(ledger[TenantOf[r]]) \in 0..TotalEps
      BY <2>t, RemainingFact DEF TypeOK
    <3>2. [id |-> r, eps |-> Remaining(ledger[TenantOf[r]]),
           expires |-> call[r].clock + Ttl] \in ReservationRow
      BY <3>1, <2>c DEF ReservationRow, CallLocals
    <3>3. reservation' \in [Tenants -> ReservationRow]
      BY <2>3, <3>2 DEF ReserveInsert, TypeOK
    <3>4. QED
      BY <2>3, <3>3 DEF ReserveInsert, Goto, TypeOK, Stages
  <2>4. CASE ReserveBlocked(r)
    BY <2>4, <2>n DEF ReserveBlocked, Return, Goto, store, TypeOK, Stages
  <2>5. CASE ReserveReadBack(r) /\ reservation[TenantOf[r]].id # None
    <3>1. reservation[TenantOf[r]] \in ReservationRow
      BY <2>t DEF TypeOK
    <3> DEFINE locals == [call[r] EXCEPT !.id = reservation[TenantOf[r]].id,
                                         !.eps = reservation[TenantOf[r]].eps]
    <3>2. locals \in CallLocals
      BY <2>c, <3>1 DEF CallLocals, ReservationRow
    <3>3. call' = [call EXCEPT ![r] = locals]
      BY <2>5, <2>c DEF ReserveReadBack, TypeOK, CallLocals
    <3> HIDE DEF locals
    <3>4. call' \in [Runs -> CallLocals]
      BY <3>2, <3>3 DEF TypeOK
    <3>5. QED
      BY <2>5, <3>4 DEF ReserveReadBack, Goto, store, TypeOK, Stages
  <2>6. CASE ReserveReadBack(r) /\ reservation[TenantOf[r]].id = None
    BY <2>6, <2>n DEF ReserveReadBack, Return, Goto, store, TypeOK, Stages
  <2>7. CASE ReserveError(r)
    BY <2>7, <2>n DEF ReserveError, Return, Goto, store, TypeOK, Stages
  <2>8. CASE SetupFails(r)
    <3>1. /\ ledger' \in [Tenants -> BudgetRow]
          /\ reservation' \in [Tenants -> ReservationRow]
          /\ override' = override
          /\ changedAt' = changedAt
      <4>1. CASE SettleTx(TenantOf[r], call[r].id, 0, call[r].window)
        BY <4>1, <2>t, <2>c, SettleTxType DEF CallLocals
      <4>2. CASE UNCHANGED store
        BY <4>2 DEF store, TypeOK
      <4>3. QED
        BY <2>8, <4>1, <4>2 DEF SetupFails
    <3>2. QED
      BY <2>8, <3>1, <2>n DEF SetupFails, Return, Goto, TypeOK, Stages
  <2>9. CASE Spawn(r)
    BY <2>9 DEF Spawn, Goto, store, TypeOK, Stages
  <2>10. CASE WithDp(r)
    BY <2>10, <2>c DEF WithDp, Fits, store, TypeOK, CallLocals
  <2>11. CASE RunnerExits(r)
    BY <2>11 DEF RunnerExits, Goto, store, TypeOK, Stages
  <2>12. CASE Settle(r)
    <3>1. /\ ledger' \in [Tenants -> BudgetRow]
          /\ reservation' \in [Tenants -> ReservationRow]
          /\ override' = override
          /\ changedAt' = changedAt
      BY <2>12, <2>t, <2>c, SettleTxType DEF Settle, CallLocals
    <3>2. QED
      BY <2>12, <3>1, <2>n DEF Settle, Return, Goto, TypeOK, Stages
  <2>13. CASE SettleError(r)
    BY <2>13, <2>n DEF SettleError, Return, Goto, store, TypeOK, Stages
  <2>14. CASE Retry(r)
    BY <2>14 DEF Retry, Goto, store, TypeOK, Stages
  <2>15. QED
    BY <1>1, <2>1, <2>2, <2>3, <2>4, <2>5, <2>6, <2>7, <2>8, <2>9, <2>10,
       <2>11, <2>12, <2>13, <2>14 DEF RunStep
<1>2. ASSUME NEW t \in Tenants, BudgetStep(t) PROVE TypeOK'
  <2>1. CASE ViewBudget(t)
    BY <2>1 DEF ViewBudget, store, runState, TypeOK
  <2>2. ASSUME NEW i \in Instances, NEW w \in Windows, SetWindow(i, t, w)
        PROVE  TypeOK'
    <3> DEFINE row == [ledger[t] EXCEPT !.anchor = IF ledger[t].exists THEN now ELSE @]
    <3>1. row \in BudgetRow
      <4>1. ledger[t] \in BudgetRow /\ now \in Nat
        BY DEF TypeOK
      <4>2. row = [ledger[t] EXCEPT !.anchor = now] \/ row = [ledger[t] EXCEPT !.anchor = @]
        OBVIOUS
      <4>3. QED
        BY <4>1, <4>2 DEF BudgetRow
    <3>2. ledger' = [ledger EXCEPT ![t] = row]
      BY <2>2 DEF SetWindow, TypeOK
    <3> HIDE DEF row
    <3>3. ledger' \in [Tenants -> BudgetRow]
      BY <3>1, <3>2 DEF TypeOK
    <3>4. QED
      BY <2>2, <3>3 DEF SetWindow, runState, TypeOK
  <2>3. ASSUME NEW i \in Instances, ClearWindow(i, t) PROVE TypeOK'
    BY <2>3 DEF ClearWindow, runState, TypeOK
  <2>4. ASSUME NEW i \in Instances, ViewRead(i, t) PROVE TypeOK'
    BY <2>4, <1>w DEF ViewRead, store, runState, TypeOK
  <2>5. ASSUME NEW i \in Instances, ViewRoll(i, t) PROVE TypeOK'
    <3>1. RollRow(ledger[t], view[t].window, now) \in BudgetRow
      BY RollRowFact DEF TypeOK
    <3>2. ledger' \in [Tenants -> BudgetRow]
      BY <2>5, <3>1 DEF ViewRoll, TypeOK
    <3>3. QED
      BY <2>5, <3>2 DEF ViewRoll, runState, NoView, TypeOK
  <2>6. ASSUME NEW i \in Instances, ResetBudget(i, t) PROVE TypeOK'
    BY <2>6 DEF ResetBudget, runState, TypeOK, BudgetRow
  <2>7. QED
    BY <1>2, <2>1, <2>2, <2>3, <2>4, <2>5, <2>6 DEF BudgetStep
<1>3. ASSUME NEW i \in Instances, Crash(i) PROVE TypeOK'
  BY <1>3 DEF Crash, store, TypeOK, NoCall, CallLocals, Stages
<1>4. CASE Tick
  BY <1>4 DEF Tick, store, runState, TypeOK
<1>5. CASE UNCHANGED vars
  BY <1>5 DEF vars, TypeOK
<1>6. QED
  BY <1>1, <1>2, <1>3, <1>4, <1>5 DEF Next

\* The opening state of the store and an idle server are well typed.
LEMMA InitType == Init => TypeOK
  BY ConstantsAssumption DEF Init, TypeOK, NoBudgetRow, BudgetRow, NoReservation,
     ReservationRow, NoView, NoCall, CallLocals, Stages

\* The type invariant holds whatever the time limits are.
THEOREM TypeCorrect == Spec => []TypeOK
<1>1. Init => TypeOK
  BY InitType
<1>2. TypeOK /\ [Next]_vars => TypeOK'
  BY TypeStep
<1>3. QED
  BY <1>1, <1>2, PTL DEF Spec
-----------------------------------------------------------------------------
(* The envelope. *)

IInv == TypeOK /\ EnvelopeInv

\* Two holders of a tenant would both own its one row.
LEMMA OneHolder ==
  ASSUME EnvelopeInv, NEW q \in Runs, NEW r \in Runs,
         pc[q] \in Holding, pc[r] \in Holding, TenantOf[q] = TenantOf[r]
  PROVE  q = r
  BY DEF EnvelopeInv, HolderOwnsRow

\* A holder's row blocks every other reserve call: its clock is not past
\* the row's expiry, because no run outlives its TTL.
LEMMA HolderBlocks ==
  ASSUME HoldLimit < Ttl, IInv, NEW q \in Runs, NEW r \in Runs,
         pc[q] \in Holding, pc[r] = "rolled", TenantOf[q] = TenantOf[r]
  PROVE  Blocks(reservation[TenantOf[r]], call[r].clock)
<1>1. /\ call[q].clock \in Nat /\ call[r].clock \in Nat
      /\ now \in Nat /\ HoldLimit \in Nat /\ Ttl \in Nat
  BY ConstantsAssumption DEF IInv, TypeOK, CallLocals
<1>2. /\ reservation[TenantOf[r]].id = q
      /\ reservation[TenantOf[r]].expires = call[q].clock + Ttl
      /\ now <= call[q].clock + HoldLimit
      /\ call[r].clock <= now
  BY DEF IInv, EnvelopeInv, OnTime, HolderOwnsRow
<1>3. q # None
  BY ConstantsAssumption
<1>4. call[q].clock + Ttl > call[r].clock
  BY <1>1, <1>2
<1>5. QED
  BY <1>2, <1>3, <1>4 DEF Blocks

\* A step that only lowers ledger rows keeps the invariant.
LEMMA LowerSpend ==
  ASSUME IInv, TypeOK',
         UNCHANGED <<now, reservation, runState>>,
         \A t \in Tenants : ledger'[t].spent <= ledger[t].spent
  PROVE  EnvelopeInv'
<1>1. \A r \in Runs : TenantOf[r] \in Tenants
  BY ConstantsAssumption
<1>2. \A t \in Tenants : ledger[t].spent \in Nat /\ ledger'[t].spent \in Nat
                         /\ reservation[t].eps \in Nat
  BY DEF IInv, TypeOK, BudgetRow, ReservationRow
<1>3. OnTime' /\ CallIsRow'
  BY DEF IInv, EnvelopeInv, OnTime, CallIsRow, runState
<1>4. HolderOwnsRow'
  BY <1>1, <1>2, ConstantsAssumption DEF IInv, EnvelopeInv, HolderOwnsRow, runState
<1>5. SpendFits'
  BY <1>2, ConstantsAssumption DEF IInv, EnvelopeInv, SpendFits, runState
<1>6. QED
  BY <1>3, <1>4, <1>5 DEF EnvelopeInv

\* A step that leaves the store and the other runs alone, and after which r
\* holds nothing it did not hold before, keeps the invariant.
LEMMA StoreUntouched ==
  ASSUME IInv, TypeOK', NEW r \in Runs,
         UNCHANGED <<now, ledger, reservation>>,
         \A q \in Runs \ {r} : pc'[q] = pc[q] /\ call'[q] = call[q] /\ used'[q] = used[q],
         pc'[r] \notin {"rolled"} \cup Holding,
         pc'[r] \in {"idle", "waiting", "refused"} => used'[r] = 0
  PROVE  EnvelopeInv'
<1>1. OnTime' /\ HolderOwnsRow' /\ CallIsRow'
  BY DEF IInv, EnvelopeInv, OnTime, HolderOwnsRow, CallIsRow
<1>2. SpendFits'
  BY DEF IInv, EnvelopeInv, SpendFits
<1>3. QED
  BY <1>1, <1>2 DEF EnvelopeInv

\* Settling at most what the runner spent, and releasing, keeps it.
LEMMA SettleKeeps ==
  ASSUME IInv, TypeOK', NEW r \in Runs, pc[r] \in Granted,
         NEW e \in Nat, e <= used[r],
         SettleTx(TenantOf[r], call[r].id, e, call[r].window),
         NEW stage \in {"settled", "failed"}, Return(r, stage),
         UNCHANGED <<now, used>>
  PROVE  EnvelopeInv'
<1> DEFINE t == TenantOf[r]
<1>1. t \in Tenants /\ r # None
  BY ConstantsAssumption
<1>2. /\ ledger[t] \in BudgetRow /\ call[r].window \in Nat /\ now \in Nat
      /\ used[r] \in Nat /\ reservation[t].eps \in Nat /\ ledger[t].spent \in Nat
  BY <1>1, ConstantsAssumption DEF IInv, TypeOK, CallLocals, BudgetRow, ReservationRow
<1>3. /\ call[r].id = r /\ reservation[t].id = r
      /\ used[r] <= reservation[t].eps
      /\ ledger[t].spent + reservation[t].eps <= TotalEps
  BY DEF IInv, EnvelopeInv, HolderOwnsRow, CallIsRow, SpendFits
<1>4. BillRow(RollRow(ledger[t], call[r].window, now), e, now).spent
        \in {e, ledger[t].spent + e}
  BY <1>2, RollBillFact
<1>5. ledger'[t].spent \in {e, ledger[t].spent + e}
  BY <1>1, <1>4 DEF SettleTx, IInv, TypeOK
<1>6. ledger'[t].spent <= TotalEps
  BY <1>2, <1>3, <1>5, ConstantsAssumption
<1>7. \A u \in Tenants \ {t} : ledger'[u] = ledger[u] /\ reservation'[u] = reservation[u]
  BY DEF SettleTx, IInv, TypeOK
<1>8. /\ pc'[r] = stage
      /\ \A q \in Runs \ {r} : pc'[q] = pc[q] /\ call'[q] = call[q]
  BY DEF Return, Goto, IInv, TypeOK
<1>9. \A q \in Runs \ {r} : pc[q] \in Holding => TenantOf[q] \in Tenants \ {t}
  BY OneHolder, ConstantsAssumption DEF IInv
<1> HIDE DEF t
<1>10. OnTime' /\ HolderOwnsRow' /\ CallIsRow'
  BY <1>7, <1>8, <1>9 DEF IInv, EnvelopeInv, OnTime, HolderOwnsRow, CallIsRow
<1>11. SpendFits'
  BY <1>6, <1>7, <1>8 DEF IInv, EnvelopeInv, SpendFits
<1>12. QED
  BY <1>10, <1>11 DEF EnvelopeInv

\* Every step keeps the inductive invariant, provided runs end before their TTL.
LEMMA EnvelopeStep ==
  ASSUME HoldLimit < Ttl, IInv, TypeOK', [Next]_vars
  PROVE  EnvelopeInv'
<1> USE ConstantsAssumption
<1>1. ASSUME NEW r \in Runs, RunStep(r) PROVE EnvelopeInv'
  <2>t. TenantOf[r] \in Tenants
    OBVIOUS
  <2>c. /\ call[r].window \in Nat /\ now \in Nat /\ used[r] \in Nat
        /\ pc[r] \in {"idle", "waiting", "refused"} \cup MidReserve => used[r] = 0
    BY DEF IInv, TypeOK, CallLocals, EnvelopeInv, SpendFits
  <2>1. CASE ReadWindow(r)
    BY <2>1, <2>c, StoreUntouched DEF ReadWindow, Goto, store, IInv, TypeOK
  <2>2. CASE ReserveRoll(r)
    <3>1. RollRow(ledger[TenantOf[r]], call[r].window, now).spent <= ledger[TenantOf[r]].spent
      BY <2>t, <2>c, RollLowers DEF IInv, TypeOK
    <3>2. \A u \in Tenants : /\ ledger'[u].spent <= ledger[u].spent
                             /\ ledger[u].spent \in Nat /\ ledger'[u].spent \in Nat
                             /\ reservation[u].eps \in Nat
      BY <2>2, <3>1 DEF ReserveRoll, IInv, TypeOK, BudgetRow, ReservationRow
    <3>3. /\ pc'[r] = "rolled" /\ call'[r].clock = now
          /\ \A q \in Runs \ {r} : pc'[q] = pc[q] /\ call'[q] = call[q]
      BY <2>2 DEF ReserveRoll, Goto, IInv, TypeOK, CallLocals
    <3>4. UNCHANGED <<now, reservation, used>> /\ used[r] = 0
      BY <2>2, <2>c DEF ReserveRoll
    <3>5. OnTime' /\ CallIsRow'
      BY <2>c, <3>3, <3>4 DEF IInv, EnvelopeInv, OnTime, CallIsRow
    <3>6. HolderOwnsRow'
      BY <3>2, <3>3, <3>4 DEF IInv, EnvelopeInv, HolderOwnsRow
    <3>7. SpendFits'
      BY <3>2, <3>3, <3>4 DEF IInv, EnvelopeInv, SpendFits
    <3>8. QED
      BY <3>5, <3>6, <3>7 DEF EnvelopeInv
  <2>3. CASE ReserveInsert(r)
    <3>1. \A q \in Runs : pc[q] \in Holding => TenantOf[q] # TenantOf[r]
      BY <2>3, HolderBlocks DEF ReserveInsert
    <3>2. /\ ledger[TenantOf[r]].spent + Remaining(ledger[TenantOf[r]]) <= TotalEps
      BY <2>t, RemainingFact DEF IInv, TypeOK, EnvelopeInv, SpendFits
    <3>3. /\ reservation'[TenantOf[r]].id = r
          /\ reservation'[TenantOf[r]].expires = call[r].clock + Ttl
          /\ reservation'[TenantOf[r]].eps = Remaining(ledger[TenantOf[r]])
          /\ \A u \in Tenants \ {TenantOf[r]} : reservation'[u] = reservation[u]
      BY <2>3, <2>t DEF ReserveInsert, IInv, TypeOK
    <3>4. /\ pc[r] = "rolled" /\ pc'[r] = "inserted"
          /\ \A q \in Runs \ {r} : pc'[q] = pc[q]
      BY <2>3 DEF ReserveInsert, Goto, IInv, TypeOK
    <3>5. UNCHANGED <<now, ledger, call, used>>
      BY <2>3 DEF ReserveInsert
    <3>6. OnTime'
      BY <3>4, <3>5 DEF IInv, EnvelopeInv, OnTime
    <3>7. HolderOwnsRow' /\ CallIsRow'
      BY <3>1, <3>2, <3>3, <3>4, <3>5 DEF IInv, EnvelopeInv, HolderOwnsRow, CallIsRow
    <3>8. SpendFits'
      BY <3>4, <3>5 DEF IInv, EnvelopeInv, SpendFits
    <3>9. QED
      BY <3>6, <3>7, <3>8 DEF EnvelopeInv
  <2>4. CASE ReserveBlocked(r)
    BY <2>4, <2>c, StoreUntouched DEF ReserveBlocked, Return, Goto, store, IInv, TypeOK
  <2>5. CASE ReserveReadBack(r) /\ reservation[TenantOf[r]].id # None
    <3>1. /\ pc[r] = "inserted" /\ pc'[r] = "armed"
          /\ call'[r].clock = call[r].clock
          /\ call'[r].id = reservation[TenantOf[r]].id
          /\ call'[r].eps = reservation[TenantOf[r]].eps
          /\ \A q \in Runs \ {r} : pc'[q] = pc[q] /\ call'[q] = call[q]
      BY <2>5 DEF ReserveReadBack, Goto, IInv, TypeOK, CallLocals
    <3>2. UNCHANGED <<now, ledger, reservation, used>>
      BY <2>5 DEF ReserveReadBack, store
    <3>3. OnTime' /\ HolderOwnsRow'
      BY <3>1, <3>2 DEF IInv, EnvelopeInv, OnTime, HolderOwnsRow
    <3>4. CallIsRow'
      BY <3>1, <3>2 DEF IInv, EnvelopeInv, HolderOwnsRow, CallIsRow
    <3>5. reservation[TenantOf[r]].eps \in Nat /\ used[r] = 0
      BY <2>t, <2>c, <3>1 DEF IInv, TypeOK, ReservationRow
    <3>6. SpendFits'
      BY <3>1, <3>2, <3>5 DEF IInv, EnvelopeInv, SpendFits
    <3>7. QED
      BY <3>3, <3>4, <3>6 DEF EnvelopeInv
  <2>6. CASE ReserveReadBack(r) /\ reservation[TenantOf[r]].id = None
    BY <2>6, <2>c, StoreUntouched DEF ReserveReadBack, Return, Goto, store, IInv, TypeOK
  <2>7. CASE ReserveError(r)
    BY <2>7, <2>c, StoreUntouched DEF ReserveError, Return, Goto, store, IInv, TypeOK
  <2>8. CASE SetupFails(r)
    <3>1. CASE SettleTx(TenantOf[r], call[r].id, 0, call[r].window)
      BY <2>8, <2>c, <3>1, SettleKeeps DEF SetupFails
    <3>2. CASE UNCHANGED store
      BY <2>8, <3>2, StoreUntouched DEF SetupFails, Return, Goto, store, IInv, TypeOK
    <3>3. QED
      BY <2>8, <3>1, <3>2 DEF SetupFails
  <2>9. CASE Spawn(r)
    <3>1. /\ pc[r] \in Granted /\ pc'[r] \in Granted
          /\ \A q \in Runs \ {r} : pc'[q] = pc[q]
          /\ UNCHANGED <<now, ledger, reservation, call, used>>
      BY <2>9 DEF Spawn, Goto, store, IInv, TypeOK
    <3>2. QED
      BY <3>1 DEF IInv, EnvelopeInv, OnTime, HolderOwnsRow, CallIsRow, SpendFits
  <2>10. CASE WithDp(r)
    <3>1. pc[r] = "running" /\ UNCHANGED <<now, ledger, reservation, pc, call>>
      BY <2>10 DEF WithDp, store
    <3>2. used'[r] <= call[r].eps /\ \A q \in Runs \ {r} : used'[q] = used[q]
      BY <2>10 DEF WithDp, Fits, IInv, TypeOK
    <3>3. OnTime' /\ HolderOwnsRow' /\ CallIsRow'
      BY <3>1 DEF IInv, EnvelopeInv, OnTime, HolderOwnsRow, CallIsRow
    <3>4. SpendFits'
      BY <3>1, <3>2 DEF IInv, EnvelopeInv, SpendFits
    <3>5. QED
      BY <3>3, <3>4 DEF EnvelopeInv
  <2>11. CASE RunnerExits(r)
    <3>1. /\ pc[r] \in Granted /\ pc'[r] \in Granted
          /\ \A q \in Runs \ {r} : pc'[q] = pc[q]
          /\ UNCHANGED <<now, ledger, reservation, call, used>>
      BY <2>11 DEF RunnerExits, Goto, store, IInv, TypeOK
    <3>2. QED
      BY <3>1 DEF IInv, EnvelopeInv, OnTime, HolderOwnsRow, CallIsRow, SpendFits
  <2>12. CASE Settle(r)
    BY <2>12, <2>c, SettleKeeps DEF Settle
  <2>13. CASE SettleError(r)
    BY <2>13, StoreUntouched DEF SettleError, Return, Goto, store, IInv, TypeOK
  <2>14. CASE Retry(r)
    BY <2>14, <2>c, StoreUntouched DEF Retry, Goto, store, IInv, TypeOK
  <2>15. QED
    BY <1>1, <2>1, <2>2, <2>3, <2>4, <2>5, <2>6, <2>7, <2>8, <2>9, <2>10,
       <2>11, <2>12, <2>13, <2>14 DEF RunStep
<1>2. ASSUME NEW t \in Tenants, BudgetStep(t) PROVE EnvelopeInv'
  <2>1. CASE ViewBudget(t)
    BY <2>1, LowerSpend DEF ViewBudget, store, IInv, TypeOK, BudgetRow
  <2>2. ASSUME NEW i \in Instances, NEW w \in Windows, SetWindow(i, t, w)
        PROVE  EnvelopeInv'
    BY <2>2, LowerSpend DEF SetWindow, IInv, TypeOK, BudgetRow
  <2>3. ASSUME NEW i \in Instances, ClearWindow(i, t) PROVE EnvelopeInv'
    BY <2>3, LowerSpend DEF ClearWindow, IInv, TypeOK, BudgetRow
  <2>4. ASSUME NEW i \in Instances, ViewRead(i, t) PROVE EnvelopeInv'
    BY <2>4, LowerSpend DEF ViewRead, store, IInv, TypeOK, BudgetRow
  <2>5. ASSUME NEW i \in Instances, ViewRoll(i, t) PROVE EnvelopeInv'
    <3>1. RollRow(ledger[t], view[t].window, now).spent <= ledger[t].spent
      BY RollLowers DEF IInv, TypeOK
    <3>2. \A u \in Tenants : ledger'[u].spent <= ledger[u].spent
      BY <2>5, <3>1 DEF ViewRoll, IInv, TypeOK, BudgetRow
    <3>3. UNCHANGED <<now, reservation, runState>>
      BY <2>5 DEF ViewRoll
    <3>4. QED
      BY <3>2, <3>3, LowerSpend
  <2>6. ASSUME NEW i \in Instances, ResetBudget(i, t) PROVE EnvelopeInv'
    BY <2>6, LowerSpend DEF ResetBudget, IInv, TypeOK, BudgetRow
  <2>7. QED
    BY <1>2, <2>1, <2>2, <2>3, <2>4, <2>5, <2>6 DEF BudgetStep
<1>3. ASSUME NEW i \in Instances, Crash(i) PROVE EnvelopeInv'
  <2>1. /\ \A r \in Runs : pc'[r] = "crashed" \/ (pc'[r] = pc[r] /\ call'[r] = call[r])
        /\ UNCHANGED <<now, ledger, reservation, used>>
    BY <1>3 DEF Crash, store, IInv, TypeOK
  <2>2. QED
    BY <2>1 DEF IInv, EnvelopeInv, OnTime, HolderOwnsRow, CallIsRow, SpendFits
<1>4. CASE Tick
  <2>1. /\ now \in Nat /\ now' = now + 1
        /\ \A r \in Runs : call[r].clock \in Nat
        /\ \A r \in Runs : pc[r] \in {"rolled"} \cup Holding => now - call[r].clock < HoldLimit
        /\ UNCHANGED <<ledger, reservation, pc, call, used>>
    BY <1>4 DEF Tick, store, runState, IInv, TypeOK, CallLocals
  <2>2. OnTime'
    BY <2>1 DEF IInv, EnvelopeInv, OnTime
  <2>3. QED
    BY <2>1, <2>2 DEF IInv, EnvelopeInv, HolderOwnsRow, CallIsRow, SpendFits
<1>5. CASE UNCHANGED vars
  BY <1>5, LowerSpend DEF vars, runState, IInv, TypeOK, BudgetRow
<1>6. QED
  BY <1>1, <1>2, <1>3, <1>4, <1>5 DEF Next

\* The envelope is respected: no two runs own a tenant's budget at once, and
\* what is billed plus what the owner may still spend never exceeds TotalEps.
\* The assumption is the one the code makes: a run (the runner kills it after
\* its timeout) is over before its reservation's TTL.
THEOREM EnvelopeHolds ==
  ASSUME HoldLimit < Ttl
  PROVE  Spec => []EnvelopeRespected
<1>1. Init => IInv
  <2>1. ASSUME Init PROVE TypeOK
    BY <2>1, InitType
  <2>2. ASSUME Init PROVE EnvelopeInv
    BY <2>2, ConstantsAssumption DEF Init, EnvelopeInv, OnTime, HolderOwnsRow,
       CallIsRow, SpendFits, NoBudgetRow
  <2>3. QED
    BY <2>1, <2>2 DEF IInv
<1>2. IInv /\ [Next]_vars => IInv'
  BY TypeStep, EnvelopeStep DEF IInv
<1>3. IInv => EnvelopeRespected
  <2> SUFFICES ASSUME IInv PROVE EnvelopeRespected
    OBVIOUS
  <2>1. \A r \in Runs : pc[r] \in Granted =>
          ledger[TenantOf[r]].spent + call[r].eps <= TotalEps
    BY DEF IInv, EnvelopeInv, HolderOwnsRow, CallIsRow
  <2>2. QED
    BY <2>1, OneHolder DEF IInv, EnvelopeInv, SpendFits, EnvelopeRespected
<1>4. QED
  BY <1>1, <1>2, <1>3, PTL DEF Spec
-----------------------------------------------------------------------------
(* Ownership of the reservation row, however late runs settle. *)

JInv == TypeOK /\ OwnershipInv

\* A row that was inserted by a reserve call still at work blocks the others.
LEMMA InsertedBlocks ==
  ASSUME ReserveLimit < Ttl, JInv, NEW q \in Runs, NEW r \in Runs,
         pc[q] = "inserted", pc[r] = "rolled", TenantOf[q] = TenantOf[r]
  PROVE  Blocks(reservation[TenantOf[r]], call[r].clock)
<1>1. /\ call[q].clock \in Nat /\ call[r].clock \in Nat
      /\ now \in Nat /\ ReserveLimit \in Nat /\ Ttl \in Nat
  BY ConstantsAssumption DEF JInv, TypeOK, CallLocals
<1>2. /\ reservation[TenantOf[r]].id = q
      /\ reservation[TenantOf[r]].expires = call[q].clock + Ttl
      /\ now <= call[q].clock + ReserveLimit
      /\ call[r].clock <= now
  BY DEF JInv, OwnershipInv, ReserveOnTime, OwnId
<1>3. q # None
  BY ConstantsAssumption
<1>4. call[q].clock + Ttl > call[r].clock
  BY <1>1, <1>2
<1>5. QED
  BY <1>2, <1>3, <1>4 DEF Blocks

\* Steps after which r is not inside a reserve call, and that release no row
\* but r's own, keep ownership.
LEMMA OwnRowOnly ==
  ASSUME JInv, NEW r \in Runs, UNCHANGED now,
         \A q \in Runs \ {r} : pc'[q] = pc[q] /\ call'[q] = call[q],
         \A t \in Tenants :
           reservation[t].id # None /\ reservation[t].id # r
             => reservation'[t] = reservation[t],
         pc'[r] \notin MidReserve,
         pc'[r] \in Granted => call'[r].id = r
  PROVE  OwnershipInv'
<1>1. ReserveOnTime'
  BY DEF JInv, OwnershipInv, ReserveOnTime
<1>2. OwnId'
  BY ConstantsAssumption DEF JInv, OwnershipInv, OwnId
<1>3. QED
  BY <1>1, <1>2 DEF OwnershipInv

\* A settle with r's own id releases no row but r's.
LEMMA SettleOwnRow ==
  ASSUME JInv, NEW r \in Runs, pc[r] \in Granted, NEW e,
         SettleTx(TenantOf[r], call[r].id, e, call[r].window)
  PROVE  \A t \in Tenants : reservation[t].id # r => reservation'[t] = reservation[t]
<1>1. call[r].id = r /\ TenantOf[r] \in Tenants
  BY ConstantsAssumption DEF JInv, OwnershipInv, OwnId
<1>2. reservation' = [reservation EXCEPT ![TenantOf[r]] =
                        Released(reservation[TenantOf[r]], r)]
  BY <1>1 DEF SettleTx
<1>3. QED
  BY <1>1, <1>2 DEF Released, JInv, TypeOK

\* Every step keeps ownership, provided reserve calls end before the TTL.
LEMMA OwnershipStep ==
  ASSUME ReserveLimit < Ttl, JInv, [Next]_vars
  PROVE  OwnershipInv'
<1> USE ConstantsAssumption
<1>1. ASSUME NEW r \in Runs, RunStep(r) PROVE OwnershipInv'
  <2>t. TenantOf[r] \in Tenants /\ call[r].clock \in Nat /\ now \in Nat
    BY DEF JInv, TypeOK, CallLocals
  <2>1. CASE ReadWindow(r)
    BY <2>1, OwnRowOnly DEF ReadWindow, Goto, store, JInv, TypeOK
  <2>2. CASE ReserveRoll(r)
    <3>1. /\ pc'[r] = "rolled" /\ call'[r].clock = now
          /\ \A q \in Runs \ {r} : pc'[q] = pc[q] /\ call'[q] = call[q]
          /\ UNCHANGED <<now, reservation>>
      BY <2>2 DEF ReserveRoll, Goto, JInv, TypeOK, CallLocals
    <3>2. QED
      BY <2>t, <3>1 DEF JInv, OwnershipInv, ReserveOnTime, OwnId
  <2>3. CASE ReserveInsert(r)
    <3>1. \A q \in Runs : pc[q] = "inserted" => TenantOf[q] # TenantOf[r]
      BY <2>3, InsertedBlocks DEF ReserveInsert
    <3>2. /\ reservation'[TenantOf[r]].id = r
          /\ reservation'[TenantOf[r]].expires = call[r].clock + Ttl
          /\ \A u \in Tenants \ {TenantOf[r]} : reservation'[u] = reservation[u]
      BY <2>3, <2>t DEF ReserveInsert, JInv, TypeOK
    <3>3. /\ pc[r] = "rolled" /\ pc'[r] = "inserted"
          /\ \A q \in Runs \ {r} : pc'[q] = pc[q]
          /\ UNCHANGED <<now, call>>
      BY <2>3 DEF ReserveInsert, Goto, JInv, TypeOK
    <3>4. QED
      BY <3>1, <3>2, <3>3 DEF JInv, OwnershipInv, ReserveOnTime, OwnId
  <2>4. CASE ReserveBlocked(r)
    <3>1. Return(r, "refused") /\ UNCHANGED <<now, reservation>>
      BY <2>4 DEF ReserveBlocked, store
    <3>2. QED
      BY <3>1, OwnRowOnly DEF Return, Goto, JInv, TypeOK
  <2>5. CASE ReserveReadBack(r) /\ reservation[TenantOf[r]].id # None
    <3>1. /\ pc[r] = "inserted" /\ pc'[r] = "armed"
          /\ call'[r].id = reservation[TenantOf[r]].id
          /\ \A q \in Runs \ {r} : pc'[q] = pc[q] /\ call'[q] = call[q]
          /\ UNCHANGED <<now, reservation>>
      BY <2>5 DEF ReserveReadBack, Goto, store, JInv, TypeOK, CallLocals
    <3>2. reservation[TenantOf[r]].id = r
      BY <3>1 DEF JInv, OwnershipInv, OwnId
    <3>3. QED
      BY <3>1, <3>2, OwnRowOnly
  <2>6. CASE ReserveReadBack(r) /\ reservation[TenantOf[r]].id = None
    <3>1. Return(r, "refused") /\ UNCHANGED <<now, reservation>>
      BY <2>6 DEF ReserveReadBack, store
    <3>2. QED
      BY <3>1, OwnRowOnly DEF Return, Goto, JInv, TypeOK
  <2>7. CASE ReserveError(r)
    <3>1. Return(r, "failed") /\ UNCHANGED <<now, reservation>>
      BY <2>7 DEF ReserveError, store
    <3>2. QED
      BY <3>1, OwnRowOnly DEF Return, Goto, JInv, TypeOK
  <2>8. CASE SetupFails(r)
    <3>1. \A t \in Tenants : reservation[t].id # r => reservation'[t] = reservation[t]
      BY <2>8, SettleOwnRow DEF SetupFails, store
    <3>2. QED
      BY <2>8, <3>1, OwnRowOnly DEF SetupFails, Return, Goto, JInv, TypeOK
  <2>9. CASE Spawn(r)
    <3>1. /\ pc[r] = "armed" /\ pc'[r] = "running"
          /\ \A q \in Runs \ {r} : pc'[q] = pc[q]
          /\ UNCHANGED <<now, reservation, call>>
      BY <2>9 DEF Spawn, Goto, store, JInv, TypeOK
    <3>2. QED
      BY <3>1 DEF JInv, OwnershipInv, ReserveOnTime, OwnId
  <2>10. CASE WithDp(r)
    BY <2>10 DEF WithDp, store, JInv, OwnershipInv, ReserveOnTime, OwnId
  <2>11. CASE RunnerExits(r)
    <3>1. /\ pc[r] = "running" /\ pc'[r] = "exited"
          /\ \A q \in Runs \ {r} : pc'[q] = pc[q]
          /\ UNCHANGED <<now, reservation, call>>
      BY <2>11 DEF RunnerExits, Goto, store, JInv, TypeOK
    <3>2. QED
      BY <3>1 DEF JInv, OwnershipInv, ReserveOnTime, OwnId
  <2>12. CASE Settle(r)
    <3>1. \A t \in Tenants : reservation[t].id # r => reservation'[t] = reservation[t]
      BY <2>12, SettleOwnRow DEF Settle
    <3>2. QED
      BY <2>12, <3>1, OwnRowOnly DEF Settle, Return, Goto, JInv, TypeOK
  <2>13. CASE SettleError(r)
    BY <2>13, OwnRowOnly DEF SettleError, Return, Goto, store, JInv, TypeOK
  <2>14. CASE Retry(r)
    BY <2>14, OwnRowOnly DEF Retry, Goto, store, JInv, TypeOK
  <2>15. QED
    BY <1>1, <2>1, <2>2, <2>3, <2>4, <2>5, <2>6, <2>7, <2>8, <2>9, <2>10,
       <2>11, <2>12, <2>13, <2>14 DEF RunStep
<1>2. ASSUME NEW t \in Tenants, BudgetStep(t) PROVE OwnershipInv'
  <2>1. UNCHANGED <<now, reservation, pc, call>>
    BY <1>2 DEF BudgetStep, ViewBudget, SetWindow, ClearWindow, ViewRead, ViewRoll,
       ResetBudget, store, runState
  <2>2. QED
    BY <2>1 DEF JInv, OwnershipInv, ReserveOnTime, OwnId
<1>3. ASSUME NEW i \in Instances, Crash(i) PROVE OwnershipInv'
  <2>1. /\ \A r \in Runs : pc'[r] = "crashed" \/ (pc'[r] = pc[r] /\ call'[r] = call[r])
        /\ UNCHANGED <<now, reservation>>
    BY <1>3 DEF Crash, store, JInv, TypeOK
  <2>2. QED
    BY <2>1 DEF JInv, OwnershipInv, ReserveOnTime, OwnId
<1>4. CASE Tick
  <2>1. /\ now \in Nat /\ now' = now + 1
        /\ \A r \in Runs : call[r].clock \in Nat
        /\ \A r \in Runs : pc[r] \in MidReserve => now - call[r].clock < ReserveLimit
        /\ UNCHANGED <<reservation, pc, call>>
    BY <1>4 DEF Tick, store, runState, JInv, TypeOK, CallLocals
  <2>2. ReserveOnTime'
    BY <2>1 DEF JInv, OwnershipInv, ReserveOnTime
  <2>3. QED
    BY <2>1, <2>2 DEF JInv, OwnershipInv, OwnId
<1>5. CASE UNCHANGED vars
  BY <1>5 DEF vars, JInv, OwnershipInv, ReserveOnTime, OwnId
<1>6. QED
  BY <1>1, <1>2, <1>3, <1>4, <1>5 DEF Next

\* No settle, however late, and no other reserve call takes the reservation of
\* a run at work before its TTL has passed.  No bound on how long runs last is
\* assumed, only that a reserve call is shorter than the TTL.
THEOREM HolderKept ==
  ASSUME ReserveLimit < Ttl
  PROVE  Spec => HolderKeepsReservation
<1> DEFINE Kept ==
      \A t \in Tenants, r \in Runs :
        /\ reservation[t].id = r
        /\ pc[r] \in Holding
        /\ reservation'[t] # reservation[t]
        => pc'[r] \notin Holding \/ reservation[t].expires <= now
<1>1. Init => JInv
  <2>1. ASSUME Init PROVE OwnershipInv
    BY <2>1 DEF Init, OwnershipInv, ReserveOnTime, OwnId
  <2>2. QED
    BY <2>1, InitType DEF JInv
<1>2. JInv /\ [Next]_vars => JInv'
  BY TypeStep, OwnershipStep DEF JInv
<1>3. JInv /\ [Next]_vars => [Kept]_vars
  <2> SUFFICES ASSUME JInv, Next, NEW t \in Tenants, NEW r \in Runs,
                      reservation[t].id = r, pc[r] \in Holding,
                      reservation'[t] # reservation[t]
               PROVE  pc'[r] \notin Holding \/ reservation[t].expires <= now
    BY DEF Kept
  <2>1. ASSUME NEW q \in Runs, RunStep(q)
        PROVE  pc'[r] \notin Holding \/ reservation[t].expires <= now
    <3>1. CASE ReserveInsert(q)
      <4>1. t = TenantOf[q] /\ ~ Blocks(reservation[t], call[q].clock) /\ pc[q] = "rolled"
        BY <3>1 DEF ReserveInsert, JInv, TypeOK
      <4>2. call[q].clock <= now
        BY <4>1 DEF JInv, OwnershipInv, ReserveOnTime
      <4>3. /\ reservation[t].expires \in Nat /\ call[q].clock \in Nat /\ now \in Nat
            /\ r # None
        BY ConstantsAssumption DEF JInv, TypeOK, CallLocals, ReservationRow
      <4>4. reservation[t].expires <= call[q].clock
        BY <4>1, <4>3 DEF Blocks
      <4>5. QED
        BY <4>2, <4>3, <4>4
    <3>2. CASE SetupFails(q)
      <4>1. q = r
        BY <3>2, SettleOwnRow DEF SetupFails, store
      <4>2. QED
        BY <3>2, <4>1 DEF SetupFails, Return, Goto, JInv, TypeOK
    <3>3. CASE Settle(q)
      <4>1. q = r
        BY <3>3, SettleOwnRow DEF Settle
      <4>2. QED
        BY <3>3, <4>1 DEF Settle, Return, Goto, JInv, TypeOK
    <3>4. QED
      BY <2>1, <3>1, <3>2, <3>3 DEF RunStep, ReadWindow, ReserveRoll, ReserveBlocked,
         ReserveReadBack, Return, Goto, ReserveError, Spawn, WithDp, RunnerExits,
         SettleError, Retry, store
  <2>2. CASE \E u \in Tenants : BudgetStep(u)
    BY <2>2 DEF BudgetStep, ViewBudget, SetWindow, ClearWindow, ViewRead, ViewRoll,
       ResetBudget, store
  <2>3. CASE (\E i \in Instances : Crash(i)) \/ Tick
    BY <2>3 DEF Crash, Tick, store
  <2>4. QED
    BY <2>1, <2>2, <2>3 DEF Next
<1>4. Spec => [][Kept]_vars
  BY <1>1, <1>2, <1>3, PTL DEF Spec
<1>5. QED
  BY <1>4 DEF HolderKeepsReservation
-----------------------------------------------------------------------------
(* The envelope, as an abstract machine. *)

\* A reservation lies in the row of its run's own tenant.
RowsInPlace ==
  \A t \in Tenants : reservation[t].id # None => TenantOf[reservation[t].id] = t

KInv == IInv /\ RowsInPlace

\* Rows are inserted for the run's tenant, and otherwise only deleted.
LEMMA RowsInPlaceStep ==
  ASSUME TypeOK, RowsInPlace, [Next]_vars
  PROVE  RowsInPlace'
<1> USE ConstantsAssumption
<1>1. ASSUME \A t \in Tenants : reservation'[t] \in {reservation[t], NoReservation}
      PROVE  RowsInPlace'
  BY <1>1 DEF RowsInPlace, NoReservation
<1>2. CASE UNCHANGED reservation
  BY <1>1, <1>2
<1>3. ASSUME NEW t \in Tenants, NEW id, NEW e, NEW w, SettleTx(t, id, e, w)
      PROVE  RowsInPlace'
  <2>1. \A u \in Tenants : reservation'[u] \in {reservation[u], NoReservation}
    BY <1>3 DEF SettleTx, Released, TypeOK
  <2>2. QED
    BY <1>1, <2>1
<1>4. ASSUME NEW r \in Runs, RunStep(r) PROVE RowsInPlace'
  <2>1. CASE ReserveInsert(r)
    BY <2>1 DEF ReserveInsert, RowsInPlace, TypeOK
  <2>2. CASE SetupFails(r)
    <3>1. CASE SettleTx(TenantOf[r], call[r].id, 0, call[r].window)
      BY <1>3, <3>1
    <3>2. CASE UNCHANGED store
      BY <1>2, <3>2 DEF store
    <3>3. QED
      BY <2>2, <3>1, <3>2 DEF SetupFails
  <2>3. CASE Settle(r)
    BY <1>3, <2>3 DEF Settle
  <2>4. QED
    BY <1>2, <1>4, <2>1, <2>2, <2>3 DEF RunStep, ReadWindow, ReserveRoll, ReserveBlocked,
       ReserveReadBack, ReserveError, Spawn, WithDp, RunnerExits, SettleError, Retry, store
<1>5. ASSUME NEW t \in Tenants, BudgetStep(t) PROVE RowsInPlace'
  BY <1>2, <1>5 DEF BudgetStep, ViewBudget, SetWindow, ClearWindow, ViewRead, ViewRoll,
     ResetBudget, store
<1>6. CASE (\E i \in Instances : Crash(i)) \/ Tick \/ UNCHANGED vars
  BY <1>2, <1>6 DEF Crash, Tick, store, vars
<1>7. QED
  BY <1>4, <1>5, <1>6 DEF Next

\* What the abstract envelope's variables stand for.
SpentOf(t) == ledger[t].spent
GrantOf(t) == IF HolderOf(t) = None THEN 0 ELSE reservation[t].eps

\* The holder of a tenant is its one run that holds a reservation.
LEMMA HolderIs ==
  ASSUME KInv, NEW t \in Tenants
  PROVE  /\ HolderOf(t) \in Runs \cup {None}
         /\ \A r \in Runs : HolderOf(t) = r <=> (TenantOf[r] = t /\ pc[r] \in Holding)
  BY ConstantsAssumption DEF KInv, IInv, TypeOK, ReservationRow, RowsInPlace, HolderOf,
     EnvelopeInv, HolderOwnsRow

\* Steps that leave the reservations and the set of holders alone.
LEMMA SameHolders ==
  ASSUME KInv, UNCHANGED reservation,
         \A r \in Runs : pc'[r] \in Holding <=> pc[r] \in Holding
  PROVE  \A t \in Tenants : HolderOf(t)' = HolderOf(t) /\ GrantOf(t)' = GrantOf(t)
<1>1. \A t \in Tenants : reservation[t].id \in Runs \cup {None}
  BY DEF KInv, IInv, TypeOK, ReservationRow
<1>2. \A t \in Tenants : HolderOf(t)' = HolderOf(t)
  BY <1>1 DEF HolderOf
<1>3. QED
  BY <1>2 DEF GrantOf

\* A step of the abstract envelope, said tenant by tenant.
EnvelopeMove ==
  \/ \A u \in Tenants : /\ SpentOf(u)' = SpentOf(u)
                        /\ HolderOf(u)' = HolderOf(u)
                        /\ GrantOf(u)' = GrantOf(u)
  \/ \E t \in Tenants, r \in Runs :
       /\ HolderOf(t) = None
       /\ \A u \in Tenants :
            /\ SpentOf(u)' = SpentOf(u)
            /\ HolderOf(u)' = IF u = t THEN r ELSE HolderOf(u)
            /\ GrantOf(u)' = IF u = t THEN TotalEps - SpentOf(t) ELSE GrantOf(u)
  \/ \E t \in Tenants, e \in 0..TotalEps :
       /\ HolderOf(t) # None
       /\ e <= GrantOf(t)
       /\ SpentOf(t)' \in {e, SpentOf(t) + e}
       /\ HolderOf(t)' = None
       /\ GrantOf(t)' = 0
       /\ \A u \in Tenants \ {t} : /\ SpentOf(u)' = SpentOf(u)
                                   /\ HolderOf(u)' = HolderOf(u)
                                   /\ GrantOf(u)' = GrantOf(u)
  \/ \E S \in SUBSET Tenants : \A u \in Tenants :
       /\ SpentOf(u)' = SpentOf(u)
       /\ HolderOf(u)' = IF u \in S THEN None ELSE HolderOf(u)
       /\ GrantOf(u)' = IF u \in S THEN 0 ELSE GrantOf(u)
  \/ \E t \in Tenants :
       /\ SpentOf(t)' = 0
       /\ \A u \in Tenants \ {t} : SpentOf(u)' = SpentOf(u)
       /\ \A u \in Tenants : HolderOf(u)' = HolderOf(u) /\ GrantOf(u)' = GrantOf(u)

\* No ledger row, reservation or holder changes.
LEMMA HoldersStutter ==
  ASSUME KInv, UNCHANGED <<ledger, reservation>>,
         \A r \in Runs : pc'[r] \in Holding <=> pc[r] \in Holding
  PROVE  EnvelopeMove
<1>1. \A u \in Tenants : HolderOf(u)' = HolderOf(u) /\ GrantOf(u)' = GrantOf(u)
  BY SameHolders
<1>2. \A u \in Tenants : SpentOf(u)' = SpentOf(u)
  BY DEF SpentOf
<1>3. QED
  BY <1>1, <1>2 DEF EnvelopeMove

\* The spend of one tenant is dropped, or is what it was.
LEMMA HoldersForget ==
  ASSUME KInv, NEW t \in Tenants, NEW row,
         ledger' = [ledger EXCEPT ![t] = row], row.spent \in {0, ledger[t].spent},
         UNCHANGED reservation,
         \A r \in Runs : pc'[r] \in Holding <=> pc[r] \in Holding
  PROVE  EnvelopeMove
<1>1. \A u \in Tenants : HolderOf(u)' = HolderOf(u) /\ GrantOf(u)' = GrantOf(u)
  BY SameHolders
<1>2. /\ SpentOf(t)' \in {0, SpentOf(t)}
      /\ \A u \in Tenants \ {t} : SpentOf(u)' = SpentOf(u)
  BY DEF SpentOf, KInv, IInv, TypeOK
<1>3. CASE SpentOf(t)' = 0
  BY <1>1, <1>2, <1>3 DEF EnvelopeMove
<1>4. CASE SpentOf(t)' = SpentOf(t)
  <2>1. \A u \in Tenants : SpentOf(u)' = SpentOf(u)
    BY <1>2, <1>4
  <2>2. QED
    BY <1>1, <2>1 DEF EnvelopeMove
<1>5. QED
  BY <1>2, <1>3, <1>4

\* Runs stop holding their reservations, whose rows stay behind.
LEMMA HoldersAbandon ==
  ASSUME KInv, KInv', UNCHANGED <<ledger, reservation>>,
         \A r \in Runs : pc'[r] \in Holding => pc[r] \in Holding
  PROVE  EnvelopeMove
<1> DEFINE S == {t \in Tenants : HolderOf(t)' = None}
<1>1. \A u \in Tenants : reservation[u].id \in Runs \cup {None}
  BY DEF KInv, IInv, TypeOK, ReservationRow
<1>2. \A u \in Tenants : HolderOf(u)' = IF u \in S THEN None ELSE HolderOf(u)
  <2>1. \A u \in Tenants : HolderOf(u)' # None => HolderOf(u)' = HolderOf(u)
    BY <1>1 DEF HolderOf
  <2>2. QED
    BY <2>1
<1>3. \A u \in Tenants : GrantOf(u)' = IF u \in S THEN 0 ELSE GrantOf(u)
  BY <1>2 DEF GrantOf
<1>4. \A u \in Tenants : SpentOf(u)' = SpentOf(u)
  BY DEF SpentOf
<1>5. S \in SUBSET Tenants
  OBVIOUS
<1> HIDE DEF S
<1>6. QED
  BY <1>2, <1>3, <1>4, <1>5 DEF EnvelopeMove

\* A settle transaction of a run that owns its reservation bills e to it.
LEMMA HolderBills ==
  ASSUME KInv, KInv', NEW r \in Runs, pc[r] \in Granted,
         NEW e \in Nat, e <= used[r],
         SettleTx(TenantOf[r], call[r].id, e, call[r].window),
         NEW stage \in {"settled", "failed"}, Return(r, stage)
  PROVE  EnvelopeMove
<1> DEFINE t == TenantOf[r]
<1>1. t \in Tenants /\ r # None
  BY ConstantsAssumption
<1>2. /\ ledger[t] \in BudgetRow /\ call[r].window \in Nat /\ now \in Nat
      /\ used[r] \in Nat /\ reservation[t].eps \in 0..TotalEps /\ TotalEps \in Nat
  BY <1>1, ConstantsAssumption DEF KInv, IInv, TypeOK, CallLocals, ReservationRow
<1>3. HolderOf(t) = r
  BY <1>1, HolderIs
<1>4. call[r].id = r /\ reservation[t].id = r /\ used[r] <= reservation[t].eps
  BY DEF KInv, IInv, EnvelopeInv, HolderOwnsRow, CallIsRow, SpendFits
<1>5. HolderOf(t) # None /\ GrantOf(t) = reservation[t].eps
  BY <1>1, <1>3 DEF GrantOf
<1>6. e <= GrantOf(t) /\ e \in 0..TotalEps
  BY <1>2, <1>4, <1>5
<1>7. SpentOf(t)' \in {e, SpentOf(t) + e}
  <2>1. BillRow(RollRow(ledger[t], call[r].window, now), e, now).spent
          \in {e, ledger[t].spent + e}
    BY <1>2, RollBillFact
  <2>2. QED
    BY <1>1, <2>1 DEF SettleTx, SpentOf, KInv, IInv, TypeOK
<1>8. reservation'[t].id = None
  BY <1>1, <1>4 DEF SettleTx, Released, NoReservation, KInv, IInv, TypeOK
<1>9. HolderOf(t)' = None /\ GrantOf(t)' = 0
  BY <1>8 DEF HolderOf, GrantOf
<1>10. \A u \in Tenants \ {t} : ledger'[u] = ledger[u] /\ reservation'[u] = reservation[u]
  BY DEF SettleTx, KInv, IInv, TypeOK
<1>11. \A q \in Runs \ {r} : pc'[q] = pc[q]
  BY DEF Return, Goto, KInv, IInv, TypeOK
<1>12. \A u \in Tenants \ {t} : reservation[u].id \in (Runs \ {r}) \cup {None}
  BY DEF KInv, IInv, TypeOK, ReservationRow, RowsInPlace
<1> HIDE DEF t
<1>13. \A u \in Tenants \ {t} : /\ SpentOf(u)' = SpentOf(u)
                                /\ HolderOf(u)' = HolderOf(u)
                                /\ GrantOf(u)' = GrantOf(u)
  <2>1. \A u \in Tenants \ {t} : HolderOf(u)' = HolderOf(u)
    BY <1>10, <1>11, <1>12 DEF HolderOf
  <2>2. QED
    BY <1>10, <2>1 DEF GrantOf, SpentOf
<1>14. QED
  BY <1>1, <1>5, <1>6, <1>7, <1>9, <1>13 DEF EnvelopeMove

\* An insert grants what is left of the envelope, to a tenant nobody holds.
LEMMA HolderGranted ==
  ASSUME HoldLimit < Ttl, KInv, NEW r \in Runs, ReserveInsert(r)
  PROVE  EnvelopeMove
<1> DEFINE t == TenantOf[r]
<1>1. t \in Tenants /\ r # None
  BY ConstantsAssumption
<1>2. \A q \in Runs : pc[q] \in Holding => TenantOf[q] # t
  BY HolderBlocks DEF ReserveInsert, KInv
<1>3. HolderOf(t) = None
  BY <1>1, <1>2, HolderIs
<1>4. ledger[t].spent + Remaining(ledger[t]) = TotalEps /\ ledger[t].spent \in Nat
      /\ Remaining(ledger[t]) \in Nat
  BY <1>1, RemainingFact, ConstantsAssumption
     DEF KInv, IInv, TypeOK, EnvelopeInv, SpendFits, BudgetRow
<1>5. /\ reservation'[t].id = r
      /\ reservation'[t].eps = Remaining(ledger[t])
      /\ \A u \in Tenants \ {t} : reservation'[u] = reservation[u]
  BY <1>1 DEF ReserveInsert, KInv, IInv, TypeOK
<1>6. pc'[r] = "inserted" /\ \A q \in Runs \ {r} : pc'[q] = pc[q]
  BY DEF ReserveInsert, Goto, KInv, IInv, TypeOK
<1>7. ledger' = ledger
  BY DEF ReserveInsert
<1>8. HolderOf(t)' = r
  BY <1>1, <1>5, <1>6 DEF HolderOf
<1>9. GrantOf(t)' = TotalEps - SpentOf(t)
  BY <1>1, <1>4, <1>5, <1>8 DEF GrantOf, SpentOf
<1>10. \A u \in Tenants \ {t} : reservation[u].id \in (Runs \ {r}) \cup {None}
  BY DEF KInv, IInv, TypeOK, ReservationRow, RowsInPlace
<1> HIDE DEF t
<1>11. \A u \in Tenants \ {t} : HolderOf(u)' = HolderOf(u) /\ GrantOf(u)' = GrantOf(u)
  <2>1. \A u \in Tenants \ {t} : HolderOf(u)' = HolderOf(u)
    BY <1>5, <1>6, <1>10 DEF HolderOf
  <2>2. QED
    BY <1>5, <2>1 DEF GrantOf
<1>12. \A u \in Tenants : /\ SpentOf(u)' = SpentOf(u)
                          /\ HolderOf(u)' = IF u = t THEN r ELSE HolderOf(u)
                          /\ GrantOf(u)' = IF u = t THEN TotalEps - SpentOf(t) ELSE GrantOf(u)
  BY <1>7, <1>8, <1>9, <1>11 DEF SpentOf
<1>13. QED
  BY <1>1, <1>3, <1>12 DEF EnvelopeMove

\* Every step of the store protocol is a step of the envelope, or none.
LEMMA EnvelopeMoves ==
  ASSUME HoldLimit < Ttl, KInv, KInv', [Next]_vars
  PROVE  EnvelopeMove
<1> USE ConstantsAssumption
<1>1. ASSUME NEW r \in Runs, RunStep(r) PROVE EnvelopeMove
  <2>t. /\ TenantOf[r] \in Tenants /\ call[r].window \in Nat /\ now \in Nat
        /\ ledger[TenantOf[r]] \in BudgetRow /\ used[r] \in Nat
    BY DEF KInv, IInv, TypeOK, CallLocals
  <2>1. CASE ReadWindow(r)
    BY <2>1, HoldersStutter DEF ReadWindow, Goto, store, KInv, IInv, TypeOK
  <2>2. CASE ReserveRoll(r)
    <3>1. RollRow(ledger[TenantOf[r]], call[r].window, now).spent
            \in {0, ledger[TenantOf[r]].spent}
      BY <2>t, RollRowFact
    <3>2. \A q \in Runs : pc'[q] \in Holding <=> pc[q] \in Holding
      BY <2>2 DEF ReserveRoll, Goto, KInv, IInv, TypeOK
    <3>3. QED
      BY <2>2, <2>t, <3>1, <3>2, HoldersForget DEF ReserveRoll
  <2>3. CASE ReserveInsert(r)
    BY <2>3, HolderGranted
  <2>4. CASE ReserveBlocked(r)
    BY <2>4, HoldersStutter DEF ReserveBlocked, Return, Goto, store, KInv, IInv, TypeOK
  <2>5. CASE ReserveReadBack(r)
    <3>1. reservation[TenantOf[r]].id = r /\ r # None
      BY <2>5 DEF ReserveReadBack, KInv, IInv, EnvelopeInv, HolderOwnsRow
    <3>2. QED
      BY <2>5, <3>1, HoldersStutter DEF ReserveReadBack, Goto, store, KInv, IInv, TypeOK
  <2>6. CASE ReserveError(r)
    BY <2>6, HoldersAbandon DEF ReserveError, Return, Goto, store, KInv, IInv, TypeOK
  <2>7. CASE SetupFails(r)
    <3>1. CASE SettleTx(TenantOf[r], call[r].id, 0, call[r].window)
      BY <2>7, <2>t, <3>1, HolderBills DEF SetupFails
    <3>2. CASE UNCHANGED store
      BY <2>7, <3>2, HoldersAbandon DEF SetupFails, Return, Goto, store, KInv, IInv, TypeOK
    <3>3. QED
      BY <2>7, <3>1, <3>2 DEF SetupFails
  <2>8. CASE Spawn(r)
    BY <2>8, HoldersStutter DEF Spawn, Goto, store, KInv, IInv, TypeOK
  <2>9. CASE WithDp(r)
    BY <2>9, HoldersStutter DEF WithDp, store
  <2>10. CASE RunnerExits(r)
    BY <2>10, HoldersStutter DEF RunnerExits, Goto, store, KInv, IInv, TypeOK
  <2>11. CASE Settle(r)
    BY <2>11, <2>t, HolderBills DEF Settle
  <2>12. CASE SettleError(r)
    BY <2>12, HoldersAbandon DEF SettleError, Return, Goto, store, KInv, IInv, TypeOK
  <2>13. CASE Retry(r)
    BY <2>13, HoldersStutter DEF Retry, Goto, store, KInv, IInv, TypeOK
  <2>14. QED
    BY <1>1, <2>1, <2>2, <2>3, <2>4, <2>5, <2>6, <2>7, <2>8, <2>9, <2>10,
       <2>11, <2>12, <2>13 DEF RunStep
<1>2. ASSUME NEW t \in Tenants, BudgetStep(t) PROVE EnvelopeMove
  <2>1. CASE ViewBudget(t)
    BY <2>1, HoldersStutter DEF ViewBudget, store, runState
  <2>2. ASSUME NEW i \in Instances, NEW w \in Windows, SetWindow(i, t, w)
        PROVE  EnvelopeMove
    <3> DEFINE row == [ledger[t] EXCEPT !.anchor = IF ledger[t].exists THEN now ELSE @]
    <3>1. ledger' = [ledger EXCEPT ![t] = row] /\ row.spent = ledger[t].spent
      BY <2>2 DEF SetWindow, KInv, IInv, TypeOK, BudgetRow
    <3> HIDE DEF row
    <3>2. QED
      BY <2>2, <3>1, HoldersForget DEF SetWindow, runState
  <2>3. ASSUME NEW i \in Instances, ClearWindow(i, t) PROVE EnvelopeMove
    BY <2>3, HoldersStutter DEF ClearWindow, runState
  <2>4. ASSUME NEW i \in Instances, ViewRead(i, t) PROVE EnvelopeMove
    BY <2>4, HoldersStutter DEF ViewRead, store, runState
  <2>5. ASSUME NEW i \in Instances, ViewRoll(i, t) PROVE EnvelopeMove
    <3>1. RollRow(ledger[t], view[t].window, now).spent \in {0, ledger[t].spent}
      BY RollRowFact DEF KInv, IInv, TypeOK
    <3>2. QED
      BY <2>5, <3>1, HoldersForget DEF ViewRoll, runState
  <2>6. ASSUME NEW i \in Instances, ResetBudget(i, t) PROVE EnvelopeMove
    BY <2>6, HoldersForget DEF ResetBudget, runState
  <2>7. QED
    BY <1>2, <2>1, <2>2, <2>3, <2>4, <2>5, <2>6 DEF BudgetStep
<1>3. ASSUME NEW i \in Instances, Crash(i) PROVE EnvelopeMove
  BY <1>3, HoldersAbandon DEF Crash, store, KInv, IInv, TypeOK
<1>4. CASE Tick
  BY <1>4, HoldersStutter DEF Tick, store, runState
<1>5. CASE UNCHANGED vars
  BY <1>5, HoldersStutter DEF vars
<1>6. QED
  BY <1>1, <1>2, <1>3, <1>4, <1>5 DEF Next

\* The abstract variables, as DpReservation instantiates them.
spentBar == [t \in Tenants |-> ledger[t].spent]
holderBar == [t \in Tenants |-> HolderOf(t)]
grantBar == [t \in Tenants |-> IF HolderOf(t) = None THEN 0 ELSE reservation[t].eps]

\* A step said tenant by tenant is a step of the abstract envelope.
LEMMA EnvelopeMapped ==
  ASSUME EnvelopeMove
  PROVE  [Envelope!Next]_<<spentBar, holderBar, grantBar>>
<1>1. /\ \A u \in Tenants : SpentOf(u) = spentBar[u] /\ SpentOf(u)' = spentBar'[u]
      /\ spentBar = [u \in Tenants |-> spentBar[u]]
      /\ spentBar' = [u \in Tenants |-> spentBar'[u]]
  BY DEF SpentOf, spentBar
<1>2. /\ \A u \in Tenants : HolderOf(u) = holderBar[u] /\ HolderOf(u)' = holderBar'[u]
      /\ holderBar = [u \in Tenants |-> holderBar[u]]
      /\ holderBar' = [u \in Tenants |-> holderBar'[u]]
  BY DEF holderBar
<1>3. /\ \A u \in Tenants : GrantOf(u) = grantBar[u] /\ GrantOf(u)' = grantBar'[u]
      /\ grantBar = [u \in Tenants |-> grantBar[u]]
      /\ grantBar' = [u \in Tenants |-> grantBar'[u]]
  BY DEF GrantOf, grantBar
<1>4. CASE \A u \in Tenants : /\ SpentOf(u)' = SpentOf(u)
                              /\ HolderOf(u)' = HolderOf(u)
                              /\ GrantOf(u)' = GrantOf(u)
  <2>1. UNCHANGED <<spentBar, holderBar, grantBar>>
    BY <1>1, <1>2, <1>3, <1>4
  <2>2. QED
    BY <2>1
<1>5. ASSUME NEW t \in Tenants, NEW r \in Runs, HolderOf(t) = None,
             \A u \in Tenants :
               /\ SpentOf(u)' = SpentOf(u)
               /\ HolderOf(u)' = IF u = t THEN r ELSE HolderOf(u)
               /\ GrantOf(u)' = IF u = t THEN TotalEps - SpentOf(t) ELSE GrantOf(u)
      PROVE  Envelope!Next
  <2>1. /\ holderBar[t] = None
        /\ holderBar' = [holderBar EXCEPT ![t] = r]
        /\ grantBar' = [grantBar EXCEPT ![t] = TotalEps - spentBar[t]]
        /\ spentBar' = spentBar
    BY <1>1, <1>2, <1>3, <1>5
  <2>2. Envelope!Grant(t, r)
    BY <2>1 DEF Envelope!Grant, spentBar, holderBar, grantBar
  <2>3. QED
    BY <2>2 DEF Envelope!Next
<1>6. ASSUME NEW t \in Tenants, NEW e \in 0..TotalEps,
             HolderOf(t) # None, e <= GrantOf(t), SpentOf(t)' \in {e, SpentOf(t) + e},
             HolderOf(t)' = None, GrantOf(t)' = 0,
             \A u \in Tenants \ {t} : /\ SpentOf(u)' = SpentOf(u)
                                      /\ HolderOf(u)' = HolderOf(u)
                                      /\ GrantOf(u)' = GrantOf(u)
      PROVE  Envelope!Next
  <2>1. /\ holderBar[t] # None /\ e <= grantBar[t]
        /\ holderBar' = [holderBar EXCEPT ![t] = None]
        /\ grantBar' = [grantBar EXCEPT ![t] = 0]
    BY <1>2, <1>3, <1>6
  <2>2. \/ spentBar' = [spentBar EXCEPT ![t] = @ + e]
        \/ spentBar' = [spentBar EXCEPT ![t] = e]
    BY <1>1, <1>6
  <2>3. Envelope!Bill(t, e)
    BY <2>1, <2>2 DEF Envelope!Bill, spentBar, holderBar, grantBar
  <2>4. QED
    BY <2>3 DEF Envelope!Next
<1>7. ASSUME NEW S \in SUBSET Tenants,
             \A u \in Tenants :
               /\ SpentOf(u)' = SpentOf(u)
               /\ HolderOf(u)' = IF u \in S THEN None ELSE HolderOf(u)
               /\ GrantOf(u)' = IF u \in S THEN 0 ELSE GrantOf(u)
      PROVE  Envelope!Next
  <2>1. /\ holderBar' = [u \in Tenants |-> IF u \in S THEN None ELSE holderBar[u]]
        /\ grantBar' = [u \in Tenants |-> IF u \in S THEN 0 ELSE grantBar[u]]
        /\ spentBar' = spentBar
    BY <1>1, <1>2, <1>3, <1>7
  <2>2. Envelope!Abandon(S)
    BY <2>1 DEF Envelope!Abandon, spentBar, holderBar, grantBar
  <2>3. QED
    BY <2>2 DEF Envelope!Next
<1>8. ASSUME NEW t \in Tenants, SpentOf(t)' = 0,
             \A u \in Tenants \ {t} : SpentOf(u)' = SpentOf(u),
             \A u \in Tenants : HolderOf(u)' = HolderOf(u) /\ GrantOf(u)' = GrantOf(u)
      PROVE  Envelope!Next
  <2>1. /\ spentBar' = [spentBar EXCEPT ![t] = 0]
        /\ holderBar' = holderBar
        /\ grantBar' = grantBar
    BY <1>1, <1>2, <1>3, <1>8
  <2>2. Envelope!Forget(t)
    BY <2>1 DEF Envelope!Forget, spentBar, holderBar, grantBar
  <2>3. QED
    BY <2>2 DEF Envelope!Next
<1>9. QED
  BY <1>4, <1>5, <1>6, <1>7, <1>8 DEF EnvelopeMove

\* The server's store implements the abstract envelope: while no run outlives
\* its TTL, every reserve call that inserts grants all that is left, to a
\* tenant that nobody holds; every settle bills at most what was granted; and
\* the ledger loses spend only all at once, to a roll or a reset.
THEOREM EnvelopeImplemented ==
  ASSUME HoldLimit < Ttl
  PROVE  Spec => ImplementsEnvelope
<1>1. Init => KInv /\ Envelope!Init
  <2> SUFFICES ASSUME Init PROVE KInv /\ Envelope!Init
    OBVIOUS
  <2>1. EnvelopeInv
    BY ConstantsAssumption DEF Init, EnvelopeInv, OnTime, HolderOwnsRow,
       CallIsRow, SpendFits, NoBudgetRow
  <2>2. KInv
    BY <2>1, InitType DEF KInv, IInv, RowsInPlace, Init, NoReservation
  <2>3. \A t \in Tenants : HolderOf(t) = None /\ ledger[t].spent \in 0..TotalEps
    BY ConstantsAssumption DEF Init, HolderOf, NoReservation, NoBudgetRow
  <2>4. QED
    BY <2>2, <2>3 DEF Envelope!Init
<1>2. KInv /\ [Next]_vars => KInv'
  BY TypeStep, EnvelopeStep, RowsInPlaceStep DEF KInv, IInv
<1>3. KInv /\ KInv' /\ [Next]_vars => [Envelope!Next]_<<spentBar, holderBar, grantBar>>
  BY EnvelopeMoves, EnvelopeMapped
<1>4. QED
  BY <1>1, <1>2, <1>3, PTL
     DEF Spec, ImplementsEnvelope, Envelope!Spec, Envelope!envVars, spentBar, holderBar, grantBar
-----------------------------------------------------------------------------
(* The balance of a ledger that nothing takes spend from. *)

\* No window is in force anywhere, and a missing row stands for no spend.
Cumulative ==
  /\ \A t \in Tenants : override[t] = None /\ view[t].window = 0
  /\ \A r \in Runs : call[r].window = 0
  /\ \A t \in Tenants : ~ ledger[t].exists => ledger[t].spent = 0

LInv == TypeOK /\ Cumulative /\ LedgerBalances

\* With no window a roll does nothing, and a bill adds what it bills.
LEMMA BillAdds ==
  ASSUME NEW row \in BudgetRow, ~ row.exists => row.spent = 0, NEW e \in Nat, NEW at \in Nat
  PROVE  /\ RollRow(row, 0, at) = row
         /\ BillRow(row, e, at).spent = row.spent + e
         /\ ~ BillRow(row, e, at).exists => BillRow(row, e, at).spent = 0
BY DEF RollRow, BillRow, BudgetRow

\* Steps that settle no run and change no row.
LEMMA BalanceKept ==
  ASSUME LInv, UNCHANGED ledger,
         \A r \in Runs : pc'[r] = "settled" <=> pc[r] = "settled",
         \A r \in Runs : pc[r] = "settled" => used'[r] = used[r]
  PROVE  LedgerBalances'
<1>1. \A t \in Tenants : SettledUnits(t)' = SettledUnits(t)
  BY DEF SettledUnits
<1>2. QED
  BY <1>1 DEF LInv, LedgerBalances

\* A settle bills the units that its run reported, which were not billed yet.
LEMMA BalanceSettled ==
  ASSUME IsFiniteSet(Runs), LInv, NEW r \in Runs, Settle(r)
  PROVE  LedgerBalances'
<1>0. PICK t \in Tenants : t = TenantOf[r]
  BY ConstantsAssumption
<1> DEFINE new == {r} \X (1..used[r])
<1>1. /\ t \in Tenants /\ used[r] \in 0..TotalEps /\ TotalEps \in Nat /\ OpeningSpend \in Nat
      /\ now \in Nat /\ ledger[t] \in BudgetRow /\ call[r].window = 0
      /\ ~ ledger[t].exists => ledger[t].spent = 0
  BY <1>0, ConstantsAssumption DEF LInv, TypeOK, Cumulative
<1>2. /\ pc[r] = "exited" /\ pc' = [pc EXCEPT ![r] = "settled"] /\ used' = used
      /\ ledger' = [ledger EXCEPT ![t] = BillRow(RollRow(@, 0, now), used[r], now)]
  BY <1>0, <1>1 DEF Settle, SettleTx, Return, Goto
<1>3. /\ ledger'[t].spent = ledger[t].spent + used[r]
      /\ \A u \in Tenants \ {t} : ledger'[u] = ledger[u]
  <2>1. RollRow(ledger[t], 0, now) = ledger[t]
    BY <1>1, BillAdds
  <2>2. ledger'[t] = BillRow(ledger[t], used[r], now)
    BY <1>1, <1>2, <2>1 DEF LInv, TypeOK
  <2>3. QED
    BY <1>1, <1>2, <2>2, BillAdds DEF LInv, TypeOK
<1>4. IsFiniteSet(SettledUnits(t)) /\ IsFiniteSet(new) /\ Cardinality(new) = used[r]
  <2>1. IsFiniteSet(1..TotalEps) /\ IsFiniteSet(1..used[r]) /\ Cardinality(1..used[r]) = used[r]
    <3>1. \A n \in Nat : /\ IsFiniteSet(1..n)
                         /\ Cardinality(1..n) = IF 1 > n THEN 0 ELSE n - 1 + 1
      BY FS_Interval
    <3>2. used[r] \in Nat
      BY <1>1
    <3>3. QED
      BY <1>1, <3>1, <3>2
  <2>2. IsFiniteSet({r}) /\ Cardinality({r}) = 1
    BY FS_Singleton
  <2>3. IsFiniteSet(new) /\ Cardinality(new) = 1 * used[r]
    <3>1. /\ IsFiniteSet({r} \X (1..used[r]))
          /\ Cardinality({r} \X (1..used[r])) = Cardinality({r}) * Cardinality(1..used[r])
      BY <2>1, <2>2, FS_Product
    <3>2. QED
      BY <2>1, <2>2, <3>1
  <2>4. IsFiniteSet(Runs \X (1..TotalEps))
    BY <2>1, FS_Product
  <2>5. SettledUnits(t) \in SUBSET (Runs \X (1..TotalEps))
    BY DEF SettledUnits
  <2>6. IsFiniteSet(SettledUnits(t))
    BY <2>4, <2>5, FS_Subset
  <2>7. QED
    BY <1>1, <2>3, <2>6
<1>5. SettledUnits(t)' = SettledUnits(t) \cup new /\ SettledUnits(t) \cap new = {}
  <2>1. \A q \in Runs : pc'[q] = IF q = r THEN "settled" ELSE pc[q]
    BY <1>2 DEF LInv, TypeOK
  <2>2. new = {unit \in Runs \X (1..TotalEps) : unit[1] = r /\ unit[2] <= used[r]}
    BY <1>1
  <2>3. \A unit \in Runs \X (1..TotalEps) :
          unit \in SettledUnits(t)' <=> unit \in SettledUnits(t) \/ unit \in new
    BY <1>0, <1>2, <2>1, <2>2 DEF SettledUnits
  <2>4. /\ SettledUnits(t)' \subseteq Runs \X (1..TotalEps)
        /\ SettledUnits(t) \subseteq Runs \X (1..TotalEps)
        /\ new \subseteq Runs \X (1..TotalEps)
    BY <2>2 DEF SettledUnits
  <2>5. \A unit \in SettledUnits(t) : unit \notin new
    BY <1>2, <2>2 DEF SettledUnits
  <2>6. QED
    BY <2>3, <2>4, <2>5
<1> HIDE DEF new
<1>6. Cardinality(SettledUnits(t)') = Cardinality(SettledUnits(t)) + used[r]
  <2>1. Cardinality(SettledUnits(t) \cup new)
          = Cardinality(SettledUnits(t)) + Cardinality(new) - Cardinality(SettledUnits(t) \cap new)
    BY <1>4, FS_Union
  <2>2. Cardinality(SettledUnits(t) \cap new) = 0
    BY <1>5, FS_EmptySet
  <2>3. Cardinality(SettledUnits(t)) \in Nat
    BY <1>4, FS_CardinalityType
  <2>4. Cardinality(SettledUnits(t)') = Cardinality(SettledUnits(t) \cup new)
    BY <1>5
  <2>5. QED
    BY <1>1, <1>4, <2>1, <2>2, <2>3, <2>4
<1>7. \A u \in Tenants \ {t} : SettledUnits(u)' = SettledUnits(u)
  <2>1. \A q \in Runs : q # r => pc'[q] = pc[q]
    BY <1>2 DEF LInv, TypeOK
  <2>2. QED
    BY <1>0, <1>2, <2>1 DEF SettledUnits
<1>8. Cardinality(SettledUnits(t)) \in Nat /\ ledger[t].spent \in Nat
  BY <1>1, <1>4, FS_CardinalityType DEF BudgetRow
<1>9. ledger[t].spent = OpeningSpend + Cardinality(SettledUnits(t))
  BY <1>1 DEF LInv, LedgerBalances
<1>10. ledger'[t].spent = OpeningSpend + Cardinality(SettledUnits(t)')
  BY <1>1, <1>3, <1>6, <1>8, <1>9
<1>11. \A u \in Tenants : ledger'[u].spent = OpeningSpend + Cardinality(SettledUnits(u)')
  <2>1. \A u \in Tenants \ {t} : ledger'[u].spent = OpeningSpend + Cardinality(SettledUnits(u))
    BY <1>3 DEF LInv, LedgerBalances
  <2>2. QED
    BY <1>7, <1>10, <2>1
<1>12. QED
  BY <1>11 DEF LedgerBalances

\* A system without windows and resets: nothing takes spend off a ledger.
NothingForgets == GlobalWindow = 0 /\ Endpoints \cap {"set", "reset"} = {}

LEMMA CumulativeStep ==
  ASSUME NothingForgets, LInv, [Next]_vars
  PROVE  Cumulative'
<1> USE ConstantsAssumption
<1>w. \A t \in Tenants : EffectiveWindow(t) = 0
  BY DEF NothingForgets, EffectiveWindow, LInv, Cumulative
<1>1. ASSUME UNCHANGED <<ledger, override, view>>,
             \A r \in Runs : call'[r].window = call[r].window \/ call'[r].window = 0
      PROVE  Cumulative'
  BY <1>1 DEF LInv, Cumulative
<1>2. ASSUME NEW t \in Tenants, NEW id, NEW e \in Nat, SettleTx(t, id, e, 0),
             UNCHANGED view, \A r \in Runs : call'[r].window = call[r].window \/ call'[r].window = 0
      PROVE  Cumulative'
  <2>1. /\ ledger[t] \in BudgetRow /\ now \in Nat
        /\ ~ ledger[t].exists => ledger[t].spent = 0
    BY DEF LInv, TypeOK, Cumulative
  <2>2. RollRow(ledger[t], 0, now) = ledger[t]
    BY <2>1, BillAdds
  <2>3. ledger' = [ledger EXCEPT ![t] = BillRow(ledger[t], e, now)] /\ override' = override
    BY <1>2, <2>2 DEF SettleTx
  <2>4. ~ BillRow(ledger[t], e, now).exists => BillRow(ledger[t], e, now).spent = 0
    BY <2>1, BillAdds
  <2>5. \A u \in Tenants : ~ ledger'[u].exists => ledger'[u].spent = 0
    BY <2>3, <2>4 DEF LInv, TypeOK, Cumulative
  <2>6. QED
    BY <1>2, <2>3, <2>5 DEF LInv, Cumulative
<1>3. ASSUME NEW r \in Runs, RunStep(r) PROVE Cumulative'
  <2>t. /\ TenantOf[r] \in Tenants /\ call[r].window = 0 /\ now \in Nat /\ used[r] \in Nat
        /\ ledger[TenantOf[r]] \in BudgetRow
        /\ ~ ledger[TenantOf[r]].exists => ledger[TenantOf[r]].spent = 0
    BY DEF LInv, TypeOK, Cumulative
  <2>c. \A stage : Return(r, stage) =>
          \A q \in Runs : call'[q].window = call[q].window \/ call'[q].window = 0
    BY DEF Return, NoCall, LInv, TypeOK
  <2>1. CASE ReadWindow(r)
    <3>1. \A q \in Runs : call'[q].window = call[q].window \/ call'[q].window = 0
      BY <2>1, <1>w, <2>t DEF ReadWindow, LInv, TypeOK, CallLocals
    <3>2. QED
      BY <1>1, <2>1, <3>1 DEF ReadWindow, store
  <2>2. CASE ReserveRoll(r)
    <3>1. \A q \in Runs : call'[q].window = call[q].window
      BY <2>2 DEF ReserveRoll, LInv, TypeOK, CallLocals
    <3>2. RollRow(ledger[TenantOf[r]], 0, now) = ledger[TenantOf[r]]
      BY <2>t, BillAdds
    <3>3. ledger' = ledger
      BY <2>2, <2>t, <3>2 DEF ReserveRoll, LInv, TypeOK
    <3>4. QED
      BY <1>1, <2>2, <3>1, <3>3 DEF ReserveRoll
  <2>3. CASE ReserveReadBack(r)
    <3>1. \A q \in Runs : call'[q].window = call[q].window \/ call'[q].window = 0
      BY <2>3, <2>c DEF ReserveReadBack, LInv, TypeOK, CallLocals
    <3>2. QED
      BY <1>1, <2>3, <3>1 DEF ReserveReadBack, store
  <2>4. CASE SetupFails(r)
    <3>1. CASE SettleTx(TenantOf[r], call[r].id, 0, call[r].window)
      BY <1>2, <2>4, <2>t, <2>c, <3>1 DEF SetupFails
    <3>2. CASE UNCHANGED store
      BY <1>1, <2>4, <2>c, <3>2 DEF SetupFails, store
    <3>3. QED
      BY <2>4, <3>1, <3>2 DEF SetupFails
  <2>5. CASE Settle(r)
    BY <1>2, <2>5, <2>t, <2>c DEF Settle
  <2>6. CASE ReserveBlocked(r) \/ ReserveError(r) \/ SettleError(r)
    BY <1>1, <2>6, <2>c DEF ReserveBlocked, ReserveError, SettleError, store
  <2>7. CASE ReserveInsert(r) \/ Spawn(r) \/ WithDp(r) \/ RunnerExits(r) \/ Retry(r)
    BY <1>1, <2>7 DEF ReserveInsert, Spawn, WithDp, RunnerExits, Retry, store
  <2>8. QED
    BY <1>3, <2>1, <2>2, <2>3, <2>4, <2>5, <2>6, <2>7 DEF RunStep
<1>4. ASSUME NEW t \in Tenants, BudgetStep(t) PROVE Cumulative'
  <2>1. CASE ViewBudget(t)
    BY <2>1 DEF ViewBudget, store, runState, LInv, TypeOK, Cumulative
  <2>2. ASSUME NEW i \in Instances, ClearWindow(i, t) PROVE Cumulative'
    BY <2>2 DEF ClearWindow, runState, LInv, TypeOK, Cumulative
  <2>3. ASSUME NEW i \in Instances, ViewRead(i, t) PROVE Cumulative'
    BY <2>3, <1>w DEF ViewRead, store, runState, LInv, TypeOK, Cumulative
  <2>4. ASSUME NEW i \in Instances, ViewRoll(i, t) PROVE Cumulative'
    <3>1. RollRow(ledger[t], 0, now) = ledger[t]
      BY BillAdds DEF LInv, TypeOK, Cumulative
    <3>2. ledger' = ledger
      BY <2>4, <3>1 DEF ViewRoll, LInv, TypeOK, Cumulative
    <3>3. QED
      BY <2>4, <3>2 DEF ViewRoll, NoView, runState, LInv, TypeOK, Cumulative
  <2>5. QED
    BY <1>4, <2>1, <2>2, <2>3, <2>4 DEF BudgetStep, SetWindow, ResetBudget, NothingForgets
<1>5. CASE \E i \in Instances : Crash(i)
  BY <1>1, <1>5 DEF Crash, NoCall, store, LInv, TypeOK
<1>6. CASE Tick \/ UNCHANGED vars
  BY <1>1, <1>6 DEF Tick, store, runState, vars
<1>7. QED
  BY <1>3, <1>4, <1>5, <1>6 DEF Next

LEMMA BalanceStep ==
  ASSUME IsFiniteSet(Runs), NothingForgets, LInv, [Next]_vars
  PROVE  LedgerBalances'
<1> USE ConstantsAssumption
<1>0. ASSUME NEW t \in Tenants
      PROVE  RollRow(ledger[t], 0, now) = ledger[t] /\ BillRow(ledger[t], 0, now) = ledger[t]
  BY BillAdds DEF BillRow, LInv, TypeOK, Cumulative
<1>1. ASSUME NEW r \in Runs, RunStep(r), ~ Settle(r) PROVE LedgerBalances'
  <2>t. TenantOf[r] \in Tenants /\ call[r].window = 0
    BY DEF LInv, Cumulative
  <2>1. ledger' = ledger
    <3>1. CASE ReserveRoll(r)
      BY <1>0, <2>t, <3>1 DEF ReserveRoll, LInv, TypeOK
    <3>2. CASE SetupFails(r)
      BY <1>0, <2>t, <3>2 DEF SetupFails, SettleTx, store, LInv, TypeOK
    <3>3. QED
      BY <1>1, <3>1, <3>2 DEF RunStep, ReadWindow, ReserveInsert, ReserveBlocked,
         ReserveReadBack, ReserveError, Spawn, WithDp, RunnerExits, SettleError, Retry, store
  <2>2. /\ pc[r] # "settled" /\ pc'[r] # "settled"
        /\ \A q \in Runs \ {r} : pc'[q] = pc[q] /\ used'[q] = used[q]
    BY <1>1 DEF RunStep, ReadWindow, ReserveRoll, ReserveInsert, ReserveBlocked,
       ReserveReadBack, ReserveError, SetupFails, Spawn, WithDp, RunnerExits, SettleError,
       Retry, Return, Goto, LInv, TypeOK
  <2>3. QED
    BY <2>1, <2>2, BalanceKept
<1>2. ASSUME NEW t \in Tenants, BudgetStep(t) PROVE LedgerBalances'
  <2>1. ledger' = ledger
    <3>1. ASSUME NEW i \in Instances, ViewRoll(i, t) PROVE ledger' = ledger
      BY <1>0, <3>1 DEF ViewRoll, LInv, TypeOK, Cumulative
    <3>2. QED
      BY <1>2, <3>1 DEF BudgetStep, ViewBudget, SetWindow, ClearWindow, ViewRead,
         ResetBudget, NothingForgets, store
  <2>2. UNCHANGED <<pc, used>>
    BY <1>2 DEF BudgetStep, ViewBudget, SetWindow, ClearWindow, ViewRead, ViewRoll,
       ResetBudget, runState
  <2>3. QED
    BY <2>1, <2>2, BalanceKept
<1>3. CASE \E i \in Instances : Crash(i)
  BY <1>3, BalanceKept DEF Crash, store, LInv, TypeOK
<1>4. CASE Tick \/ UNCHANGED vars
  BY <1>4, BalanceKept DEF Tick, store, runState, vars
<1>5. QED
  BY <1>1, <1>2, <1>3, <1>4, BalanceSettled DEF Next

\* Where no window and no reset takes spend off the ledger, it holds every
\* unit of epsilon that settled runs reported, once: whatever runs outlive
\* their reservations, settle late, crash, fail or are retried.
THEOREM Balances ==
  ASSUME IsFiniteSet(Runs), NothingForgets
  PROVE  Spec => []LedgerBalances
<1>1. Init => LInv
  <2> SUFFICES ASSUME Init PROVE LInv
    OBVIOUS
  <2>1. TypeOK
    BY InitType
  <2>2. Cumulative
    BY ConstantsAssumption DEF Init, Cumulative, NoView, NoCall, NoBudgetRow
  <2>3. \A t \in Tenants : SettledUnits(t) = {} /\ ledger[t].spent = OpeningSpend
    BY DEF Init, SettledUnits, NoBudgetRow
  <2>4. Cardinality({}) = 0 /\ OpeningSpend \in Nat
    BY FS_EmptySet, ConstantsAssumption
  <2>5. LedgerBalances
    BY <2>3, <2>4 DEF LedgerBalances
  <2>6. QED
    BY <2>1, <2>2, <2>5 DEF LInv
<1>2. LInv /\ [Next]_vars => LInv'
  BY TypeStep, CumulativeStep, BalanceStep DEF LInv
<1>3. LInv => LedgerBalances
  BY DEF LInv
<1>4. QED
  BY <1>1, <1>2, <1>3, PTL DEF Spec
=============================================================================
