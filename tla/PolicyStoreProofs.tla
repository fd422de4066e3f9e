------------------------- MODULE PolicyStoreProofs -------------------------
(***************************************************************************)
(* What holds of the policy store for every number of tenants, every limit *)
(* and window, and time stamps of any age: its three change histories      *)
(* implement ChangeTrail, keep the newest rows without a gap, lose no row  *)
(* that is shown, and give a client that pages through them all of it.     *)
(***************************************************************************)
EXTENDS PolicyStore, FiniteSetTheorems, SequenceTheorems, WellFoundedInduction, TLAPS

storeVars == <<setting, rows, lastId>>

\* A prune only removes rows, and only the tenant's.
LEMMA PruneRemoves ==
  ASSUME NEW k, NEW t, NEW table, NEW time
  PROVE  /\ Prune(k, t, table, time) \subseteq table
         /\ \A r \in table : r.tenant # t => r \in Prune(k, t, table, time)
BY DEF Prune

\* The effective retention window is a number of seconds.
LEMMA TtlIsNat ==
  ASSUME StoreOK, NEW t \in Tenants
  PROVE  EffectiveTtl(t) \in Nat
BY PolicyStoreAssumption DEF StoreOK, EffectiveTtl, Kinds, Settings

\* The row of a change survives the prune of that change.
LEMMA NewRowStays ==
  ASSUME StoreOK, NEW k \in Kinds, NEW t \in Tenants, NEW at \in Nat, NEW value
  PROVE  NewRow(k, t, value, at) \in Amended(k, t, value, at)
<1> DEFINE row == NewRow(k, t, value, at)
           table == rows[k] \cup {row}
           live == {r \in table : r.tenant = t => ~ Expired(k, r, EffectiveTtl(t), at)}
           newer == {q \in live : q.tenant = row.tenant /\ q.id > row.id}
<1>1. row.id = lastId[k] + 1 /\ row.tenant = t /\ (k = "policy" => row.at = at)
  BY DEF NewRow, NextId
<1>2. ~ Expired(k, row, EffectiveTtl(t), at)
  BY <1>1, TtlIsNat DEF Expired, Cutoff
<1>3. newer = {}
  <2>1. lastId[k] \in Nat /\ \A q \in rows[k] : q.id \in 1..lastId[k]
    BY DEF StoreOK
  <2> QED
    BY <1>1, <2>1
<1>4. Cardinality(newer) < HistoryMax[k]
  <2>1. Cardinality(newer) = 0
    BY <1>3, FS_EmptySet
  <2>2. HistoryMax[k] \in Nat \ {0}
    BY PolicyStoreAssumption
  <2> HIDE DEF newer
  <2> QED
    BY <2>1, <2>2
<1>5. AmongNewest(k, live, row)
  BY <1>4 DEF AmongNewest
<1> QED
  BY <1>2, <1>5 DEF Amended, Prune

-----------------------------------------------------------------------------
(* The tables keep their types. *)

\* One step of a client or of the clock leaves the tables alone.
LEMMA OthersLeaveTables ==
  ASSUME \/ \E l \in Listed : StartWalk(l[1], l[2])
         \/ NextPage \/ ListPage \/ Tick
  PROVE  UNCHANGED storeVars
BY DEF StartWalk, NextPage, ListPage, Tick, storeVars

\* A change is one of the program's: of a kind, a tenant and a value that exist.
LEMMA ChangeArguments ==
  ASSUME NEW c \in Changed, NEW at \in Stamps, StoreOK,
         NEW value \in Settings[c[1]] \cup {None}
  PROVE  c[1] \in Kinds /\ c[2] \in Tenants /\ at \in 0..now /\ at \in Nat
BY PolicyStoreAssumption DEF Stamps, StoreOK

LEMMA ChangeKeepsStore ==
  ASSUME StoreOK, NEW k \in Kinds, NEW t \in Tenants, NEW at \in 0..now,
         NEW value \in Settings[k] \cup {None}, Change(k, t, value, at)
  PROVE  StoreOK'
<1> DEFINE row == NewRow(k, t, value, at)
<1>1. now' = now /\ now \in 0..MaxTime
  BY DEF StoreOK, Change
<1>2. DOMAIN setting' = Kinds /\ DOMAIN rows' = Kinds /\ DOMAIN lastId' = Kinds
  BY DEF StoreOK, Change
<1>3. ASSUME NEW j \in Kinds, j # k
      PROVE  setting'[j] = setting[j] /\ rows'[j] = rows[j] /\ lastId'[j] = lastId[j]
  BY <1>3 DEF StoreOK, Change
<1>4. setting'[k] \in [Tenants -> Settings[k] \cup {None}]
  BY DEF StoreOK, Change
<1>5. lastId'[k] = lastId[k] + 1 /\ lastId[k] \in Nat
  BY DEF StoreOK, Change, NextId
<1>6. rows'[k] \subseteq rows[k] \cup {row}
  BY PruneRemoves DEF StoreOK, Change, Amended
<1>7. ASSUME NEW r \in rows'[k]
      PROVE  /\ r.id \in 1..lastId'[k]
             /\ r.tenant \in Tenants
             /\ {r.old, r.new} \subseteq Settings[k] \cup {None}
             /\ {r.old, r.new} # {None}
             /\ r.at \in 0..now
  <2>1. CASE r \in rows[k]
    <3>1. r.id \in 1..lastId[k]
      BY <2>1 DEF StoreOK
    <3>2. r.id \in 1..lastId'[k]
      BY <3>1, <1>5
    <3>3. /\ r.tenant \in Tenants /\ r.at \in 0..now
          /\ {r.old, r.new} \subseteq Settings[k] \cup {None} /\ {r.old, r.new} # {None}
      BY <2>1 DEF StoreOK
    <3> QED
      BY <3>2, <3>3
  <2>2. CASE r = row
    <3>1. r.id = lastId[k] + 1 /\ r.tenant = t /\ r.at \in 0..now
      BY <2>2, <1>1 DEF NewRow, NextId
    <3>2. r.old = setting[k][t] /\ r.new = value
      BY <2>2 DEF NewRow
    <3>3. setting[k][t] \in Settings[k] \cup {None}
      BY DEF StoreOK
    <3>4. {r.old, r.new} # {None}
      BY <3>2 DEF Change, IsChange
    <3> QED
      BY <3>1, <3>2, <3>3, <3>4, <1>5
  <2> QED
    BY <1>6, <2>1, <2>2
<1> QED
  <2> SUFFICES ASSUME NEW j \in Kinds
               PROVE  /\ setting'[j] \in [Tenants -> Settings[j] \cup {None}]
                      /\ lastId'[j] \in Nat
                      /\ \A r \in rows'[j] : /\ r.id \in 1..lastId'[j]
                                             /\ r.tenant \in Tenants
                                             /\ {r.old, r.new} \subseteq Settings[j] \cup {None}
                                             /\ {r.old, r.new} # {None}
                                             /\ r.at \in 0..now
    BY <1>1, <1>2 DEF StoreOK
  <2>1. CASE j = k
    BY <2>1, <1>4, <1>5, <1>7
  <2>2. CASE j # k
    BY <2>2, <1>3 DEF StoreOK
  <2> QED
    BY <2>1, <2>2

LEMMA SweepKeepsStore ==
  ASSUME StoreOK, NEW at, Sweep(at)
  PROVE  StoreOK'
BY DEF StoreOK, Sweep

LEMMA StoreStep == StoreOK /\ [Next]_vars => StoreOK'
<1> SUFFICES ASSUME StoreOK, [Next]_vars PROVE StoreOK'
  OBVIOUS
<1>1. ASSUME NEW c \in Changed, NEW at \in Stamps, NEW value \in Settings[c[1]] \cup {None},
             Change(c[1], c[2], value, at)
      PROVE  StoreOK'
  BY <1>1, ChangeArguments, ChangeKeepsStore
<1>2. ASSUME NEW at \in Stamps, Sweep(at) PROVE StoreOK'
  BY <1>2, SweepKeepsStore
<1>3. CASE (\E l \in Listed : StartWalk(l[1], l[2])) \/ NextPage \/ ListPage
  <2>1. now' = now /\ UNCHANGED storeVars
    BY <1>3 DEF StartWalk, NextPage, ListPage, storeVars
  <2> QED
    BY <2>1 DEF StoreOK, storeVars
<1>4. CASE Tick
  <2>1. now' = now + 1 /\ now' \in 0..MaxTime /\ UNCHANGED storeVars
    BY <1>4, PolicyStoreAssumption DEF Tick, StoreOK, storeVars
  <2>2. \A at : at \in 0..now => at \in 0..now'
    BY <2>1 DEF StoreOK
  <2> QED
    BY <2>1, <2>2 DEF StoreOK, storeVars
<1>5. CASE UNCHANGED vars
  BY <1>5 DEF StoreOK, vars
<1> QED
  BY <1>1, <1>2, <1>3, <1>4, <1>5 DEF Next

\* The tables of the store keep their types: rows have ids that their table
\* gave out, stamps that are not of the future, and record a real change.
THEOREM StoreCorrect == Spec => []StoreOK
<1>1. Init => StoreOK
  BY PolicyStoreAssumption DEF Init, StoreOK
<1> QED
  BY <1>1, StoreStep, PTL DEF Spec

-----------------------------------------------------------------------------
(* The refinement. *)

Link(r) == [id |-> r.id, tenant |-> r.tenant, old |-> r.old, new |-> r.new]

\* A change of kind k is, for the trail of that kind, a change; the trails of
\* the other kinds do not notice it.
LEMMA ChangeOfTrail ==
  ASSUME StoreOK, NEW k \in Kinds, NEW t \in Tenants, NEW at \in Nat,
         NEW value \in Settings[k] \cup {None}, Change(k, t, value, at)
  PROVE  /\ setting[k][t] # None \/ value # None
         /\ setting'[k] = [setting[k] EXCEPT ![t] = value]
         /\ lastId'[k] = lastId[k] + 1
         /\ \E gone \in SUBSET {l \in Links(k) : l.tenant = t} :
              Links(k)' = (Links(k) \ gone)
                \cup {[id |-> lastId'[k], tenant |-> t, old |-> setting[k][t], new |-> value]}
         /\ \A j \in Kinds \ {k} :
              setting'[j] = setting[j] /\ rows'[j] = rows[j] /\ lastId'[j] = lastId[j]
<1> DEFINE row == NewRow(k, t, value, at)
           link == [id |-> lastId'[k], tenant |-> t, old |-> setting[k][t], new |-> value]
           gone == Links(k) \ Links(k)'
<1>1. setting[k][t] # None \/ value # None
  BY DEF Change, IsChange
<1>2. setting'[k] = [setting[k] EXCEPT ![t] = value]
  BY DEF Change, StoreOK
<1>3. lastId'[k] = lastId[k] + 1 /\ link = Link(row)
  BY DEF Change, StoreOK, NextId, NewRow, Link
<1>4. rows'[k] = Amended(k, t, value, at)
  BY DEF Change, StoreOK
<1>5. row \in rows'[k]
  BY <1>4, NewRowStays
<1>6. rows'[k] \subseteq rows[k] \cup {row}
  BY <1>4, PruneRemoves DEF Amended
<1>7. \A r \in rows[k] : r.tenant # t => r \in rows'[k]
  BY <1>4, PruneRemoves DEF Amended
<1>8. Links(k) = {Link(r) : r \in rows[k]} /\ Links(k)' = {Link(r) : r \in rows'[k]}
  BY DEF Links, Link
<1>9. link \in Links(k)' /\ Links(k)' \subseteq Links(k) \cup {link}
  BY <1>3, <1>5, <1>6, <1>8
<1>10. \A l \in gone : l.tenant = t
  <2> SUFFICES ASSUME NEW l \in gone PROVE l.tenant = t
    OBVIOUS
  <2>1. PICK r \in rows[k] : l = Link(r)
    BY <1>8
  <2>2. r \notin rows'[k]
    BY <2>1, <1>8
  <2> QED
    BY <2>1, <2>2, <1>7 DEF Link
<1>11. gone \in SUBSET {l \in Links(k) : l.tenant = t}
  BY <1>10
<1>12. Links(k)' = (Links(k) \ gone) \cup {link}
  BY <1>9
<1>13. \A j \in Kinds \ {k} :
         setting'[j] = setting[j] /\ rows'[j] = rows[j] /\ lastId'[j] = lastId[j]
  BY DEF Change, StoreOK
<1> QED
  BY <1>1, <1>2, <1>3, <1>11, <1>12, <1>13

\* What the trail of kind k sees of a step: a change, a loss of rows, or nothing.
TrailStep(k) ==
  \/ \E t \in Tenants, value \in Settings[k] \cup {None} :
       /\ setting[k][t] # None \/ value # None
       /\ setting'[k] = [setting[k] EXCEPT ![t] = value]
       /\ lastId'[k] = lastId[k] + 1
       /\ \E gone \in SUBSET {l \in Links(k) : l.tenant = t} :
            Links(k)' = (Links(k) \ gone)
              \cup {[id |-> lastId'[k], tenant |-> t, old |-> setting[k][t], new |-> value]}
  \/ Links(k)' \in SUBSET Links(k) /\ setting'[k] = setting[k] /\ lastId'[k] = lastId[k]

LEMMA StepOfTrail ==
  ASSUME StoreOK, [Next]_vars, NEW k \in Kinds
  PROVE  TrailStep(k)
<1>1. ASSUME UNCHANGED storeVars PROVE TrailStep(k)
  BY <1>1 DEF storeVars, TrailStep, Links
<1>2. ASSUME NEW c \in Changed, NEW at \in Stamps, NEW value \in Settings[c[1]] \cup {None},
             Change(c[1], c[2], value, at)
      PROVE  TrailStep(k)
  <2>1. c[1] \in Kinds /\ c[2] \in Tenants /\ at \in Nat
    BY ChangeArguments
  <2> DEFINE j == c[1]
             t == c[2]
  <2>2. j \in Kinds /\ t \in Tenants /\ value \in Settings[j] \cup {None}
        /\ Change(j, t, value, at)
    BY <1>2, <2>1
  <2> HIDE DEF j, t
  <2>3. /\ setting[j][t] # None \/ value # None
        /\ setting'[j] = [setting[j] EXCEPT ![t] = value]
        /\ lastId'[j] = lastId[j] + 1
        /\ \E gone \in SUBSET {l \in Links(j) : l.tenant = t} :
             Links(j)' = (Links(j) \ gone)
               \cup {[id |-> lastId'[j], tenant |-> t, old |-> setting[j][t], new |-> value]}
        /\ \A i \in Kinds \ {j} :
             setting'[i] = setting[i] /\ rows'[i] = rows[i] /\ lastId'[i] = lastId[i]
    BY <2>1, <2>2, ChangeOfTrail
  <2>4. TrailStep(j)
    BY <2>2, <2>3 DEF TrailStep
  <2>5. CASE k # j
    <3>1. setting'[k] = setting[k] /\ rows'[k] = rows[k] /\ lastId'[k] = lastId[k]
      BY <2>3, <2>5
    <3>2. Links(k)' = Links(k)
      BY <3>1 DEF Links
    <3> QED
      BY <3>1, <3>2 DEF TrailStep
  <2> QED
    BY <2>4, <2>5
<1>3. ASSUME NEW at \in Stamps, Sweep(at) PROVE TrailStep(k)
  <2>1. rows'[k] \subseteq rows[k] /\ setting' = setting /\ lastId' = lastId
    BY <1>3 DEF Sweep
  <2> QED
    BY <2>1 DEF TrailStep, Links
<1>4. CASE \/ \E l \in Listed : StartWalk(l[1], l[2])
           \/ NextPage \/ ListPage \/ Tick
  BY <1>4, <1>1, OthersLeaveTables
<1>5. CASE UNCHANGED vars
  BY <1>5, <1>1 DEF vars, storeVars
<1> QED
  BY <1>2, <1>3, <1>4, <1>5 DEF Next

\* Each of the three histories is a change trail: a change commits with its
\* row, which has the value it replaced and an id of its own; a prune of a
\* change takes only the tenant's rows; and no row is ever altered.
THEOREM TrailsImplemented == Spec => ImplementsTrails
<1>1. Init => PolicyTrail!Init /\ TtlTrail!Init /\ WindowTrail!Init
  BY DEF Init, PolicyTrail!Init, TtlTrail!Init, WindowTrail!Init, Kinds, Links
<1>2. StoreOK /\ [Next]_vars =>
        [PolicyTrail!Next]_<<setting["policy"], lastId["policy"], Links("policy")>>
  <2> SUFFICES ASSUME StoreOK, [Next]_vars
               PROVE  [PolicyTrail!Next]_<<setting["policy"], lastId["policy"], Links("policy")>>
    OBVIOUS
  <2>1. TrailStep("policy")
    BY StepOfTrail DEF Kinds
  <2> QED
    BY <2>1 DEF TrailStep, Settings, PolicyTrail!Next, PolicyTrail!Change, PolicyTrail!Forget
<1>3. StoreOK /\ [Next]_vars =>
        [TtlTrail!Next]_<<setting["policyTtl"], lastId["policyTtl"], Links("policyTtl")>>
  <2> SUFFICES ASSUME StoreOK, [Next]_vars
               PROVE  [TtlTrail!Next]_<<setting["policyTtl"], lastId["policyTtl"], Links("policyTtl")>>
    OBVIOUS
  <2>1. TrailStep("policyTtl")
    BY StepOfTrail DEF Kinds
  <2> QED
    BY <2>1 DEF TrailStep, Settings, TtlTrail!Next, TtlTrail!Change, TtlTrail!Forget
<1>4. StoreOK /\ [Next]_vars =>
        [WindowTrail!Next]_<<setting["dpWindow"], lastId["dpWindow"], Links("dpWindow")>>
  <2> SUFFICES ASSUME StoreOK, [Next]_vars
               PROVE  [WindowTrail!Next]_<<setting["dpWindow"], lastId["dpWindow"], Links("dpWindow")>>
    OBVIOUS
  <2>1. TrailStep("dpWindow")
    BY StepOfTrail DEF Kinds
  <2> QED
    BY <2>1 DEF TrailStep, Settings, WindowTrail!Next, WindowTrail!Change, WindowTrail!Forget
<1> QED
  BY <1>1, <1>2, <1>3, <1>4, StoreCorrect, PTL
     DEF Spec, ImplementsTrails, PolicyTrail!Spec, TtlTrail!Spec, WindowTrail!Spec
-----------------------------------------------------------------------------
(* Ranks: how many rows of a list are newer than a row. *)

\* A list of rows has finitely many, with ids that tell them apart.
IsList(L) ==
  /\ IsFiniteSet(L)
  /\ \A r \in L : r.id \in Nat
  /\ \A q, r \in L : q.id = r.id => q = r

Newer(L, r) == {q \in L : q.id > r.id}
Top(L, m) == {r \in L : Cardinality(Newer(L, r)) < m}

LEMMA SubList ==
  ASSUME NEW L, IsList(L), NEW M \in SUBSET L
  PROVE  IsList(M) /\ Cardinality(M) \in Nat /\ Cardinality(M) <= Cardinality(L)
         /\ Cardinality(L) \in Nat
BY FS_Subset, FS_CardinalityType DEF IsList

\* A set of natural numbers that is not empty has a least element.
LEMMA LeastOf ==
  ASSUME NEW T, T \subseteq Nat, T # {}
  PROVE  \E x \in T : \A y \in T : x <= y
<1>1. PICK x \in T : \A y \in T : ~ (<<y, x>> \in OpToRel(<, Nat))
  BY WFMin, NatLessThanWellFounded
<1>2. \A y \in T : ~ (y < x)
  BY <1>1 DEF OpToRel
<1> QED
  BY <1>2

\* Ranks are natural numbers below the size of the list ...
LEMMA RankType ==
  ASSUME NEW L, IsList(L), NEW r \in L
  PROVE  Cardinality(Newer(L, r)) \in Nat /\ Cardinality(Newer(L, r)) < Cardinality(L)
<1>1. Newer(L, r) \subseteq L \ {r}
  BY DEF IsList, Newer
<1>2. /\ IsFiniteSet(L \ {r}) /\ Cardinality(L \ {r}) = Cardinality(L) - 1
      /\ Cardinality(L) \in Nat
  BY FS_RemoveElement, FS_CardinalityType DEF IsList
<1>3. /\ Cardinality(Newer(L, r)) \in Nat
      /\ Cardinality(Newer(L, r)) <= Cardinality(L \ {r})
  BY <1>1, <1>2, FS_Subset, FS_CardinalityType
<1> QED
  BY <1>2, <1>3

\* ... and a newer row has a smaller one.
LEMMA NewerRanksLower ==
  ASSUME NEW L, IsList(L), NEW r \in L, NEW q \in L, q.id > r.id
  PROVE  Cardinality(Newer(L, q)) < Cardinality(Newer(L, r))
<1>1. IsList(Newer(L, r)) /\ q \in Newer(L, r)
  BY SubList DEF Newer
<1>2. Newer(L, q) = Newer(Newer(L, r), q)
  BY DEF Newer, IsList
<1> QED
  BY <1>1, <1>2, RankType

LEMMA SameRank ==
  ASSUME NEW L, IsList(L), NEW r \in L, NEW q \in L,
         Cardinality(Newer(L, q)) = Cardinality(Newer(L, r))
  PROVE  q = r
<1>1. ~ (q.id > r.id) /\ ~ (r.id > q.id)
  BY NewerRanksLower, RankType
<1> QED
  BY <1>1 DEF IsList

\* A list that is not empty has a newest row, and Newest chooses it.
LEMMA NewestExists ==
  ASSUME NEW L, IsList(L), L # {}
  PROVE  \E x \in L : Newer(L, x) = {} /\ \A q \in L : q.id <= x.id
<1> DEFINE Ranks == {Cardinality(Newer(L, r)) : r \in L}
<1>1. Ranks \subseteq Nat /\ Ranks # {}
  BY RankType
<1>2. PICK n \in Ranks : \A m \in Ranks : n <= m
  BY <1>1, LeastOf
<1>3. PICK x \in L : n = Cardinality(Newer(L, x))
  OBVIOUS
<1>4. \A q \in L : ~ (q.id > x.id)
  BY <1>2, <1>3, NewerRanksLower, RankType
<1> QED
  BY <1>4 DEF Newer, IsList

LEMMA NewestIs ==
  ASSUME NEW L, IsList(L), NEW x \in L, \A q \in L : q.id <= x.id
  PROVE  Newest(L) = x
<1>1. \A y \in L : (\A q \in L : q.id <= y.id) => y = x
  BY DEF IsList
<1> QED
  BY <1>1 DEF Newest

\* Whatever is newer than a row of the top is in the top; what the top leaves
\* out is older than all of it.
LEMMA TopNewer ==
  ASSUME NEW L, IsList(L), NEW m \in Nat, NEW x \in Top(L, m), NEW q \in L
  PROVE  /\ q.id > x.id => q \in Top(L, m)
         /\ q \notin Top(L, m) => x.id > q.id
<1>1. x \in L /\ q.id \in Nat /\ x.id \in Nat
  BY DEF Top, IsList
<1>2. ASSUME q.id > x.id PROVE q \in Top(L, m)
  <2>1. Cardinality(Newer(L, q)) < Cardinality(Newer(L, x))
    BY <1>1, <1>2, NewerRanksLower
  <2> QED
    BY <1>1, <2>1, RankType DEF Top
<1>3. q.id = x.id => q = x
  BY <1>1 DEF IsList
<1> QED
  BY <1>1, <1>2, <1>3

\* The newest m rows are m rows.
LEMMA TopCounts ==
  ASSUME NEW L, IsList(L), NEW m \in Nat, m <= Cardinality(L)
  PROVE  Cardinality(Top(L, m)) = m
<1> DEFINE Bad == {n \in Nat : n <= Cardinality(L) /\ Cardinality(Top(L, n)) # n}
<1>1. SUFFICES ASSUME Bad # {} PROVE FALSE
  OBVIOUS
<1>2. PICK n \in Bad : \A k \in Bad : n <= k
  <2> HIDE DEF Bad
  <2> QED
    BY <1>1, LeastOf DEF Bad
<1>3. n \in Nat /\ n <= Cardinality(L) /\ Cardinality(Top(L, n)) # n /\ Cardinality(L) \in Nat
  BY <1>2, SubList
<1>4. n # 0
  <2>1. Top(L, 0) = {}
    BY RankType DEF Top
  <2> QED
    BY <1>3, <2>1, FS_EmptySet
<1> DEFINE k == n - 1
           Rest == L \ Top(L, k)
<1>5. k \in Nat /\ k < Cardinality(L) /\ Cardinality(Top(L, k)) = k /\ n = k + 1
  <2>1. k \in Nat /\ k < Cardinality(L) /\ n = k + 1
    BY <1>3, <1>4
  <2>2. ~ (n <= k)
    BY <2>1
  <2>3. ~ (k <= Cardinality(L) /\ Cardinality(Top(L, k)) # k)
    BY <1>2, <2>1, <2>2
  <2>4. k <= Cardinality(L)
    BY <1>3, <2>1
  <2> QED
    BY <2>1, <2>3, <2>4
<1>6. IsFiniteSet(Top(L, k)) /\ Top(L, k) \subseteq L
  BY FS_Subset DEF Top, IsList
<1>7. IsList(Rest) /\ Rest # {}
  <2>1. Top(L, k) # L
    BY <1>5
  <2> QED
    BY <1>6, <2>1, SubList
<1>8. PICK x \in Rest : \A q \in Rest : q.id <= x.id
  BY <1>7, NewestExists
<1>9. x \in L /\ x \notin Top(L, k)
  OBVIOUS
<1>10. \A q \in L : q.id \in Nat
  BY DEF IsList
<1> HIDE DEF k, Bad
<1>11. Newer(L, x) = Top(L, k)
  <2>1. \A q \in Top(L, k) : q \in L /\ q.id > x.id
    BY <1>5, <1>6, <1>9, TopNewer
  <2>2. \A q \in L : q.id > x.id => q \in Top(L, k)
    BY <1>8, <1>10
  <2> QED
    BY <2>1, <2>2 DEF Newer
<1>12. Top(L, n) = Top(L, k) \cup {x}
  <2>1. \A r \in L : Cardinality(Newer(L, r)) \in Nat
    BY RankType
  <2>2. Cardinality(Newer(L, x)) = k
    BY <1>5, <1>11
  <2>3. \A r \in L : Cardinality(Newer(L, r)) < n =>
          Cardinality(Newer(L, r)) < k \/ Cardinality(Newer(L, r)) = k
    BY <1>5, <2>1
  <2>4. \A r \in L : Cardinality(Newer(L, r)) < k => Cardinality(Newer(L, r)) < n
    BY <1>5, <2>1
  <2>5. \A r \in L : Cardinality(Newer(L, r)) = k => r = x
    BY <1>9, <2>2, SameRank
  <2>6. k < n
    BY <1>5
  <2> QED
    BY <1>9, <2>2, <2>3, <2>4, <2>5, <2>6 DEF Top
<1>13. Cardinality(Top(L, n)) = k + 1
  BY <1>5, <1>6, <1>9, <1>12, FS_AddElement
<1> QED
  BY <1>3, <1>5, <1>13

\* Every rank below the size of the list is some row's.
LEMMA RankExists ==
  ASSUME NEW L, IsList(L), NEW m \in Nat, m < Cardinality(L)
  PROVE  \E r \in L : Cardinality(Newer(L, r)) = m
<1>1. Cardinality(L) \in Nat /\ m + 1 \in Nat /\ m + 1 <= Cardinality(L) /\ m <= Cardinality(L)
  BY SubList
<1>2. Cardinality(Top(L, m)) = m
  BY <1>1, TopCounts
<1>3. Cardinality(Top(L, m + 1)) = m + 1
  BY <1>1, TopCounts
<1>4. Top(L, m) # Top(L, m + 1)
  BY <1>2, <1>3
<1>5. \A r \in L : Cardinality(Newer(L, r)) \in Nat
  BY RankType
<1> DEFINE rank == [r \in L |-> Cardinality(Newer(L, r))]
<1>6. Top(L, m) = {r \in L : rank[r] < m} /\ Top(L, m + 1) = {r \in L : rank[r] < m + 1}
  BY DEF Top
<1>7. \A r \in L : rank[r] \in Nat /\ rank[r] = Cardinality(Newer(L, r))
  BY <1>5
<1> HIDE DEF rank
<1>8. PICK r \in L : ~ (rank[r] < m <=> rank[r] < m + 1)
  BY <1>4, <1>6
<1> QED
  BY <1>7, <1>8

\* A list that is longer than its m newest rows: what is left out has exactly
\* those m above it.
LEMMA TopLeavesOut ==
  ASSUME NEW L, IsList(L), NEW m \in Nat, NEW r \in L, r \notin Top(L, m)
  PROVE  /\ {q \in Top(L, m) : q.id > r.id} = Top(L, m)
         /\ Cardinality(Top(L, m)) = m
<1>1. \A q \in Top(L, m) : q.id > r.id
  BY TopNewer
<1>2. m <= Cardinality(L)
  BY RankType, SubList DEF Top
<1> QED
  BY <1>1, <1>2, TopCounts

\* A list that is not longer than m is its own top.
LEMMA TopIsAll ==
  ASSUME NEW L, IsList(L), NEW m \in Nat, Cardinality(L) <= m
  PROVE  Top(L, m) = L
<1>1. \A r \in L : Cardinality(Newer(L, r)) < m
  BY RankType, SubList
<1> QED
  BY <1>1 DEF Top

-----------------------------------------------------------------------------
(* What a prune leaves of a tenant's history. *)

Lists == \A k \in Kinds : IsList(rows[k])

OfTenant(table, t) == {r \in table : r.tenant = t}
LiveOf(k, table, t, time) ==
  {r \in table : r.tenant = t /\ ~ Expired(k, r, EffectiveTtl(t), time)}
Own(k, t) == OfTenant(rows[k], t)

\* The newest rows of what has not expired.
LEMMA PruneIsTop ==
  ASSUME NEW k, NEW t, NEW table, NEW time
  PROVE  OfTenant(Prune(k, t, table, time), t) = Top(LiveOf(k, table, t, time), HistoryMax[k])
<1> DEFINE live == {r \in table : r.tenant = t => ~ Expired(k, r, EffectiveTtl(t), time)}
           L == LiveOf(k, table, t, time)
<1>1. \A r \in L : AmongNewest(k, live, r) <=> Cardinality(Newer(L, r)) < HistoryMax[k]
  <2> SUFFICES ASSUME NEW r \in L
               PROVE  {q \in live : q.tenant = r.tenant /\ q.id > r.id} = Newer(L, r)
    BY DEF AmongNewest
  <2> QED
    BY DEF Newer, LiveOf
<1>2. OfTenant(Prune(k, t, table, time), t) = {r \in L : AmongNewest(k, live, r)}
  BY DEF Prune, OfTenant, LiveOf
<1> HIDE DEF L, live
<1>3. {r \in L : AmongNewest(k, live, r)} = Top(L, HistoryMax[k])
  BY <1>1 DEF Top
<1> QED
  BY <1>2, <1>3 DEF L

\* A history with one more row is still a list.
LEMMA OneMoreRow ==
  ASSUME StoreOK, Lists, NEW k \in Kinds, NEW t \in Tenants, NEW value, NEW at
  PROVE  IsList(rows[k] \cup {NewRow(k, t, value, at)})
<1> DEFINE row == NewRow(k, t, value, at)
<1>1. row.id = lastId[k] + 1 /\ lastId[k] \in Nat
  BY DEF NewRow, NextId, StoreOK
<1>2. \A q \in rows[k] : q.id \in Nat /\ q.id < row.id
  <2>1. \A q \in rows[k] : q.id \in 1..lastId[k]
    BY DEF StoreOK
  <2> QED
    BY <1>1, <2>1
<1>3. IsFiniteSet(rows[k] \cup {row}) /\ \A q, r \in rows[k] : q.id = r.id => q = r
  BY FS_AddElement DEF Lists, IsList
<1>4. \A q \in rows[k] \cup {row} : q.id \in Nat
  BY <1>1, <1>2
<1> HIDE DEF row
<1>5. \A q, r \in rows[k] \cup {row} : q.id = r.id => q = r
  <2> SUFFICES ASSUME NEW q \in rows[k] \cup {row}, NEW r \in rows[k] \cup {row}, q.id = r.id
               PROVE  q = r
    OBVIOUS
  <2>1. CASE q \in rows[k] /\ r \in rows[k]
    BY <1>3, <2>1
  <2>2. CASE q = row /\ r \in rows[k]
    BY <1>2, <1>4, <2>2
  <2>3. CASE r = row /\ q \in rows[k]
    BY <1>2, <1>4, <2>3
  <2> QED
    BY <2>1, <2>2, <2>3
<1> QED
  BY <1>3, <1>4, <1>5 DEF IsList, row

\* Every step leaves every history a list.
LEMMA ListsStep ==
  ASSUME StoreOK, Lists, [Next]_vars
  PROVE  Lists'
<1>1. ASSUME \A k \in Kinds : \E L : IsList(L) /\ rows'[k] \subseteq L
      PROVE  Lists'
  BY <1>1, SubList DEF Lists
<1>2. CASE UNCHANGED rows
  BY <1>1, <1>2 DEF Lists
<1>3. ASSUME NEW c \in Changed, NEW at \in Stamps, NEW value \in Settings[c[1]] \cup {None},
             Change(c[1], c[2], value, at)
      PROVE  Lists'
  <2> DEFINE j == c[1]
             t == c[2]
  <2>1. j \in Kinds /\ t \in Tenants
    BY ChangeArguments
  <2>2. rows' = [rows EXCEPT ![j] = Amended(j, t, value, at)]
    BY <1>3 DEF Change
  <2> HIDE DEF j, t
  <2>3. IsList(rows[j] \cup {NewRow(j, t, value, at)})
    BY <2>1, OneMoreRow
  <2>4. Amended(j, t, value, at) \subseteq rows[j] \cup {NewRow(j, t, value, at)}
    BY PruneRemoves DEF Amended
  <2>5. \A k \in Kinds \ {j} : rows'[k] = rows[k] /\ IsList(rows[k])
    BY <2>2 DEF StoreOK, Lists
  <2>6. rows'[j] = Amended(j, t, value, at)
    BY <2>1, <2>2 DEF StoreOK
  <2> QED
    BY <1>1, <2>3, <2>4, <2>5, <2>6
<1>4. ASSUME NEW at \in Stamps, Sweep(at) PROVE Lists'
  <2>1. \A k \in Kinds : rows'[k] \subseteq rows[k]
    BY <1>4 DEF Sweep
  <2> QED
    BY <1>1, <2>1 DEF Lists
<1>5. CASE \/ \E l \in Listed : StartWalk(l[1], l[2])
           \/ NextPage \/ ListPage \/ Tick
  BY <1>2, <1>5, OthersLeaveTables DEF storeVars
<1>6. CASE UNCHANGED vars
  BY <1>2, <1>6 DEF vars
<1> QED
  BY <1>3, <1>4, <1>5, <1>6 DEF Next

-----------------------------------------------------------------------------
(* The histories of the two overrides, which do not expire. *)

\* A list of at most max rows that leads, without a gap, up to a value; it
\* starts at the first change unless it is full.
IsTrail(own, value, max) ==
  /\ Cardinality(own) <= max
  /\ value = IF own = {} THEN None ELSE Newest(own).new
  /\ \A r \in own :
       LET older == {q \in own : q.id < r.id}
       IN  IF older # {} THEN r.old = Newest(older).new
           ELSE Cardinality(own) < max => r.old = None

\* A trail with one more change, trimmed to its newest rows, is a trail.
LEMMA TrailAmended ==
  ASSUME NEW own, NEW row, IsList(own \cup {row}), \A q \in own : q.id < row.id,
         NEW max \in Nat \ {0}, IsTrail(own, row.old, max)
  PROVE  IsTrail(Top(own \cup {row}, max), row.new, max)
<1> DEFINE L == own \cup {row}
           T == Top(L, max)
<1>1. /\ IsList(L) /\ own \subseteq L /\ row \in L /\ row \notin own
      /\ \A q \in L : q.id <= row.id /\ q.id \in Nat
  <2>1. \A q \in L : q.id \in Nat
    BY DEF IsList
  <2> QED
    BY <2>1
<1>2. IsList(own) /\ Cardinality(own) \in Nat /\ Cardinality(L) = Cardinality(own) + 1
  BY <1>1, SubList, FS_AddElement DEF IsList
<1>3. T \subseteq L /\ IsList(T)
  <2>1. T \subseteq L
    BY DEF Top
  <2> QED
    BY <1>1, <2>1, SubList
<1>4. row \in T
  <2>1. Newer(L, row) = {}
    BY <1>1 DEF Newer
  <2>2. Cardinality(Newer(L, row)) < max
    <3>1. Cardinality({}) = 0
      BY FS_EmptySet
    <3> QED
      BY <2>1, <3>1
  <2> QED
    BY <1>1, <2>2 DEF Top
<1>5. Newest(T) = row
  BY <1>1, <1>3, <1>4, NewestIs
<1> HIDE DEF L
<1> SUFFICES IsTrail(T, row.new, max)
  BY DEF L
<1>6. CASE Cardinality(own) < max
  <2>1. T = L
    BY <1>1, <1>2, <1>6, TopIsAll
  <2>2. Cardinality(T) <= max
    BY <1>2, <1>6, <2>1
  <2>3. ASSUME NEW r \in own
        PROVE  {q \in L : q.id < r.id} = {q \in own : q.id < r.id}
    BY <1>1 DEF L
  <2>4. {q \in L : q.id < row.id} = own
    BY <1>1 DEF L
  <2>5. \A r \in T :
          LET older == {q \in T : q.id < r.id}
          IN  IF older # {} THEN r.old = Newest(older).new ELSE r.old = None
    <3> SUFFICES ASSUME NEW r \in L
                 PROVE  LET older == {q \in L : q.id < r.id}
                        IN  IF older # {} THEN r.old = Newest(older).new ELSE r.old = None
      BY <2>1
    <3>1. CASE r = row
      BY <2>4, <3>1 DEF IsTrail
    <3>2. CASE r \in own
      BY <1>6, <2>3, <3>2 DEF IsTrail
    <3> QED
      BY <3>1, <3>2 DEF L
  <2> HIDE DEF T
  <2> QED
    BY <1>4, <1>5, <2>2, <2>5 DEF IsTrail
<1>7. CASE Cardinality(own) = max
  <2>1. Cardinality(T) = max
    BY <1>1, <1>2, <1>7, TopCounts
  <2>2. ASSUME NEW r \in T, {q \in T : q.id < r.id} # {}
        PROVE  r.old = Newest({q \in T : q.id < r.id}).new
    <3> DEFINE older == {q \in L : q.id < r.id}
    <3>1. r \in L /\ IsList(older)
      BY <1>1, <1>3, SubList
    <3>2. PICK y \in T : y.id < r.id
      BY <2>2
    <3>3. PICK x \in older : \A q \in older : q.id <= x.id
      <4>1. older # {}
        BY <1>3, <3>2
      <4> QED
        BY <3>1, <4>1, NewestExists
    <3>4. x \in T
      <4>1. y \in older /\ y \in L
        BY <1>3, <3>2
      <4>2. x.id > y.id \/ x = y
        <5>1. x \in L /\ x.id \in Nat /\ y.id \in Nat /\ y.id <= x.id
          BY <1>1, <3>3, <4>1
        <5>2. x.id = y.id => x = y
          BY <1>1, <4>1, <5>1 DEF IsList
        <5> QED
          BY <5>1, <5>2
      <4> QED
        BY <1>1, <3>2, <3>3, <4>2, TopNewer
    <3>5. Newest(older) = x
      BY <3>1, <3>3, NewestIs
    <3>6. Newest({q \in T : q.id < r.id}) = x
      <4>1. {q \in T : q.id < r.id} \subseteq older /\ x \in {q \in T : q.id < r.id}
        BY <1>3, <3>3, <3>4
      <4>2. IsList({q \in T : q.id < r.id})
        BY <1>3, SubList
      <4> QED
        BY <3>3, <4>1, <4>2, NewestIs
    <3>7. r.old = Newest(older).new
      <4>1. CASE r = row
        <5>1. older = own
          BY <1>1, <4>1 DEF L
        <5>2. own # {}
          BY <5>1, <3>3
        <5> QED
          BY <4>1, <5>1, <5>2 DEF IsTrail
      <4>2. CASE r \in own
        <5>1. older = {q \in own : q.id < r.id}
          BY <1>1, <4>2 DEF L
        <5>2. {q \in own : q.id < r.id} # {}
          BY <5>1, <3>3
        <5> HIDE DEF older
        <5> QED
          BY <4>2, <5>1, <5>2 DEF IsTrail
      <4> QED
        BY <3>1, <4>1, <4>2 DEF L
    <3> QED
      BY <3>5, <3>6, <3>7
  <2> HIDE DEF T
  <2>3. \A r \in T :
          LET older == {q \in T : q.id < r.id}
          IN  IF older # {} THEN r.old = Newest(older).new
              ELSE Cardinality(T) < max => r.old = None
    BY <2>1, <2>2
  <2> QED
    BY <1>4, <1>5, <2>1, <2>3 DEF IsTrail
<1>8. Cardinality(own) <= max
  BY DEF IsTrail
<1> QED
  BY <1>2, <1>6, <1>7, <1>8

Overrides == {"policyTtl", "dpWindow"}
Trails == \A k \in Overrides, t \in Tenants : IsTrail(Own(k, t), setting[k][t], HistoryMax[k])

\* Nothing of an override's history expires: a prune keeps its newest rows.
LEMMA OverridePruned ==
  ASSUME NEW k \in Overrides, NEW t, NEW table, NEW time
  PROVE  OfTenant(Prune(k, t, table, time), t) = Top(OfTenant(table, t), HistoryMax[k])
<1>1. LiveOf(k, table, t, time) = OfTenant(table, t)
  BY DEF Overrides, Expired, LiveOf, OfTenant
<1> QED
  BY <1>1, PruneIsTop

LEMMA TrailsStep ==
  ASSUME StoreOK, Lists, Trails, [Next]_vars
  PROVE  Trails'
<1>0. Overrides \subseteq Kinds /\ \A k \in Kinds : HistoryMax[k] \in Nat \ {0}
  BY PolicyStoreAssumption DEF Overrides, Kinds
<1>1. CASE UNCHANGED <<rows, setting>>
  BY <1>1 DEF Trails, Own, OfTenant
<1>2. ASSUME NEW c \in Changed, NEW at \in Stamps, NEW value \in Settings[c[1]] \cup {None},
             Change(c[1], c[2], value, at)
      PROVE  Trails'
  <2> DEFINE j == c[1]
             u == c[2]
             row == NewRow(j, u, value, at)
  <2>1. j \in Kinds /\ u \in Tenants
    BY ChangeArguments
  <2>2. /\ rows' = [rows EXCEPT ![j] = Amended(j, u, value, at)]
        /\ setting' = [setting EXCEPT ![j][u] = value]
    BY <1>2 DEF Change
  <2>3. row.tenant = u /\ row.old = setting[j][u] /\ row.new = value /\ row.id = lastId[j] + 1
    BY DEF NewRow, NextId
  <2>4. IsList(rows[j] \cup {row})
    BY <2>1, OneMoreRow
  <2>5. \A q \in rows[j] : q.id < row.id
    <3>1. lastId[j] \in Nat /\ \A q \in rows[j] : q.id \in 1..lastId[j]
      BY <2>1 DEF StoreOK
    <3> QED
      BY <2>3, <3>1
  <2>6. Amended(j, u, value, at) = Prune(j, u, rows[j] \cup {row}, at)
    BY DEF Amended
  <2> HIDE DEF j, u, row
  <2> SUFFICES ASSUME NEW k \in Overrides, NEW t \in Tenants
               PROVE  IsTrail(Own(k, t)', setting'[k][t], HistoryMax[k])
    BY DEF Trails
  <2>7. CASE k = j /\ t = u
    <3>1. setting'[k][t] = row.new
      BY <2>1, <2>2, <2>3, <2>7 DEF StoreOK
    <3> DEFINE table == rows[j] \cup {row}
    <3>2. Own(k, t)' = OfTenant(Prune(j, u, table, at), u)
      BY <2>1, <2>2, <2>6, <2>7 DEF StoreOK, Own, OfTenant
    <3>3. OfTenant(table, u) = Own(k, t) \cup {row}
      BY <2>3, <2>7 DEF Own, OfTenant
    <3> HIDE DEF table
    <3>4. Own(k, t)' = Top(Own(k, t) \cup {row}, HistoryMax[k])
      BY <2>7, <3>2, <3>3, OverridePruned
    <3>5. IsList(Own(k, t) \cup {row}) /\ \A q \in Own(k, t) : q.id < row.id
      BY <2>4, <2>5, <2>7, SubList DEF Own, OfTenant
    <3>6. IsTrail(Own(k, t), row.old, HistoryMax[k])
      BY <2>3, <2>7 DEF Trails
    <3>7. IsTrail(Top(Own(k, t) \cup {row}, HistoryMax[k]), row.new, HistoryMax[k])
      BY <1>0, <3>5, <3>6, TrailAmended
    <3> QED
      BY <3>1, <3>4, <3>7
  <2>8. CASE k # j \/ t # u
    <3>1. setting'[k][t] = setting[k][t]
      BY <1>0, <2>1, <2>2, <2>8 DEF StoreOK
    <3>2. Own(k, t)' = Own(k, t)
      <4>1. CASE k # j
        BY <1>0, <2>2, <4>1 DEF StoreOK, Own, OfTenant
      <4>2. CASE k = j /\ t # u
        <5>1. rows'[k] = Prune(j, u, rows[j] \cup {row}, at)
          BY <2>1, <2>2, <2>6, <4>2 DEF StoreOK
        <5>2. \A r : r.tenant = t => (r \in rows'[k] <=> r \in rows[k])
          BY <2>3, <4>2, <5>1, PruneRemoves
        <5> QED
          BY <5>2 DEF Own, OfTenant
      <4> QED
        BY <2>8, <4>1, <4>2
    <3> QED
      BY <3>1, <3>2 DEF Trails
  <2> QED
    BY <2>7, <2>8
<1>3. ASSUME NEW at \in Stamps, Sweep(at) PROVE Trails'
  <2> SUFFICES ASSUME NEW k \in Overrides, NEW t \in Tenants
               PROVE  IsTrail(Own(k, t)', setting'[k][t], HistoryMax[k])
    BY DEF Trails
  <2>1. setting' = setting /\ rows'[k] =
          {r \in rows[k] : IsSwept(r.tenant) => r \in Prune(k, r.tenant, rows[k], at)}
    BY <1>0, <1>3 DEF Sweep
  <2>2. IsTrail(Own(k, t), setting[k][t], HistoryMax[k])
    BY DEF Trails
  <2>3. IsList(Own(k, t))
    BY <1>0, SubList DEF Lists, Own, OfTenant
  <2>4. Top(Own(k, t), HistoryMax[k]) = Own(k, t)
    BY <1>0, <2>2, <2>3, TopIsAll DEF IsTrail
  <2>5. OfTenant(Prune(k, t, rows[k], at), t) = Own(k, t)
    BY <2>4, OverridePruned DEF Own, OfTenant
  <2>6. Own(k, t)' = Own(k, t)
    BY <2>1, <2>5 DEF Own, OfTenant
  <2> QED
    BY <2>1, <2>2, <2>6
<1>4. CASE \/ \E l \in Listed : StartWalk(l[1], l[2])
           \/ NextPage \/ ListPage \/ Tick
  BY <1>1, <1>4, OthersLeaveTables DEF storeVars
<1>5. CASE UNCHANGED vars
  BY <1>1, <1>5 DEF vars
<1> QED
  BY <1>2, <1>3, <1>4, <1>5 DEF Next

TrailInv == StoreOK /\ Lists /\ Trails

LEMMA TrailInvHolds == Spec => []TrailInv
<1>1. Init => TrailInv
  <2> SUFFICES ASSUME Init PROVE TrailInv
    OBVIOUS
  <2>1. StoreOK
    BY PolicyStoreAssumption DEF Init, StoreOK
  <2>2. Lists
    BY FS_EmptySet DEF Init, Lists, IsList
  <2>3. \A k \in Overrides, t \in Tenants : Own(k, t) = {} /\ setting[k][t] = None
    BY DEF Init, Own, OfTenant, Overrides, Kinds
  <2>4. \A k \in Overrides : HistoryMax[k] \in Nat \ {0}
    BY PolicyStoreAssumption DEF Overrides, Kinds
  <2>5. Trails
    <3> SUFFICES ASSUME NEW k \in Overrides, NEW t \in Tenants
                 PROVE  IsTrail({}, None, HistoryMax[k])
      BY <2>3 DEF Trails
    <3>1. Cardinality({}) <= HistoryMax[k]
      BY <2>4, FS_EmptySet
    <3> QED
      BY <3>1 DEF IsTrail
  <2> QED
    BY <2>1, <2>2, <2>5 DEF TrailInv
<1>2. TrailInv /\ [Next]_vars => TrailInv'
  BY StoreStep, ListsStep, TrailsStep DEF TrailInv
<1> QED
  BY <1>1, <1>2, PTL DEF Spec

\* Through every change, prune and sweep of any instance, the history of an
\* override keeps at most its limit, leads without a gap to the value in force,
\* and goes back to the first change until it is full.
THEOREM OverridesTrailed == Spec => []OverrideTrails
<1>1. TrailInv => OverrideTrails
  BY DEF TrailInv, Trails, IsTrail, Own, OfTenant, Overrides, OverrideTrails
<1> QED
  BY <1>1, TrailInvHolds, PTL

-----------------------------------------------------------------------------
(* What the history endpoint shows. *)

\* A row that the read filter shows now is not expired for an older clock.
LEMMA ShownIsLive ==
  ASSUME StoreOK, NEW k \in Kinds, NEW t \in Tenants, NEW at \in 0..now,
         NEW r \in Shown(k, t, EffectiveTtl(t), now)
  PROVE  r \in rows[k] /\ r.tenant = t /\ ~ Expired(k, r, EffectiveTtl(t), at)
<1>1. r \in rows[k] /\ r.tenant = t /\ ~ Expired(k, r, EffectiveTtl(t), now)
  BY DEF Shown
<1>2. r.at \in Nat /\ now \in Nat /\ at \in Nat /\ at <= now /\ EffectiveTtl(t) \in Nat
  <2>1. now \in 0..MaxTime /\ MaxTime \in Nat /\ r.at \in 0..now
    BY <1>1, PolicyStoreAssumption DEF StoreOK
  <2>2. EffectiveTtl(t) \in Nat
    BY TtlIsNat
  <2> QED
    BY <2>1, <2>2
<1>3. Cutoff(EffectiveTtl(t), at) <= Cutoff(EffectiveTtl(t), now)
  BY <1>2 DEF Cutoff
<1>4. Cutoff(EffectiveTtl(t), at) \in Int /\ Cutoff(EffectiveTtl(t), now) \in Int
  BY <1>2 DEF Cutoff
<1>5. r.at < Cutoff(EffectiveTtl(t), at) => r.at < Cutoff(EffectiveTtl(t), now)
  BY <1>2, <1>3, <1>4
<1> QED
  BY <1>1, <1>5 DEF Expired

\* A live row that is pruned has as many newer rows left as the limit allows.
LEMMA PrunedIsCovered ==
  ASSUME NEW k \in Kinds, NEW t, NEW table, IsList(table), NEW at, NEW left,
         OfTenant(left, t) = OfTenant(Prune(k, t, table, at), t),
         NEW r \in LiveOf(k, table, t, at), r \notin left
  PROVE  Cardinality({q \in left : q.tenant = t /\ q.id > r.id}) = HistoryMax[k]
<1> DEFINE L == LiveOf(k, table, t, at)
           T == Top(L, HistoryMax[k])
<1>1. IsList(L) /\ HistoryMax[k] \in Nat /\ r \in L
  BY SubList, PolicyStoreAssumption DEF LiveOf
<1>2. OfTenant(left, t) = T
  BY PruneIsTop
<1>3. r.tenant = t
  BY DEF LiveOf
<1>4. r \notin T
  BY <1>2, <1>3 DEF OfTenant
<1> HIDE DEF L
<1>5. {q \in T : q.id > r.id} = T /\ Cardinality(T) = HistoryMax[k]
  BY <1>1, <1>4, TopLeavesOut
<1> HIDE DEF T
<1>6. {q \in left : q.tenant = t /\ q.id > r.id} = {q \in T : q.id > r.id}
  BY <1>2 DEF OfTenant
<1> QED
  BY <1>5, <1>6

\* No change or sweep of any instance, whatever the age of its clock, takes a
\* row that the endpoint would show, unless as many newer ones are kept as the
\* limit allows.
THEOREM ShownStay == Spec => ShownRowsStay
<1> DEFINE Stays ==
      \A k \in Kinds, t \in Tenants :
        \A r \in Shown(k, t, EffectiveTtl(t), now) :
          r \notin rows'[k] =>
            Cardinality({q \in rows'[k] : q.tenant = t /\ q.id > r.id}) = HistoryMax[k]
<1>1. TrailInv /\ [Next]_vars => [Stays]_vars
  <2> SUFFICES ASSUME TrailInv, Next, NEW k \in Kinds, NEW t \in Tenants,
                      NEW r \in Shown(k, t, EffectiveTtl(t), now), r \notin rows'[k]
               PROVE  Cardinality({q \in rows'[k] : q.tenant = t /\ q.id > r.id}) = HistoryMax[k]
    OBVIOUS
  <2>1. r \in rows[k] /\ r.tenant = t
    BY DEF Shown
  <2>2. StoreOK /\ Lists /\ IsList(rows[k])
    BY DEF TrailInv, Lists
  <2>3. ASSUME NEW c \in Changed, NEW at \in Stamps, NEW value \in Settings[c[1]] \cup {None},
               Change(c[1], c[2], value, at)
        PROVE  Cardinality({q \in rows'[k] : q.tenant = t /\ q.id > r.id}) = HistoryMax[k]
    <3> DEFINE j == c[1]
               u == c[2]
               table == rows[j] \cup {NewRow(j, u, value, at)}
    <3>1. j \in Kinds /\ u \in Tenants /\ at \in 0..now
      BY <2>2, ChangeArguments
    <3>2. rows' = [rows EXCEPT ![j] = Prune(j, u, table, at)]
      BY <2>3 DEF Change, Amended
    <3> HIDE DEF j, u
    <3>3. IsList(table)
      BY <2>2, <3>1, OneMoreRow
    <3>4. k = j /\ rows'[k] = Prune(j, u, table, at)
      BY <2>1, <2>2, <3>1, <3>2 DEF StoreOK
    <3>5. t = u
      BY <2>1, <3>4, PruneRemoves
    <3>6. r \in LiveOf(k, table, t, at)
      BY <2>1, <2>2, <3>1, <3>4, ShownIsLive DEF LiveOf
    <3> HIDE DEF table
    <3> QED
      BY <3>3, <3>4, <3>5, <3>6, PrunedIsCovered
  <2>4. ASSUME NEW at \in Stamps, Sweep(at)
        PROVE  Cardinality({q \in rows'[k] : q.tenant = t /\ q.id > r.id}) = HistoryMax[k]
    <3>1. at \in 0..now
      BY DEF Stamps
    <3>2. rows'[k] = {q \in rows[k] : IsSwept(q.tenant) => q \in Prune(k, q.tenant, rows[k], at)}
      BY <2>4 DEF Sweep
    <3>3. IsSwept(t)
      BY <2>1 DEF IsSwept
    <3>4. OfTenant(rows'[k], t) = OfTenant(Prune(k, t, rows[k], at), t)
      BY <3>2, <3>3, PruneRemoves DEF OfTenant
    <3>5. r \in LiveOf(k, rows[k], t, at)
      BY <2>1, <2>2, <3>1, ShownIsLive DEF LiveOf
    <3> QED
      BY <2>2, <3>4, <3>5, PrunedIsCovered
  <2>5. CASE \/ \E l \in Listed : StartWalk(l[1], l[2])
             \/ NextPage \/ ListPage \/ Tick
    BY <2>1, <2>5, OthersLeaveTables DEF storeVars
  <2> QED
    BY <2>3, <2>4, <2>5 DEF Next
<1>2. Spec => [][Stays]_vars
  BY <1>1, TrailInvHolds, PTL DEF Spec
<1> QED
  BY <1>2 DEF ShownRowsStay

-----------------------------------------------------------------------------
(* A client that follows next_cursor. *)

\* The ids of a list, newest first, are all of them, in descending order.
LEMMA NewestFirstFact ==
  ASSUME NEW L, IsList(L)
  PROVE  /\ NewestFirst(L) \in Seq(Nat)
         /\ \A m, n \in DOMAIN NewestFirst(L) : m < n => NewestFirst(L)[m] > NewestFirst(L)[n]
         /\ \A r \in L : \E n \in DOMAIN NewestFirst(L) : NewestFirst(L)[n] = r.id
         /\ \A n \in DOMAIN NewestFirst(L) : \E r \in L : NewestFirst(L)[n] = r.id
<1> DEFINE Rank(r) == Cardinality(Newer(L, r))
           Nth(n) == CHOOSE r \in L : Cardinality(Newer(L, r)) = n - 1
           s == NewestFirst(L)
<1>1. Cardinality(L) \in Nat
  BY SubList
<1>2. s = [n \in 1..Cardinality(L) |-> Nth(n).id]
  BY DEF NewestFirst, Newer
<1>3. ASSUME NEW n \in 1..Cardinality(L)
      PROVE  Nth(n) \in L /\ Rank(Nth(n)) = n - 1
  <2>1. n - 1 \in Nat /\ n - 1 < Cardinality(L)
    BY <1>1
  <2>2. \E r \in L : Cardinality(Newer(L, r)) = n - 1
    BY <2>1, RankExists
  <2> QED
    BY <2>2
<1> HIDE DEF Nth
<1>4. DOMAIN s = 1..Cardinality(L) /\ \A n \in 1..Cardinality(L) : s[n] = Nth(n).id
  BY <1>2
<1>5. \A n \in 1..Cardinality(L) : Nth(n).id \in Nat
  BY <1>3 DEF IsList
<1>6. s \in Seq(Nat)
  BY <1>1, <1>2, <1>5
<1> HIDE DEF s
<1>7. ASSUME NEW m \in 1..Cardinality(L), NEW n \in 1..Cardinality(L), m < n
      PROVE  s[m] > s[n]
  <2>1. /\ Nth(m) \in L /\ Nth(n) \in L /\ Rank(Nth(m)) = m - 1 /\ Rank(Nth(n)) = n - 1
    BY <1>3
  <2>2. Rank(Nth(m)) < Rank(Nth(n))
    BY <1>7, <2>1
  <2>3. ~ (Nth(n).id > Nth(m).id)
    <3>1. Nth(n).id > Nth(m).id => Rank(Nth(n)) < Rank(Nth(m))
      BY <2>1, NewerRanksLower
    <3> QED
      BY <1>7, <2>1, <3>1
  <2>4. Nth(n) # Nth(m)
    BY <1>7, <2>1
  <2>5. Nth(n).id # Nth(m).id
    BY <2>1, <2>4 DEF IsList
  <2> QED
    BY <1>4, <1>5, <2>3, <2>5
<1>8. ASSUME NEW r \in L
      PROVE  \E n \in 1..Cardinality(L) : s[n] = r.id
  <2>1. Rank(r) \in Nat /\ Rank(r) < Cardinality(L)
    BY RankType
  <2> DEFINE n == Rank(r) + 1
  <2>2. n \in 1..Cardinality(L) /\ n - 1 = Rank(r)
    BY <1>1, <2>1
  <2>3. Nth(n) \in L /\ Rank(Nth(n)) = Rank(r)
    BY <1>3, <2>2
  <2>4. Nth(n) = r
    BY <2>3, SameRank
  <2> QED
    BY <1>4, <2>2, <2>4
<1>9. \A n \in 1..Cardinality(L) : Nth(n) \in L
  BY <1>3
<1>10. /\ \A m, n \in DOMAIN s : m < n => s[m] > s[n]
       /\ \A r \in L : \E n \in DOMAIN s : s[n] = r.id
       /\ \A n \in DOMAIN s : \E r \in L : s[n] = r.id
  BY <1>4, <1>7, <1>8, <1>9
<1> QED
  BY <1>6, <1>10 DEF s

\* What a page is taken from, and what it is.
OlderThan(cursor, table) == {r \in table : cursor > 0 => r.id < cursor}

LEMMA PageIsTop ==
  ASSUME NEW table
  PROVE  Page(table) = Top(OlderThan(walk.cursor, table), PageSize)
BY DEF Page, Top, Newer, OlderThan

WalkRecord ==
  [stage : {"reading", "between"}, kind : Kinds, tenant : Tenants, ttl : Nat,
   cursor : Nat, seen : Seq(Nat)]

\* What the client has seen so far is in order and not below its cursor, and
\* holds every owed row that is not below it; owed rows are still listable.
WalkInv ==
  walk.stage # "idle" =>
    /\ walk \in WalkRecord
    /\ \A m, n \in DOMAIN walk.seen : m < n => walk.seen[m] > walk.seen[n]
    /\ \A n \in DOMAIN walk.seen : walk.cursor > 0 /\ walk.seen[n] >= walk.cursor
    /\ \A i \in owed : walk.cursor > 0 /\ i >= walk.cursor => i \in ToSet(walk.seen)
    /\ owed \subseteq Listable

\* What is owed is listable, and was owed before.
LEMMA OwedStep ==
  ASSUME KeepOwed, walk'.stage # "idle"
  PROVE  /\ walk.stage = "idle" => owed' = Listable'
         /\ walk.stage # "idle" => owed' = owed \cap Listable'
BY DEF KeepOwed

\* A step that leaves the client's place alone.
LEMMA SamePlace ==
  ASSUME WalkInv, KeepOwed, walk.stage # "idle", walk'.stage # "idle",
         walk' \in WalkRecord, walk'.cursor = walk.cursor, walk'.seen = walk.seen
  PROVE  WalkInv'
<1>1. owed' = owed \cap Listable'
  BY OwedStep
<1> QED
  BY <1>1 DEF WalkInv

\* The list that a page is made from, and the ids on it.
LEMMA PageFacts ==
  ASSUME StoreOK, Lists, NEW k \in Kinds, NEW t, NEW ttl, NEW cursor \in Nat
  PROVE  LET L == OlderThan(cursor, Shown(k, t, ttl, now))
         IN  IsList(L) /\ \A r \in L : r.id \in Nat \ {0} /\ (cursor > 0 => r.id < cursor)
<1> DEFINE L == OlderThan(cursor, Shown(k, t, ttl, now))
<1>1. L \subseteq rows[k]
  BY DEF OlderThan, Shown
<1>2. IsList(L)
  BY <1>1, SubList DEF Lists
<1>3. \A r \in rows[k] : r.id \in 1..lastId[k] /\ lastId[k] \in Nat
  BY DEF StoreOK
<1>4. \A r \in L : cursor > 0 => r.id < cursor
  BY DEF OlderThan
<1> QED
  BY <1>1, <1>2, <1>3, <1>4

\* A walk ends when nothing older is left: all that is owed has been seen.
LEMMA EndOfWalk ==
  ASSUME StoreOK, Lists, WalkInv, walk.stage = "reading",
         Page(Shown(walk.kind, walk.tenant, walk.ttl, now)) = {}
  PROVE  owed \subseteq ToSet(walk.seen)
<1> DEFINE L == OlderThan(walk.cursor, Shown(walk.kind, walk.tenant, walk.ttl, now))
<1>1. /\ walk \in WalkRecord /\ owed \subseteq Listable
      /\ \A i \in owed : walk.cursor > 0 /\ i >= walk.cursor => i \in ToSet(walk.seen)
  BY DEF WalkInv
<1>2. walk.kind \in Kinds /\ walk.cursor \in Nat
  BY <1>1 DEF WalkRecord
<1>3. IsList(L) /\ \A r \in L : r.id \in Nat
  BY <1>2, PageFacts
<1>4. L = {}
  <2>1. Top(L, PageSize) = {}
    BY PageIsTop
  <2> HIDE DEF L
  <2>2. ASSUME L # {} PROVE FALSE
    <3>1. PICK x \in L : Newer(L, x) = {}
      BY <1>3, <2>2, NewestExists
    <3>2. Cardinality(Newer(L, x)) = 0 /\ PageSize \in Nat \ {0}
      BY <3>1, FS_EmptySet, PolicyStoreAssumption
    <3>3. x \in Top(L, PageSize)
      BY <3>1, <3>2 DEF Top
    <3> QED
      BY <2>1, <3>3
  <2> QED
    BY <2>2
<1>5. ASSUME NEW i \in owed PROVE i \in ToSet(walk.seen)
  <2>1. PICK r \in Shown(walk.kind, walk.tenant, walk.ttl, now) : i = r.id
    BY <1>1 DEF Listable
  <2>2. ~ (walk.cursor > 0 => r.id < walk.cursor)
    BY <1>4, <2>1 DEF OlderThan
  <2>3. r.id \in Nat
    BY <1>2, <2>1 DEF Shown, Lists, IsList
  <2> QED
    BY <1>1, <1>2, <2>1, <2>2, <2>3
<1> QED
  BY <1>5

\* A page that is not empty moves the client on.
LEMMA PageStep ==
  ASSUME StoreOK, Lists, WalkInv, ListPage, walk'.stage # "idle"
  PROVE  WalkInv'
<1> DEFINE L == OlderThan(walk.cursor, Shown(walk.kind, walk.tenant, walk.ttl, now))
           page == Page(Shown(walk.kind, walk.tenant, walk.ttl, now))
           ids == {r.id : r \in page}
           new == NewestFirst(page)
           old == walk.seen
           c == Min(ids)
<1>1. /\ walk \in WalkRecord /\ owed \subseteq Listable /\ walk.stage = "reading"
      /\ \A m, n \in DOMAIN old : m < n => old[m] > old[n]
      /\ \A n \in DOMAIN old : walk.cursor > 0 /\ old[n] >= walk.cursor
      /\ \A i \in owed : walk.cursor > 0 /\ i >= walk.cursor => i \in ToSet(old)
  BY DEF WalkInv, ListPage
<1>2. walk.kind \in Kinds /\ walk.cursor \in Nat /\ old \in Seq(Nat)
  BY <1>1 DEF WalkRecord
<1>3. page # {} /\ walk' = [walk EXCEPT !.stage = "between", !.cursor = c, !.seen = @ \o new]
  BY DEF ListPage, NoWalk
<1>4. IsList(L) /\ \A r \in L : r.id \in Nat \ {0} /\ (walk.cursor > 0 => r.id < walk.cursor)
  BY <1>2, PageFacts
<1>5. page = Top(L, PageSize)
  BY PageIsTop
<1>6. page \subseteq L /\ IsList(page)
  <2>1. Top(L, PageSize) \subseteq L
    BY DEF Top
  <2> QED
    BY <1>4, <1>5, <2>1, SubList
<1>7. c \in ids /\ \A i \in ids : c <= i
  <2>1. ids \subseteq Nat /\ ids # {}
    BY <1>3, <1>4, <1>6
  <2> HIDE DEF ids, page, L
  <2>2. \E x \in ids : \A y \in ids : x <= y
    BY <2>1, LeastOf
  <2> QED
    BY <2>2 DEF Min
<1>8. /\ new \in Seq(Nat)
      /\ \A m, n \in DOMAIN new : m < n => new[m] > new[n]
      /\ \A r \in page : \E n \in DOMAIN new : new[n] = r.id
      /\ \A n \in DOMAIN new : \E r \in page : new[n] = r.id
  BY <1>6, NewestFirstFact
<1> HIDE DEF new, page, L
<1>9. /\ c \in Nat \ {0} /\ (walk.cursor > 0 => c < walk.cursor)
      /\ \A n \in DOMAIN new : /\ new[n] \in Nat /\ c <= new[n]
                               /\ walk.cursor > 0 => new[n] < walk.cursor
  BY <1>4, <1>6, <1>7, <1>8
<1> HIDE DEF c, ids
<1> DEFINE seen == old \o new
<1>10. /\ seen \in Seq(Nat) /\ Len(seen) = Len(old) + Len(new)
       /\ Len(old) \in Nat /\ Len(new) \in Nat
       /\ \A i \in 1..(Len(old) + Len(new)) :
            seen[i] = IF i <= Len(old) THEN old[i] ELSE new[i - Len(old)]
  BY <1>2, <1>8, ConcatProperties, LenProperties
<1>11. DOMAIN old = 1..Len(old) /\ DOMAIN new = 1..Len(new) /\ DOMAIN seen = 1..(Len(old) + Len(new))
  BY <1>2, <1>8, <1>10, LenProperties
<1> HIDE DEF seen, old
<1>12. ASSUME NEW i \in DOMAIN seen
       PROVE  \/ i \in DOMAIN old /\ seen[i] = old[i]
              \/ i - Len(old) \in DOMAIN new /\ seen[i] = new[i - Len(old)] /\ i > Len(old)
  <2>1. i \in 1..(Len(old) + Len(new)) /\ i \in Nat
    BY <1>10, <1>11, <1>12
  <2>2. CASE i <= Len(old)
    <3>1. i \in 1..Len(old)
      BY <2>1, <2>2, <1>10
    <3>2. seen[i] = old[i]
      BY <2>1, <2>2, <1>10
    <3>3. QED
      BY <3>1, <3>2, <1>11
  <2>3. CASE i > Len(old)
    <3>1. i - Len(old) \in 1..Len(new)
      BY <2>1, <2>3, <1>10
    <3>2. seen[i] = new[i - Len(old)]
      BY <2>1, <2>3, <1>10
    <3>3. QED
      BY <3>1, <3>2, <2>3, <1>11
  <2>4. QED
    BY <2>1, <2>2, <2>3, <1>10
<1>13. \A n \in DOMAIN old : old[n] \in Nat /\ walk.cursor > 0 /\ old[n] >= walk.cursor
  BY <1>1, <1>2 DEF old
<1>14. ASSUME NEW m \in DOMAIN seen, NEW n \in DOMAIN seen, m < n
       PROVE  seen[m] > seen[n]
  <2>0. m \in Nat /\ n \in Nat /\ Len(old) \in Nat
    BY <1>10, <1>11
  <2>1. CASE m \in DOMAIN old /\ n \in DOMAIN old /\ seen[m] = old[m] /\ seen[n] = old[n]
    BY <1>1, <1>14, <2>1
  <2>2. CASE /\ m \in DOMAIN old /\ seen[m] = old[m]
             /\ n - Len(old) \in DOMAIN new /\ seen[n] = new[n - Len(old)]
    <3>1. /\ old[m] \in Nat /\ walk.cursor > 0 /\ old[m] >= walk.cursor
          /\ new[n - Len(old)] \in Nat /\ new[n - Len(old)] < walk.cursor
      BY <1>9, <1>13, <2>2
    <3> QED
      BY <1>2, <2>2, <3>1
  <2>3. CASE /\ m - Len(old) \in DOMAIN new /\ seen[m] = new[m - Len(old)]
             /\ n - Len(old) \in DOMAIN new /\ seen[n] = new[n - Len(old)]
    <3>1. m - Len(old) < n - Len(old)
      BY <1>14, <2>0
    <3> QED
      BY <1>8, <2>3, <3>1
  <2>4. ~ (n \in DOMAIN old /\ m > Len(old))
    BY <1>11, <1>14, <2>0
  <2> QED
    BY <1>12, <2>1, <2>2, <2>3, <2>4
<1>15. \A n \in DOMAIN seen : c > 0 /\ seen[n] >= c
  <2> SUFFICES ASSUME NEW n \in DOMAIN seen PROVE c > 0 /\ seen[n] >= c
    OBVIOUS
  <2>1. CASE n \in DOMAIN old /\ seen[n] = old[n]
    BY <1>2, <1>9, <1>13, <2>1
  <2>2. CASE n - Len(old) \in DOMAIN new /\ seen[n] = new[n - Len(old)]
    BY <1>9, <2>2
  <2> QED
    BY <1>12, <2>1, <2>2
<1>16. ToSet(old) \cup ToSet(new) \subseteq ToSet(seen)
  <2>1. ASSUME NEW n \in DOMAIN old PROVE \E i \in DOMAIN seen : seen[i] = old[n]
    <3>1. n \in DOMAIN seen /\ n <= Len(old)
      BY <1>10, <1>11
    <3> QED
      BY <1>10, <1>11, <3>1
  <2>2. ASSUME NEW n \in DOMAIN new PROVE \E i \in DOMAIN seen : seen[i] = new[n]
    <3>1. n + Len(old) \in DOMAIN seen /\ ~ (n + Len(old) <= Len(old))
          /\ (n + Len(old)) - Len(old) = n
      BY <1>10, <1>11
    <3> QED
      BY <1>10, <1>11, <3>1
  <2> QED
    BY <2>1, <2>2 DEF ToSet
<1>17. ASSUME NEW i \in owed, i >= c PROVE i \in ToSet(seen)
  <2>1. PICK r \in Shown(walk.kind, walk.tenant, walk.ttl, now) : i = r.id
    BY <1>1 DEF Listable
  <2>2. r.id \in Nat
    BY <1>2, <2>1 DEF Shown, Lists, IsList
  <2>3. CASE walk.cursor > 0 /\ i >= walk.cursor
    BY <1>1, <1>16, <2>3 DEF old
  <2>4. CASE ~ (walk.cursor > 0 /\ i >= walk.cursor)
    <3>1. r \in L
      BY <1>2, <2>1, <2>2, <2>4 DEF L, OlderThan
    <3>2. r \in page
      <4>1. PICK x \in page : x.id = c
        BY <1>7 DEF ids
      <4>2. PageSize \in Nat /\ x \in Top(L, PageSize)
        BY <1>5, <4>1, PolicyStoreAssumption
      <4>3. r \notin Top(L, PageSize) => x.id > r.id
        BY <1>4, <3>1, <4>2, TopNewer
      <4> QED
        BY <1>5, <1>9, <1>17, <2>1, <2>2, <4>1, <4>3
    <3>3. i \in ToSet(new)
      BY <1>8, <2>1, <3>2 DEF ToSet
    <3> QED
      BY <1>16, <3>3
  <2> QED
    BY <2>3, <2>4
<1>18. /\ walk' \in WalkRecord /\ walk'.cursor = c /\ walk'.seen = seen
  BY <1>1, <1>3, <1>9, <1>10 DEF WalkRecord, seen, old
<1>19. owed' = owed \cap Listable'
  BY <1>1, OwedStep DEF ListPage
<1> QED
  BY <1>14, <1>15, <1>17, <1>18, <1>19 DEF WalkInv

LEMMA WalkStep ==
  ASSUME StoreOK, Lists, WalkInv, [Next]_vars
  PROVE  WalkInv'
<1> SUFFICES ASSUME walk'.stage # "idle" PROVE WalkInv'
  BY DEF WalkInv
<1>1. ASSUME KeepOwed, UNCHANGED walk PROVE WalkInv'
  BY <1>1, SamePlace DEF WalkInv
<1>2. ASSUME NEW c \in Changed, NEW at \in Stamps, NEW value \in Settings[c[1]] \cup {None},
             Change(c[1], c[2], value, at)
      PROVE  WalkInv'
  BY <1>1, <1>2 DEF Change
<1>3. ASSUME NEW at \in Stamps, Sweep(at) PROVE WalkInv'
  BY <1>1, <1>3 DEF Sweep
<1>4. ASSUME NEW l \in Listed, StartWalk(l[1], l[2]) PROVE WalkInv'
  <2>1. l[1] \in Kinds /\ l[2] \in Tenants
    BY PolicyStoreAssumption
  <2>2. EffectiveTtl(l[2]) \in Nat
    BY <2>1, TtlIsNat
  <2>3. walk' \in WalkRecord /\ walk'.cursor = 0 /\ walk'.seen = <<>>
    BY <1>4, <2>1, <2>2 DEF StartWalk, WalkRecord
  <2>4. owed' = Listable'
    BY <1>4, OwedStep DEF StartWalk
  <2> QED
    BY <2>3, <2>4 DEF WalkInv
<1>5. CASE NextPage
  <2>1. walk \in WalkRecord
    BY <1>5 DEF NextPage, WalkInv
  <2>2. EffectiveTtl(walk.tenant) \in Nat
    BY <2>1, TtlIsNat DEF WalkRecord
  <2>3. walk' \in WalkRecord /\ walk'.cursor = walk.cursor /\ walk'.seen = walk.seen
    BY <1>5, <2>1, <2>2 DEF NextPage, WalkRecord
  <2> QED
    BY <1>5, <2>3, SamePlace DEF NextPage
<1>6. CASE ListPage
  BY <1>6, PageStep
<1>7. CASE Tick
  BY <1>1, <1>7 DEF Tick
<1>8. CASE UNCHANGED vars
  BY <1>8 DEF vars, WalkInv, Listable, Shown, Expired, EffectiveTtl
<1> QED
  BY <1>2, <1>3, <1>4, <1>5, <1>6, <1>7, <1>8 DEF Next

\* A client that follows next_cursor to its end has got every row that was
\* listable all the while, newest first and none twice, whatever the instances
\* change, prune and sweep between its pages.
THEOREM WalkComplete == Spec => CursorWalkComplete
<1> DEFINE Complete ==
      walk.stage = "reading" /\ walk'.stage = "idle" =>
        /\ \A m, n \in DOMAIN walk.seen : m < n => walk.seen[m] > walk.seen[n]
        /\ owed \subseteq ToSet(walk.seen)
<1>1. Init => WalkInv
  BY DEF Init, WalkInv, NoWalk
<1>2. TrailInv /\ WalkInv /\ [Next]_vars => WalkInv'
  BY WalkStep DEF TrailInv
<1>3. TrailInv /\ WalkInv /\ [Next]_vars => [Complete]_vars
  <2> SUFFICES ASSUME TrailInv, WalkInv, Next, walk.stage = "reading", walk'.stage = "idle"
               PROVE  /\ \A m, n \in DOMAIN walk.seen : m < n => walk.seen[m] > walk.seen[n]
                      /\ owed \subseteq ToSet(walk.seen)
    OBVIOUS
  <2>1. ListPage
    BY DEF Next, Change, Sweep, StartWalk, NextPage, Tick
  <2>2. Page(Shown(walk.kind, walk.tenant, walk.ttl, now)) = {}
    <3>1. walk \in WalkRecord
      BY DEF WalkInv
    <3> QED
      BY <2>1, <3>1 DEF ListPage, WalkRecord
  <2> QED
    BY <2>2, EndOfWalk DEF TrailInv, WalkInv
<1>4. Spec => [][Complete]_vars
  BY <1>1, <1>2, <1>3, TrailInvHolds, PTL DEF Spec
<1> QED
  BY <1>4 DEF CursorWalkComplete
=============================================================================
