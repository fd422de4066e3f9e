---------------------------- MODULE EngineProofs ----------------------------
(* Theorems about Launch, that is one engine process under its runner: a     *)
(* program that may not run has no effect, noise is paid for before anybody  *)
(* sees it, and what the caller is answered is true.  They hold whatever the *)
(* checker and the optimizer compute.                                        *)
EXTENDS Launch, SequenceTheorems, FiniteSetTheorems, WellFoundedInduction, TLAPS

-----------------------------------------------------------------------------
(* Markers.                                                                  *)

MarkersTyped == markers \in Seq(ToSet(markers))

\* A sequence is one over its own elements.
LEMMA RangeTyped ==
  ASSUME NEW S, NEW s \in Seq(S)
  PROVE  s \in Seq(ToSet(s))
<1>1. /\ Len(s) \in Nat /\ DOMAIN s = 1..Len(s)
      /\ s = [i \in 1..Len(s) |-> s[i]]
  BY LenProperties
<1>2. s \in [1..Len(s) -> ToSet(s)]
  BY <1>1 DEF ToSet
<1>3. QED
  BY <1>1, <1>2, SeqDef

\* What a longer sequence holds.
LEMMA AppendIs ==
  ASSUME NEW S, NEW s \in Seq(S), NEW e
  PROVE  /\ Append(s, e) \in Seq(ToSet(Append(s, e)))
         /\ DOMAIN Append(s, e) = DOMAIN s \cup {Len(s) + 1}
         /\ DOMAIN s = 1..Len(s) /\ Len(s) \in Nat
         /\ \A i \in DOMAIN s : Append(s, e)[i] = s[i]
         /\ Append(s, e)[Len(s) + 1] = e
<1>1. s \in Seq(S \cup {e})
  OBVIOUS
<1>2. Append(s, e) \in Seq(S \cup {e}) /\ Len(Append(s, e)) = Len(s) + 1
  BY <1>1, AppendProperties
<1>3. DOMAIN Append(s, e) = 1..(Len(s) + 1) /\ DOMAIN s = 1..Len(s) /\ Len(s) \in Nat
  BY <1>1, <1>2, LenProperties
<1>4. \A i \in 1..Len(s) : Append(s, e)[i] = s[i]
  BY <1>1, AppendProperties
<1>5. Append(s, e)[Len(s) + 1] = e
  BY <1>1, AppendProperties
<1>6. Append(s, e) \in Seq(ToSet(Append(s, e)))
  BY <1>2, RangeTyped
<1>7. QED
  BY <1>3, <1>4, <1>5, <1>6

\* What two sequences hold one after the other.
LEMMA ConcatIs ==
  ASSUME NEW S, NEW s \in Seq(S), NEW T, NEW t \in Seq(T)
  PROVE  /\ s \o t \in Seq(ToSet(s \o t))
         /\ Len(s) \in Nat /\ DOMAIN s = 1..Len(s)
         /\ \A i \in DOMAIN (s \o t) : \/ i \in DOMAIN s
                                       \/ i > Len(s) /\ \E j \in DOMAIN t : (s \o t)[i] = t[j]
         /\ \A i \in DOMAIN s : i \in DOMAIN (s \o t) /\ (s \o t)[i] = s[i]
<1>1. s \in Seq(S \cup T) /\ t \in Seq(S \cup T)
  OBVIOUS
<1>2. /\ s \o t \in Seq(S \cup T) /\ Len(s \o t) = Len(s) + Len(t)
      /\ \A i \in 1..(Len(s) + Len(t)) : (s \o t)[i] = IF i <= Len(s) THEN s[i] ELSE t[i - Len(s)]
  BY <1>1, ConcatProperties
<1>3. /\ DOMAIN (s \o t) = 1..(Len(s) + Len(t)) /\ DOMAIN s = 1..Len(s) /\ DOMAIN t = 1..Len(t)
      /\ Len(s) \in Nat /\ Len(t) \in Nat
  BY <1>1, <1>2, LenProperties
<1>4. s \o t \in Seq(ToSet(s \o t))
  BY <1>2, RangeTyped
<1>5. ASSUME NEW i \in DOMAIN (s \o t), i \notin DOMAIN s
      PROVE  i > Len(s) /\ \E j \in DOMAIN t : (s \o t)[i] = t[j]
  <2>1. i - Len(s) \in DOMAIN t /\ i > Len(s) /\ i \in Int
    BY <1>3, <1>5
  <2>2. (s \o t)[i] = t[i - Len(s)]
    BY <1>2, <1>3, <1>5, <2>1
  <2>3. QED
    BY <2>1, <2>2
<1>6. ASSUME NEW i \in DOMAIN s
      PROVE  i \in DOMAIN (s \o t) /\ (s \o t)[i] = s[i]
  BY <1>2, <1>3, <1>6
<1>7. QED
  BY <1>3, <1>4, <1>5, <1>6

\* What Emit adds to the markers.
LEMMA EmitIs ==
  ASSUME MarkersTyped, NEW K, NEW kinds \in Seq(K), Emit(kinds)
  PROVE  /\ MarkersTyped'
         /\ Len(markers) \in Nat /\ DOMAIN markers = 1..Len(markers)
         /\ \A i \in DOMAIN markers' : \/ i \in DOMAIN markers
                                       \/ /\ i > Len(markers)
                                          /\ \E j \in DOMAIN kinds : markers'[i].k = kinds[j]
         /\ \A i \in DOMAIN markers : i \in DOMAIN markers' /\ markers'[i] = markers[i]
<1> DEFINE new == [i \in DOMAIN kinds |-> Marker(kinds[i], Null)]
<1>1. new \in Seq(ToSet(new))
  <2>1. new \in [1..Len(kinds) -> ToSet(new)] /\ Len(kinds) \in Nat
    BY LenProperties DEF ToSet
  <2>2. QED
    BY <2>1, SeqDef
<1>2. \A j \in DOMAIN new : j \in DOMAIN kinds /\ new[j].k = kinds[j]
  BY DEF Marker
<1>3. markers' = markers \o new
  BY DEF Emit
<1> HIDE DEF new
<1> DEFINE all == markers \o new
<1>4. /\ all \in Seq(ToSet(all))
      /\ Len(markers) \in Nat /\ DOMAIN markers = 1..Len(markers)
      /\ \A i \in DOMAIN all : \/ i \in DOMAIN markers
                               \/ i > Len(markers) /\ \E j \in DOMAIN new : all[i] = new[j]
      /\ \A i \in DOMAIN markers : i \in DOMAIN all /\ all[i] = markers[i]
  BY <1>1, ConcatIs DEF MarkersTyped
<1>5. markers' = all
  BY <1>3
<1> HIDE DEF all
<1>6. MarkersTyped'
  BY <1>4, <1>5 DEF MarkersTyped
<1>7. QED
  BY <1>2, <1>4, <1>5, <1>6

-----------------------------------------------------------------------------
(* The gate: up to its verdict nothing has an effect, and what follows it    *)
(* has passed it.                                                            *)

Early == {"resolve", "check", "policy"}
Ended == {"failed", "killed"}
Clean ==
  /\ disk = job.data /\ table = <<>> /\ models = <<>> /\ paid = <<>>
  /\ MarkersTyped /\ \A i \in DOMAIN markers : markers[i].k \notin EffectKinds
Vetted ==
  /\ loader.errors = {} /\ Analyze(loader.program).errors = {}
  /\ job.policy # "unloadable" /\ ~job.crossFile
  /\ Root \notin job.tainted /\ \A m \in ToSet(loader.modules) : m \notin job.tainted
GateInv ==
  /\ phase \in Early => Clean
  /\ phase \in {"check", "policy"} => loader.errors = {}
  /\ phase = "policy" => Analyze(loader.program).errors = {}
  /\ phase \in Ended => Clean \/ Vetted
  /\ phase \notin Early \cup Ended => Vetted

\* What has passed the gate is not looked at again.
LEMMA VettedStays ==
  ASSUME GateInv, phase \notin Early \cup Ended, UNCHANGED <<job, loader>>, phase' \notin Early
  PROVE  GateInv'
BY DEF GateInv, Vetted, Early, Ended

\* A marker that is no effect.
LEMMA CleanEmits ==
  ASSUME Clean, NEW kind \in {"diagnostics", "policy"}, Emit(<<kind>>),
         UNCHANGED <<job, memory, privacy, disk>>
  PROVE  Clean'
<1>1. <<kind>> \in Seq({kind}) /\ \A j \in DOMAIN <<kind>> : <<kind>>[j] = kind
  OBVIOUS
<1>2. /\ MarkersTyped'
      /\ \A i \in DOMAIN markers' : \/ i \in DOMAIN markers
                                    \/ /\ i > Len(markers)
                                       /\ \E j \in DOMAIN <<kind>> : markers'[i].k = <<kind>>[j]
      /\ \A i \in DOMAIN markers : i \in DOMAIN markers' /\ markers'[i] = markers[i]
  BY <1>1, EmitIs DEF Clean
<1>3. \A i \in DOMAIN markers' : markers'[i].k \notin EffectKinds
  BY <1>1, <1>2 DEF Clean, EffectKinds
<1>4. QED
  BY <1>2, <1>3 DEF Clean, memory, privacy

LEMMA GateStep ==
  ASSUME GateInv, [Next]_vars
  PROVE  GateInv'
<1> USE DEF Early, Ended
<1>1. CASE UNCHANGED engineVars
  BY <1>1 DEF GateInv, Clean, Vetted, MarkersTyped, engineVars, progress, memory, privacy, outside, compiled
<1>2. ASSUME NEW next, ResolveStep(next)
      PROVE  GateInv'
  BY <1>2 DEF ResolveStep, GateInv, Clean, MarkersTyped, progress, memory, privacy, outside
<1>3. CASE Resolved
  BY <1>3 DEF Resolved, Enter, Abort, GateInv, Clean, MarkersTyped, memory, privacy, outside, compiled
<1>4. CASE Check
  <2>1. CASE Analyze(loader.program).errors = {}
    BY <1>4, <2>1 DEF Check, Enter, Silent, GateInv, Clean, MarkersTyped, memory, privacy
  <2>2. CASE Analyze(loader.program).errors # {}
    <3>1. Clean'
      BY <1>4, <2>2, CleanEmits DEF Check, GateInv
    <3>2. QED
      BY <1>4, <2>2, <3>1 DEF Check, Abort, GateInv
  <2>3. QED
    BY <2>1, <2>2
<1>5. CASE PolicyGate
  <2>1. Clean'
    BY <1>5, CleanEmits DEF PolicyGate, GateInv
  <2>2. CASE ~PolicyLoads \/ Violates
    BY <1>5, <2>1, <2>2 DEF PolicyGate, Abort, GateInv
  <2>3. CASE PolicyLoads /\ ~Violates
    <3>1. Vetted
      BY <1>5, <2>3 DEF PolicyGate, GateInv, Vetted, Violates, PolicyLoads
    <3>2. Vetted' /\ phase' \in {"optimize", "declare"}
      BY <1>5, <2>3, <3>1 DEF PolicyGate, Enter, Vetted, compiled
    <3>3. QED
      BY <3>2 DEF GateInv
  <2>4. QED
    BY <2>2, <2>3
<1>6. CASE Optimize \/ DeclareModels
  BY <1>6, VettedStays DEF Optimize, DeclareModels, Enter, compiled
<1>7. CASE StartNode \/ DataStep
  BY <1>7, VettedStays DEF StartNode, DataStep, AtStep, Running, Load, AbortOr, Abort, Continue, compiled
<1>8. CASE TrainStep \/ PredictStep \/ ChartStep \/ DpStep
  BY <1>8, VettedStays
  DEF TrainStep, PredictStep, ChartStep, DpStep, At, AtStep, Running, Abort, Continue, NextNode, compiled
<1>9. CASE SaveStep \/ SaveRows \/ EndNode
  BY <1>9, VettedStays DEF SaveStep, SaveRows, EndNode, At, AtStep, Running, Abort, NextNode, compiled
<1>10. CASE EndRun \/ SaveOutput \/ ReportRun
  BY <1>10, VettedStays DEF EndRun, SaveOutput, ReportRun, Abort, Enter, compiled
<1>11. CASE EngineCrash \/ Kill
  BY <1>11 DEF EngineCrash, Kill, EngineEnded, GateInv, Clean, Vetted, MarkersTyped,
     memory, privacy, outside, compiled
<1>12. CASE EngineStep
  BY <1>2, <1>3, <1>4, <1>5, <1>6, <1>7, <1>8, <1>9, <1>10, <1>12
  DEF EngineStep, EngineNext, KeepStatement, Import, CloseModule
<1>13. CASE Tick \/ Gate \/ PollEnded \/ PollRunning \/ Wake \/ PollFails
  BY <1>1, <1>13 DEF Tick, Gate, PollEnded, PollRunning, Wake, PollFails
<1>14. QED
  BY <1>1, <1>11, <1>12, <1>13 DEF Next, Watch, vars

\* A program none of whose modules may run has no effect, whatever the checker
\* makes of it and however the process ends: only a program that passed the
\* gate gets past it, and it is not changed after that.
THEOREM FailsClosed == Spec => []FailClosed
<1>1. Init => GateInv
  BY DEF Init, EngineInit, GateInv, Clean, MarkersTyped, ToSet, EffectKinds, Early, Ended
<1>2. GateInv /\ [Next]_vars => GateInv'
  BY GateStep
<1>3. GateInv => FailClosed
  BY DEF GateInv, Clean, Vetted, FailClosed, Early, Ended
<1>4. QED
  BY <1>1, <1>2, <1>3, PTL DEF Spec

-----------------------------------------------------------------------------
(* Frames.                                                                   *)

\* A frame that holds no noise but that of the draws.
Sound(f, draws) == WellFormed(f) /\ Draws(f) \subseteq draws

LEMMA SoundGrows ==
  ASSUME NEW f, NEW draws, NEW more, Sound(f, draws), draws \subseteq more
  PROVE  Sound(f, more)
BY DEF Sound

\* A column that is added, or replaced, brings its own noise.
LEMMA WithKeeps ==
  ASSUME NEW f, WellFormed(f), NEW name, NEW col, col = [t |-> col.t, dp |-> col.dp], NEW rows
  PROVE  LET g == Frame(IF name \in Names(f) THEN f.names ELSE Append(f.names, name),
                        Bind(f.cols, name, col), rows)
         IN  WellFormed(g) /\ Draws(g) \subseteq Draws(f) \cup col.dp
<1> DEFINE names == IF name \in Names(f) THEN f.names ELSE Append(f.names, name)
           cols  == Bind(f.cols, name, col)
           g     == Frame(names, cols, rows)
<1>1. names \in Seq(ToSet(names)) /\ ToSet(names) = Names(f) \cup {name}
  <2>1. CASE name \in Names(f)
    BY <2>1 DEF WellFormed, Names
  <2>2. CASE name \notin Names(f)
    <3>1. /\ Append(f.names, name) \in Seq(ToSet(Append(f.names, name)))
          /\ DOMAIN Append(f.names, name) = DOMAIN f.names \cup {Len(f.names) + 1}
          /\ \A i \in DOMAIN f.names : Append(f.names, name)[i] = f.names[i]
          /\ Append(f.names, name)[Len(f.names) + 1] = name
      BY AppendIs DEF WellFormed
    <3>2. QED
      BY <2>2, <3>1 DEF ToSet, Names
  <2>3. QED
    BY <2>1, <2>2
<1>2. /\ DOMAIN cols = Names(f) \cup {name}
      /\ cols[name] = col
      /\ \A c \in Names(f) \ {name} : cols[c] = f.cols[c]
  BY DEF WellFormed, Bind
<1>3. g.names = names /\ g.cols = cols /\ g = Frame(g.names, g.cols, g.rows)
  BY DEF Frame
<1> HIDE DEF g, cols, names
<1>4. Names(g) = Names(f) \cup {name}
  BY <1>1, <1>3 DEF Names
<1>5. \A c \in Names(g) : g.cols[c] = [t |-> g.cols[c].t, dp |-> g.cols[c].dp]
  BY <1>2, <1>3, <1>4 DEF WellFormed
<1>6. WellFormed(g)
  BY <1>1, <1>2, <1>3, <1>4, <1>5 DEF WellFormed, Names
<1>7. Draws(g) \subseteq Draws(f) \cup col.dp
  BY <1>2, <1>3 DEF Draws, WellFormed
<1>8. QED
  BY <1>6, <1>7 DEF g, cols, names

\* Noise goes to the numeric columns, under the draw of this step.
LEMMA NoiseIs ==
  ASSUME NEW f, WellFormed(f)
  PROVE  /\ WellFormed(Noised(f)) /\ Draws(Noised(f)) \subseteq Draws(f) \cup {Draw}
         /\ Draw \notin Draws(f) =>
              {c \in Names(Noised(f)) : Draw \in Noised(f).cols[c].dp} = NumericNames(f)
<1> DEFINE cols == [c \in Names(f) |-> WithDraw(f, c)]
           g    == Noised(f)
<1>1. g.names = f.names /\ g.cols = cols /\ g = Frame(g.names, g.cols, g.rows)
  BY DEF Noised, Frame
<1>2. Names(g) = Names(f) /\ DOMAIN cols = Names(f) /\ \A c \in Names(f) : cols[c] = WithDraw(f, c)
  BY <1>1 DEF Names
<1>3. ASSUME NEW c \in Names(f)
      PROVE  /\ WithDraw(f, c) = [t |-> WithDraw(f, c).t, dp |-> WithDraw(f, c).dp]
             /\ WithDraw(f, c).dp \subseteq f.cols[c].dp \cup {Draw}
             /\ Draw \notin f.cols[c].dp => (Draw \in WithDraw(f, c).dp <=> c \in NumericNames(f))
  BY <1>3 DEF WithDraw, WellFormed
<1> HIDE DEF g, cols
<1>4. WellFormed(g)
  BY <1>1, <1>2, <1>3 DEF WellFormed
<1>5. Draws(g) \subseteq Draws(f) \cup {Draw}
  BY <1>1, <1>2, <1>3 DEF Draws, WellFormed
<1>6. ASSUME Draw \notin Draws(f)
      PROVE  {c \in Names(g) : Draw \in g.cols[c].dp} = NumericNames(f)
  <2>1. \A c \in Names(f) : Draw \notin f.cols[c].dp
    BY <1>6 DEF Draws, WellFormed
  <2>2. NumericNames(f) \subseteq Names(f)
    BY DEF NumericNames
  <2>3. QED
    BY <1>1, <1>2, <1>3, <2>1, <2>2
<1>7. QED
  BY <1>4, <1>5, <1>6 DEF g

\* The column of another type.
LEMMA RetypedIs ==
  ASSUME NEW col, NEW t, col = [t |-> col.t, dp |-> col.dp]
  PROVE  [col EXCEPT !.t = t] = [t |-> t, dp |-> col.dp]
OBVIOUS

\* A cast of the columns by position keeps what is in them.
LEMMA BridgeKeeps ==
  ASSUME NEW raw, WellFormed(raw), NEW fields, ~Failed(Bridge(raw, fields))
  PROVE  WellFormed(Bridge(raw, fields)) /\ Draws(Bridge(raw, fields)) \subseteq Draws(raw)
<1> DEFINE n       == Min({Len(raw.names), Len(fields)})
           names   == [i \in DOMAIN raw.names |-> IF i =< n THEN fields[i].name ELSE raw.names[i]]
           at(c)   == CHOOSE i \in DOMAIN names : names[i] = c
           type(c) == IF at(c) =< n THEN fields[at(c)].t ELSE raw.cols[c].t
           old(c)  == raw.names[at(c)]
           cols    == [c \in ToSet(names) |-> [raw.cols[old(c)] EXCEPT !.t = type(c)]]
           g       == Bridge(raw, fields)
<1>1. \E rows : g = Frame(names, cols, rows)
  <2>1. Failed(Fail("schema field not in source")) /\ Failed(Fail("duplicate column"))
    BY DEF Failed, Fail
  <2> HIDE DEF n
  <2>2. QED
    BY <2>1 DEF Bridge, n
<1> HIDE DEF n, g, names, cols
<1>2. g.names = names /\ g.cols = cols /\ g = Frame(g.names, g.cols, g.rows)
  <2>1. PICK rows : g = Frame(names, cols, rows)
    BY <1>1
  <2>2. QED
    BY <2>1 DEF Frame
<1> USE DEF names
<1>3. names \in Seq(ToSet(names))
  <2>1. Len(raw.names) \in Nat /\ DOMAIN raw.names = 1..Len(raw.names)
    BY LenProperties DEF WellFormed
  <2>2. names \in [1..Len(raw.names) -> ToSet(names)]
    BY <2>1 DEF ToSet
  <2>3. QED
    BY <2>1, <2>2, SeqDef
<1>4. ASSUME NEW c \in ToSet(names)
      PROVE  old(c) \in Names(raw)
  <2>1. \E i \in DOMAIN names : names[i] = c
    BY <1>4 DEF ToSet
  <2> HIDE DEF names
  <2>2. at(c) \in DOMAIN names
    BY <2>1
  <2>3. QED
    BY <2>2 DEF names, Names, ToSet
<1> HIDE DEF at, type, names, old
<1>5. \A c \in ToSet(names) : raw.cols[old(c)] = [t |-> raw.cols[old(c)].t, dp |-> raw.cols[old(c)].dp]
  BY <1>4 DEF WellFormed
<1>6. ASSUME NEW c \in ToSet(names)
      PROVE  /\ cols[c] = [t |-> type(c), dp |-> raw.cols[old(c)].dp]
             /\ cols[c] = [t |-> cols[c].t, dp |-> cols[c].dp]
             /\ cols[c].dp = raw.cols[old(c)].dp
  <2>1. cols[c] = [raw.cols[old(c)] EXCEPT !.t = type(c)]
    BY DEF cols
  <2>2. [raw.cols[old(c)] EXCEPT !.t = type(c)] = [t |-> type(c), dp |-> raw.cols[old(c)].dp]
    BY <1>5, RetypedIs
  <2>3. QED
    BY <2>1, <2>2
<1>7. DOMAIN cols = ToSet(names)
  BY DEF cols
<1>8. WellFormed(g)
  BY <1>2, <1>3, <1>6, <1>7 DEF WellFormed, Names
<1>9. \A c \in ToSet(names) : cols[c].dp = raw.cols[old(c)].dp
  BY <1>6
<1>10. Draws(g) \subseteq Draws(raw)
  BY <1>2, <1>4, <1>7, <1>9 DEF Draws, WellFormed
<1>11. QED
  BY <1>8, <1>10 DEF g

-----------------------------------------------------------------------------
(* The budget.                                                               *)

\* A session that has composed nothing has spent nothing.
IsLaplaceSum(s, qs) == s = [n \in 0..Len(qs) |-> IF n = 0 THEN 0 ELSE s[n - 1] + LaplaceEps(qs[n])]
LEMMA FreshIs == ComposedEps(Fresh) = 0 /\ ComposedDelta(Fresh) = 0
<1>1. \E s : IsLaplaceSum(s, <<>>)
  <2>1. 0..Len(<<>>) = {0}
    OBVIOUS
  <2>2. IsLaplaceSum([n \in 0..Len(<<>>) |-> 0], <<>>)
    BY <2>1 DEF IsLaplaceSum
  <2>3. QED
    BY <2>2
<1>2. \E s : IsLaplaceSum(s, <<>>) /\ Total(LaplaceEps, <<>>) = s[Len(<<>>)]
  BY <1>1 DEF Total, IsLaplaceSum
<1>3. Total(LaplaceEps, <<>>) = 0
  BY <1>2 DEF IsLaplaceSum
<1>4. QED
  BY <1>3, BudgetAssumption DEF ComposedEps, ComposedDelta, Fresh

\* What a granted charge adds to the record of mechanisms; a refused one adds
\* nothing, and neither passes the totals.
LEMMA SpendIs ==
  ASSUME NEW b, Within(b), NEW S, b.queries \in Seq(S),
         NEW m, NEW eps, NEW delta, NEW count \in Nat
  PROVE  LET s == SpendN(b, m, eps, delta, count)
         IN  /\ Within(s.budget) /\ s.budget.queries \in Seq(ToSet(s.budget.queries))
             /\ IF s.ok THEN Len(s.budget.queries) - Len(b.queries) = count ELSE s.budget = b
<1> DEFINE d == IF m = "laplace" THEN 0 ELSE delta
           q == Mechanism(m, eps, d)
           more == [i \in 1..count |-> q]
           c == Compose(b, q, count)
           s == SpendN(b, m, eps, delta, count)
<1>1. \/ s = [ok |-> TRUE, budget |-> b] /\ count = 0
      \/ s = [ok |-> FALSE, budget |-> b]
      \/ s = [ok |-> TRUE, budget |-> c] /\ ~Refused(c)
  BY DEF SpendN
<1>2. c.queries = b.queries \o more
  BY DEF Compose
<1> HIDE DEF q, c, s
<1>3. more \in Seq({q}) /\ Len(more) = count
  OBVIOUS
<1>4. b.queries \in Seq(S \cup {q}) /\ more \in Seq(S \cup {q})
  BY <1>3
<1>5. c.queries \in Seq(S \cup {q}) /\ Len(c.queries) = Len(b.queries) + count
  BY <1>2, <1>3, <1>4, ConcatProperties
<1>6. c.queries \in Seq(ToSet(c.queries)) /\ b.queries \in Seq(ToSet(b.queries))
  BY <1>5, RangeTyped
<1>7. Len(b.queries) \in Nat
  BY LenProperties
<1>8. QED
  BY <1>1, <1>5, <1>6, <1>7 DEF Refused, s

-----------------------------------------------------------------------------
(* Noise and its price.                                                      *)

AllSound(f, draws) == \A p \in DOMAIN f : Sound(f[p], draws)
FilesSafe(f, draws) == \A p \in DOMAIN f : f[p] = Torn \/ Sound(f[p], draws)

LEMMA BindSound ==
  ASSUME NEW f, NEW draws, NEW k, NEW v, Sound(v, draws)
  PROVE  /\ AllSound(f, draws) => AllSound(Bind(f, k, v), draws)
         /\ FilesSafe(f, draws) => FilesSafe(Bind(f, k, v), draws)
BY DEF AllSound, FilesSafe, Bind

LEMMA AllSoundGrows ==
  ASSUME NEW f, NEW draws, NEW more, draws \subseteq more
  PROVE  /\ AllSound(f, draws) => AllSound(f, more)
         /\ FilesSafe(f, draws) => FilesSafe(f, more)
BY SoundGrows DEF AllSound, FilesSafe

\* A frame has finitely many columns.
LEMMA ColumnsFinite ==
  ASSUME NEW f, WellFormed(f)
  PROVE  NoisedColumns(f) \in Nat /\ IsFiniteSet(NumericNames(f))
<1> DEFINE s == f.names
<1>1. Len(s) \in Nat /\ DOMAIN s = 1..Len(s)
  BY LenProperties DEF WellFormed
<1>2. IsFiniteSet(1..Len(s))
  BY <1>1, FS_Interval
<1>3. s \in Surjection(1..Len(s), Names(f))
  BY <1>1 DEF WellFormed, Surjection, Names, ToSet
<1>4. IsFiniteSet(Names(f))
  BY <1>2, <1>3, FS_Surjection
<1>5. NumericNames(f) \in SUBSET Names(f)
  BY DEF NumericNames
<1>6. IsFiniteSet(NumericNames(f))
  BY <1>4, <1>5, FS_Subset
<1>7. QED
  BY <1>6, FS_CardinalityType DEF NoisedColumns

\* Every draw that was paid for was made by an earlier step.
PaidBefore ==
  \A d \in DOMAIN paid : \E n, s \in Nat :
      d = <<n, s>> /\ 1 <= s /\ (n < node \/ (n = node /\ s < step))
PriceIs ==
  \A d \in DOMAIN paid : d = <<node, step - 1>> /\ cur.frame # Null =>
      paid[d] = Cardinality({c \in Names(cur.frame) : d \in cur.frame.cols[c].dp})
BudgetInv == Within(budget) /\ budget.queries \in Seq(ToSet(budget.queries))
NoiseInv ==
  /\ node \in Nat /\ step \in Nat /\ PaidBefore /\ PriceIs /\ BudgetInv
  /\ AllSound(table, DOMAIN paid) /\ AllSound(cache, DOMAIN paid)
  /\ FilesSafe(disk, DOMAIN paid)
  /\ IF step = 0 THEN cur.frame = Null ELSE Sound(cur.frame, DOMAIN paid)
  /\ phase = "saving" => step # 0
  /\ phase = "output" => last # Null
  /\ last # Null => last \in DOMAIN table

\* The draw of the step to come is new.
LEMMA DrawIsNew ==
  ASSUME NoiseInv
  PROVE  Draw \notin DOMAIN paid
<1>1. SUFFICES ASSUME Draw \in DOMAIN paid PROVE FALSE
  OBVIOUS
<1>2. PICK n \in Nat, s \in Nat : Draw = <<n, s>> /\ (n < node \/ (n = node /\ s < step))
  BY <1>1 DEF NoiseInv, PaidBefore
<1>3. n = node /\ s = step
  BY <1>2 DEF Draw
<1>4. QED
  BY <1>2, <1>3 DEF NoiseInv

\* A step that leaves the position and the data alone, an error for one.
LEMMA StandStill ==
  ASSUME NoiseInv, UNCHANGED <<node, step, cur, table, last, cache, budget, paid, disk>>,
         phase' = "saving" => step # 0, phase' = "output" => last # Null
  PROVE  NoiseInv'
BY DEF NoiseInv, PaidBefore, PriceIs, BudgetInv, AllSound, FilesSafe

\* A step on to the next operation, with another frame and files at most.
LEMMA MoveOn ==
  ASSUME NoiseInv, UNCHANGED <<node, table, last, budget, paid>>, step' = step + 1,
         AllSound(cache', DOMAIN paid), FilesSafe(disk', DOMAIN paid),
         Sound(cur'.frame, DOMAIN paid), phase' = "run"
  PROVE  NoiseInv'
<1>1. node \in Nat /\ step \in Nat /\ step' \in Nat /\ step' # 0 /\ step' - 1 = step
  BY DEF NoiseInv
<1>2. PaidBefore'
  BY <1>1 DEF NoiseInv, PaidBefore
<1>3. PriceIs'
  BY <1>1, DrawIsNew DEF PriceIs, Draw
<1>4. BudgetInv' /\ AllSound(table, DOMAIN paid)'
  BY DEF NoiseInv, BudgetInv, AllSound
<1>5. AllSound(cache, DOMAIN paid)' /\ FilesSafe(disk, DOMAIN paid)'
  BY DEF AllSound, FilesSafe
<1>6. QED
  BY <1>1, <1>2, <1>3, <1>4, <1>5 DEF NoiseInv

\* The end of a pipeline, which may leave a variable.
LEMMA GoToNext ==
  ASSUME NoiseInv, NextNode, UNCHANGED <<cache, budget, paid, disk>>, phase = "run",
         AllSound(table', DOMAIN paid), last' # Null => last' \in DOMAIN table'
  PROVE  NoiseInv'
<1>1. node' = node + 1 /\ step' = 0 /\ cur'.frame = Null /\ phase' = "run"
  BY DEF NextNode, Idle
<1>2. node \in Nat /\ step \in Nat /\ node' \in Nat /\ step' \in Nat
  BY <1>1 DEF NoiseInv
<1>3. PaidBefore'
  <2>1. paid' = paid
    OBVIOUS
  <2>2. ASSUME NEW d \in DOMAIN paid
        PROVE  \E n, s \in Nat : d = <<n, s>> /\ 1 <= s /\ (n < node' \/ (n = node' /\ s < step'))
    <3>1. PICK n \in Nat, s \in Nat : d = <<n, s>> /\ 1 <= s /\ (n < node \/ (n = node /\ s < step))
      BY DEF NoiseInv, PaidBefore
    <3>2. n < node'
      BY <1>1, <1>2, <3>1
    <3>3. QED
      BY <3>1, <3>2
  <2>3. QED
    BY <2>1, <2>2 DEF PaidBefore
<1>4. PriceIs' /\ BudgetInv'
  BY <1>1 DEF NoiseInv, PriceIs, BudgetInv
<1>5. AllSound(table, DOMAIN paid)' /\ AllSound(cache, DOMAIN paid)' /\ FilesSafe(disk, DOMAIN paid)'
  BY DEF NoiseInv, AllSound, FilesSafe
<1>6. QED
  BY <1>1, <1>2, <1>3, <1>4, <1>5 DEF NoiseInv

\* A file is loaded, or a variable read.
LEMMA StartNodeKeeps ==
  ASSUME NoiseInv, StartNode
  PROVE  NoiseInv'
<1> DEFINE draws == DOMAIN paid
<1>1. /\ UNCHANGED <<table, models, last, budget, paid, disk, markers>>
      /\ phase = "run" /\ step = 0
  BY DEF StartNode, Running, privacy, outside
<1>2. ASSUME NEW f, NEW group, AbortOr(f, group), Failed(f) \/ Sound(f, draws),
             AllSound(cache', draws)
      PROVE  NoiseInv'
  <2>1. CASE Failed(f)
    <3>1. UNCHANGED <<node, step, cur>> /\ phase' = "failed"
      BY <1>2, <2>1 DEF AbortOr, Abort
    <3>2. QED
      BY <1>1, <1>2, <3>1 DEF NoiseInv, PaidBefore, PriceIs, BudgetInv, AllSound, FilesSafe
  <2>2. CASE ~Failed(f)
    <3>1. step' = step + 1 /\ node' = node /\ phase' = "run" /\ cur'.frame = f
      BY <1>1, <1>2, <2>2 DEF AbortOr, Continue
    <3>2. FilesSafe(disk', draws)
      BY <1>1 DEF NoiseInv
    <3>3. QED
      BY <1>1, <1>2, <2>2, <3>1, <3>2, MoveOn
  <2>3. QED
    BY <2>1, <2>2
<1>3. CASE Node.from.from = "load"
  <2> DEFINE file   == Node.from.file
             fields == Node.from.schema
             raw    == IF file \in DOMAIN cache THEN cache[file] ELSE ReadSource(file)
             f      == IF Failed(raw) THEN raw ELSE Bridge(raw, fields)
  <2>1. /\ AbortOr(f, Null)
        /\ cache' = IF ~Failed(raw) /\ IsSmall(file) THEN Bind(cache, file, raw) ELSE cache
    BY <1>3 DEF StartNode, Load
  <2>2. Failed(raw) \/ Sound(raw, draws)
    <3>1. CASE file \in DOMAIN cache
      BY <3>1 DEF NoiseInv, AllSound
    <3>2. CASE file \notin DOMAIN cache /\ file \in DOMAIN disk
      <4>1. raw = disk[file]
        BY <3>2 DEF ReadSource
      <4>2. Failed(Torn)
        BY DEF Torn, Fail, Failed
      <4>3. QED
        BY <3>2, <4>1, <4>2 DEF NoiseInv, FilesSafe
    <3>3. CASE file \notin DOMAIN cache /\ file \notin DOMAIN disk
      BY <3>3 DEF ReadSource, Fail, Failed
    <3>4. QED
      BY <3>1, <3>2, <3>3
  <2> HIDE DEF raw
  <2>3. Failed(f) \/ Sound(f, draws)
    BY <2>2, BridgeKeeps DEF Sound
  <2>4. AllSound(cache', draws)
    BY <2>1, <2>2, BindSound DEF NoiseInv
  <2> HIDE DEF f
  <2>5. QED
    BY <1>2, <2>1, <2>3, <2>4
<1>4. CASE Node.from.from # "load"
  <2> DEFINE v == Node.from.var
             f == IF v \in DOMAIN table THEN table[v] ELSE Fail("undeclared variable")
  <2>1. AbortOr(f, Null) /\ cache' = cache
    BY <1>4 DEF StartNode
  <2>2. Failed(f) \/ Sound(f, draws)
    BY DEF NoiseInv, AllSound, Fail, Failed
  <2>3. AllSound(cache', draws)
    BY <2>1 DEF NoiseInv
  <2> HIDE DEF f
  <2>4. QED
    BY <1>2, <2>1, <2>2, <2>3
<1>5. QED
  BY <1>3, <1>4

\* A data operation, whatever it computes, as long as it adds no noise.
LEMMA DataStepKeeps ==
  ASSUME NoiseInv, LoweringKeepsNoise, DataStep
  PROVE  NoiseInv'
<1> DEFINE draws == DOMAIN paid
<1>1. /\ UNCHANGED <<table, last, cache, budget, paid, disk>> /\ phase = "run"
      /\ AtStep /\ Op.k \notin SideKinds /\ step # 0
  BY DEF DataStep, AtStep, Running, memory, privacy, outside
<1>2. PICK o \in Lowered(Op, cur.frame, cur.group, table) : AbortOr(o[1], o[2])
  BY DEF DataStep
<1>3. CASE Failed(o[1])
  <2>1. UNCHANGED <<node, step, cur>> /\ phase' = "failed"
    BY <1>2, <1>3 DEF AbortOr, Abort
  <2>2. QED
    BY <1>1, <2>1, StandStill
<1>4. CASE ~Failed(o[1])
  <2>1. step' = step + 1 /\ node' = node /\ phase' = "run" /\ cur'.frame = o[1]
    BY <1>1, <1>2, <1>4 DEF AbortOr, Continue
  <2>2. /\ WellFormed(o[1])
        /\ Draws(o[1]) \subseteq Draws(cur.frame) \cup UNION {Draws(table[v]) : v \in DOMAIN table}
    BY <1>1, <1>2, <1>4 DEF LoweringKeepsNoise
  <2>3. Draws(cur.frame) \subseteq draws /\ \A v \in DOMAIN table : Draws(table[v]) \subseteq draws
    BY <1>1 DEF NoiseInv, AllSound, Sound
  <2>4. Sound(o[1], draws)
    BY <2>2, <2>3 DEF Sound
  <2>5. AllSound(cache', draws) /\ FilesSafe(disk', draws)
    BY <1>1 DEF NoiseInv
  <2>6. QED
    BY <1>1, <2>1, <2>4, <2>5, MoveOn
<1>5. QED
  BY <1>3, <1>4

\* Training reads a frame and leaves a model.
LEMMA TrainStepKeeps ==
  ASSUME NoiseInv, TrainStep
  PROVE  NoiseInv'
<1>1. UNCHANGED <<table, cache, budget, paid, disk>> /\ phase = "run"
  BY DEF TrainStep, At, AtStep, Running, privacy
<1>2. \/ \E reason : Abort(reason) /\ phase' = "failed" /\ UNCHANGED last
      \/ NextNode /\ (last' = Null \/ last' = last)
  BY DEF TrainStep, Abort
<1>3. CASE \E reason : Abort(reason) /\ phase' = "failed" /\ UNCHANGED last
  <2>1. UNCHANGED <<node, step, cur, last>> /\ phase' = "failed"
    BY <1>3 DEF Abort
  <2>2. QED
    BY <1>1, <2>1, StandStill
<1>4. CASE NextNode /\ (last' = Null \/ last' = last)
  <2>1. AllSound(table', DOMAIN paid) /\ (last' # Null => last' \in DOMAIN table')
    BY <1>1, <1>4 DEF NoiseInv
  <2>2. QED
    BY <1>1, <1>4, <2>1, GoToNext
<1>5. QED
  BY <1>2, <1>3, <1>4

\* A prediction has the noise of the features it was made from.
LEMMA PredictStepKeeps ==
  ASSUME NoiseInv, PredictStep
  PROVE  NoiseInv'
<1> DEFINE draws == DOMAIN paid
           f     == cur.frame
           m     == models[Op.var]
           g     == Predicted(f, m, Op.as)
<1>1. UNCHANGED <<table, last, cache, budget, paid, disk>> /\ phase = "run" /\ step # 0
  <2>1. AtStep
    BY DEF PredictStep, At
  <2>2. UNCHANGED <<table, last, cache, budget, paid, disk>>
    BY DEF PredictStep, memory, privacy
  <2>3. QED
    BY <2>1, <2>2 DEF AtStep, Running
<1>2. \/ UNCHANGED <<node, step, cur>> /\ phase' = "failed"
      \/ Continue(g, cur.group) /\ m.features \subseteq NumericNames(f)
  BY DEF PredictStep, Abort
<1>3. ASSUME Continue(g, cur.group), m.features \subseteq NumericNames(f)
      PROVE  NoiseInv'
  <2>1. step' = step + 1 /\ node' = node /\ phase' = "run" /\ cur'.frame = g
    BY <1>1, <1>3 DEF Continue
  <2>2. WellFormed(f) /\ Draws(f) \subseteq draws
    BY <1>1 DEF NoiseInv, Sound
  <2>3. Sound(g, draws)
    <3> DEFINE dp   == UNION {f.cols[c].dp : c \in m.features}
               col  == [t |-> "float", dp |-> dp]
               name == IF Op.as = Null THEN m.target \o "_pred" ELSE Op.as
    <3>1. \E rows : g = Frame(IF name \in Names(f) THEN f.names ELSE Append(f.names, name),
                              Bind(f.cols, name, col), rows)
      BY DEF Predicted, With
    <3>2. col = [t |-> col.t, dp |-> col.dp] /\ col.dp = dp
      OBVIOUS
    <3>3. dp \subseteq Draws(f)
      BY <1>3, <2>2 DEF NumericNames, WellFormed, Draws
    <3> HIDE DEF col, dp, name, g
    <3>4. WellFormed(g) /\ Draws(g) \subseteq Draws(f) \cup col.dp
      BY <2>2, <3>1, <3>2, WithKeeps
    <3>5. QED
      BY <2>2, <3>2, <3>3, <3>4 DEF Sound
  <2>4. AllSound(cache', draws) /\ FilesSafe(disk', draws)
    BY <1>1 DEF NoiseInv
  <2>5. QED
    BY <1>1, <2>1, <2>3, <2>4, MoveOn
<1>4. QED
  BY <1>1, <1>2, <1>3, StandStill

\* A chart is drawn into a file.
LEMMA ChartStepKeeps ==
  ASSUME NoiseInv, ChartStep
  PROVE  NoiseInv'
<1> DEFINE draws == DOMAIN paid
<1>1. UNCHANGED <<table, last, cache, budget, paid>> /\ phase = "run" /\ step # 0
  <2>1. AtStep
    BY DEF ChartStep, At
  <2>2. UNCHANGED <<table, last, cache, budget, paid>>
    BY DEF ChartStep, memory, privacy
  <2>3. QED
    BY <2>1, <2>2 DEF AtStep, Running
<1>2. \/ UNCHANGED <<node, step, cur, disk>> /\ phase' = "failed"
      \/ /\ Continue(cur.frame, cur.group)
         /\ disk' = disk \/ disk' = Bind(disk, ChartFile, cur.frame)
  BY DEF ChartStep, Abort, outside
<1>3. ASSUME Continue(cur.frame, cur.group), disk' = disk \/ disk' = Bind(disk, ChartFile, cur.frame)
      PROVE  NoiseInv'
  <2>1. step' = step + 1 /\ node' = node /\ phase' = "run" /\ cur'.frame = cur.frame
    BY <1>1, <1>3 DEF Continue
  <2>2. Sound(cur.frame, draws)
    BY <1>1 DEF NoiseInv
  <2>3. AllSound(cache', draws) /\ FilesSafe(disk', draws)
    BY <1>1, <1>3, <2>2, BindSound DEF NoiseInv
  <2>4. QED
    BY <1>1, <2>1, <2>2, <2>3, MoveOn
<1>4. QED
  BY <1>1, <1>2, <1>3, StandStill

\* Noise is charged for, column by column, before the frame goes on.
LEMMA DpStepKeeps ==
  ASSUME NoiseInv, DpStep
  PROVE  NoiseInv'
<1> DEFINE f     == cur.frame
           count == NoisedColumns(f)
           spend == SpendN(budget, Op.mechanism, Op.epsilon, Op.delta, count)
           all   == DOMAIN paid \cup {Draw}
<1>1. UNCHANGED <<table, last, cache, disk>> /\ phase = "run" /\ step # 0
  <2>1. AtStep
    BY DEF DpStep, At
  <2>2. UNCHANGED <<table, last, cache, disk>>
    BY DEF DpStep, memory
  <2>3. QED
    BY <2>1, <2>2 DEF AtStep, Running
<1>2. \/ UNCHANGED <<node, step, cur, budget, paid>> /\ phase' = "failed"
      \/ ~spend.ok /\ budget' = spend.budget /\ UNCHANGED <<node, step, cur, paid>> /\ phase' = "failed"
      \/ /\ spend.ok /\ budget' = spend.budget /\ Continue(Noised(f), cur.group)
         /\ paid' = Bind(paid, Draw, Len(spend.budget.queries) - Len(budget.queries))
  BY DEF DpStep, Abort, privacy
<1>3. WellFormed(f) /\ Draws(f) \subseteq DOMAIN paid
  BY <1>1 DEF NoiseInv, Sound
<1>4. count \in Nat
  BY <1>3, ColumnsFinite
<1>5. /\ Within(spend.budget) /\ spend.budget.queries \in Seq(ToSet(spend.budget.queries))
      /\ IF spend.ok THEN Len(spend.budget.queries) - Len(budget.queries) = count
                     ELSE spend.budget = budget
  <2> DEFINE S == ToSet(budget.queries)
  <2>1. Within(budget) /\ budget.queries \in Seq(S)
    BY DEF NoiseInv, BudgetInv
  <2> HIDE DEF count, S
  <2>2. QED
    BY <1>4, <2>1, SpendIs
<1> HIDE DEF spend
<1>6. ASSUME spend.ok, budget' = spend.budget, Continue(Noised(f), cur.group),
             paid' = Bind(paid, Draw, Len(spend.budget.queries) - Len(budget.queries))
      PROVE  NoiseInv'
  <2>1. node' = node /\ step' = step + 1 /\ phase' = "run" /\ cur'.frame = Noised(f)
    BY <1>1, <1>6 DEF Continue
  <2>2. node \in Nat /\ step \in Nat /\ step' \in Nat /\ step' # 0 /\ step' - 1 = step
    BY <2>1 DEF NoiseInv
  <2>3. /\ DOMAIN paid' = all /\ paid'[Draw] = count
        /\ \A d \in DOMAIN paid : paid'[d] = paid[d] \/ d = Draw
    BY <1>5, <1>6 DEF Bind
  <2>4. /\ WellFormed(Noised(f)) /\ Draws(Noised(f)) \subseteq Draws(f) \cup {Draw}
        /\ Draw \notin Draws(f) =>
             {c \in Names(Noised(f)) : Draw \in Noised(f).cols[c].dp} = NumericNames(f)
    BY <1>3, NoiseIs
  <2>5. {c \in Names(Noised(f)) : Draw \in Noised(f).cols[c].dp} = NumericNames(f)
    BY <1>3, <2>4, DrawIsNew
  <2>6. PaidBefore'
    <3>1. ASSUME NEW d \in DOMAIN paid
          PROVE  \E n, s \in Nat : d = <<n, s>> /\ 1 <= s /\ (n < node' \/ (n = node' /\ s < step'))
      <4>1. PICK n \in Nat, s \in Nat : d = <<n, s>> /\ 1 <= s /\ (n < node \/ (n = node /\ s < step))
        BY DEF NoiseInv, PaidBefore
      <4>2. QED
        BY <2>1, <2>2, <4>1
    <3>2. \E n, s \in Nat : Draw = <<n, s>> /\ 1 <= s /\ (n < node' \/ (n = node' /\ s < step'))
      BY <1>1, <2>1, <2>2 DEF Draw
    <3>3. QED
      BY <2>3, <3>1, <3>2 DEF PaidBefore
  <2>7. PriceIs'
    <3>1. ASSUME NEW d, d = <<node', step' - 1>>
          PROVE  paid'[d] = Cardinality({c \in Names(cur'.frame) : d \in cur'.frame.cols[c].dp})
      <4>1. d = Draw
        BY <2>1, <2>2, <3>1 DEF Draw
      <4>2. {c \in Names(cur'.frame) : d \in cur'.frame.cols[c].dp} = NumericNames(f)
        BY <2>1, <2>5, <4>1
      <4>3. QED
        BY <2>3, <4>1, <4>2 DEF NoisedColumns
    <3>2. QED
      BY <3>1 DEF PriceIs
  <2>8. BudgetInv'
    BY <1>5, <1>6 DEF BudgetInv
  <2>9. Sound(Noised(f), all)
    BY <1>3, <2>4 DEF Sound
  <2>10. AllSound(table', DOMAIN paid') /\ AllSound(cache', DOMAIN paid') /\ FilesSafe(disk', DOMAIN paid')
    BY <1>1, <2>3, AllSoundGrows DEF NoiseInv
  <2>11. last' # Null => last' \in DOMAIN table'
    BY <1>1 DEF NoiseInv
  <2>12. QED
    BY <2>1, <2>2, <2>3, <2>6, <2>7, <2>8, <2>9, <2>10, <2>11 DEF NoiseInv
<1>7. QED
  BY <1>1, <1>2, <1>5, <1>6, StandStill

\* Files are created and then filled; the end of a pipeline leaves its frame.
LEMMA SavesKeep ==
  ASSUME NoiseInv, SaveStep \/ SaveRows \/ EndNode \/ EndRun \/ SaveOutput
  PROVE  NoiseInv'
<1> DEFINE draws == DOMAIN paid
<1>1. \A path : FilesSafe(Bind(disk, path, Torn), draws)
  BY DEF NoiseInv, FilesSafe, Bind
<1>2. ASSUME UNCHANGED <<node, step, cur, table, last, cache, budget, paid>>, FilesSafe(disk', draws),
             phase' = "saving" => step # 0, phase' = "output" => last # Null
      PROVE  NoiseInv'
  BY <1>2 DEF NoiseInv, PaidBefore, PriceIs, BudgetInv, AllSound, FilesSafe
<1>3. CASE SaveStep
  <2>1. step # 0
    <3>1. AtStep
      BY <1>3 DEF SaveStep, At
    <3>2. QED
      BY <3>1 DEF AtStep
  <2>2. FilesSafe(disk', draws)
    BY <1>1, <1>3 DEF SaveStep, CreateFile, NoiseInv
  <2>3. UNCHANGED <<node, step, cur, table, last, cache, budget, paid>> /\ phase' \in {"saving", "failed"}
    BY <1>3 DEF SaveStep, Abort, memory, privacy
  <2>4. QED
    BY <1>2, <2>1, <2>2, <2>3
<1>4. CASE SaveRows
  <2>1. /\ UNCHANGED <<node, cur, table, last, cache, budget, paid>> /\ step' = step + 1
        /\ phase = "saving" /\ phase' = "run" /\ disk' = Bind(disk, Op.path, cur.frame)
    BY <1>4 DEF SaveRows, WriteFile, memory, privacy
  <2>2. Sound(cur.frame, draws)
    BY <2>1 DEF NoiseInv
  <2>3. AllSound(cache', draws) /\ FilesSafe(disk', draws) /\ cur'.frame = cur.frame
    BY <2>1, <2>2, BindSound DEF NoiseInv
  <2>4. QED
    BY <2>1, <2>2, <2>3, MoveOn
<1>5. CASE EndNode
  <2>1. UNCHANGED <<cache, budget, paid, disk>> /\ NextNode /\ phase = "run" /\ step # 0
    BY <1>5 DEF EndNode, Running, privacy, outside
  <2>2. \/ table' = Bind(table, Node.name, cur.frame) /\ last' = Node.name
        \/ UNCHANGED <<table, last>>
    BY <1>5 DEF EndNode
  <2>3. AllSound(table', draws)
    BY <2>1, <2>2, BindSound DEF NoiseInv
  <2>4. last' # Null => last' \in DOMAIN table'
    BY <2>2 DEF NoiseInv, Bind
  <2>5. QED
    BY <2>1, <2>3, <2>4, GoToNext
<1>6. CASE EndRun
  <2>1. FilesSafe(disk', draws)
    BY <1>1, <1>6 DEF EndRun, CreateFile, NoiseInv
  <2>2. /\ UNCHANGED <<node, step, cur, table, last, cache, budget, paid>>
        /\ phase' # "saving" /\ (phase' = "output" => last # Null)
    BY <1>6 DEF EndRun, Enter, Abort, HasResult, memory, privacy
  <2>3. QED
    BY <1>2, <2>1, <2>2
<1>7. CASE SaveOutput
  <2>1. /\ UNCHANGED <<node, step, cur, table, last, cache, budget, paid>>
        /\ phase = "output" /\ phase' = "report" /\ disk' = Bind(disk, job.output, table[last])
    BY <1>7 DEF SaveOutput, Enter, WriteFile, memory, privacy
  <2>2. Sound(table[last], draws)
    BY <2>1 DEF NoiseInv, AllSound
  <2>3. FilesSafe(disk', draws)
    BY <2>1, <2>2, BindSound DEF NoiseInv
  <2>4. QED
    BY <1>2, <2>1, <2>3
<1>8. QED
  BY <1>3, <1>4, <1>5, <1>6, <1>7

LEMMA NoiseStep ==
  ASSUME NoiseInv, LoweringKeepsNoise, [Next]_vars
  PROVE  NoiseInv'
<1>1. ASSUME UNCHANGED <<node, step, cur, memory, privacy, disk>>,
             phase' = phase \/ phase' \notin {"saving", "output"}
      PROVE  NoiseInv'
  BY <1>1, StandStill DEF memory, privacy, NoiseInv
<1>2. CASE UNCHANGED engineVars
  BY <1>1, <1>2 DEF engineVars, progress, outside
<1>3. ASSUME NEW next, ResolveStep(next)
      PROVE  NoiseInv'
  BY <1>1, <1>3 DEF ResolveStep, progress, outside
<1>4. CASE Resolved \/ Check \/ PolicyGate
  BY <1>1, <1>4 DEF Resolved, Check, PolicyGate, Enter, Abort, outside
<1>5. CASE Optimize \/ DeclareModels \/ ReportRun
  BY <1>1, <1>5 DEF Optimize, DeclareModels, ReportRun, Enter, outside
<1>6. CASE EngineCrash \/ Kill
  BY <1>1, <1>6 DEF EngineCrash, Kill, outside
<1>7. CASE EngineStep
  BY <1>3, <1>4, <1>5, <1>7, StartNodeKeeps, DataStepKeeps, TrainStepKeeps, PredictStepKeeps,
     ChartStepKeeps, DpStepKeeps, SavesKeep
  DEF EngineStep, EngineNext, KeepStatement, Import, CloseModule
<1>8. CASE Tick \/ Gate \/ PollEnded \/ PollRunning \/ Wake \/ PollFails
  BY <1>2, <1>8 DEF Tick, Gate, PollEnded, PollRunning, Wake, PollFails
<1>9. QED
  BY <1>2, <1>6, <1>7, <1>8 DEF Next, Watch, vars

LEMMA NoiseInit ==
  ASSUME Init
  PROVE  NoiseInv
<1>1. /\ node = 1 /\ step = 0 /\ cur.frame = Null /\ table = <<>> /\ cache = <<>> /\ paid = <<>>
      /\ job \in Jobs /\ disk = job.data /\ phase = "resolve" /\ last = Null /\ budget = Fresh
  BY DEF Init, EngineInit, Idle
<1>2. BudgetInv
  <2>1. Within(Fresh)
    BY FreshIs, BudgetAssumption DEF Within
  <2>2. Fresh.queries \in Seq(ToSet(Fresh.queries))
    BY DEF Fresh
  <2>3. QED
    BY <1>1, <2>1, <2>2 DEF BudgetInv
<1>3. FilesSafe(disk, DOMAIN paid)
  BY <1>1, JobsAssumption DEF FilesSafe, Sound
<1>4. PaidBefore /\ PriceIs /\ AllSound(table, DOMAIN paid) /\ AllSound(cache, DOMAIN paid)
  BY <1>1 DEF PaidBefore, PriceIs, AllSound
<1>5. QED
  BY <1>1, <1>2, <1>3, <1>4 DEF NoiseInv

\* Noised data goes nowhere, not even to the next operation, before the
\* budget was charged for every column of it, and the budget stays within its
\* totals: whatever the program, as long as the data operations add no noise
\* of their own (which the runs check of the ones there are).
THEOREM NothingUnpaid == Spec /\ []LoweringKeepsNoise => []NoUnpaidNoise
<1>1. Init => NoiseInv
  BY NoiseInit
<1>2. NoiseInv /\ LoweringKeepsNoise /\ [Next]_vars => NoiseInv'
  BY NoiseStep
<1>3. NoiseInv /\ LoweringKeepsNoise => NoUnpaidNoise
  <2> SUFFICES ASSUME NoiseInv, LoweringKeepsNoise PROVE NoUnpaidNoise
    OBVIOUS
  <2>1. cur.frame # Null => Draws(cur.frame) \subseteq DOMAIN paid
    BY DEF NoiseInv, Sound
  <2>2. \A v \in DOMAIN table : Draws(table[v]) \subseteq DOMAIN paid
    BY DEF NoiseInv, AllSound, Sound
  <2>3. \A p \in DOMAIN disk : Draws(disk[p]) \subseteq DOMAIN paid
    <3>1. Draws(Torn) = {}
      BY DEF Torn, Fail, Draws
    <3>2. QED
      BY <3>1 DEF NoiseInv, FilesSafe, Sound
  <2>4. Seen \subseteq DOMAIN paid
    BY <2>1, <2>2, <2>3 DEF Seen
  <2>5. QED
    BY <2>4 DEF NoUnpaidNoise, NoiseInv, PriceIs, BudgetInv, Within
<1>4. QED
  BY <1>1, <1>2, <1>3, PTL DEF Spec

-----------------------------------------------------------------------------
(* Sums.                                                                     *)

\* A set of numbers has a least one.
LEMMA LeastOf ==
  ASSUME NEW T, T \subseteq Nat, T # {}
  PROVE  \E x \in T : \A y \in T : x <= y
<1>1. PICK x \in T : \A y \in T : ~ (<<y, x>> \in OpToRel(<, Nat))
  BY WFMin, NatLessThanWellFounded
<1>2. \A y \in T : ~ (y < x)
  BY <1>1 DEF OpToRel
<1>3. QED
  BY <1>2

\* Induction, with a set for the property.
LEMMA Induction ==
  ASSUME NEW S, 0 \in S, \A n \in Nat : n \in S => n + 1 \in S
  PROVE  Nat \subseteq S
<1> DEFINE Missing == Nat \ S
<1>1. SUFFICES ASSUME Missing # {}
               PROVE  FALSE
  OBVIOUS
<1>2. PICK x \in Missing : \A y \in Missing : x <= y
  BY <1>1, LeastOf
<1>3. x - 1 \in Nat /\ x - 1 \in S
  BY <1>2
<1>4. QED
  BY <1>2, <1>3

\* The sums of the first members of w, as Total computes them.
IsSum(u, w, m) == u = [n \in 0..m |-> IF n = 0 THEN 0 ELSE u[n - 1] + w[n]]

LEMMA SumIs ==
  ASSUME NEW u, NEW w, NEW m \in Nat, IsSum(u, w, m)
  PROVE  u[0] = 0 /\ \A n \in 0..(m - 1) : u[n + 1] = u[n] + w[n + 1]
<1>1. \A n \in 0..m : u[n] = IF n = 0 THEN 0 ELSE u[n - 1] + w[n]
  BY DEF IsSum
<1>2. ASSUME NEW n \in 0..(m - 1)
      PROVE  u[n + 1] = u[n] + w[n + 1]
  <2>1. n + 1 \in 0..m /\ n + 1 # 0 /\ (n + 1) - 1 = n
    OBVIOUS
  <2>2. QED
    BY <1>1, <2>1
<1>3. 0 \in 0..m
  OBVIOUS
<1>4. QED
  BY <1>1, <1>2, <1>3

LEMMA SumExists ==
  ASSUME NEW w, NEW m \in Nat
  PROVE  \E u : IsSum(u, w, m)
<1> DEFINE S == {k \in Nat : \E u : IsSum(u, w, k)}
<1>1. 0 \in S
  <2>1. IsSum([n \in 0..0 |-> 0], w, 0)
    BY DEF IsSum
  <2>2. QED
    BY <2>1
<1>2. ASSUME NEW k \in Nat, k \in S
      PROVE  k + 1 \in S
  <2>1. PICK u : IsSum(u, w, k)
    BY <1>2
  <2> DEFINE v == [n \in 0..k + 1 |-> IF n = k + 1 THEN u[k] + w[k + 1] ELSE u[n]]
  <2>2. v[k + 1] = u[k] + w[k + 1] /\ \A n \in 0..k : v[n] = u[n]
    OBVIOUS
  <2>3. u[0] = 0 /\ \A n \in 0..(k - 1) : u[n + 1] = u[n] + w[n + 1]
    BY <2>1, SumIs
  <2>4. ASSUME NEW n \in 0..k + 1
        PROVE  v[n] = IF n = 0 THEN 0 ELSE v[n - 1] + w[n]
    <3> HIDE DEF v
    <3>1. CASE n = 0
      BY <2>2, <2>3, <3>1
    <3>2. CASE n = k + 1
      <4>1. n - 1 = k /\ n # 0 /\ k \in 0..k
        BY <3>2
      <4>2. QED
        BY <2>2, <3>2, <4>1
    <3>3. CASE n \in 1..k
      <4>1. n - 1 \in 0..(k - 1) /\ (n - 1) + 1 = n /\ n - 1 \in 0..k /\ n \in 0..k
        BY <3>3
      <4>2. u[n] = u[n - 1] + w[n]
        BY <2>3, <4>1
      <4>3. QED
        BY <2>2, <3>3, <4>1, <4>2
    <3>4. QED
      BY <3>1, <3>2, <3>3
  <2>5. IsSum(v, w, k + 1)
    BY <2>4 DEF IsSum
  <2>6. QED
    BY <2>5
<1>3. QED
  BY <1>1, <1>2, Induction

\* Sums of naturals are naturals.
LEMMA SumTyped ==
  ASSUME NEW w, NEW m \in Nat, \A i \in 1..m : w[i] \in Nat, NEW u, IsSum(u, w, m)
  PROVE  \A n \in 0..m : u[n] \in Nat
<1> DEFINE S == {n \in Nat : n <= m => u[n] \in Nat}
<1>1. u[0] = 0 /\ \A n \in 0..(m - 1) : u[n + 1] = u[n] + w[n + 1]
  BY SumIs
<1>2. 0 \in S
  BY <1>1
<1>3. ASSUME NEW n \in Nat, n \in S
      PROVE  n + 1 \in S
  <2>1. SUFFICES ASSUME n + 1 <= m PROVE u[n + 1] \in Nat
    OBVIOUS
  <2>2. n \in 0..(m - 1) /\ n + 1 \in 1..m /\ u[n] \in Nat
    BY <1>3, <2>1
  <2>3. QED
    BY <1>1, <2>2
<1>4. Nat \subseteq S
  BY <1>2, <1>3, Induction
<1>5. QED
  BY <1>4

\* What follows a common prefix with equal members adds them up.
Continues(w, v, m, k, a) ==
  /\ m \in Nat /\ k \in Nat /\ a \in Nat
  /\ \A i \in 1..m : w[i] = v[i]
  /\ \A i \in 1..k : w[m + i] = a
LEMMA SumGrows ==
  ASSUME NEW w, NEW v, NEW m, NEW k, NEW a, Continues(w, v, m, k, a),
         NEW u, IsSum(u, v, m), u[m] \in Nat, NEW x, IsSum(x, w, m + k)
  PROVE  x[m + k] = u[m] + k * a
<1> USE DEF Continues
<1>1. u[0] = 0 /\ \A n \in 0..(m - 1) : u[n + 1] = u[n] + v[n + 1]
  BY SumIs
<1>2. x[0] = 0 /\ \A n \in 0..(m + k - 1) : x[n + 1] = x[n] + w[n + 1]
  BY SumIs
<1>3. x[m] = u[m]
  <2> DEFINE S == {n \in Nat : n <= m => x[n] = u[n]}
  <2>1. 0 \in S
    BY <1>1, <1>2
  <2>2. ASSUME NEW n \in Nat, n \in S
        PROVE  n + 1 \in S
    <3>1. SUFFICES ASSUME n + 1 <= m PROVE x[n + 1] = u[n + 1]
      OBVIOUS
    <3>2. n \in 0..(m - 1) /\ n \in 0..(m + k - 1) /\ n + 1 \in 1..m /\ x[n] = u[n]
      BY <2>2, <3>1
    <3>3. QED
      BY <1>1, <1>2, <3>2
  <2>3. Nat \subseteq S
    BY <2>1, <2>2, Induction
  <2>4. QED
    BY <2>3
<1> DEFINE S == {j \in Nat : j <= k => x[m + j] = u[m] + j * a}
<1>4. 0 \in S
  BY <1>3
<1>5. ASSUME NEW j \in Nat, j \in S
      PROVE  j + 1 \in S
  <2>1. SUFFICES ASSUME j + 1 <= k PROVE x[m + (j + 1)] = u[m] + (j + 1) * a
    OBVIOUS
  <2>2. m + j \in 0..(m + k - 1) /\ (m + j) + 1 = m + (j + 1) /\ j + 1 \in 1..k
    BY <2>1
  <2>3. x[m + (j + 1)] = x[m + j] + a
    BY <1>2, <2>2
  <2>4. x[m + j] = u[m] + j * a
    BY <1>5, <2>1
  <2>5. j * a \in Nat /\ (j + 1) * a = j * a + a
    OBVIOUS
  <2>6. QED
    BY <2>3, <2>4, <2>5
<1>6. Nat \subseteq S
  BY <1>4, <1>5, Induction
<1>7. QED
  BY <1>6

-----------------------------------------------------------------------------
(* What a record of mechanisms adds up to: the linear sum, and the two sums  *)
(* that the concentrated modes compose.  Composition adds to these measures  *)
(* and is monotonic in them, whatever the mode: that is why a part of the    *)
(* charges cannot cost more than all of them.                                *)

Measures == {"eps", "laplace", "rho"}
Amount(k, q) == IF k = "eps" THEN q.eps ELSE IF k = "laplace" THEN LaplaceEps(q) ELSE RhoOf(q)
Measured(k, b) == IF k = "eps" THEN b.eps
                  ELSE IF k = "laplace" THEN Total(LaplaceEps, b.queries) ELSE Total(RhoOf, b.queries)

Charged(q) == q.eps \in Nat
IsRecord(b) ==
  /\ b.eps \in Nat /\ b.queries \in Seq(ToSet(b.queries))
  /\ \A i \in DOMAIN b.queries : Charged(b.queries[i])

LEMMA QuotientIs ==
  ASSUME NEW x \in Nat, NEW y \in Nat, y > 0
  PROVE  x \div y \in Nat
OBVIOUS

\* A mechanism costs a natural number in every measure, and so does a record.
LEMMA AmountTyped ==
  ASSUME NEW q, Charged(q), NEW k \in Measures
  PROVE  Amount(k, q) \in Nat
<1>1. GaussianRho(q.eps) \in Nat
  <2>1. LogInvDelta \in Nat \ {0} /\ q.eps \in Nat
    BY BudgetAssumption DEF Charged
  <2>2. q.eps * q.eps \in Nat
    BY <2>1
  <2>3. 4 * LogInvDelta \in Nat /\ 4 * LogInvDelta > 0
    BY <2>1
  <2>4. q.eps * q.eps + 4 * LogInvDelta - 1 \in Nat
    BY <2>2, <2>3
  <2>5. QED
    BY <2>3, <2>4, QuotientIs DEF GaussianRho
<1>2. QED
  BY <1>1 DEF Charged, Measures, Amount, LaplaceEps, RhoOf

\* The total of a record is a sum of amounts.
Amounts(k, qs) == [i \in 1..Len(qs) |-> Amount(k, qs[i])]
LEMMA MeasuredIsSum ==
  ASSUME NEW b, Len(b.queries) \in Nat, NEW k \in {"laplace", "rho"}
  PROVE  \E u : IsSum(u, Amounts(k, b.queries), Len(b.queries)) /\ Measured(k, b) = u[Len(b.queries)]
<1> DEFINE qs == b.queries
           m  == Len(qs)
           w  == Amounts(k, qs)
           AsTotal(u) == u = [n \in 0..m |-> IF n = 0 THEN 0 ELSE u[n - 1] + Amount(k, qs[n])]
<1>1. ASSUME NEW u
      PROVE  IsSum(u, w, m) <=> AsTotal(u)
  <2>1. \A n \in 0..m : n # 0 => w[n] = Amount(k, qs[n])
    BY DEF Amounts
  <2> HIDE DEF w
  <2>2. [n \in 0..m |-> IF n = 0 THEN 0 ELSE u[n - 1] + Amount(k, qs[n])]
          = [n \in 0..m |-> IF n = 0 THEN 0 ELSE u[n - 1] + w[n]]
    BY <2>1
  <2>3. QED
    BY <2>2 DEF IsSum
<1>2. \E u : AsTotal(u)
  BY <1>1, SumExists
<1>3. CASE k = "laplace"
  <2>1. \E u : AsTotal(u) /\ Total(LaplaceEps, qs) = u[m]
    BY <1>2, <1>3 DEF Total, Amount
  <2>2. QED
    BY <1>1, <1>3, <2>1 DEF Measured
<1>4. CASE k = "rho"
  <2>1. \E u : AsTotal(u) /\ Total(RhoOf, qs) = u[m]
    BY <1>2, <1>4 DEF Total, Amount
  <2>2. QED
    BY <1>1, <1>4, <2>1 DEF Measured
<1>5. QED
  BY <1>3, <1>4

LEMMA AmountsTyped ==
  ASSUME NEW b, IsRecord(b), NEW k \in Measures
  PROVE  /\ Len(b.queries) \in Nat /\ DOMAIN b.queries = 1..Len(b.queries)
         /\ \A i \in 1..Len(b.queries) : /\ Amounts(k, b.queries)[i] \in Nat
                                         /\ Amounts(k, b.queries)[i] = Amount(k, b.queries[i])
<1>1. Len(b.queries) \in Nat /\ DOMAIN b.queries = 1..Len(b.queries)
  BY LenProperties DEF IsRecord
<1>2. QED
  BY <1>1, AmountTyped DEF Amounts, IsRecord

LEMMA MeasuredTyped ==
  ASSUME NEW b, IsRecord(b), NEW k \in Measures
  PROVE  Measured(k, b) \in Nat
<1>1. CASE k = "eps"
  BY <1>1 DEF Measured, IsRecord
<1>2. CASE k \in {"laplace", "rho"}
  <2> DEFINE m == Len(b.queries)
             w == Amounts(k, b.queries)
  <2>1. m \in Nat /\ \A i \in 1..m : w[i] \in Nat
    BY AmountsTyped
  <2>2. PICK u : IsSum(u, w, m) /\ Measured(k, b) = u[m]
    BY <1>2, <2>1, MeasuredIsSum
  <2> HIDE DEF m, w
  <2>3. \A n \in 0..m : u[n] \in Nat
    BY <2>1, <2>2, SumTyped
  <2>4. QED
    BY <2>1, <2>2, <2>3
<1>3. QED
  BY <1>1, <1>2 DEF Measures

\* Composing count mechanisms adds their amounts to every measure.
LEMMA ComposeAdds ==
  ASSUME NEW b, IsRecord(b), NEW q, Charged(q), NEW count \in Nat
  PROVE  /\ IsRecord(Compose(b, q, count))
         /\ \A k \in Measures : Measured(k, Compose(b, q, count)) = Measured(k, b) + count * Amount(k, q)
<1> DEFINE c == Compose(b, q, count)
           more == [i \in 1..count |-> q]
           S == ToSet(b.queries) \cup {q}
<1>1. c.queries = b.queries \o more /\ c.eps = b.eps + count * q.eps
  BY DEF Compose
<1>2. Len(b.queries) \in Nat /\ DOMAIN b.queries = 1..Len(b.queries)
  BY LenProperties DEF IsRecord
<1>3. more \in Seq(S) /\ Len(more) = count /\ \A i \in 1..count : more[i] = q
  OBVIOUS
<1>4. b.queries \in Seq(S)
  BY DEF IsRecord
<1> HIDE DEF more, S, c
<1>5. /\ c.queries \in Seq(S) /\ Len(c.queries) = Len(b.queries) + count
      /\ \A i \in 1..(Len(b.queries) + count) :
            c.queries[i] = IF i <= Len(b.queries) THEN b.queries[i] ELSE more[i - Len(b.queries)]
  <2>1. /\ b.queries \o more \in Seq(S) /\ Len(b.queries \o more) = Len(b.queries) + Len(more)
        /\ \A i \in 1..(Len(b.queries) + Len(more)) :
              (b.queries \o more)[i] = IF i <= Len(b.queries) THEN b.queries[i] ELSE more[i - Len(b.queries)]
    BY <1>3, <1>4, ConcatProperties
  <2>2. QED
    BY <1>1, <1>3, <2>1
<1>6. /\ \A i \in 1..Len(b.queries) : c.queries[i] = b.queries[i]
      /\ \A i \in 1..count : c.queries[Len(b.queries) + i] = q
  <2>1. \A i \in 1..count : /\ Len(b.queries) + i \in 1..(Len(b.queries) + count)
                            /\ ~(Len(b.queries) + i <= Len(b.queries))
                            /\ (Len(b.queries) + i) - Len(b.queries) = i
    BY <1>2
  <2>2. \A i \in 1..Len(b.queries) : i \in 1..(Len(b.queries) + count) /\ i <= Len(b.queries)
    BY <1>2
  <2>3. \A i \in 1..Len(b.queries) : c.queries[i] = b.queries[i]
    BY <1>5, <2>2
  <2>4. ASSUME NEW i \in 1..count
        PROVE  c.queries[Len(b.queries) + i] = q
    <3>1. c.queries[Len(b.queries) + i] = more[(Len(b.queries) + i) - Len(b.queries)]
      BY <1>5, <2>1
    <3>2. QED
      BY <1>3, <2>1, <3>1
  <2>5. QED
    BY <2>3, <2>4
<1>7. IsRecord(c)
  <2>1. c.eps \in Nat
    <3>1. b.eps \in Nat /\ q.eps \in Nat
      BY DEF IsRecord, Charged
    <3>2. count * q.eps \in Nat
      BY <3>1
    <3>3. QED
      BY <1>1, <3>1, <3>2
  <2>2. c.queries \in Seq(ToSet(c.queries)) /\ DOMAIN c.queries = 1..(Len(b.queries) + count)
    BY <1>2, <1>5, RangeTyped, LenProperties
  <2>3. ASSUME NEW i \in 1..(Len(b.queries) + count)
        PROVE  Charged(c.queries[i])
    <3>1. CASE i \in 1..Len(b.queries)
      BY <1>2, <1>6, <3>1 DEF IsRecord
    <3>2. CASE i \notin 1..Len(b.queries)
      <4>1. i - Len(b.queries) \in 1..count /\ Len(b.queries) + (i - Len(b.queries)) = i
        BY <1>2, <3>2
      <4>2. c.queries[i] = q
        BY <1>6, <4>1
      <4>3. QED
        BY <4>2
    <3>3. QED
      BY <3>1, <3>2
  <2>4. QED
    BY <2>1, <2>2, <2>3 DEF IsRecord
<1>8. ASSUME NEW k \in Measures
      PROVE  Measured(k, c) = Measured(k, b) + count * Amount(k, q)
  <2>1. CASE k = "eps"
    BY <1>1, <2>1 DEF Measured, Amount
  <2>2. CASE k \in {"laplace", "rho"}
    <3> DEFINE m == Len(b.queries)
               v == Amounts(k, b.queries)
               w == Amounts(k, c.queries)
               a == Amount(k, q)
    <3>1. m \in Nat /\ a \in Nat /\ \A i \in 1..m : v[i] = Amount(k, b.queries[i])
      BY AmountsTyped, AmountTyped
    <3>2. Len(c.queries) = m + count /\ \A i \in 1..(m + count) : w[i] = Amount(k, c.queries[i])
      BY <1>5 DEF Amounts
    <3>3. PICK u : IsSum(u, v, m) /\ Measured(k, b) = u[m]
      BY <2>2, <3>1, MeasuredIsSum
    <3>4. PICK x : IsSum(x, w, m + count) /\ Measured(k, c) = x[m + count]
      BY <2>2, <3>1, <3>2, MeasuredIsSum
    <3>5. /\ \A i \in 1..m : w[i] = v[i]
          /\ \A i \in 1..count : w[m + i] = a
      <4>1. \A i \in 1..m : i \in 1..(m + count)
        BY <3>1
      <4>2. \A i \in 1..count : m + i \in 1..(m + count)
        BY <3>1
      <4> HIDE DEF v, w
      <4>3. QED
        BY <1>6, <3>1, <3>2, <4>1, <4>2
    <3>6. u[m] \in Nat
      BY <3>3, MeasuredTyped
    <3> HIDE DEF v, w, a, m
    <3>7. IsSum(u, v, m) /\ IsSum(x, w, m + count)
      BY <3>3, <3>4
    <3>8. x[m + count] = u[m] + count * a
      <4>1. Continues(w, v, m, count, a)
        BY <3>1, <3>5 DEF Continues
      <4>2. QED
        BY <3>6, <3>7, <4>1, SumGrows
    <3>9. QED
      BY <3>3, <3>4, <3>8 DEF a
  <2>3. QED
    BY <2>1, <2>2 DEF Measures
<1>9. QED
  BY <1>7, <1>8 DEF c

-----------------------------------------------------------------------------
(* Composition is monotonic in the measures.                                 *)

LEMMA CeilSqrtIs ==
  ASSUME NEW n \in Nat
  PROVE  LET r == CeilSqrt(n) IN r \in 0..n /\ r * r >= n /\ (r = 0 \/ (r - 1) * (r - 1) < n)
<1> DEFINE T == {r \in Nat : r * r >= n}
<1>1. n \in T
  <2>1. n = 0 \/ n >= 1
    OBVIOUS
  <2>2. n >= 1 => n * n >= n
    OBVIOUS
  <2>3. n = 0 => n * n >= n
    OBVIOUS
  <2>4. QED
    BY <2>1, <2>2, <2>3
<1>2. PICK r \in T : \A y \in T : r <= y
  BY <1>1, LeastOf
<1>3. r \in 0..n /\ r * r >= n
  BY <1>1, <1>2
<1>4. r = 0 \/ (r - 1) * (r - 1) < n
  <2>1. SUFFICES ASSUME r # 0 PROVE (r - 1) * (r - 1) < n
    OBVIOUS
  <2>2. r - 1 \in Nat /\ r - 1 \notin T /\ (r - 1) * (r - 1) \in Nat
    BY <1>2, <2>1
  <2>3. QED
    BY <2>2
<1>5. \E x \in 0..n : x * x >= n /\ (x = 0 \/ (x - 1) * (x - 1) < n)
  BY <1>3, <1>4
<1>6. QED
  BY <1>5 DEF CeilSqrt

LEMMA SquaresGrow ==
  ASSUME NEW x \in Nat, NEW y \in Nat, x <= y, NEW z \in Nat
  PROVE  x * z \in Nat /\ y * z \in Nat /\ x * z <= y * z
<1>1. PICK e \in Nat : y = x + e
  <2>1. y - x \in Nat /\ y = x + (y - x)
    OBVIOUS
  <2>2. QED
    BY <2>1
<1>2. y * z = x * z + e * z /\ e * z \in Nat /\ x * z \in Nat
  BY <1>1
<1>3. QED
  BY <1>2

\* The conversion of rho grows with rho.
LEMMA ZcdpGrows ==
  ASSUME NEW x \in Nat, NEW y \in Nat, x <= y
  PROVE  ZcdpToDp(x) \in Nat /\ ZcdpToDp(y) \in Nat /\ ZcdpToDp(x) <= ZcdpToDp(y)
<1> DEFINE L == LogInvDelta
           p == CeilSqrt(x * L)
           q == CeilSqrt(y * L)
<1>1. L \in Nat
  BY BudgetAssumption
<1>2. x * L \in Nat /\ y * L \in Nat /\ x * L <= y * L
  BY <1>1, SquaresGrow
<1>3. p \in Nat /\ (p = 0 \/ (p - 1) * (p - 1) < x * L)
  BY <1>2, CeilSqrtIs
<1>4. q \in Nat /\ q * q >= y * L
  BY <1>2, CeilSqrtIs
<1> HIDE DEF L, p, q
<1>5. p <= q
  <2>1. SUFFICES ASSUME q < p PROVE FALSE
    BY <1>3, <1>4
  <2>2. p - 1 \in Nat /\ q <= p - 1 /\ p # 0
    BY <1>3, <1>4, <2>1
  <2>3. q * q <= (p - 1) * q /\ (p - 1) * q \in Nat /\ q * q \in Nat
    BY <1>4, <2>2, SquaresGrow
  <2>4. q * (p - 1) <= (p - 1) * (p - 1) /\ q * (p - 1) = (p - 1) * q /\ (p - 1) * (p - 1) \in Nat
    BY <1>4, <2>2, SquaresGrow
  <2>5. QED
    BY <1>2, <1>3, <1>4, <2>2, <2>3, <2>4
<1>6. QED
  BY <1>3, <1>4, <1>5 DEF ZcdpToDp, p, q, L

LEMMA ZcdpOfNothing == ZcdpToDp(0) = 0
<1>1. 0 * LogInvDelta = 0
  BY BudgetAssumption
<1>2. CeilSqrt(0) = 0
  BY CeilSqrtIs
<1>3. QED
  BY <1>1, <1>2 DEF ZcdpToDp

\* Without Gaussian mechanisms there is no rho.
LEMMA NoRho ==
  ASSUME NEW b, IsRecord(b), \A i \in DOMAIN b.queries : ~Gaussian(b.queries[i])
  PROVE  Measured("rho", b) = 0
<1> DEFINE m == Len(b.queries)
           w == Amounts("rho", b.queries)
           none == [i \in {} |-> 0]
<1>1. m \in Nat /\ DOMAIN b.queries = 1..m /\ \A i \in 1..m : w[i] = Amount("rho", b.queries[i])
  BY AmountsTyped DEF Measures
<1>2. PICK u : IsSum(u, w, m) /\ Measured("rho", b) = u[m]
  BY <1>1, MeasuredIsSum
<1>3. \A i \in 1..m : w[i] = 0
  BY <1>1 DEF Amount, RhoOf
<1> HIDE DEF w, m
<1>4. PICK z : IsSum(z, none, 0)
  BY SumExists
<1>5. z[0] = 0
  BY <1>4, SumIs
<1>6. Continues(w, none, 0, m, 0)
  BY <1>1, <1>3 DEF Continues
<1> HIDE DEF none
<1>7. u[0 + m] = z[0] + m * 0
  <2>1. 0 + m = m
    BY <1>1
  <2>2. IsSum(u, w, 0 + m) /\ z[0] \in Nat
    BY <1>2, <1>5, <2>1
  <2>3. QED
    BY <1>4, <1>6, <2>2, SumGrows
<1>8. QED
  BY <1>1, <1>2, <1>5, <1>7

\* What is composed is read off the measures, and grows with them.
LEMMA ComposedIs ==
  ASSUME NEW b, IsRecord(b)
  PROVE  ComposedEps(b) = IF Mode = "basic" THEN Measured("eps", b)
                          ELSE Measured("laplace", b) + ZcdpToDp(Measured("rho", b))
<1>1. CASE Mode = "basic"
  BY <1>1 DEF ComposedEps, Measured
<1>2. CASE Mode # "basic" /\ \E i \in DOMAIN b.queries : Gaussian(b.queries[i])
  BY <1>2 DEF ComposedEps, Measured
<1>3. CASE Mode # "basic" /\ ~\E i \in DOMAIN b.queries : Gaussian(b.queries[i])
  BY <1>3, NoRho, ZcdpOfNothing DEF ComposedEps, Measured
<1>4. QED
  BY <1>1, <1>2, <1>3

LEMMA ComposedGrows ==
  ASSUME NEW b, IsRecord(b), NEW c, IsRecord(c),
         \A k \in Measures : Measured(k, b) <= Measured(k, c)
  PROVE  ComposedEps(b) <= ComposedEps(c)
<1>1. \A k \in Measures : Measured(k, b) \in Nat /\ Measured(k, c) \in Nat
  BY MeasuredTyped
<1>2. ZcdpToDp(Measured("rho", b)) \in Nat /\ ZcdpToDp(Measured("rho", c)) \in Nat
      /\ ZcdpToDp(Measured("rho", b)) <= ZcdpToDp(Measured("rho", c))
  BY <1>1, ZcdpGrows DEF Measures
<1>3. QED
  BY <1>1, <1>2, ComposedIs DEF Measures

LEMMA ComposedTyped ==
  ASSUME NEW b, IsRecord(b)
  PROVE  ComposedEps(b) \in Nat
<1>1. \A k \in Measures : Measured(k, b) \in Nat
  BY MeasuredTyped
<1>2. ZcdpToDp(Measured("rho", b)) \in Nat
  BY <1>1, ZcdpGrows DEF Measures
<1>3. QED
  BY <1>1, <1>2, ComposedIs DEF Measures

-----------------------------------------------------------------------------
(* What is charged for a set of draws, as the size of a set: every draw      *)
(* contributes as many members as it was charged.                            *)

Lots(S, w) == {x \in S \X Nat : 1 <= x[2] /\ x[2] <= w[x[1]]}

LEMMA NoLots ==
  ASSUME NEW w
  PROVE  Cardinality(Lots({}, w)) = 0 /\ IsFiniteSet(Lots({}, w))
<1>1. Lots({}, w) = {}
  BY DEF Lots
<1>2. QED
  BY <1>1, FS_EmptySet

LEMMA LotsAgree ==
  ASSUME NEW S, NEW w, NEW v, \A d \in S : w[d] = v[d]
  PROVE  Lots(S, w) = Lots(S, v)
BY DEF Lots

LEMMA LotsAdd ==
  ASSUME NEW S, NEW w, IsFiniteSet(Lots(S, w)), NEW d, d \notin S, w[d] \in Nat
  PROVE  /\ IsFiniteSet(Lots(S \cup {d}, w))
         /\ Cardinality(Lots(S \cup {d}, w)) = Cardinality(Lots(S, w)) + w[d]
<1> DEFINE new == {d} \X (1..w[d])
<1>1. Lots(S \cup {d}, w) = Lots(S, w) \cup new /\ Lots(S, w) \cap new = {}
  BY DEF Lots
<1>2. IsFiniteSet(new) /\ Cardinality(new) = w[d]
  <2>1. IsFiniteSet({d}) /\ Cardinality({d}) = 1
    BY FS_Singleton
  <2>2. IsFiniteSet(1..w[d]) /\ Cardinality(1..w[d]) = w[d]
    BY FS_Interval
  <2>3. IsFiniteSet(new) /\ Cardinality(new) = 1 * w[d]
    BY <2>1, <2>2, FS_Product
  <2>4. QED
    BY <2>3
<1> HIDE DEF new
<1>3. /\ IsFiniteSet(Lots(S, w) \cup new)
      /\ Cardinality(Lots(S, w) \cup new)
           = Cardinality(Lots(S, w)) + Cardinality(new) - Cardinality(Lots(S, w) \cap new)
  BY <1>2, FS_Union
<1>4. Cardinality(Lots(S, w) \cap new) = 0
  BY <1>1, FS_EmptySet
<1>5. Cardinality(Lots(S, w)) \in Nat
  BY FS_CardinalityType
<1> DEFINE m == Cardinality(Lots(S, w))
           n == Cardinality(Lots(S, w) \cup new)
<1>6. n = m + w[d]
  <2>1. n = m + Cardinality(new) - Cardinality(Lots(S, w) \cap new)
    BY <1>3
  <2> HIDE DEF m, n
  <2>2. n = m + w[d] - 0
    BY <1>2, <1>4, <2>1
  <2>3. m \in Nat
    BY <1>5 DEF m
  <2>4. QED
    BY <2>2, <2>3
<1>7. QED
  BY <1>1, <1>3, <1>6

LEMMA LotsGrow ==
  ASSUME NEW S, NEW T, T \subseteq S, NEW w, IsFiniteSet(Lots(S, w))
  PROVE  IsFiniteSet(Lots(T, w)) /\ Cardinality(Lots(T, w)) <= Cardinality(Lots(S, w))
<1>1. Lots(T, w) \subseteq Lots(S, w)
  BY DEF Lots
<1>2. QED
  BY <1>1, FS_Subset

-----------------------------------------------------------------------------
(* The cost of a set of draws, as the fold of its charges.                   *)

MechOf(d) == LET op == ir[d[1]].steps[d[2]] IN Mechanism(op.mechanism, op.epsilon, op.delta)
CostStep(d, b) == Compose(b, MechOf(d), paid[d])
FoldOf(it, s) == LET d == CHOOSE x \in s : TRUE IN IF s = {} THEN Fresh ELSE CostStep(d, it[s \ {d}])
IsFold(it, S) == it = [s \in SUBSET S |-> FoldOf(it, s)]

\* The fold's recursion has a solution on a finite set.
LEMMA FoldExists ==
  ASSUME NEW S, IsFiniteSet(S)
  PROVE  \E it : IsFold(it, S)
<1> DEFINE Up(it, n) == \A s \in SUBSET S : Cardinality(s) <= n => it[s] = FoldOf(it, s)
           Reached == {n \in Nat : \E it : Up(it, n)}
<1>1. \A s \in SUBSET S : /\ IsFiniteSet(s) /\ Cardinality(s) \in Nat /\ Cardinality(s) <= Cardinality(S)
                          /\ Cardinality(s) = 0 <=> s = {}
  BY FS_Subset, FS_CardinalityType, FS_EmptySet
<1>2. \A s \in SUBSET S : s # {} =>
         LET d == CHOOSE x \in s : TRUE IN
         s \ {d} \in SUBSET S /\ Cardinality(s \ {d}) = Cardinality(s) - 1
  <2> SUFFICES ASSUME NEW s \in SUBSET S, s # {}, NEW d, d = CHOOSE x \in s : TRUE
               PROVE  s \ {d} \in SUBSET S /\ Cardinality(s \ {d}) = Cardinality(s) - 1
    OBVIOUS
  <2>1. d \in s
    OBVIOUS
  <2>2. QED
    BY <1>1, <2>1, FS_RemoveElement
<1>3. 0 \in Reached
  <2> DEFINE it == [s \in SUBSET S |-> Fresh]
  <2>1. Up(it, 0)
    BY <1>1 DEF FoldOf
  <2>2. QED
    BY <2>1
<1>4. ASSUME NEW n \in Nat, n \in Reached
      PROVE  n + 1 \in Reached
  <2>1. PICK it : Up(it, n)
    BY <1>4
  <2> DEFINE up == [s \in SUBSET S |-> IF Cardinality(s) = n + 1 THEN FoldOf(it, s) ELSE it[s]]
  <2>2. ASSUME NEW s \in SUBSET S, Cardinality(s) <= n + 1
        PROVE  up[s] = FoldOf(up, s)
    <3> DEFINE d == CHOOSE x \in s : TRUE
    <3>1. up[s] = FoldOf(it, s)
      BY <1>1, <2>1, <2>2
    <3>2. CASE s = {}
      BY <3>1, <3>2 DEF FoldOf
    <3>3. CASE s # {}
      <4>1. s \ {d} \in SUBSET S /\ Cardinality(s \ {d}) <= n /\ Cardinality(s \ {d}) # n + 1
        BY <1>1, <1>2, <2>2, <3>3
      <4>2. up[s \ {d}] = it[s \ {d}]
        BY <4>1
      <4> HIDE DEF up
      <4>3. FoldOf(up, s) = CostStep(d, up[s \ {d}]) /\ FoldOf(it, s) = CostStep(d, it[s \ {d}])
        BY <3>3 DEF FoldOf
      <4>4. QED
        BY <3>1, <4>2, <4>3
    <3>4. QED
      BY <3>2, <3>3
  <2> HIDE DEF up
  <2>3. Up(up, n + 1)
    BY <2>2
  <2>4. QED
    BY <2>3
<1>5. Cardinality(S) \in Reached
  <2> HIDE DEF Reached
  <2>1. Nat \subseteq Reached
    BY <1>3, <1>4, Induction
  <2>2. QED
    BY <2>1, FS_CardinalityType
<1>6. PICK it : Up(it, Cardinality(S))
  BY <1>5
<1> DEFINE whole == [s \in SUBSET S |-> it[s]]
<1>7. ASSUME NEW s \in SUBSET S
      PROVE  whole[s] = FoldOf(whole, s)
  <2> DEFINE d == CHOOSE x \in s : TRUE
  <2>1. whole[s] = FoldOf(it, s)
    BY <1>1, <1>6
  <2>2. whole[s \ {d}] = it[s \ {d}]
    OBVIOUS
  <2> HIDE DEF whole
  <2>3. QED
    BY <2>1, <2>2 DEF FoldOf
<1>8. IsFold(whole, S)
  BY <1>7 DEF IsFold
<1>9. QED
  BY <1>8

\* The cost of finitely many draws is what their fold composes.
LEMMA CostIs ==
  ASSUME NEW S, IsFiniteSet(S)
  PROVE  \E it : IsFold(it, S) /\ Cost(S) = ComposedEps(it[S])
<1>1. \E it : IsFold(it, S)
  BY FoldExists
<1>2. QED
  BY <1>1 DEF Cost, FoldSet, MapThenFoldSet, IsFold, FoldOf, CostStep, MechOf

\* The draws of S were charged by known mechanisms.
Priced(S) == S \subseteq DOMAIN paid /\ IsFiniteSet(S) /\ \A d \in S : paid[d] \in Nat /\ Charged(MechOf(d))
Prices(k) == [d \in DOMAIN paid |-> paid[d] * Amount(k, MechOf(d))]

LEMMA FreshRecord == IsRecord(Fresh) /\ \A k \in Measures : Measured(k, Fresh) = 0
<1>1. IsRecord(Fresh) /\ Fresh.queries = <<>> /\ Fresh.eps = 0 /\ Len(Fresh.queries) = 0
  BY DEF IsRecord, Fresh
<1>2. ASSUME NEW k \in {"laplace", "rho"}
      PROVE  Measured(k, Fresh) = 0
  <2>1. PICK u : IsSum(u, Amounts(k, Fresh.queries), 0) /\ Measured(k, Fresh) = u[0]
    BY <1>1, MeasuredIsSum
  <2>2. QED
    BY <2>1, SumIs
<1>3. QED
  BY <1>1, <1>2 DEF Measures, Measured

\* The fold of the charges measures what the lots of the draws amount to.
LEMMA FoldMeasures ==
  ASSUME NEW S, Priced(S), NEW it, IsFold(it, S)
  PROVE  /\ IsRecord(it[S])
         /\ \A k \in Measures : Measured(k, it[S]) = Cardinality(Lots(S, Prices(k)))
<1> DEFINE Holds(s) == /\ IsRecord(it[s])
                       /\ \A k \in Measures : /\ IsFiniteSet(Lots(s, Prices(k)))
                                              /\ Measured(k, it[s]) = Cardinality(Lots(s, Prices(k)))
           Reached == {n \in Nat : \A s \in SUBSET S : Cardinality(s) = n => Holds(s)}
<1>1. \A s \in SUBSET S : IsFiniteSet(s) /\ Cardinality(s) \in Nat /\ (Cardinality(s) = 0 <=> s = {})
  BY FS_Subset, FS_CardinalityType, FS_EmptySet DEF Priced
<1>2. \A s \in SUBSET S : it[s] = FoldOf(it, s)
  BY DEF IsFold
<1>3. 0 \in Reached
  <2>1. it[{}] = Fresh
    BY <1>2 DEF FoldOf
  <2>2. Holds({})
    BY <2>1, FreshRecord, NoLots
  <2>3. QED
    BY <1>1, <2>2
<1>4. ASSUME NEW n \in Nat, n \in Reached
      PROVE  n + 1 \in Reached
  <2> SUFFICES ASSUME NEW s \in SUBSET S, Cardinality(s) = n + 1
               PROVE  Holds(s)
    OBVIOUS
  <2> DEFINE d == CHOOSE x \in s : TRUE
             r == s \ {d}
  <2>1. d \in s /\ s # {}
    BY <1>1
  <2>2. r \in SUBSET S /\ Cardinality(r) = n /\ s = r \cup {d} /\ d \notin r
    <3> HIDE DEF d
    <3>1. IsFiniteSet(s)
      BY <1>1
    <3>2. Cardinality(s \ {d}) = Cardinality(s) - 1
      BY <2>1, <3>1, FS_RemoveElement
    <3>3. QED
      BY <2>1, <3>2
  <2>3. Holds(r)
    BY <1>4, <2>2
  <2>4. it[s] = Compose(it[r], MechOf(d), paid[d])
    BY <1>2, <2>1 DEF FoldOf, CostStep
  <2>5. paid[d] \in Nat /\ Charged(MechOf(d)) /\ d \in DOMAIN paid
    BY <2>1 DEF Priced
  <2> HIDE DEF d, r
  <2>6. /\ IsRecord(it[s])
        /\ \A k \in Measures : Measured(k, it[s]) = Measured(k, it[r]) + paid[d] * Amount(k, MechOf(d))
    BY <2>3, <2>4, <2>5, ComposeAdds
  <2>7. ASSUME NEW k \in Measures
        PROVE  /\ IsFiniteSet(Lots(s, Prices(k)))
               /\ Measured(k, it[s]) = Cardinality(Lots(s, Prices(k)))
    <3>1. Prices(k)[d] = paid[d] * Amount(k, MechOf(d))
      BY <2>5 DEF Prices
    <3>2. Amount(k, MechOf(d)) \in Nat
      BY <2>5, AmountTyped
    <3>3. Prices(k)[d] \in Nat
      BY <2>5, <3>1, <3>2
    <3> DEFINE w == Prices(k)
    <3>4. IsFiniteSet(Lots(r, w))
      BY <2>3
    <3> HIDE DEF w
    <3>5. /\ IsFiniteSet(Lots(r \cup {d}, w))
          /\ Cardinality(Lots(r \cup {d}, w)) = Cardinality(Lots(r, w)) + w[d]
      BY <2>2, <3>3, <3>4, LotsAdd DEF w
    <3>6. Measured(k, it[r]) = Cardinality(Lots(r, w))
      BY <2>3 DEF w
    <3>7. QED
      BY <2>2, <2>6, <3>1, <3>5, <3>6 DEF w
  <2>8. QED
    BY <2>6, <2>7
<1>5. Cardinality(S) \in Reached
  <2> HIDE DEF Reached
  <2>1. Nat \subseteq Reached
    BY <1>3, <1>4, Induction
  <2>2. QED
    BY <2>1, FS_CardinalityType DEF Priced
<1>6. QED
  BY <1>5

-----------------------------------------------------------------------------
(* The budget has composed what the draws were charged.                      *)

ChargeInv ==
  /\ IsRecord(budget) /\ Priced(DOMAIN paid)
  /\ \A k \in Measures : /\ IsFiniteSet(Lots(DOMAIN paid, Prices(k)))
                         /\ Measured(k, budget) = Cardinality(Lots(DOMAIN paid, Prices(k)))
  /\ phase \in Early \cup {"optimize", "declare"} => paid = <<>>

\* Only withDp spends.
LEMMA PaidStep ==
  ASSUME [Next]_vars
  PROVE  UNCHANGED <<budget, paid>> \/ (EngineStep /\ DpStep)
<1>1. CASE EngineStep
  <2>1. \A next : ResolveStep(next) => UNCHANGED <<budget, paid>>
    BY DEF ResolveStep, privacy
  <2>2. Resolved \/ Check \/ PolicyGate \/ Optimize \/ DeclareModels \/ StartNode \/ DataStep
          => UNCHANGED <<budget, paid>>
    BY DEF Resolved, Check, PolicyGate, Optimize, DeclareModels, StartNode, DataStep, privacy
  <2>3. TrainStep \/ PredictStep \/ ChartStep \/ SaveStep \/ SaveRows \/ EndNode \/ EndRun \/ SaveOutput \/ ReportRun
          => UNCHANGED <<budget, paid>>
    BY DEF TrainStep, PredictStep, ChartStep, SaveStep, SaveRows, EndNode, EndRun, SaveOutput, ReportRun, privacy
  <2>4. QED
    BY <1>1, <2>1, <2>2, <2>3 DEF EngineStep, EngineNext, KeepStatement, Import, CloseModule
<1>2. CASE ~EngineStep
  BY <1>2 DEF Next, Watch, vars, EngineCrash, Tick, Gate, PollEnded, PollRunning, Wake, PollFails, Kill,
     engineVars, privacy
<1>3. QED
  BY <1>1, <1>2

\* The program is settled before the first draw, and none is drawn before.
LEMMA ProgramStep ==
  ASSUME [Next]_vars
  PROVE  /\ UNCHANGED ir \/ phase \in {"check", "optimize"}
         /\ phase' \in Early \cup {"optimize", "declare"} => phase \in Early \cup {"optimize", "declare"}
<1> USE DEF Early
<1>1. CASE EngineStep
  <2>1. \A next : ResolveStep(next) => UNCHANGED <<ir, phase>>
    BY DEF ResolveStep, progress
  <2>2. Resolved \/ PolicyGate \/ DeclareModels
          => UNCHANGED ir /\ phase \in Early \cup {"declare"}
    BY DEF Resolved, PolicyGate, DeclareModels, compiled
  <2>3. Check \/ Optimize => phase \in {"check", "optimize"}
    BY DEF Check, Optimize
  <2>4. StartNode \/ DataStep \/ TrainStep \/ PredictStep \/ ChartStep \/ DpStep
          => UNCHANGED ir /\ phase' \in {"run", "failed"}
    BY DEF StartNode, DataStep, TrainStep, PredictStep, ChartStep, DpStep, At, AtStep, Running, Load,
       AbortOr, Abort, Continue, NextNode, compiled
  <2>5. SaveStep \/ SaveRows \/ EndNode \/ EndRun \/ SaveOutput \/ ReportRun
          => UNCHANGED ir /\ phase' \in {"run", "saving", "output", "report", "done", "failed"}
    BY DEF SaveRows, EndNode, NextNode, Running, SaveStep, EndRun, SaveOutput, ReportRun, Enter, Abort, compiled
  <2>6. QED
    BY <1>1, <2>1, <2>2, <2>3, <2>4, <2>5 DEF EngineStep, EngineNext, KeepStatement, Import, CloseModule
<1>2. CASE ~EngineStep
  BY <1>2 DEF Next, Watch, vars, EngineCrash, Tick, Gate, PollEnded, PollRunning, Wake, PollFails, Kill,
     engineVars, progress, compiled, EngineEnded
<1>3. QED
  BY <1>1, <1>2

\* A granted charge composes one mechanism for every noised column.
LEMMA GrantIs ==
  ASSUME NEW b, NEW m, NEW eps, NEW delta, NEW count \in Nat, count # 0, SpendN(b, m, eps, delta, count).ok
  PROVE  /\ eps \in Nat
         /\ \E d : SpendN(b, m, eps, delta, count).budget = Compose(b, Mechanism(m, eps, d), count)
BY DEF SpendN, Positive

LEMMA AmountOf ==
  ASSUME NEW m, NEW eps, NEW d, NEW e
  PROVE  /\ Mechanism(m, eps, d).eps = eps
         /\ \A k : Amount(k, Mechanism(m, eps, d)) = Amount(k, Mechanism(m, eps, e))
BY DEF Mechanism, Amount, LaplaceEps, RhoOf, Gaussian

\* Columns that are noised are counted.
LEMMA CountIs ==
  ASSUME NEW f, WellFormed(f), NumericNames(f) # {}
  PROVE  NoisedColumns(f) \in Nat /\ NoisedColumns(f) # 0
BY ColumnsFinite, FS_EmptySet DEF NoisedColumns

\* A granted charge adds its lots to the record and to the draws alike.
LEMMA ChargeKeeps ==
  ASSUME NoiseInv, ChargeInv, DpStep
  PROVE  ChargeInv'
<1> DEFINE f     == cur.frame
           count == NoisedColumns(f)
           spend == SpendN(budget, Op.mechanism, Op.epsilon, Op.delta, count)
           q     == MechOf(Draw)
<1>1. phase = "run" /\ phase' \in {"run", "failed"} /\ UNCHANGED ir /\ step # 0
  <2>1. AtStep
    BY DEF DpStep, At
  <2>2. phase = "run" /\ step # 0
    BY <2>1 DEF AtStep, Running
  <2>3. UNCHANGED ir /\ (phase' = "failed" \/ UNCHANGED phase)
    BY DEF DpStep, Abort, Continue, compiled
  <2>4. QED
    BY <2>2, <2>3
<1>2. \/ UNCHANGED <<budget, paid>>
      \/ ~spend.ok /\ budget' = spend.budget /\ UNCHANGED paid
      \/ /\ spend.ok /\ budget' = spend.budget /\ NumericNames(f) # {}
         /\ paid' = Bind(paid, Draw, Len(spend.budget.queries) - Len(budget.queries))
  BY DEF DpStep, privacy
<1>3. ~spend.ok => spend.budget = budget
  BY DEF SpendN
<1>4. CASE UNCHANGED <<budget, paid>>
  BY <1>1, <1>4 DEF ChargeInv, Priced, Prices, MechOf, Early
<1>5. ASSUME spend.ok, budget' = spend.budget, NumericNames(f) # {},
             paid' = Bind(paid, Draw, Len(spend.budget.queries) - Len(budget.queries))
      PROVE  ChargeInv'
  <2>1. WellFormed(f)
    BY <1>1 DEF NoiseInv, Sound
  <2>2. count \in Nat /\ count # 0
    BY <1>5, <2>1, CountIs
  <2>3. Len(spend.budget.queries) - Len(budget.queries) = count
    <3> DEFINE S == ToSet(budget.queries)
    <3>1. Within(budget) /\ budget.queries \in Seq(S)
      BY DEF NoiseInv, BudgetInv
    <3> HIDE DEF count, S
    <3>2. QED
      BY <1>5, <2>2, <3>1, SpendIs
  <2>4. paid' = Bind(paid, Draw, count)
    BY <1>5, <2>3
  <2> HIDE DEF count
  <2>5. PICK d : Op.epsilon \in Nat /\ budget' = Compose(budget, Mechanism(Op.mechanism, Op.epsilon, d), count)
    BY <1>5, <2>2, GrantIs
  <2> DEFINE r == Mechanism(Op.mechanism, Op.epsilon, d)
  <2>6. q = Mechanism(Op.mechanism, Op.epsilon, Op.delta)
    BY DEF MechOf, Draw, Op, Node
  <2>7. Charged(q) /\ Charged(r) /\ \A k : Amount(k, r) = Amount(k, q)
    BY <2>5, <2>6, AmountOf DEF Charged
  <2>8. budget' = Compose(budget, r, count)
    BY <2>5
  <2> HIDE DEF q, r, spend
  <2>9. /\ IsRecord(budget')
        /\ \A k \in Measures : Measured(k, budget)' = Measured(k, budget) + count * Amount(k, q)
    <3>1. IsRecord(budget)
      BY DEF ChargeInv
    <3>2. /\ IsRecord(Compose(budget, r, count))
          /\ \A k \in Measures : Measured(k, Compose(budget, r, count)) = Measured(k, budget) + count * Amount(k, r)
      BY <2>2, <2>7, <3>1, ComposeAdds
    <3>3. \A k : Measured(k, budget)' = Measured(k, budget')
      BY DEF Measured, Total
    <3>4. QED
      BY <2>7, <2>8, <3>2, <3>3
  <2>10. /\ DOMAIN paid' = DOMAIN paid \cup {Draw} /\ Draw \notin DOMAIN paid /\ paid'[Draw] = count
         /\ \A x \in DOMAIN paid : paid'[x] = paid[x]
    BY <2>4, DrawIsNew DEF Bind
  <2>11. \A x : MechOf(x)' = MechOf(x)
    BY <1>1 DEF MechOf
  <2>12. Priced(DOMAIN paid)'
    <3>1. Priced(DOMAIN paid)
      BY DEF ChargeInv
    <3>2. IsFiniteSet(DOMAIN paid')
      BY <2>10, <3>1, FS_AddElement DEF Priced
    <3>3. \A x \in DOMAIN paid' : paid'[x] \in Nat /\ Charged(MechOf(x))
      BY <2>2, <2>7, <2>10, <3>1 DEF Priced, q
    <3>4. QED
      BY <2>11, <3>2, <3>3 DEF Priced, Charged
  <2>13. ASSUME NEW k \in Measures
         PROVE  /\ IsFiniteSet(Lots(DOMAIN paid, Prices(k)))'
                /\ Measured(k, budget)' = Cardinality(Lots(DOMAIN paid, Prices(k)))'
    <3> DEFINE w == Prices(k)
               v == Prices(k)'
    <3>1. v = [x \in DOMAIN paid' |-> paid'[x] * Amount(k, MechOf(x))]
      BY <2>11 DEF Prices, Amount, LaplaceEps, RhoOf, GaussianRho, Gaussian
    <3>2. /\ \A x \in DOMAIN paid : v[x] = w[x]
          /\ v[Draw] = count * Amount(k, q)
      BY <2>10, <3>1 DEF Prices, q
    <3>3. count * Amount(k, q) \in Nat
      BY <2>2, <2>7, AmountTyped
    <3> HIDE DEF v, w
    <3>4. Lots(DOMAIN paid, v) = Lots(DOMAIN paid, w)
      BY <3>2, LotsAgree
    <3>5. /\ IsFiniteSet(Lots(DOMAIN paid, w))
          /\ Measured(k, budget) = Cardinality(Lots(DOMAIN paid, w))
      BY DEF ChargeInv, w
    <3>6. /\ IsFiniteSet(Lots(DOMAIN paid \cup {Draw}, v))
          /\ Cardinality(Lots(DOMAIN paid \cup {Draw}, v)) = Cardinality(Lots(DOMAIN paid, v)) + v[Draw]
      <4>1. IsFiniteSet(Lots(DOMAIN paid, v)) /\ v[Draw] \in Nat /\ Draw \notin DOMAIN paid
        BY <2>10, <3>2, <3>3, <3>4, <3>5
      <4>2. QED
        BY <4>1, LotsAdd
    <3>7. Lots(DOMAIN paid, Prices(k))' = Lots(DOMAIN paid \cup {Draw}, v)
      BY <2>10 DEF Lots, v
    <3>8. QED
      BY <2>9, <3>2, <3>4, <3>5, <3>6, <3>7
  <2>14. QED
    BY <1>1, <2>9, <2>12, <2>13 DEF ChargeInv, IsRecord, Charged, Early
<1>6. QED
  BY <1>2, <1>3, <1>4, <1>5

LEMMA ChargeStep ==
  ASSUME NoiseInv, ChargeInv, [Next]_vars
  PROVE  ChargeInv'
<1>1. CASE EngineStep /\ DpStep
  BY <1>1, ChargeKeeps
<1>2. CASE UNCHANGED <<budget, paid>>
  <2>1. CASE UNCHANGED ir
    BY <1>2, <2>1, ProgramStep DEF ChargeInv, Priced, Prices, MechOf
  <2>2. CASE phase \in {"check", "optimize"}
    <3>1. DOMAIN paid = {} /\ paid = <<>>
      BY <2>2 DEF ChargeInv, Early
    <3>2. Priced(DOMAIN paid)' /\ \A k \in Measures : Prices(k)' = Prices(k)
      BY <1>2, <3>1 DEF ChargeInv, Priced, Prices
    <3>3. QED
      BY <1>2, <3>1, <3>2 DEF ChargeInv
  <2>3. QED
    BY <2>1, <2>2, ProgramStep
<1>3. QED
  BY <1>1, <1>2, PaidStep

LEMMA ChargeInit ==
  ASSUME Init
  PROVE  ChargeInv
<1>1. budget = Fresh /\ paid = <<>> /\ DOMAIN paid = {}
  BY DEF Init, EngineInit
<1>2. \A k \in Measures : /\ IsFiniteSet(Lots(DOMAIN paid, Prices(k)))
                          /\ Cardinality(Lots(DOMAIN paid, Prices(k))) = 0
  BY <1>1, NoLots
<1>3. Priced(DOMAIN paid)
  BY <1>1, FS_EmptySet DEF Priced
<1>4. QED
  BY <1>1, <1>2, <1>3, FreshRecord DEF ChargeInv

\* No part of the charged draws costs more than all that was charged.
LEMMA CostBound ==
  ASSUME ChargeInv, NEW S, S \subseteq DOMAIN paid
  PROVE  Cost(S) <= ComposedEps(budget)
<1>1. Priced(S)
  BY FS_Subset DEF ChargeInv, Priced
<1>2. PICK it : IsFold(it, S) /\ Cost(S) = ComposedEps(it[S])
  BY <1>1, CostIs DEF Priced
<1>3. IsRecord(it[S]) /\ \A k \in Measures : Measured(k, it[S]) = Cardinality(Lots(S, Prices(k)))
  BY <1>1, <1>2, FoldMeasures
<1>4. \A k \in Measures : Measured(k, it[S]) <= Measured(k, budget)
  BY <1>3, LotsGrow DEF ChargeInv
<1>5. QED
  BY <1>2, <1>3, <1>4, ComposedGrows DEF ChargeInv

-----------------------------------------------------------------------------
(* The answer.                                                               *)

\* The markers stay, and none that the answer is read from is added.
Plain == {"diagnostics", "policy", "model", "sweep", "train", "predict", "chart"}
MarkersKept ==
  /\ MarkersTyped'
  /\ \A i \in DOMAIN markers : i \in DOMAIN markers' /\ markers'[i] = markers[i]
  /\ \A i \in DOMAIN markers' : i \in DOMAIN markers \/ markers'[i].k \in Plain

LEMMA EmitKeeps ==
  ASSUME MarkersTyped, NEW kinds \in Seq(Plain), Emit(kinds)
  PROVE  MarkersKept
<1>1. /\ MarkersTyped'
      /\ \A i \in DOMAIN markers' : \/ i \in DOMAIN markers
                                    \/ \E j \in DOMAIN kinds : markers'[i].k = kinds[j]
      /\ \A i \in DOMAIN markers : i \in DOMAIN markers' /\ markers'[i] = markers[i]
  BY EmitIs
<1>2. \A j \in DOMAIN kinds : kinds[j] \in Plain
  BY LenProperties
<1>3. QED
  BY <1>1, <1>2 DEF MarkersKept

LEMMA SilentKeeps ==
  ASSUME MarkersTyped, UNCHANGED markers
  PROVE  MarkersKept
BY DEF MarkersKept, MarkersTyped

LEMMA PlacesStay ==
  ASSUME MarkersKept
  PROVE  /\ Places("dp")' = Places("dp") /\ Places("result")' = Places("result")
         /\ \A i \in Places("dp") \cup Places("result") : markers'[i] = markers[i]
<1>1. "dp" \notin Plain /\ "result" \notin Plain
  BY DEF Plain
<1>2. QED
  BY <1>1 DEF MarkersKept, Places

\* Only withDp and the final report emit a marker that the answer is read from.
LEMMA MarkersStep ==
  ASSUME MarkersTyped, [Next]_vars
  PROVE  MarkersKept \/ (EngineStep /\ (DpStep \/ ReportRun))
<1>1. CASE UNCHANGED engineVars \/ EngineCrash \/ Kill
  BY <1>1, SilentKeeps DEF EngineCrash, Kill, engineVars, outside
<1>2. ASSUME NEW next, ResolveStep(next)
      PROVE  MarkersKept
  BY <1>2, SilentKeeps DEF ResolveStep, outside
<1>3. CASE Resolved \/ Optimize \/ StartNode \/ DataStep
  BY <1>3, SilentKeeps DEF Resolved, Optimize, StartNode, DataStep, outside
<1>4. CASE SaveStep \/ SaveRows \/ EndNode \/ EndRun \/ SaveOutput
  BY <1>4, SilentKeeps DEF SaveStep, SaveRows, EndNode, EndRun, SaveOutput, outside
<1>5. CASE Check \/ PolicyGate \/ DeclareModels
  <2>1. <<"diagnostics">> \in Seq(Plain) /\ <<"policy">> \in Seq(Plain) /\ <<"model">> \in Seq(Plain)
        /\ <<>> \in Seq(Plain)
    BY DEF Plain
  <2>2. Emit(<<"diagnostics">>) \/ Emit(<<"policy">>) \/ Emit(<<"model">>) \/ Emit(<<>>) \/ UNCHANGED markers
    BY <1>5 DEF Check, PolicyGate, DeclareModels, Silent
  <2>3. QED
    BY <2>1, <2>2, EmitKeeps, SilentKeeps
<1>6. CASE TrainStep \/ PredictStep \/ ChartStep
  <2>1. <<"sweep", "train">> \in Seq(Plain) /\ <<"train">> \in Seq(Plain) /\ <<"predict">> \in Seq(Plain)
        /\ <<"chart">> \in Seq(Plain)
    BY DEF Plain
  <2>2. \/ Emit(<<"sweep", "train">>) \/ Emit(<<"train">>) \/ Emit(<<"predict">>) \/ Emit(<<"chart">>)
        \/ UNCHANGED markers
    BY <1>6 DEF TrainStep, PredictStep, ChartStep, Silent, outside
  <2>3. QED
    BY <2>1, <2>2, EmitKeeps, SilentKeeps
<1>7. CASE EngineStep
  BY <1>2, <1>3, <1>4, <1>5, <1>6, <1>7 DEF EngineStep, EngineNext, KeepStatement, Import, CloseModule
<1>8. CASE Tick \/ Gate \/ PollEnded \/ PollRunning \/ Wake \/ PollFails
  BY <1>1, <1>8 DEF Tick, Gate, PollEnded, PollRunning, Wake, PollFails
<1>9. QED
  BY <1>1, <1>7, <1>8 DEF Next, Watch, vars

LEMMA MaxIs ==
  ASSUME NEW S, S \subseteq Int, NEW n \in S, \A i \in S : n >= i
  PROVE  Max(S) = n
<1>1. ASSUME NEW x \in S, \A y \in S : x >= y
      PROVE  x = n
  BY <1>1
<1>2. QED
  BY <1>1 DEF Max

\* The last step of the process reports the last variable, if there is one.
LEMMA ReportIs ==
  ASSUME MarkersTyped, Places("result") = {}, ReportRun
  PROVE  /\ MarkersTyped' /\ Places("dp")' = Places("dp")
         /\ \A i \in Places("dp") : markers'[i] = markers[i]
         /\ \/ Places("result")' = {} /\ last = Null
            \/ \E n \in Int : /\ Places("result")' = {n} /\ last # Null
                              /\ markers'[n].v = table[last]
<1> DEFINE timing == Marker("timing", Null)
           timed  == Append(markers, timing)
           result == Marker("result", table[last])
           full   == Append(timed, result)
<1>1. timing.k = "timing" /\ result.k = "result" /\ result.v = table[last]
  BY DEF Marker
<1>2. markers' = IF HasResult THEN full ELSE timed
  BY DEF ReportRun
<1> HIDE DEF timing, timed, result, full
<1>3. /\ timed \in Seq(ToSet(timed))
      /\ DOMAIN timed = DOMAIN markers \cup {Len(markers) + 1}
      /\ DOMAIN markers = 1..Len(markers) /\ Len(markers) \in Nat
      /\ \A i \in DOMAIN markers : timed[i] = markers[i]
      /\ timed[Len(markers) + 1] = timing
  BY AppendIs DEF MarkersTyped, timed
<1>4. /\ full \in Seq(ToSet(full))
      /\ DOMAIN full = DOMAIN timed \cup {Len(timed) + 1}
      /\ DOMAIN timed = 1..Len(timed) /\ Len(timed) \in Nat
      /\ \A i \in DOMAIN timed : full[i] = timed[i]
      /\ full[Len(timed) + 1] = result
  BY <1>3, AppendIs DEF full
<1>5. MarkersTyped'
  BY <1>2, <1>3, <1>4 DEF MarkersTyped
<1>6. \A i \in DOMAIN markers : i \in DOMAIN markers' /\ markers'[i] = markers[i]
  BY <1>2, <1>3, <1>4
<1>7. \A i \in DOMAIN timed : i \in DOMAIN markers \/ (timed[i].k # "dp" /\ timed[i].k # "result")
  BY <1>1, <1>3
<1>8. Places("dp")' = Places("dp")
  BY <1>1, <1>2, <1>4, <1>6, <1>7 DEF Places
<1>9. \A i \in DOMAIN timed : timed[i].k # "result"
  BY <1>3, <1>7 DEF Places
<1>10. CASE ~HasResult
  <2>1. Places("result")' = {} /\ last = Null
    BY <1>2, <1>9, <1>10 DEF Places, HasResult
  <2>2. QED
    BY <1>5, <1>6, <1>8, <2>1 DEF Places
<1>11. CASE HasResult
  <2> DEFINE n == Len(timed) + 1
  <2>1. Places("result")' = {n} /\ n \in Int /\ last # Null /\ markers'[n].v = table[last]
    BY <1>1, <1>2, <1>4, <1>9, <1>11 DEF Places, HasResult
  <2> HIDE DEF n
  <2>2. QED
    BY <1>5, <1>6, <1>8, <2>1 DEF Places
<1>12. QED
  BY <1>10, <1>11

\* The last [xazz:dp] marker says what the budget has spent; the result is the
\* frame of the last variable and is reported at the end only.
BillInv ==
  \/ Places("dp") = {} /\ budget = Fresh
  \/ \E n \in Places("dp") : /\ \A i \in Places("dp") : n >= i
                             /\ markers[n].v.spent = ComposedEps(budget)
ResultInv ==
  \/ Places("result") = {} /\ (phase = "done" => last = Null)
  \/ /\ phase = "done" /\ last # Null
     /\ \E n \in Int : Places("result") = {n} /\ markers[n].v = table[last]
MarkersInv == MarkersTyped /\ BillInv /\ ResultInv

LEMMA EndedStays ==
  ASSUME [Next]_vars, EngineEnded
  PROVE  UNCHANGED engineVars
<1> USE DEF EngineEnded
<1>1. ~EngineStep
  BY DEF EngineStep, EngineNext, KeepStatement, Import, CloseModule, ResolveStep, Resolved, Check, PolicyGate,
     Optimize, DeclareModels, StartNode, DataStep, TrainStep, PredictStep, ChartStep, DpStep, SaveStep,
     SaveRows, EndNode, EndRun, SaveOutput, ReportRun, At, AtStep, Running
<1>2. QED
  BY <1>1 DEF Next, Watch, vars, EngineCrash, Tick, Gate, PollEnded, PollRunning, Wake, PollFails, Kill,
     engineVars, progress

\* Where a step of the process can lead.
LEMMA PhaseStep ==
  ASSUME [Next]_vars
  PROVE  /\ phase' = "done" => phase = "done" \/ (EngineStep /\ ReportRun)
         /\ phase' = "report" => phase = "report" \/ (EngineStep /\ (EndRun \/ SaveOutput))
         /\ phase' = "saving" => phase = "saving" \/ (EngineStep /\ SaveStep)
         /\ phase' = "output" => phase = "output" \/ (EngineStep /\ EndRun)
<1>1. CASE EngineStep
  <2>1. \A next : ResolveStep(next) => UNCHANGED phase
    BY DEF ResolveStep, progress
  <2>2. Resolved \/ Check \/ PolicyGate \/ Optimize \/ DeclareModels
          => phase' \in {"check", "policy", "optimize", "declare", "run", "failed"}
    BY DEF Resolved, Check, PolicyGate, Optimize, DeclareModels, Enter, Abort
  <2>3. StartNode \/ DataStep \/ TrainStep \/ PredictStep \/ ChartStep \/ DpStep
          => phase' \in {"run", "failed"}
    BY DEF StartNode, DataStep, TrainStep, PredictStep, ChartStep, DpStep, At, AtStep, Running, Load,
       AbortOr, Abort, Continue, NextNode
  <2>4. /\ SaveRows \/ EndNode => phase' = "run"
        /\ SaveStep => phase' \in {"saving", "failed"}
        /\ EndRun => phase' \in {"output", "report", "failed"}
        /\ SaveOutput => phase' = "report"
        /\ ReportRun => phase' = "done"
    BY DEF SaveRows, EndNode, NextNode, Running, SaveStep, EndRun, SaveOutput, ReportRun, Enter, Abort
  <2>5. QED
    BY <1>1, <2>1, <2>2, <2>3, <2>4 DEF EngineStep, EngineNext, KeepStatement, Import, CloseModule
<1>2. CASE ~EngineStep
  BY <1>2 DEF Next, Watch, vars, EngineCrash, Tick, Gate, PollEnded, PollRunning, Wake, PollFails, Kill,
     engineVars, progress
<1>3. QED
  BY <1>1, <1>2

\* A charge that is granted is told.
LEMMA DpMarkerIs ==
  ASSUME MarkersTyped, BillInv, DpStep
  PROVE  MarkersTyped' /\ BillInv' /\ Places("result")' = Places("result")
<1> DEFINE spend == SpendN(budget, Op.mechanism, Op.epsilon, Op.delta, NoisedColumns(cur.frame))
           m     == Marker("dp", Spending(budget'))
           new   == Append(markers, m)
<1>1. \/ UNCHANGED <<budget, markers>>
      \/ ~spend.ok /\ budget' = spend.budget /\ UNCHANGED markers
      \/ markers' = new
  BY DEF DpStep, Silent, privacy
<1>2. ~spend.ok => spend.budget = budget
  BY DEF SpendN
<1>3. m.k = "dp" /\ m.v.spent = ComposedEps(budget')
  BY DEF Marker, Spending
<1> HIDE DEF spend, m, new
<1>4. CASE UNCHANGED <<budget, markers>>
  BY <1>4 DEF MarkersTyped, BillInv, Places
<1>5. CASE markers' = new
  <2>1. /\ new \in Seq(ToSet(new))
        /\ DOMAIN new = DOMAIN markers \cup {Len(markers) + 1}
        /\ DOMAIN markers = 1..Len(markers) /\ Len(markers) \in Nat
        /\ \A i \in DOMAIN markers : new[i] = markers[i]
        /\ new[Len(markers) + 1] = m
    BY AppendIs DEF MarkersTyped, new
  <2> DEFINE n == Len(markers) + 1
  <2>2. n \in Places("dp")' /\ \A i \in Places("dp")' : n >= i
    BY <1>3, <1>5, <2>1 DEF Places
  <2>3. markers'[n].v.spent = ComposedEps(budget')
    BY <1>3, <1>5, <2>1
  <2>4. Places("result")' = Places("result")
    BY <1>3, <1>5, <2>1 DEF Places
  <2> HIDE DEF n
  <2>5. BillInv'
    BY <2>2, <2>3 DEF BillInv
  <2>6. QED
    BY <1>5, <2>1, <2>4, <2>5 DEF MarkersTyped
<1>6. QED
  BY <1>1, <1>2, <1>4, <1>5

LEMMA MarkersInvStep ==
  ASSUME MarkersInv, [Next]_vars
  PROVE  MarkersInv'
<1>1. CASE EngineEnded
  BY <1>1, EndedStays DEF MarkersInv, MarkersTyped, BillInv, ResultInv, Places,
     engineVars, progress, memory, privacy, outside
<1>2. CASE ~EngineEnded /\ EngineStep /\ ReportRun
  <2>1. phase # "done" /\ phase' = "done" /\ UNCHANGED <<table, last, budget>>
    BY <1>2 DEF EngineEnded, ReportRun, Enter, memory, privacy
  <2>2. Places("result") = {}
    BY <2>1 DEF MarkersInv, ResultInv
  <2>3. /\ MarkersTyped' /\ Places("dp")' = Places("dp")
        /\ \A i \in Places("dp") : markers'[i] = markers[i]
        /\ \/ Places("result")' = {} /\ last = Null
           \/ \E n \in Int : /\ Places("result")' = {n} /\ last # Null
                             /\ markers'[n].v = table[last]
    BY <1>2, <2>2, ReportIs DEF MarkersInv
  <2>4. BillInv'
    BY <2>1, <2>3 DEF MarkersInv, BillInv
  <2>5. ResultInv'
    BY <2>1, <2>3 DEF ResultInv
  <2>6. QED
    BY <2>3, <2>4, <2>5 DEF MarkersInv
<1>3. CASE ~EngineEnded /\ EngineStep /\ DpStep
  <2>1. phase # "done" /\ phase' # "done"
    BY <1>3 DEF EngineEnded, DpStep, At, AtStep, Running, Abort, Continue
  <2>2. MarkersTyped' /\ BillInv' /\ Places("result")' = Places("result")
    BY <1>3, DpMarkerIs DEF MarkersInv
  <2>3. QED
    BY <2>1, <2>2 DEF MarkersInv, ResultInv
<1>4. CASE ~EngineEnded /\ MarkersKept /\ UNCHANGED budget /\ ~(EngineStep /\ ReportRun)
  <2>1. phase # "done" /\ phase' # "done"
    BY <1>4, PhaseStep DEF EngineEnded
  <2>2. /\ Places("dp")' = Places("dp") /\ Places("result")' = Places("result")
        /\ \A i \in Places("dp") : markers'[i] = markers[i]
    BY <1>4, PlacesStay
  <2>3. BillInv'
    BY <1>4, <2>2 DEF MarkersInv, BillInv
  <2>4. QED
    BY <1>4, <2>1, <2>2, <2>3 DEF MarkersInv, ResultInv, MarkersKept
<1>5. QED
  BY <1>1, <1>2, <1>3, <1>4, MarkersStep, PaidStep DEF MarkersInv

\* A file is half written only while it is being written, or after the process
\* was killed; the reported result is in the output file.
HalfWritten ==
  \A p \in DOMAIN disk : disk[p] = Torn => \/ phase = "killed"
                                           \/ phase = "saving" /\ p = Op.path
                                           \/ phase = "output" /\ p = job.output
OutputHeld ==
  phase \in {"report", "done"} /\ last # Null /\ job.output # Null => disk[job.output] = table[last]
FilesInv == HalfWritten /\ OutputHeld

LEMMA DiskStep ==
  ASSUME [Next]_vars
  PROVE  UNCHANGED disk \/ (EngineStep /\ (ChartStep \/ SaveStep \/ SaveRows \/ EndRun \/ SaveOutput))
<1>1. CASE EngineStep
  <2>1. \A next : ResolveStep(next) => UNCHANGED disk
    BY DEF ResolveStep, outside
  <2>2. Resolved \/ Check \/ PolicyGate \/ Optimize \/ DeclareModels \/ StartNode \/ DataStep
          => UNCHANGED disk
    BY DEF Resolved, Check, PolicyGate, Optimize, DeclareModels, StartNode, DataStep, outside
  <2>3. TrainStep \/ PredictStep \/ DpStep \/ EndNode \/ ReportRun => UNCHANGED disk
    BY DEF TrainStep, PredictStep, DpStep, EndNode, ReportRun, outside
  <2>4. QED
    BY <1>1, <2>1, <2>2, <2>3 DEF EngineStep, EngineNext, KeepStatement, Import, CloseModule
<1>2. CASE ~EngineStep
  BY <1>2 DEF Next, Watch, vars, EngineCrash, Tick, Gate, PollEnded, PollRunning, Wake, PollFails, Kill,
     engineVars, outside
<1>3. QED
  BY <1>1, <1>2

\* While a file is filled or the end is reported there is one thing to do.
LEMMA OnlyStep ==
  ASSUME [Next]_vars, phase \in {"saving", "output", "report"}
  PROVE  \/ UNCHANGED engineVars
         \/ phase' = "killed"
         \/ phase = "saving" /\ SaveRows
         \/ phase = "output" /\ SaveOutput
         \/ phase = "report" /\ ReportRun
<1>1. CASE EngineStep
  BY <1>1 DEF EngineStep, EngineNext, KeepStatement, Import, CloseModule, ResolveStep, Resolved, Check,
     PolicyGate, Optimize, DeclareModels, StartNode, DataStep, TrainStep, PredictStep, ChartStep, DpStep,
     SaveStep, SaveRows, EndNode, EndRun, SaveOutput, ReportRun, At, AtStep, Running
<1>2. CASE ~EngineStep
  BY <1>2 DEF Next, Watch, vars, EngineCrash, Tick, Gate, PollEnded, PollRunning, Wake, PollFails, Kill,
     EngineEnded, engineVars
<1>3. QED
  BY <1>1, <1>2

LEMMA WholeIs ==
  ASSUME NEW f, NEW draws, Sound(f, draws)
  PROVE  f # Torn
<1>1. f = Frame(f.names, f.cols, f.rows)
  BY DEF Sound, WellFormed
<1>2. Frame(f.names, f.cols, f.rows).err = "none" /\ Torn.err = "half written"
  BY DEF Frame, Torn, Fail
<1>3. QED
  BY <1>1, <1>2

LEMMA FilesStep ==
  ASSUME NoiseInv, FilesInv, [Next]_vars
  PROVE  FilesInv'
<1> USE DEF FilesInv
<1>1. CASE UNCHANGED engineVars
  BY <1>1 DEF HalfWritten, OutputHeld, Op, Node, engineVars, progress, compiled, memory, outside
<1>2. CASE phase' = "killed"
  BY <1>2 DEF HalfWritten, OutputHeld
<1>3. CASE phase \in {"saving", "output", "report"} /\ ~UNCHANGED engineVars /\ phase' # "killed"
  <2>1. \/ phase = "saving" /\ SaveRows
        \/ phase = "output" /\ SaveOutput
        \/ phase = "report" /\ ReportRun
    BY <1>3, OnlyStep
  <2>2. CASE phase = "saving" /\ SaveRows
    <3>1. /\ disk' = Bind(disk, Op.path, cur.frame) /\ phase' = "run" /\ cur.frame # Torn
      BY <2>2, WholeIs DEF SaveRows, WriteFile, NoiseInv
    <3>2. QED
      BY <2>2, <3>1 DEF HalfWritten, OutputHeld, Bind
  <2>3. CASE phase = "output" /\ SaveOutput
    <3>1. /\ disk' = Bind(disk, job.output, table[last]) /\ phase' = "report"
          /\ UNCHANGED <<job, table, last>> /\ last # Null
      BY <2>3 DEF SaveOutput, WriteFile, Enter, memory, NoiseInv
    <3>2. table[last] # Torn
      BY <3>1, WholeIs DEF NoiseInv, AllSound
    <3>3. QED
      BY <2>3, <3>1, <3>2 DEF HalfWritten, OutputHeld, Bind
  <2>4. CASE phase = "report" /\ ReportRun
    <3>1. UNCHANGED <<job, table, last, disk>>
      BY <2>4 DEF ReportRun, memory
    <3>2. QED
      BY <2>4, <3>1 DEF HalfWritten, OutputHeld
  <2>5. QED
    BY <2>1, <2>2, <2>3, <2>4
<1>4. CASE EngineEnded
  BY <1>1, <1>4, EndedStays
<1>5. CASE ~EngineEnded /\ phase \notin {"saving", "output", "report"} /\ phase' # "killed"
  <2>1. \A p \in DOMAIN disk : disk[p] # Torn
    BY <1>5 DEF HalfWritten, EngineEnded
  <2>2. phase' # "done"
    BY <1>5, PhaseStep DEF EngineEnded, ReportRun
  <2>3. CASE UNCHANGED disk /\ phase' # "report"
    BY <2>1, <2>2, <2>3 DEF HalfWritten, OutputHeld
  <2>4. CASE EngineStep /\ ChartStep
    <3>1. step # 0
      <4>1. AtStep
        BY <2>4 DEF ChartStep, At
      <4>2. QED
        BY <4>1 DEF AtStep
    <3>2. cur.frame # Torn
      BY <3>1, WholeIs DEF NoiseInv
    <3>3. disk' = disk \/ disk' = Bind(disk, ChartFile, cur.frame)
      BY <2>4 DEF ChartStep, outside
    <3>4. phase' # "report"
      BY <1>5, <2>4 DEF ChartStep, Continue, Abort
    <3>5. QED
      BY <2>1, <2>2, <3>2, <3>3, <3>4 DEF HalfWritten, OutputHeld, Bind
  <2>5. CASE EngineStep /\ SaveStep
    <3>1. \/ UNCHANGED disk /\ phase' = "failed"
          \/ disk' = Bind(disk, Op.path, Torn) /\ phase' = "saving" /\ Op' = Op
      BY <2>5 DEF SaveStep, Abort, CreateFile, Op, Node, compiled
    <3>2. QED
      BY <2>1, <3>1 DEF HalfWritten, OutputHeld, Bind
  <2>6. CASE EngineStep /\ EndRun
    <3>1. \/ UNCHANGED disk /\ phase' = "failed"
          \/ disk' = Bind(disk, job.output, Torn) /\ phase' = "output"
          \/ UNCHANGED disk /\ phase' = "report" /\ ~(HasResult /\ job.output # Null)
      BY <2>6 DEF EndRun, Abort, Enter, CreateFile
    <3>2. UNCHANGED <<job, last>>
      BY <2>6 DEF EndRun, memory
    <3>3. QED
      BY <2>1, <3>1, <3>2 DEF HalfWritten, OutputHeld, Bind, HasResult
  <2>7. CASE EngineStep /\ (SaveRows \/ SaveOutput)
    BY <1>5, <2>7 DEF SaveRows, SaveOutput
  <2>8. QED
    BY <1>5, <2>3, <2>4, <2>5, <2>6, <2>7, DiskStep, PhaseStep
<1>6. QED
  BY <1>1, <1>2, <1>3, <1>4, <1>5

\* The runner gives code 0 to a process that has reported success, and leaves
\* it, unless it lost it, only when it has ended.
LaunchInv ==
  /\ exit = 0 => phase = "done"
  /\ runner = "ended" => EngineEnded
LEMMA LaunchStep ==
  ASSUME LaunchInv, [Next]_vars
  PROVE  LaunchInv'
<1>1. EngineEnded => UNCHANGED phase
  BY EndedStays DEF engineVars, progress
<1>2. UNCHANGED launchVars \/ Tick \/ Watch
  BY DEF Next, vars, EngineStep, EngineCrash
<1>3. CASE UNCHANGED launchVars \/ Tick
  BY <1>1, <1>3 DEF LaunchInv, launchVars, Tick, EngineEnded
<1>4. CASE Watch
  BY <1>1, <1>4, TimeoutAssumption DEF LaunchInv, Watch, Gate, PollEnded, PollRunning, Wake, PollFails, Kill, Answer,
     EngineEnded, engineVars, progress
<1>5. QED
  BY <1>2, <1>3, <1>4

LEMMA AnswerInit ==
  ASSUME Init
  PROVE  NoiseInv /\ MarkersInv /\ FilesInv /\ LaunchInv
<1>1. /\ job \in Jobs /\ disk = job.data /\ phase = "resolve" /\ last = Null /\ budget = Fresh
      /\ markers = <<>> /\ exit = Null /\ runner = "gate"
  BY DEF Init, EngineInit
<1>2. MarkersInv
  <2>1. Places("dp") = {} /\ Places("result") = {}
    BY <1>1 DEF Places
  <2>2. MarkersTyped
    BY <1>1 DEF MarkersTyped
  <2>3. QED
    BY <1>1, <2>1, <2>2 DEF MarkersInv, BillInv, ResultInv
<1>3. FilesInv
  <2>1. \A p \in DOMAIN disk : disk[p] # Torn
    BY <1>1, WholeIs, JobsAssumption DEF Sound
  <2>2. QED
    BY <1>1, <2>1 DEF FilesInv, HalfWritten, OutputHeld
<1>4. LaunchInv
  BY <1>1, TimeoutAssumption DEF LaunchInv
<1>5. QED
  BY <1>2, <1>3, <1>4, NoiseInit

\* The last marker of its kind.
LEMMA LastIs ==
  ASSUME NEW kind, NEW n \in Places(kind), Places(kind) \subseteq Int, \A i \in Places(kind) : n >= i
  PROVE  LastOf(kind) = markers[n].v
<1> DEFINE S == Places(kind)
<1>1. n \in S /\ S \subseteq Int /\ \A i \in S : n >= i
  OBVIOUS
<1> HIDE DEF S
<1>2. Max(S) = n
  BY <1>1, MaxIs
<1>3. QED
  BY <1>1, <1>2 DEF LastOf, S

LEMMA PlacesAreInt ==
  ASSUME MarkersTyped, NEW kind
  PROVE  Places(kind) \subseteq Int
<1>1. DOMAIN markers = 1..Len(markers) /\ Len(markers) \in Nat
  BY LenProperties DEF MarkersTyped
<1>2. QED
  BY <1>1 DEF Places

LEMMA ExitFollows ==
  ASSUME MarkersInv, FilesInv, LaunchInv
  PROVE  ExitIsTrue
<1>1. ASSUME exit = 0
      PROVE  /\ phase = "done" /\ \A p \in DOMAIN disk : disk[p] # Torn
             /\ RunMarkers.rows = StdoutMarkers.rows
             /\ RunMarkers.rows # Null /\ job.output # Null => disk[job.output] = RunMarkers.rows
  <2>1. phase = "done" /\ \A p \in DOMAIN disk : disk[p] # Torn
    BY <1>1 DEF LaunchInv, FilesInv, HalfWritten
  <2>2. RunMarkers.rows = LastOf("result") /\ StdoutMarkers.rows = LastOf("result")
    BY <1>1 DEF RunMarkers, StdoutMarkers
  <2>3. CASE Places("result") = {}
    BY <2>1, <2>2, <2>3 DEF LastOf
  <2>4. CASE Places("result") # {}
    <3>1. PICK n \in Int : Places("result") = {n} /\ markers[n].v = table[last]
      BY <2>4 DEF MarkersInv, ResultInv
    <3>2. last # Null
      BY <2>4 DEF MarkersInv, ResultInv
    <3>3. LastOf("result") = table[last]
      BY <3>1, LastIs
    <3>4. QED
      BY <2>1, <2>2, <3>2, <3>3 DEF FilesInv, OutputHeld
  <2>5. QED
    BY <2>3, <2>4
<1>2. QED
  BY <1>1 DEF ExitIsTrue, LaunchInv

LEMMA BillFollows ==
  ASSUME NoiseInv, MarkersInv
  PROVE  BillIsComplete
<1>1. Billed = ComposedEps(budget)
  <2>1. CASE Places("dp") = {}
    BY <2>1, FreshIs DEF MarkersInv, BillInv, Billed
  <2>2. CASE Places("dp") # {}
    <3>1. PICK n \in Places("dp") : /\ \A i \in Places("dp") : n >= i
                                    /\ markers[n].v.spent = ComposedEps(budget)
      BY <2>2 DEF MarkersInv, BillInv
    <3>2. LastOf("dp") = markers[n].v
      BY <3>1, LastIs, PlacesAreInt DEF MarkersInv
    <3>3. QED
      BY <2>2, <3>1, <3>2 DEF Billed, StdoutMarkers
  <2>3. QED
    BY <2>1, <2>2
<1>2. \A p \in DOMAIN disk : Draws(disk[p]) \subseteq DOMAIN paid
  <2>1. Draws(Torn) = {}
    BY DEF Torn, Fail, Draws
  <2>2. QED
    BY <2>1 DEF NoiseInv, FilesSafe, Sound
<1>3. \A i \in Places("result") : Draws(markers[i].v) \subseteq DOMAIN paid
  <2>1. \A v \in DOMAIN table : Draws(table[v]) \subseteq DOMAIN paid
    BY DEF NoiseInv, AllSound, Sound
  <2>2. \A i \in Places("result") : last # Null /\ markers[i].v = table[last]
    BY DEF MarkersInv, ResultInv
  <2>3. QED
    BY <2>1, <2>2 DEF NoiseInv
<1>4. Released \subseteq DOMAIN paid
  BY <1>2, <1>3 DEF Released
<1>5. QED
  BY <1>1, <1>4 DEF BillIsComplete

-----------------------------------------------------------------------------
(* The markers of a kind.                                                    *)

\* The markers of a kind among the first ones, as OfKind collects them.
IsCollected(u, kind) ==
  u = [n \in 0..Len(markers) |-> IF n = 0 THEN <<>>
                                 ELSE IF markers[n].k = kind THEN Append(u[n - 1], markers[n]) ELSE u[n - 1]]
Upto(kind, n) == {i \in Places(kind) : i <= n}

LEMMA CollectedExists ==
  ASSUME MarkersTyped, NEW kind
  PROVE  \E u : IsCollected(u, kind)
<1> DEFINE m == Len(markers)
           Grown(u, n) == IF n = 0 THEN <<>>
                          ELSE IF markers[n].k = kind THEN Append(u[n - 1], markers[n]) ELSE u[n - 1]
           Up(u, k) == \A n \in 0..k : u[n] = Grown(u, n)
           S == {k \in Nat : \E u : Up(u, k)}
<1>1. 0 \in S
  <2>1. Up([n \in 0..0 |-> <<>>], 0)
    OBVIOUS
  <2>2. QED
    BY <2>1
<1>2. ASSUME NEW k \in Nat, k \in S
      PROVE  k + 1 \in S
  <2>1. PICK u : Up(u, k)
    BY <1>2
  <2> DEFINE v == [n \in 0..k + 1 |-> IF n = k + 1 THEN Grown(u, k + 1) ELSE u[n]]
  <2>2. \A n \in 0..k : v[n] = u[n]
    OBVIOUS
  <2>3. v[k + 1] = Grown(u, k + 1)
    OBVIOUS
  <2> HIDE DEF v
  <2>4. ASSUME NEW n \in 0..k + 1
        PROVE  v[n] = Grown(v, n)
    <3>1. CASE n \in 0..k
      <4>1. v[n] = Grown(u, n)
        BY <2>1, <2>2, <3>1
      <4>2. n # 0 => n - 1 \in 0..k
        BY <3>1
      <4>3. QED
        BY <2>2, <4>1, <4>2
    <3>2. CASE n = k + 1
      <4>1. n - 1 = k /\ k \in 0..k
        BY <3>2
      <4>2. QED
        BY <2>2, <2>3, <3>2, <4>1
    <3>3. QED
      BY <3>1, <3>2
  <2>5. QED
    BY <2>4
<1>3. m \in S
  <2> HIDE DEF S
  <2>1. m \in Nat
    BY LenProperties DEF MarkersTyped
  <2>2. QED
    BY <1>1, <1>2, <2>1, Induction
<1>4. PICK u : Up(u, m)
  BY <1>3
<1> DEFINE w == [n \in 0..m |-> u[n]]
<1>5. \A n \in 0..m : w[n] = Grown(w, n)
  <2>1. \A n \in 0..m : n # 0 => n - 1 \in 0..m
    BY LenProperties DEF MarkersTyped
  <2>2. QED
    BY <1>4, <2>1
<1>6. IsCollected(w, kind)
  BY <1>5 DEF IsCollected
<1>7. QED
  BY <1>6

\* The last of the markers of a kind, if there is one.
LEMMA OfKindIs ==
  ASSUME MarkersTyped, NEW kind
  PROVE  /\ OfKind(kind) \in Seq(ToSet(markers))
         /\ OfKind(kind) # <<>> => \E n \in Places(kind) : /\ \A i \in Places(kind) : n >= i
                                                           /\ Last(OfKind(kind)) = markers[n]
<1> DEFINE m == Len(markers)
           M == ToSet(markers)
<1>1. m \in Nat /\ DOMAIN markers = 1..m
  BY LenProperties DEF MarkersTyped
<1>2. \E u : IsCollected(u, kind)
  BY CollectedExists
<1>3. PICK u : IsCollected(u, kind) /\ OfKind(kind) = u[m]
  BY <1>2 DEF OfKind, IsCollected
<1>4. /\ u[0] = <<>>
      /\ \A n \in 0..(m - 1) : u[n + 1] = IF markers[n + 1].k = kind THEN Append(u[n], markers[n + 1]) ELSE u[n]
  <2>1. \A n \in 0..m : u[n] = IF n = 0 THEN <<>>
                               ELSE IF markers[n].k = kind THEN Append(u[n - 1], markers[n]) ELSE u[n - 1]
    BY <1>3 DEF IsCollected
  <2>2. \A n \in 0..(m - 1) : n + 1 \in 0..m /\ n + 1 # 0 /\ (n + 1) - 1 = n
    BY <1>1
  <2>3. 0 \in 0..m
    BY <1>1
  <2>4. QED
    BY <2>1, <2>2, <2>3
<1> DEFINE Holds(k) == /\ u[k] \in Seq(M)
                       /\ u[k] # <<>> => \E n \in Upto(kind, k) : /\ \A i \in Upto(kind, k) : n >= i
                                                                  /\ u[k][Len(u[k])] = markers[n]
           S == {k \in Nat : k <= m => Holds(k)}
<1>5. 0 \in S
  <2>1. u[0] = <<>> /\ <<>> \in Seq(M)
    BY <1>4
  <2>2. Holds(0)
    BY <2>1
  <2>3. QED
    BY <2>2
<1>6. ASSUME NEW k \in Nat, k \in S
      PROVE  k + 1 \in S
  <2> SUFFICES ASSUME k + 1 <= m PROVE Holds(k + 1)
    OBVIOUS
  <2>1. k \in 0..(m - 1) /\ k + 1 \in DOMAIN markers /\ markers[k + 1] \in M
    BY <1>1 DEF ToSet
  <2>2. Holds(k)
    BY <1>1, <1>6
  <2>3. CASE markers[k + 1].k # kind
    <3>1. u[k + 1] = u[k]
      BY <1>4, <2>1, <2>3
    <3>2. Upto(kind, k + 1) = Upto(kind, k)
      BY <1>1, <2>3 DEF Upto, Places
    <3>3. QED
      BY <2>2, <3>1, <3>2
  <2>4. CASE markers[k + 1].k = kind
    <3>1. u[k + 1] = Append(u[k], markers[k + 1])
      BY <1>4, <2>1, <2>4
    <3> HIDE DEF M
    <3>2. /\ u[k + 1] \in Seq(M) /\ Len(u[k + 1]) = Len(u[k]) + 1
          /\ u[k + 1][Len(u[k]) + 1] = markers[k + 1]
      BY <2>1, <2>2, <3>1, AppendProperties
    <3>3. k + 1 \in Upto(kind, k + 1) /\ \A i \in Upto(kind, k + 1) : k + 1 >= i
      BY <1>1, <2>1, <2>4 DEF Upto, Places
    <3>4. u[k + 1][Len(u[k + 1])] = markers[k + 1]
      BY <3>2
    <3>5. QED
      BY <3>2, <3>3, <3>4
  <2>5. QED
    BY <2>3, <2>4
<1>7. Holds(m)
  <2> HIDE DEF S
  <2>1. m \in S
    BY <1>1, <1>5, <1>6, Induction
  <2>2. QED
    BY <1>1, <2>1 DEF S
<1>8. Upto(kind, m) = Places(kind)
  BY <1>1 DEF Upto, Places
<1>9. QED
  BY <1>3, <1>7, <1>8 DEF Last

\* What `xazz run' shows to be left is what the bill leaves of the total.
LEMMA RemainingIs ==
  ASSUME NoiseInv, MarkersInv, ChargeInv, RunMarkers.dp # <<>>
  PROVE  Last(RunMarkers.dp).remaining = TotalEps - Billed
<1> DEFINE dps == OfKind("dp")
           left == [i \in DOMAIN dps |-> [remaining |-> Max({0, TotalEps - dps[i].v.spent})]]
<1>1. RunMarkers.dp = left
  BY DEF RunMarkers
<1>2. dps \in Seq(ToSet(markers))
  BY OfKindIs DEF MarkersInv
<1>3. Len(dps) \in Nat /\ DOMAIN dps = 1..Len(dps)
  BY <1>2, LenProperties
<1> HIDE DEF dps
<1>4. dps # <<>>
  BY <1>1, <1>3
<1>5. Len(left) = Len(dps) /\ Len(dps) \in DOMAIN dps
  BY <1>2, <1>3, <1>4, LenProperties, EmptySeq
<1>6. Last(RunMarkers.dp).remaining = Max({0, TotalEps - Last(dps).v.spent})
  <2>1. left[Len(dps)].remaining = Max({0, TotalEps - dps[Len(dps)].v.spent})
    BY <1>5
  <2> HIDE DEF left
  <2>2. QED
    BY <1>1, <1>5, <2>1 DEF Last
<1>7. PICK n \in Places("dp") : /\ \A i \in Places("dp") : n >= i
                                /\ Last(dps) = markers[n]
  BY <1>4, OfKindIs DEF MarkersInv, dps
<1>8. LastOf("dp") = markers[n].v
  BY <1>7, LastIs, PlacesAreInt DEF MarkersInv
<1>9. Billed = markers[n].v.spent /\ Billed = ComposedEps(budget)
  BY <1>7, <1>8, BillFollows DEF Billed, StdoutMarkers, BillIsComplete
<1>10. Billed \in Nat /\ Billed <= TotalEps
  BY <1>9, ComposedTyped DEF ChargeInv, NoiseInv, BudgetInv, Within
<1> DEFINE rest == TotalEps - Billed
<1>11. rest \in Int /\ rest >= 0
  BY <1>10, BudgetAssumption
<1> HIDE DEF rest
<1>12. Max({0, rest}) = rest
  BY <1>11, MaxIs
<1>13. QED
  BY <1>6, <1>7, <1>9, <1>12 DEF rest

LEMMA AnswerFollows ==
  ASSUME NoiseInv, MarkersInv, FilesInv, LaunchInv, ChargeInv
  PROVE  AnswerIsTrue
<1>1. ExitIsTrue /\ BillIsComplete
  BY ExitFollows, BillFollows
<1>2. Cost(Released) <= Billed
  BY <1>1, CostBound DEF BillIsComplete
<1>3. RunMarkers.dp # <<>> => Last(RunMarkers.dp).remaining = TotalEps - Billed
  BY RemainingIs
<1>4. QED
  BY <1>1, <1>2, <1>3 DEF AnswerIsTrue

\* The caller is told the truth.  Code 0 is given only to a run that has
\* reported its result and whose files are whole, the output file with the
\* result in it; nothing goes on after the answer; at every moment the markers
\* bill what the budget has composed, which is at least what all the noise in
\* the files and in the result costs together, whatever the composition, and
\* what they show to be left is the rest of the total.
THEOREM AnswersTruly == Spec /\ []LoweringKeepsNoise => []AnswerIsTrue
<1> DEFINE Inv == NoiseInv /\ MarkersInv /\ FilesInv /\ LaunchInv /\ ChargeInv
<1>1. Init => Inv
  BY AnswerInit, ChargeInit
<1>2. Inv /\ LoweringKeepsNoise /\ [Next]_vars => Inv'
  BY NoiseStep, MarkersInvStep, FilesStep, LaunchStep, ChargeStep
<1>3. Inv => AnswerIsTrue
  BY AnswerFollows
<1>4. QED
  BY <1>1, <1>2, <1>3, PTL DEF Spec
=============================================================================
