---------------------------- MODULE LoaderProofs ----------------------------
(* Theorems about the import expansion of an engine process.                 *)
EXTENDS EngineProofs

-----------------------------------------------------------------------------
(* The steps of the loader, as what they do to the open programs.            *)

Shaped(ld) ==
  /\ ld = [open |-> ld.open, loaded |-> ld.loaded, modules |-> ld.modules, errors |-> ld.errors, program |-> ld.program]
  /\ Program(ld.open) /\ Program(ld.modules) /\ Program(ld.program)
  /\ \A i \in DOMAIN ld.open :
        /\ ld.open[i] = [key |-> ld.open[i].key, rest |-> ld.open[i].rest, out |-> ld.open[i].out]
        /\ Program(ld.open[i].rest) /\ Program(ld.open[i].out)

\* The open programs stay, but for what is left of the last and its output.
Moves(ld, nx, rest, out) ==
  /\ Shaped(nx) /\ Len(nx.open) = Len(ld.open) /\ DOMAIN nx.open = DOMAIN ld.open
  /\ \A i \in DOMAIN ld.open : i # Len(ld.open) => nx.open[i] = ld.open[i]
  /\ nx.open[Len(ld.open)] = [key |-> Top(ld).key, rest |-> rest, out |-> out]
  /\ nx.loaded = ld.loaded /\ nx.modules = ld.modules /\ nx.program = ld.program

LEMMA ProgramIs ==
  ASSUME NEW s, Program(s)
  PROVE  Len(s) \in Nat /\ DOMAIN s = 1..Len(s) /\ (s = <<>> <=> Len(s) = 0)
<1>1. Len(s) \in Nat /\ DOMAIN s = 1..Len(s)
  BY LenProperties DEF Program
<1>2. s # <<>> => Len(s) # 0
  BY EmptySeq DEF Program
<1>3. QED
  BY <1>1, <1>2

LEMMA TopIs ==
  ASSUME NEW ld, Shaped(ld), Loading(ld)
  PROVE  /\ Len(ld.open) \in DOMAIN ld.open /\ DOMAIN ld.open = 1..Len(ld.open) /\ Len(ld.open) \in Nat \ {0}
         /\ Top(ld) = ld.open[Len(ld.open)]
         /\ Top(ld) = [key |-> Top(ld).key, rest |-> Top(ld).rest, out |-> Top(ld).out]
         /\ Program(Top(ld).rest) /\ Program(Top(ld).out)
<1>1. Program(ld.open) /\ ld.open # <<>>
  BY DEF Shaped, Loading
<1>2. Len(ld.open) \in Nat /\ DOMAIN ld.open = 1..Len(ld.open) /\ Len(ld.open) # 0
  BY <1>1, ProgramIs
<1>3. Top(ld) = ld.open[Len(ld.open)]
  BY DEF Top, Last
<1>4. QED
  BY <1>2, <1>3 DEF Shaped

LEMMA TailIs ==
  ASSUME NEW s, Program(s), s # <<>>
  PROVE  /\ Program(Tail(s)) /\ Len(Tail(s)) = Len(s) - 1
         /\ \A x \in 1..Len(Tail(s)) : Tail(s)[x] = s[x + 1]
         /\ Head(s) = s[1]
<1>1. s \in Seq(ToSet(s))
  BY DEF Program
<1>2. Tail(s) \in Seq(ToSet(s)) /\ Len(Tail(s)) = Len(s) - 1 /\ \A x \in 1..Len(Tail(s)) : Tail(s)[x] = s[x + 1]
  BY <1>1, HeadTailProperties
<1>3. Program(Tail(s))
  BY <1>2, RangeTyped DEF Program
<1>4. QED
  BY <1>2, <1>3

\* The open programs with another top.
LEMMA ReplaceTop ==
  ASSUME NEW ld, Shaped(ld), Loading(ld), NEW rest, Program(rest), NEW out, Program(out),
         NEW nx, nx.errors = nx.errors,
         nx = [open |-> [ld.open EXCEPT ![Len(ld.open)] = [key |-> Top(ld).key, rest |-> rest, out |-> out]],
               loaded |-> ld.loaded, modules |-> ld.modules, errors |-> nx.errors, program |-> ld.program]
  PROVE  Moves(ld, nx, rest, out)
<1> DEFINE n == Len(ld.open)
           e == [key |-> Top(ld).key, rest |-> rest, out |-> out]
           os == [ld.open EXCEPT ![n] = e]
           S == ToSet(ld.open) \cup {e}
<1>1. n \in 1..Len(ld.open) /\ DOMAIN ld.open = 1..n /\ n \in Nat
  BY TopIs
<1>2. ld.open \in Seq(S) /\ e \in S
  BY DEF Shaped, Program
<1>3. os \in Seq(S) /\ Len(os) = n /\ \A j \in 1..n : os[j] = IF j = n THEN e ELSE ld.open[j]
  <2> HIDE DEF S, e
  <2>1. QED
    BY <1>1, <1>2, ExceptSeq
<1>4. DOMAIN os = 1..n /\ Program(os)
  BY <1>1, <1>3, RangeTyped, LenProperties DEF Program
<1>5. e.key = Top(ld).key /\ e.rest = rest /\ e.out = out /\ e = [key |-> e.key, rest |-> e.rest, out |-> e.out]
  OBVIOUS
<1>6. nx.open = os
  OBVIOUS
<1> HIDE DEF os, e, n, S
<1>7. Shaped(nx)
  <2>1. Program(nx.open) /\ Program(nx.modules) /\ Program(nx.program)
    BY <1>4, <1>6 DEF Shaped
  <2>2. ASSUME NEW i \in DOMAIN nx.open
        PROVE  /\ nx.open[i] = [key |-> nx.open[i].key, rest |-> nx.open[i].rest, out |-> nx.open[i].out]
               /\ Program(nx.open[i].rest) /\ Program(nx.open[i].out)
    <3>1. i \in 1..n /\ nx.open[i] = IF i = n THEN e ELSE ld.open[i]
      BY <1>3, <1>4, <1>6
    <3>2. CASE i = n
      BY <1>5, <3>1, <3>2
    <3>3. CASE i # n
      BY <1>1, <3>1, <3>3 DEF Shaped
    <3>4. QED
      BY <3>2, <3>3
  <2>3. QED
    BY <2>1, <2>2 DEF Shaped
<1>8. QED
  BY <1>1, <1>3, <1>4, <1>5, <1>6, <1>7 DEF Moves, n, e

LEMMA EntryIs ==
  ASSUME NEW r, r = [key |-> r.key, rest |-> r.rest, out |-> r.out], NEW v
  PROVE  /\ [r EXCEPT !.rest = v] = [key |-> r.key, rest |-> v, out |-> r.out]
         /\ [r EXCEPT !.out = v] = [key |-> r.key, rest |-> r.rest, out |-> v]
OBVIOUS

LEMMA FieldsIs ==
  ASSUME NEW ld, Shaped(ld), NEW v
  PROVE  /\ [ld EXCEPT !.open = v] = [open |-> v, loaded |-> ld.loaded, modules |-> ld.modules, errors |-> ld.errors,
                                      program |-> ld.program]
         /\ [ld EXCEPT !.errors = v] = [open |-> ld.open, loaded |-> ld.loaded, modules |-> ld.modules, errors |-> v,
                                        program |-> ld.program]
<1>1. ld = [open |-> ld.open, loaded |-> ld.loaded, modules |-> ld.modules, errors |-> ld.errors, program |-> ld.program]
  BY DEF Shaped
<1>2. QED
  BY <1>1

LEMMA AdvanceIs ==
  ASSUME NEW ld, Shaped(ld), Visiting(ld)
  PROVE  Moves(ld, Advance(ld), Tail(Top(ld).rest), Top(ld).out) /\ Advance(ld).errors = ld.errors
<1> DEFINE n == Len(ld.open)
           nx == Advance(ld)
<1>1. Loading(ld) /\ Top(ld).rest # <<>>
  BY DEF Visiting
<1>2. Program(Tail(Top(ld).rest)) /\ Program(Top(ld).out)
  BY <1>1, TopIs, TailIs
<1>3. ld.open[n] = [key |-> Top(ld).key, rest |-> Top(ld).rest, out |-> Top(ld).out]
  BY <1>1, TopIs
<1>4. nx = [open |-> [ld.open EXCEPT ![n] = [key |-> Top(ld).key, rest |-> Tail(Top(ld).rest), out |-> Top(ld).out]],
            loaded |-> ld.loaded, modules |-> ld.modules, errors |-> ld.errors, program |-> ld.program]
  <2> DEFINE e == [ld.open[n] EXCEPT !.rest = Tail(ld.open[n].rest)]
             os == [ld.open EXCEPT ![n] = e]
  <2>1. nx = [ld EXCEPT !.open = os]
    BY DEF Advance
  <2>2. e = [key |-> Top(ld).key, rest |-> Tail(Top(ld).rest), out |-> Top(ld).out]
    BY <1>1, TopIs, EntryIs
  <2> HIDE DEF e, os, nx
  <2>3. nx = [open |-> os, loaded |-> ld.loaded, modules |-> ld.modules, errors |-> ld.errors, program |-> ld.program]
    BY <2>1, FieldsIs
  <2>4. QED
    BY <2>2, <2>3 DEF os
<1> HIDE DEF nx
<1>5. nx.errors = ld.errors
  BY <1>4
<1>6. QED
  BY <1>1, <1>2, <1>4, <1>5, ReplaceTop DEF nx

\* One move after another.
LEMMA MovesOn ==
  ASSUME NEW ld, Shaped(ld), Loading(ld), NEW rest, NEW out, NEW a, Moves(ld, a, rest, out)
  PROVE  /\ Loading(a) /\ Top(a) = [key |-> Top(ld).key, rest |-> rest, out |-> out]
         /\ \A nx, r, o : Moves(a, nx, r, o) => Moves(ld, nx, r, o)
<1>1. Len(ld.open) \in Nat \ {0} /\ Len(ld.open) \in DOMAIN ld.open
  BY TopIs
<1>2. Shaped(a) /\ Len(a.open) = Len(ld.open)
  BY DEF Moves
<1>3. Loading(a)
  BY <1>1, <1>2, ProgramIs DEF Shaped, Loading
<1>4. Top(a) = [key |-> Top(ld).key, rest |-> rest, out |-> out]
  BY <1>2, <1>3, TopIs DEF Moves
<1>5. Top(a).key = Top(ld).key
  BY <1>4
<1>6. QED
  BY <1>3, <1>4, <1>5 DEF Moves

LEMMA ComplainIs ==
  ASSUME NEW ld, Shaped(ld), Visiting(ld), NEW error
  PROVE  /\ Moves(ld, Complain(ld, error), Tail(Top(ld).rest), Top(ld).out)
         /\ Complain(ld, error).errors = ld.errors \cup {error}
<1> DEFINE a  == Advance(ld)
           nx == Complain(ld, error)
<1>1. Moves(ld, a, Tail(Top(ld).rest), Top(ld).out) /\ a.errors = ld.errors
  BY AdvanceIs
<1>2. nx = [a EXCEPT !.errors = a.errors \cup {error}]
  BY DEF Complain
<1> HIDE DEF a, nx
<1>3. nx = [open |-> a.open, loaded |-> a.loaded, modules |-> a.modules, errors |-> a.errors \cup {error},
            program |-> a.program]
  BY <1>1, <1>2, FieldsIs DEF Moves
<1>4. Shaped(nx)
  BY <1>1, <1>3 DEF Moves, Shaped
<1>5. QED
  BY <1>1, <1>3, <1>4 DEF Moves, a, nx

\* A sequence with one more element.
LEMMA MoreIs ==
  ASSUME NEW s, Program(s), NEW e
  PROVE  /\ Program(Append(s, e)) /\ Len(Append(s, e)) = Len(s) + 1
         /\ \A x \in 1..Len(s) : Append(s, e)[x] = s[x]
         /\ Append(s, e)[Len(s) + 1] = e
<1>1. s \in Seq(ToSet(s))
  BY DEF Program
<1>2. /\ Append(s, e) \in Seq(ToSet(Append(s, e)))
      /\ DOMAIN Append(s, e) = DOMAIN s \cup {Len(s) + 1}
      /\ DOMAIN s = 1..Len(s) /\ Len(s) \in Nat
      /\ \A i \in DOMAIN s : Append(s, e)[i] = s[i]
      /\ Append(s, e)[Len(s) + 1] = e
  BY <1>1, AppendIs
<1>3. Program(Append(s, e))
  BY <1>2 DEF Program
<1>4. DOMAIN Append(s, e) = 1..Len(Append(s, e)) /\ Len(Append(s, e)) \in Nat
  BY <1>3, ProgramIs
<1>5. Len(Append(s, e)) = Len(s) + 1
  <2> DEFINE k == Len(Append(s, e))
             l == Len(s)
  <2>1. 1..k = (1..l) \cup {l + 1} /\ k \in Nat /\ l \in Nat
    BY <1>2, <1>4
  <2> HIDE DEF k, l
  <2>2. l + 1 \in 1..k /\ (k # 0 => k \in (1..l) \cup {l + 1})
    BY <2>1
  <2>3. QED
    BY <2>1, <2>2 DEF k, l
<1>6. QED
  BY <1>2, <1>3, <1>5

LEMMA KeepIs ==
  ASSUME NEW ld, Shaped(ld), Visiting(ld)
  PROVE  /\ Moves(ld, KeepStmt(ld), Tail(Top(ld).rest), Append(Top(ld).out, Head(Top(ld).rest)))
         /\ KeepStmt(ld).errors = ld.errors
<1> DEFINE a  == Advance(ld)
           nx == KeepStmt(ld)
           n  == Len(ld.open)
           s  == Head(Top(ld).rest)
           os == [a.open EXCEPT ![n] = [a.open[n] EXCEPT !.out = Append(a.open[n].out, s)]]
<1>1. Moves(ld, a, Tail(Top(ld).rest), Top(ld).out) /\ a.errors = ld.errors /\ Shaped(a) /\ Len(a.open) = n
  BY AdvanceIs DEF Moves
<1>2. nx = [a EXCEPT !.open = os]
  BY DEF KeepStmt
<1> DEFINE rest == Tail(Top(ld).rest)
           out == Top(ld).out
<1>3. /\ Loading(ld) /\ Loading(a)
      /\ Top(a) = [key |-> Top(ld).key, rest |-> rest, out |-> out]
      /\ \A x, r, o : Moves(a, x, r, o) => Moves(ld, x, r, o)
  <2>1. Loading(ld) /\ Moves(ld, a, rest, out)
    BY <1>1 DEF Visiting
  <2> HIDE DEF a, rest, out
  <2>2. QED
    BY <2>1, MovesOn
<1> HIDE DEF a, nx, n
<1>4. a.open[n] = Top(a) /\ Program(Top(a).rest) /\ Program(Top(a).out)
  BY <1>1, <1>3, TopIs
<1>5. Program(Append(Top(a).out, s))
  BY <1>4, MoreIs
<1>6. os = [a.open EXCEPT ![Len(a.open)] = [key |-> Top(a).key, rest |-> Top(a).rest, out |-> Append(Top(a).out, s)]]
  <2>1. [Top(a) EXCEPT !.out = Append(Top(a).out, s)]
          = [key |-> Top(a).key, rest |-> Top(a).rest, out |-> Append(Top(a).out, s)]
    BY <1>3, EntryIs
  <2>2. QED
    BY <1>1, <1>4, <2>1
<1> HIDE DEF os
<1>7. nx = [open |-> os, loaded |-> a.loaded, modules |-> a.modules, errors |-> a.errors, program |-> a.program]
  BY <1>1, <1>2, FieldsIs
<1>8. nx.errors = a.errors
  BY <1>7
<1>9. Moves(a, nx, Top(a).rest, Append(Top(a).out, s))
  BY <1>1, <1>3, <1>4, <1>5, <1>6, <1>7, <1>8, ReplaceTop
<1>10. QED
  BY <1>1, <1>3, <1>8, <1>9 DEF a, nx

\* A module on top of the program that imports it.
Opens(ld, nx, m, stmts) ==
  /\ Shaped(nx) /\ Len(nx.open) = Len(ld.open) + 1
  /\ \A i \in DOMAIN ld.open : i # Len(ld.open) => nx.open[i] = ld.open[i]
  /\ nx.open[Len(ld.open)] = [key |-> Top(ld).key, rest |-> Tail(Top(ld).rest), out |-> Top(ld).out]
  /\ nx.open[Len(ld.open) + 1] = [key |-> m, rest |-> stmts, out |-> <<>>]
  /\ nx.loaded = ld.loaded /\ nx.modules = ld.modules /\ nx.program = ld.program /\ nx.errors = ld.errors

LEMMA OpenIs ==
  ASSUME NEW ld, Shaped(ld), Visiting(ld), NEW m, NEW stmts, Program(stmts)
  PROVE  Opens(ld, [Advance(ld) EXCEPT !.open = Append(@, Open(m, stmts))], m, stmts)
<1> DEFINE a  == Advance(ld)
           e  == Open(m, stmts)
           nx == [a EXCEPT !.open = Append(a.open, e)]
<1>1. Moves(ld, a, Tail(Top(ld).rest), Top(ld).out) /\ a.errors = ld.errors /\ Shaped(a)
  BY AdvanceIs DEF Moves
<1>2. e = [key |-> m, rest |-> stmts, out |-> <<>>] /\ Program(e.rest) /\ Program(e.out)
      /\ e = [key |-> e.key, rest |-> e.rest, out |-> e.out]
  <2>1. Program(<<>>)
    BY DEF Program
  <2>2. QED
    BY <2>1 DEF Open
<1> HIDE DEF a, e
<1>3. nx = [open |-> Append(a.open, e), loaded |-> a.loaded, modules |-> a.modules, errors |-> a.errors,
            program |-> a.program]
  <2> DEFINE os == Append(a.open, e)
  <2> HIDE DEF os
  <2>1. [a EXCEPT !.open = os] = [open |-> os, loaded |-> a.loaded, modules |-> a.modules, errors |-> a.errors,
                                  program |-> a.program]
    BY <1>1, FieldsIs
  <2>2. QED
    BY <2>1 DEF os
<1> HIDE DEF nx
<1>4. nx.open = Append(a.open, e) /\ Program(a.open)
  BY <1>1, <1>3 DEF Shaped
<1>5. /\ Program(nx.open) /\ Len(nx.open) = Len(a.open) + 1 /\ nx.open[Len(a.open) + 1] = e
      /\ \A x \in 1..Len(a.open) : nx.open[x] = a.open[x]
  BY <1>4, MoreIs
<1>6. DOMAIN nx.open = 1..(Len(a.open) + 1) /\ DOMAIN a.open = 1..Len(a.open) /\ Len(a.open) \in Nat
  BY <1>4, <1>5, ProgramIs
<1>7. Shaped(nx)
  <2>1. ASSUME NEW i \in DOMAIN nx.open
        PROVE  /\ nx.open[i] = [key |-> nx.open[i].key, rest |-> nx.open[i].rest, out |-> nx.open[i].out]
               /\ Program(nx.open[i].rest) /\ Program(nx.open[i].out)
    <3>1. CASE i = Len(a.open) + 1
      BY <1>2, <1>5, <3>1
    <3>2. CASE i \in 1..Len(a.open)
      <4>1. i \in DOMAIN a.open /\ nx.open[i] = a.open[i]
        BY <1>5, <1>6, <3>2
      <4>2. QED
        BY <1>1, <4>1 DEF Shaped
    <3>3. i = Len(a.open) + 1 \/ i \in 1..Len(a.open)
      BY <1>6
    <3>4. QED
      BY <3>1, <3>2, <3>3, Zenon
  <2>2. QED
    <3>1. Program(nx.modules) /\ Program(nx.program)
      BY <1>1, <1>3 DEF Shaped
    <3>2. nx = [open |-> nx.open, loaded |-> nx.loaded, modules |-> nx.modules, errors |-> nx.errors, program |-> nx.program]
      BY <1>3
    <3>3. QED
      BY <1>5, <2>1, <3>1, <3>2, Zenon DEF Shaped
<1>8. Len(ld.open) \in DOMAIN ld.open
  BY TopIs DEF Visiting
<1>9. QED
  <2>1. nx.loaded = ld.loaded /\ nx.modules = ld.modules /\ nx.program = ld.program /\ nx.errors = ld.errors
    BY <1>1, <1>3 DEF Moves
  <2>2. Len(a.open) = Len(ld.open) /\ DOMAIN a.open = DOMAIN ld.open
    BY <1>1 DEF Moves
  <2>3. \A i \in DOMAIN ld.open : nx.open[i] = a.open[i]
    BY <1>5, <1>6, <2>2
  <2>4. \A i \in DOMAIN ld.open : i # Len(ld.open) => nx.open[i] = ld.open[i]
    BY <1>1, <2>3 DEF Moves
  <2>5. nx.open[Len(ld.open)] = [key |-> Top(ld).key, rest |-> Tail(Top(ld).rest), out |-> Top(ld).out]
    BY <1>1, <1>8, <2>3 DEF Moves
  <2>6. Len(nx.open) = Len(ld.open) + 1 /\ nx.open[Len(ld.open) + 1] = [key |-> m, rest |-> stmts, out |-> <<>>]
    BY <1>2, <1>5, <2>2
  <2>7. Opens(ld, nx, m, stmts)
    BY <1>7, <2>1, <2>4, <2>5, <2>6 DEF Opens
  <2>8. QED
    BY <2>7 DEF a, e, nx

\* A module is closed into the program that imports it.
Closes(ld, nx) ==
  LET n == Len(ld.open) IN
  /\ Shaped(nx) /\ Len(nx.open) = n - 1
  /\ \A i \in 1..(n - 2) : nx.open[i] = ld.open[i]
  /\ nx.open[n - 1] = [key |-> ld.open[n - 1].key, rest |-> ld.open[n - 1].rest, out |-> ld.open[n - 1].out \o Top(ld).out]
  /\ nx.loaded = ld.loaded \cup {Top(ld).key} /\ nx.modules = Append(ld.modules, Top(ld).key)
  /\ nx.program = ld.program /\ nx.errors = ld.errors

LEMMA JoinIs ==
  ASSUME NEW s, Program(s), NEW t, Program(t), NEW l, Len(s) = l, NEW m, Len(t) = m
  PROVE  /\ Program(s \o t) /\ Len(s \o t) = l + m
         /\ \A i \in 1..(l + m) : (s \o t)[i] = IF i <= l THEN s[i] ELSE t[i - l]
<1> DEFINE S == ToSet(s) \cup ToSet(t)
<1>1. s \in Seq(S) /\ t \in Seq(S)
  BY DEF Program
<1> HIDE DEF S
<1>2. QED
  BY <1>1, ConcatProperties, RangeTyped DEF Program

\* A sequence without its last element, and with v for the one before.
Fronted(s, f, v) ==
  /\ Program(f) /\ Len(f) = Len(s) - 1 /\ f[Len(s) - 1] = v
  /\ \A i \in 1..(Len(s) - 2) : f[i] = s[i]

LEMMA FrontIs ==
  ASSUME NEW s, Program(s), NEW n, n = Len(s), n > 1, NEW v
  PROVE  /\ Fronted(s, [Front(s) EXCEPT ![n - 1] = v], v)
         /\ Front(s)[n - 1] = s[n - 1]
<1> DEFINE S == ToSet(s) \cup {v}
           g == Front(s)
           f == [g EXCEPT ![n - 1] = v]
<1>1. n \in Nat /\ \A i \in 1..(n - 1) : s[i] \in S
  BY ProgramIs DEF ToSet
<1>2. g = SubSeq(s, 1, n - 1)
  BY DEF Front
<1> HIDE DEF S, g
<1>3. g \in Seq(S) /\ Len(g) = n - 1 /\ \A i \in 1..(n - 1) : g[i] = s[i]
  <2>1. /\ SubSeq(s, 1, n - 1) \in Seq(S)
        /\ Len(SubSeq(s, 1, n - 1)) = IF 1 <= n - 1 THEN (n - 1) - 1 + 1 ELSE 0
        /\ \A i \in 1..((n - 1) - 1 + 1) : SubSeq(s, 1, n - 1)[i] = s[1 + i - 1]
    BY <1>1, SubSeqProperties
  <2>2. (n - 1) - 1 + 1 = n - 1 /\ 1 <= n - 1 /\ \A i \in 1..(n - 1) : 1 + i - 1 = i
    BY <1>1
  <2>3. QED
    BY <1>2, <2>1, <2>2
<1>4. n - 1 \in 1..Len(g) /\ v \in S
  BY <1>1, <1>3 DEF S
<1>5. f \in Seq(S) /\ Len(f) = Len(g) /\ \A j \in 1..Len(g) : f[j] = IF j = n - 1 THEN v ELSE g[j]
  BY <1>3, <1>4, ExceptSeq
<1> HIDE DEF f
<1>6. Program(f)
  BY <1>5, RangeTyped DEF Program
<1>7. /\ Len(f) = n - 1 /\ f[n - 1] = v
      /\ \A i \in 1..(n - 2) : f[i] = s[i]
      /\ g[n - 1] = s[n - 1]
  BY <1>1, <1>3, <1>4, <1>5
<1>8. QED
  BY <1>6, <1>7 DEF Fronted, f, g

LEMMA CloseIs ==
  ASSUME NEW ld, Shaped(ld), Len(ld.open) > 1, Top(ld).key # Root
  PROVE  Closes(ld, CloseProgram(ld))
<1> DEFINE n  == Len(ld.open)
           nx == CloseProgram(ld)
           o  == ld.open[n - 1].out \o Top(ld).out
           e  == [Front(ld.open)[n - 1] EXCEPT !.out = Front(ld.open)[n - 1].out \o Top(ld).out]
           os == [Front(ld.open) EXCEPT ![n - 1] = e]
<1>1. Program(ld.open) /\ n \in Nat /\ DOMAIN ld.open = 1..n /\ n \in DOMAIN ld.open /\ n - 1 \in DOMAIN ld.open
      /\ Program(Top(ld).out)
  <2>1. Program(ld.open) /\ n \in Nat /\ DOMAIN ld.open = 1..n
    BY ProgramIs DEF Shaped
  <2>2. Loading(ld)
    BY <2>1 DEF Loading
  <2>3. QED
    BY <2>1, <2>2, TopIs
<1>2. nx = [ld EXCEPT !.loaded = ld.loaded \cup {Top(ld).key}, !.modules = Append(ld.modules, Top(ld).key), !.open = os]
  <2> DEFINE f == Front(ld.open)
             x == Top(ld).out
  <2>1. [f EXCEPT ![n - 1].out = @ \o x] = [f EXCEPT ![n - 1] = [f[n - 1] EXCEPT !.out = f[n - 1].out \o x]]
    <3> HIDE DEF f, x, n
    <3>1. QED
      OBVIOUS
  <2>2. nx = [ld EXCEPT !.loaded = ld.loaded \cup {Top(ld).key}, !.modules = Append(ld.modules, Top(ld).key),
                        !.open = [f EXCEPT ![n - 1].out = @ \o x]]
    BY DEF CloseProgram
  <2>3. QED
    BY <2>1, <2>2
<1>3. Front(ld.open)[n - 1] = ld.open[n - 1]
  BY <1>1, FrontIs
<1>4. e = [key |-> ld.open[n - 1].key, rest |-> ld.open[n - 1].rest, out |-> o]
  <2>1. ld.open[n - 1] = [key |-> ld.open[n - 1].key, rest |-> ld.open[n - 1].rest, out |-> ld.open[n - 1].out]
    BY <1>1 DEF Shaped
  <2>2. QED
    BY <1>3, <2>1, EntryIs
<1> HIDE DEF e
<1>5. Program(os) /\ Len(os) = n - 1 /\ (\A i \in 1..(n - 2) : os[i] = ld.open[i]) /\ os[n - 1] = e
  <2>1. Fronted(ld.open, os, e)
    BY <1>1, FrontIs
  <2> HIDE DEF os
  <2>2. QED
    BY <2>1 DEF Fronted
<1> HIDE DEF os, nx, n
<1>6. nx = [open |-> os, loaded |-> ld.loaded \cup {Top(ld).key}, modules |-> Append(ld.modules, Top(ld).key),
            errors |-> ld.errors, program |-> ld.program]
  BY <1>2 DEF Shaped
<1>7. Program(o)
  BY <1>1, JoinIs DEF Shaped
<1> HIDE DEF o
<1>8. Shaped(nx)
  <2>1. DOMAIN os = 1..(n - 1)
    BY <1>5, ProgramIs
  <2>2. Program(nx.open) /\ Program(nx.modules) /\ Program(nx.program)
    BY <1>5, <1>6, MoreIs DEF Shaped
  <2>3. ASSUME NEW i \in DOMAIN os
        PROVE  os[i] = [key |-> os[i].key, rest |-> os[i].rest, out |-> os[i].out] /\ Program(os[i].rest) /\ Program(os[i].out)
    <3>1. CASE i = n - 1
      <4>1. Program(ld.open[n - 1].rest)
        BY <1>1 DEF Shaped
      <4>2. os[i] = [key |-> ld.open[n - 1].key, rest |-> ld.open[n - 1].rest, out |-> o]
        BY <1>4, <1>5, <3>1
      <4>3. QED
        BY <1>7, <4>1, <4>2
    <3>2. CASE i \in 1..(n - 2)
      <4>1. i \in DOMAIN ld.open /\ os[i] = ld.open[i]
        BY <1>1, <1>5, <3>2
      <4>2. QED
        BY <4>1 DEF Shaped
    <3>3. QED
      BY <1>1, <2>1, <3>1, <3>2
  <2>4. QED
    BY <1>6, <2>2, <2>3 DEF Shaped
<1>9. Len(nx.open) = n - 1 /\ (\A i \in 1..(n - 2) : nx.open[i] = ld.open[i]) /\ nx.open[n - 1] = e
  <2>1. nx.open = os
    BY <1>6
  <2>2. QED
    BY <1>5, <2>1
<1>10. nx.open[n - 1] = [key |-> ld.open[n - 1].key, rest |-> ld.open[n - 1].rest, out |-> o]
  BY <1>4, <1>9
<1>11. /\ nx.loaded = ld.loaded \cup {Top(ld).key} /\ nx.modules = Append(ld.modules, Top(ld).key)
       /\ nx.program = ld.program /\ nx.errors = ld.errors
  BY <1>6
<1>12. Closes(ld, nx)
  BY <1>8, <1>9, <1>10, <1>11 DEF Closes, n, o
<1>13. QED
  BY <1>12 DEF nx

LEMMA CloseRootIs ==
  ASSUME NEW ld, Shaped(ld), Loading(ld), Top(ld).key = Root
  PROVE  LET nx == CloseProgram(ld)
         IN  /\ Shaped(nx) /\ nx.open = <<>> /\ nx.program = Top(ld).out
             /\ nx.loaded = ld.loaded /\ nx.modules = ld.modules /\ nx.errors = ld.errors
<1>1. CloseProgram(ld) = [open |-> <<>>, loaded |-> ld.loaded, modules |-> ld.modules, errors |-> ld.errors,
                          program |-> Top(ld).out]
  BY DEF CloseProgram, Shaped
<1>2. Program(<<>>) /\ DOMAIN <<>> = {}
  BY DEF Program
<1>3. QED
  BY <1>1, <1>2, TopIs DEF Shaped

-----------------------------------------------------------------------------
(* What holds of the open programs: each is above the one that imports it,   *)
(* and what is left of it is the end of what its module says.                *)

Key(ld, i) == ld.open[i].key
Pos(e) == Len(Stmts(e.key)) - Len(e.rest)
Reads(e) ==
  /\ Pos(e) \in Nat /\ Pos(e) + Len(e.rest) = Len(Stmts(e.key))
  /\ \A x \in 1..Len(e.rest) : e.rest[x] = Stmts(e.key)[Pos(e) + x]

StackInv(ld) ==
  /\ \A i \in DOMAIN ld.open :
        /\ Reads(ld.open[i])
        /\ IF i = 1 THEN Key(ld, i) = Root
           ELSE Key(ld, i) # Root /\ Usable(Key(ld, i)) /\ Key(ld, i) \in Below(Root) \ ld.loaded
  /\ \A i, j \in DOMAIN ld.open : i < j => Key(ld, j) \in Below(Key(ld, i)) \ {Key(ld, i)}
  /\ \A m \in ld.loaded : Usable(m) /\ m \in Below(Root) \ {Root}
  /\ ToSet(ld.modules) = ld.loaded
  /\ \A x, y \in DOMAIN ld.modules : ld.modules[x] = ld.modules[y] => x = y
  /\ ld.errors # {} => ModuleErrors

\* Without an error: what was imported is loaded, or is being loaded.
ImportInv(ld) ==
  /\ \A x \in DOMAIN ld.modules : \A t \in ImportsOf(ld.modules[x]) : \E y \in 1..(x - 1) : ld.modules[y] = t
  /\ \A i \in DOMAIN ld.open : \A j \in 1..Pos(ld.open[i]) : ImportAt(Key(ld, i), j) =>
        \/ TargetOf(Key(ld, i), j) \in ld.loaded
        \/ j = Pos(ld.open[i]) /\ i + 1 \in DOMAIN ld.open /\ TargetOf(Key(ld, i), j) = Key(ld, i + 1)
  /\ ~Loading(ld) => ImportsOf(Root) \subseteq ld.loaded

(* What was kept of the statements, and where each of them was written.      *)
Decls(m) == {h \in DOMAIN Stmts(m) : ~ImportAt(m, h)}
Done(ld) ==
  {p \in ({Root} \cup Below(Root)) \X (Nat \ {0}) :
     /\ \/ p[1] \in ld.loaded
        \/ \E i \in DOMAIN ld.open : p[1] = Key(ld, i) /\ p[2] <= Pos(ld.open[i])
        \/ ~Loading(ld) /\ p[1] = Root
     /\ p[2] \in Decls(p[1])}
Kept(ld, i) == IF Loading(ld) THEN ld.open[i].out ELSE ld.program
Spots(ld) == {s \in (IF Loading(ld) THEN DOMAIN ld.open ELSE {1}) \X Nat : s[2] \in DOMAIN Kept(ld, s[1])}
Before(s, t) == s[1] < t[1] \/ (s[1] = t[1] /\ s[2] < t[2])
Precedes(p, q) == \E j \in 1..(q[2] - 1) : ImportAt(q[1], j) /\ TargetOf(q[1], j) = p[1]

Laid(ld, at) ==
  /\ \A s \in Spots(ld) : at[s] \in Done(ld) /\ Kept(ld, s[1])[s[2]] = Stmts(at[s][1])[at[s][2]]
  /\ \A p \in Done(ld) : \E s \in Spots(ld) : at[s] = p
  /\ \A s, t \in Spots(ld) : at[s] = at[t] => s = t
  /\ \A s, t \in Spots(ld) : Precedes(at[s], at[t]) => Before(s, t)

LoaderInv(ld) ==
  /\ Shaped(ld) /\ StackInv(ld)
  /\ ld.errors = {} => ImportInv(ld) /\ \E at : Laid(ld, at)

-----------------------------------------------------------------------------
(* What the programs of a job import.                                        *)

LEMMA StmtsTyped ==
  ASSUME job \in Jobs, NEW m, m = Root \/ Usable(m)
  PROVE  Program(Stmts(m)) /\ Len(Stmts(m)) \in Nat /\ DOMAIN Stmts(m) = 1..Len(Stmts(m))
<1>1. Program(Stmts(m))
  BY JobsAssumption DEF Stmts, Usable
<1>2. QED
  BY <1>1, ProgramIs

\* The main program is no module.
LEMMA NoneIsRoot ==
  /\ \A m, i : TargetOf(m, i) # Root
  /\ Root \notin Imported
  /\ \A m : Below(m) \subseteq Imported
<1>1. \A m, i : TargetOf(m, i) # Root
  BY DEF TargetOf, Root
<1>2. \A m : Root \notin ImportsOf(m)
  BY <1>1 DEF ImportsOf
<1>3. QED
  BY <1>1, <1>2 DEF Imported, Below

\* What is imported by a module, or below it, is below it.
LEMMA BelowStep ==
  ASSUME NEW m, NEW a, a = m \/ a \in Below(m), a = Root \/ Usable(a), NEW t \in ImportsOf(a)
  PROVE  t \in Below(m)
<1>1. t \in Imported
  BY DEF Imported, Usable
<1>2. ASSUME NEW ms \in SUBSET Imported, ImportsOf(m) \subseteq ms, Closed(ms)
      PROVE  t \in ms
  <2>1. CASE a = m
    BY <1>2, <2>1
  <2>2. CASE a # m
    <3>1. a \in Below(m) /\ a # Root
      BY <2>2, NoneIsRoot
    <3>2. a \in ms /\ Usable(a)
      BY <1>2, <3>1 DEF Below
    <3>3. QED
      BY <1>2, <3>2 DEF Closed
  <2>3. QED
    BY <2>1, <2>2
<1>3. QED
  BY <1>1, <1>2 DEF Below

-----------------------------------------------------------------------------
(* The open programs after each step.                                        *)

\* The statement that is visited next.
LEMMA NextIs ==
  ASSUME job \in Jobs, NEW ld, Shaped(ld), StackInv(ld), Visiting(ld)
  PROVE  LET e == Top(ld)
             p == Pos(e) + 1
         IN  /\ p \in Nat /\ p \in DOMAIN Stmts(e.key) /\ Head(e.rest) = Stmts(e.key)[p]
             /\ AtImport(ld) <=> ImportAt(e.key, p)
             /\ AtImport(ld) => /\ Target(ld) = TargetOf(e.key, p) /\ Target(ld) \in Below(Root) \ {Root}
                                /\ \A i \in DOMAIN ld.open : Target(ld) \in Below(Key(ld, i))
<1> DEFINE n == Len(ld.open)
           e == Top(ld)
           p == Pos(e) + 1
<1>1. n \in DOMAIN ld.open /\ DOMAIN ld.open = 1..n /\ n \in Nat \ {0} /\ e = ld.open[n] /\ Program(e.rest) /\ e.rest # <<>>
  BY TopIs DEF Visiting
<1>2. Reads(e) /\ (e.key = Root \/ Usable(e.key)) /\ (e.key = Root \/ e.key \in Below(Root))
  BY <1>1 DEF StackInv, Key
<1>3. Head(e.rest) = e.rest[1] /\ Len(e.rest) \in Nat \ {0}
  BY <1>1, TailIs, ProgramIs
<1>4. DOMAIN Stmts(e.key) = 1..Len(Stmts(e.key)) /\ Len(Stmts(e.key)) \in Nat
  BY <1>2, StmtsTyped
<1>5. p \in Nat /\ p \in DOMAIN Stmts(e.key) /\ e.rest[1] = Stmts(e.key)[p]
  BY <1>2, <1>3, <1>4 DEF Reads
<1> HIDE DEF p, e
<1>6. AtImport(ld) <=> ImportAt(e.key, p)
  BY <1>3, <1>5 DEF AtImport, ImportAt, e
<1>7. ASSUME AtImport(ld)
      PROVE  /\ Target(ld) = TargetOf(e.key, p) /\ Target(ld) \in Below(Root) \ {Root}
             /\ \A i \in DOMAIN ld.open : Target(ld) \in Below(Key(ld, i))
  <2>1. Target(ld) = TargetOf(e.key, p)
    BY <1>3, <1>5 DEF Target, TargetOf, e
  <2>2. Target(ld) \in ImportsOf(e.key)
    BY <1>5, <1>6, <1>7, <2>1 DEF ImportsOf
  <2>3. Target(ld) \in Below(Root)
    BY <1>2, <2>2, BelowStep
  <2>4. ASSUME NEW i \in DOMAIN ld.open
        PROVE  e.key = Key(ld, i) \/ e.key \in Below(Key(ld, i))
    BY <1>1 DEF StackInv, Key
  <2>5. QED
    BY <1>2, <2>1, <2>2, <2>3, <2>4, BelowStep, NoneIsRoot
<1>8. QED
  BY <1>5, <1>3, <1>6, <1>7 DEF e, p

\* What is left after a statement.
LEMMA ReadsOn ==
  ASSUME NEW e, Reads(e), Program(e.rest), e.rest # <<>>, NEW f, f.key = e.key, f.rest = Tail(e.rest)
  PROVE  Reads(f) /\ Pos(f) = Pos(e) + 1
<1> DEFINE k == Len(f.rest)
           l == Len(e.rest)
           L == Len(Stmts(e.key))
           p == Pos(e)
           q == Pos(f)
<1>1. k = l - 1 /\ l \in Nat \ {0} /\ \A x \in 1..k : f.rest[x] = e.rest[x + 1]
  BY TailIs, ProgramIs
<1>2. p \in Nat /\ p + l = L /\ \A x \in 1..l : e.rest[x] = Stmts(e.key)[p + x]
  BY DEF Reads
<1>3. q = L - k
  BY DEF Pos
<1> HIDE DEF k, l, L, p, q
<1>4. q = p + 1 /\ q + k = L /\ q \in Nat
  <2>1. L \in Nat /\ L = p + l /\ k \in Nat
    BY <1>1, <1>2
  <2>2. q = (p + l) - (l - 1)
    BY <1>1, <1>3, <2>1
  <2>3. q = p + 1
    BY <1>1, <1>2, <2>2
  <2>4. QED
    BY <1>1, <1>2, <2>1, <2>3
<1>5. ASSUME NEW x \in 1..k
      PROVE  f.rest[x] = Stmts(e.key)[q + x]
  <2>1. x + 1 \in 1..l /\ q + x = p + (x + 1)
    BY <1>1, <1>2, <1>4
  <2>2. QED
    BY <1>1, <1>2, <2>1
<1>6. QED
  BY <1>4, <1>5 DEF Reads, k, L, p, q

\* One statement of the last program is behind.
LEMMA PassStack ==
  ASSUME NEW ld, Shaped(ld), StackInv(ld), Visiting(ld), NEW out,
         NEW nx, Moves(ld, nx, Tail(Top(ld).rest), out), nx.errors # {} => ModuleErrors
  PROVE  /\ StackInv(nx) /\ DOMAIN nx.open = DOMAIN ld.open
         /\ \A i \in DOMAIN ld.open : Key(nx, i) = Key(ld, i)
         /\ \A i \in DOMAIN ld.open : i # Len(ld.open) => nx.open[i] = ld.open[i]
         /\ Pos(nx.open[Len(ld.open)]) = Pos(Top(ld)) + 1
<1> DEFINE n == Len(ld.open)
           e == Top(ld)
           f == nx.open[n]
<1>1. n \in DOMAIN ld.open /\ e = ld.open[n] /\ Program(e.rest) /\ e.rest # <<>>
  BY TopIs DEF Visiting
<1>2. f.key = e.key /\ f.rest = Tail(e.rest)
  BY DEF Moves
<1>3. Reads(e)
  BY <1>1 DEF StackInv
<1> HIDE DEF e, f
<1>4. Reads(f) /\ Pos(f) = Pos(e) + 1
  BY <1>1, <1>2, <1>3, ReadsOn
<1>5. DOMAIN nx.open = DOMAIN ld.open /\ \A i \in DOMAIN ld.open : i # n => nx.open[i] = ld.open[i]
  BY DEF Moves
<1>6. \A i \in DOMAIN ld.open : Key(nx, i) = Key(ld, i)
  BY <1>1, <1>2, <1>5 DEF Key, f
<1>7. \A i \in DOMAIN ld.open : Reads(nx.open[i])
  BY <1>4, <1>5 DEF StackInv, f
<1>8. nx.loaded = ld.loaded /\ nx.modules = ld.modules
  BY DEF Moves
<1>9. StackInv(nx)
  BY <1>5, <1>6, <1>7, <1>8 DEF StackInv
<1>10. QED
  BY <1>4, <1>5, <1>6, <1>9 DEF e, f

\* An imported module is opened.
LEMMA OpenStack ==
  ASSUME job \in Jobs, NEW ld, Shaped(ld), StackInv(ld), AtImport(ld), Usable(Target(ld)),
         Target(ld) \notin ld.loaded, Target(ld) \notin InProgress(ld),
         NEW nx, Opens(ld, nx, Target(ld), Stmts(Target(ld)))
  PROVE  /\ StackInv(nx) /\ DOMAIN ld.open = 1..Len(ld.open) /\ Len(ld.open) \in Nat \ {0}
         /\ DOMAIN nx.open = 1..(Len(ld.open) + 1)
         /\ \A i \in DOMAIN ld.open : Key(nx, i) = Key(ld, i)
         /\ \A i \in DOMAIN ld.open : i # Len(ld.open) => nx.open[i] = ld.open[i]
         /\ Pos(nx.open[Len(ld.open)]) = Pos(Top(ld)) + 1
         /\ Key(nx, Len(ld.open) + 1) = Target(ld) /\ Pos(nx.open[Len(ld.open) + 1]) = 0
<1> DEFINE n == Len(ld.open)
           e == Top(ld)
           m == Target(ld)
           f == nx.open[n]
           g == nx.open[n + 1]
<1>1. n \in DOMAIN ld.open /\ DOMAIN ld.open = 1..n /\ n \in Nat \ {0} /\ e = ld.open[n] /\ Program(e.rest) /\ e.rest # <<>>
      /\ Visiting(ld)
  BY TopIs DEF AtImport, Visiting
<1>2. m \in Below(Root) \ {Root} /\ \A i \in DOMAIN ld.open : m \in Below(Key(ld, i))
  BY <1>1, NextIs
<1>3. f.key = e.key /\ f.rest = Tail(e.rest) /\ g.key = m /\ g.rest = Stmts(m)
  BY DEF Opens
<1>4. Reads(e)
  BY <1>1 DEF StackInv
<1> HIDE DEF e, f, g, m
<1>5. Reads(f) /\ Pos(f) = Pos(e) + 1
  BY <1>1, <1>3, <1>4, ReadsOn
<1>6. Reads(g) /\ Pos(g) = 0
  <2>1. Len(Stmts(m)) \in Nat
    BY StmtsTyped DEF m
  <2>2. Pos(g) = 0
    BY <1>3, <2>1 DEF Pos
  <2>3. QED
    BY <1>3, <2>1, <2>2 DEF Reads
<1>7. DOMAIN nx.open = 1..(n + 1) /\ \A i \in 1..n : i # n => nx.open[i] = ld.open[i]
  <2>1. Program(nx.open) /\ Len(nx.open) = n + 1
    BY DEF Opens, Shaped
  <2>2. DOMAIN nx.open = 1..(n + 1)
    BY <2>1, ProgramIs
  <2>3. QED
    BY <1>1, <2>2 DEF Opens
<1>8. \A i \in 1..n : Key(nx, i) = Key(ld, i)
  BY <1>1, <1>3, <1>7 DEF Key, f
<1>9. Key(nx, n + 1) = m
  BY <1>3 DEF Key, g
<1>10. nx.loaded = ld.loaded /\ nx.modules = ld.modules /\ nx.errors = ld.errors
  BY DEF Opens
<1>11. \A i \in 1..n : m # Key(ld, i)
  <2>1. \A i \in 2..n : m # Key(ld, i)
    BY <1>1 DEF InProgress, Key, m
  <2>2. Key(ld, 1) = Root
    BY <1>1 DEF StackInv
  <2>3. QED
    BY <1>1, <1>2, <2>1, <2>2
<1>12. StackInv(nx)
  <2>1. ASSUME NEW i \in DOMAIN nx.open
        PROVE  /\ Reads(nx.open[i])
               /\ IF i = 1 THEN Key(nx, i) = Root
                  ELSE Key(nx, i) # Root /\ Usable(Key(nx, i)) /\ Key(nx, i) \in Below(Root) \ nx.loaded
    <3>1. CASE i \in 1..n
      <4>1. Reads(nx.open[i])
        BY <1>1, <1>5, <1>7, <3>1 DEF StackInv, f
      <4>2. QED
        BY <1>1, <1>8, <1>10, <3>1, <4>1 DEF StackInv
    <3>2. CASE i = n + 1
      BY <1>1, <1>2, <1>6, <1>9, <1>10, <3>2 DEF g, m
    <3>3. QED
      BY <1>1, <1>7, <3>1, <3>2
  <2>2. ASSUME NEW i \in DOMAIN nx.open, NEW j \in DOMAIN nx.open, i < j
        PROVE  Key(nx, j) \in Below(Key(nx, i)) \ {Key(nx, i)}
    <3>1. i \in 1..n
      BY <1>1, <1>7, <2>2
    <3>2. CASE j \in 1..n
      BY <1>1, <1>8, <2>2, <3>1, <3>2 DEF StackInv
    <3>3. CASE j = n + 1
      BY <1>1, <1>2, <1>8, <1>9, <1>11, <3>1, <3>3
    <3>4. QED
      BY <1>1, <1>7, <3>2, <3>3
  <2>3. QED
    BY <1>10, <2>1, <2>2 DEF StackInv
<1>13. QED
  BY <1>1, <1>5, <1>6, <1>7, <1>8, <1>9, <1>12 DEF e, f, g, m

\* A module is closed: it is loaded.
LEMMA CloseStack ==
  ASSUME NEW ld, Shaped(ld), StackInv(ld), Loading(ld), Top(ld).key # Root,
         NEW nx, Closes(ld, nx)
  PROVE  /\ StackInv(nx) /\ Len(ld.open) \in Nat /\ Len(ld.open) > 1
         /\ DOMAIN ld.open = 1..Len(ld.open) /\ DOMAIN nx.open = 1..(Len(ld.open) - 1)
         /\ \A i \in DOMAIN nx.open : Key(nx, i) = Key(ld, i) /\ Pos(nx.open[i]) = Pos(ld.open[i])
         /\ Usable(Top(ld).key) /\ Top(ld).key \notin ld.loaded
<1> DEFINE n == Len(ld.open)
           m == Top(ld).key
<1>1. n \in DOMAIN ld.open /\ DOMAIN ld.open = 1..n /\ n \in Nat \ {0} /\ m = Key(ld, n)
  BY TopIs DEF Key
<1>2. n > 1 /\ Usable(m) /\ m \in Below(Root) \ ld.loaded /\ m # Root
  BY <1>1 DEF StackInv
<1>3. DOMAIN nx.open = 1..(n - 1)
  BY <1>1, ProgramIs DEF Closes, Shaped
<1>4. ASSUME NEW i \in DOMAIN nx.open
      PROVE  Key(nx, i) = Key(ld, i) /\ nx.open[i].rest = ld.open[i].rest
  <2>1. /\ \A j \in 1..(n - 2) : nx.open[j] = ld.open[j]
        /\ nx.open[n - 1] = [key |-> ld.open[n - 1].key, rest |-> ld.open[n - 1].rest, out |-> ld.open[n - 1].out \o Top(ld).out]
    BY DEF Closes
  <2> HIDE DEF n
  <2>2. i \in 1..(n - 2) \/ i = n - 1
    BY <1>1, <1>3
  <2>3. CASE i = n - 1
    BY <2>1, <2>3 DEF Key
  <2>4. CASE i \in 1..(n - 2)
    BY <2>1, <2>4 DEF Key
  <2>5. QED
    BY <2>2, <2>3, <2>4
<1>5. ASSUME NEW i \in DOMAIN nx.open
      PROVE  Pos(nx.open[i]) = Pos(ld.open[i]) /\ Reads(nx.open[i]) /\ Key(nx, i) # m
  <2>1. i \in DOMAIN ld.open /\ i < n
    BY <1>1, <1>3
  <2>2. Pos(nx.open[i]) = Pos(ld.open[i])
    BY <1>4 DEF Pos, Key
  <2>3. Reads(nx.open[i])
    <3> DEFINE a == ld.open[i]
               b == nx.open[i]
    <3>1. Reads(a) /\ b.key = a.key /\ b.rest = a.rest /\ Pos(b) = Pos(a)
      BY <1>4, <2>1, <2>2 DEF StackInv, Key
    <3> HIDE DEF a, b
    <3>2. Reads(b)
      BY <3>1 DEF Reads
    <3>3. QED
      BY <3>2 DEF b
  <2>4. QED
    BY <1>1, <1>4, <2>1, <2>2, <2>3 DEF StackInv
<1>6. nx.loaded = ld.loaded \cup {m} /\ nx.modules = Append(ld.modules, m) /\ nx.errors = ld.errors
  BY DEF Closes
<1>7. ToSet(nx.modules) = nx.loaded /\ \A x, y \in DOMAIN nx.modules : nx.modules[x] = nx.modules[y] => x = y
  <2>1. /\ Program(ld.modules) /\ Program(nx.modules)
        /\ Len(nx.modules) = Len(ld.modules) + 1 /\ nx.modules[Len(ld.modules) + 1] = m
        /\ \A x \in 1..Len(ld.modules) : nx.modules[x] = ld.modules[x]
    BY <1>6, MoreIs DEF Shaped
  <2>2. DOMAIN ld.modules = 1..Len(ld.modules) /\ DOMAIN nx.modules = 1..(Len(ld.modules) + 1) /\ Len(ld.modules) \in Nat
    BY <2>1, ProgramIs
  <2>3. \A x \in DOMAIN ld.modules : ld.modules[x] # m
    BY <1>2 DEF StackInv, ToSet
  <2>4. ToSet(nx.modules) = ToSet(ld.modules) \cup {m}
    <3> DEFINE s == ld.modules
               t == nx.modules
               l == Len(s)
    <3>1. l \in Nat /\ DOMAIN s = 1..l /\ DOMAIN t = 1..(l + 1) /\ t[l + 1] = m /\ \A x \in 1..l : t[x] = s[x]
      BY <2>1, <2>2
    <3> HIDE DEF s, t, l, m
    <3>2. DOMAIN t = DOMAIN s \cup {l + 1}
      BY <3>1
    <3>3. \A v : v \in ToSet(t) <=> v \in ToSet(s) \cup {m}
      BY <3>1, <3>2 DEF ToSet
    <3>4. ToSet(t) = ToSet(s) \cup {m}
      BY <3>3
    <3>5. QED
      BY <3>4 DEF s, t
  <2>5. ToSet(ld.modules) = ld.loaded /\ \A x, y \in DOMAIN ld.modules : ld.modules[x] = ld.modules[y] => x = y
    BY DEF StackInv
  <2>6. ToSet(nx.modules) = nx.loaded
    BY <1>6, <2>4, <2>5
  <2>7. ASSUME NEW x \in DOMAIN nx.modules, NEW y \in DOMAIN nx.modules, nx.modules[x] = nx.modules[y]
        PROVE  x = y
    <3> DEFINE l == Len(ld.modules)
    <3>1. nx.modules[l + 1] = m /\ \A z \in 1..l : nx.modules[z] = ld.modules[z] /\ ld.modules[z] # m
      BY <2>1, <2>2, <2>3
    <3>2. l \in Nat /\ x \in 1..(l + 1) /\ y \in 1..(l + 1) /\ DOMAIN ld.modules = 1..l
      BY <2>2
    <3> HIDE DEF l, m
    <3>3. (x \in 1..l \/ x = l + 1) /\ (y \in 1..l \/ y = l + 1)
      BY <3>2
    <3>4. QED
      <4>1. CASE x \in 1..l /\ y \in 1..l
        BY <2>5, <2>7, <3>1, <3>2, <4>1
      <4>2. CASE x \in 1..l /\ y = l + 1
        BY <2>7, <3>1, <4>2
      <4>3. CASE x = l + 1 /\ y \in 1..l
        BY <2>7, <3>1, <4>3
      <4>4. QED
        BY <3>3, <4>1, <4>2, <4>3
  <2>8. QED
    BY <2>6, <2>7
<1>8. StackInv(nx)
  <2>1. ASSUME NEW i \in DOMAIN nx.open
        PROVE  /\ Reads(nx.open[i])
               /\ IF i = 1 THEN Key(nx, i) = Root
                  ELSE Key(nx, i) # Root /\ Usable(Key(nx, i)) /\ Key(nx, i) \in Below(Root) \ nx.loaded
    <3>1. i \in DOMAIN ld.open
      BY <1>1, <1>3
    <3>2. QED
      BY <1>4, <1>5, <1>6, <3>1 DEF StackInv
  <2>2. ASSUME NEW i \in DOMAIN nx.open, NEW j \in DOMAIN nx.open, i < j
        PROVE  Key(nx, j) \in Below(Key(nx, i)) \ {Key(nx, i)}
    <3>1. i \in DOMAIN ld.open /\ j \in DOMAIN ld.open
      BY <1>1, <1>3
    <3>2. QED
      BY <1>4, <2>2, <3>1 DEF StackInv
  <2>3. \A k \in nx.loaded : Usable(k) /\ k \in Below(Root) \ {Root}
    BY <1>2, <1>6 DEF StackInv
  <2>4. QED
    BY <1>6, <1>7, <2>1, <2>2, <2>3 DEF StackInv
<1>9. QED
  BY <1>1, <1>2, <1>3, <1>4, <1>5, <1>8

\* The main program is closed.
LEMMA CloseRootStack ==
  ASSUME NEW ld, StackInv(ld), NEW nx, nx.open = <<>>, nx.loaded = ld.loaded, nx.modules = ld.modules, nx.errors = ld.errors
  PROVE  StackInv(nx)
<1>1. DOMAIN nx.open = {}
  OBVIOUS
<1>2. QED
  BY <1>1 DEF StackInv

LEMMA PassImports ==
  ASSUME job \in Jobs, NEW ld, Shaped(ld), StackInv(ld), ImportInv(ld), Visiting(ld), AtImport(ld) => Target(ld) \in ld.loaded,
         NEW out, NEW nx, Moves(ld, nx, Tail(Top(ld).rest), out), nx.errors # {} => ModuleErrors
  PROVE  ImportInv(nx)
<1> DEFINE n == Len(ld.open)
           p == Pos(Top(ld)) + 1
<1>1. n \in DOMAIN ld.open /\ DOMAIN ld.open = 1..n /\ n \in Nat \ {0} /\ Top(ld) = ld.open[n]
  BY TopIs DEF Visiting
<1>2. /\ DOMAIN nx.open = 1..n /\ Pos(nx.open[n]) = p
      /\ \A i \in 1..n : Key(nx, i) = Key(ld, i)
      /\ \A i \in 1..n : i # n => nx.open[i] = ld.open[i]
  <2>1. /\ DOMAIN nx.open = DOMAIN ld.open
        /\ \A i \in DOMAIN ld.open : Key(nx, i) = Key(ld, i)
        /\ \A i \in DOMAIN ld.open : i # Len(ld.open) => nx.open[i] = ld.open[i]
        /\ Pos(nx.open[Len(ld.open)]) = Pos(Top(ld)) + 1
    BY PassStack
  <2> HIDE DEF p
  <2>2. QED
    BY <1>1, <2>1 DEF p
<1>3. p \in Nat /\ p - 1 = Pos(ld.open[n]) /\ (ImportAt(Key(ld, n), p) => TargetOf(Key(ld, n), p) \in ld.loaded)
  <2>1. p \in Nat /\ (AtImport(ld) <=> ImportAt(Top(ld).key, p)) /\ (AtImport(ld) => Target(ld) = TargetOf(Top(ld).key, p))
    BY NextIs
  <2>2. Pos(Top(ld)) \in Nat
    BY <1>1 DEF StackInv, Reads
  <2> HIDE DEF n
  <2>3. QED
    BY <1>1, <2>1, <2>2 DEF Key
<1>4. nx.loaded = ld.loaded /\ nx.modules = ld.modules
  BY DEF Moves
<1> HIDE DEF p
<1>5. ASSUME NEW i \in 1..n, NEW j \in 1..Pos(nx.open[i]), ImportAt(Key(nx, i), j)
      PROVE  \/ TargetOf(Key(nx, i), j) \in nx.loaded
             \/ j = Pos(nx.open[i]) /\ i + 1 \in 1..n /\ TargetOf(Key(nx, i), j) = Key(nx, i + 1)
  <2>1. CASE i # n
    BY <1>1, <1>2, <1>4, <1>5, <2>1 DEF ImportInv
  <2>2. CASE i = n /\ j # p
    <3>1. j \in 1..Pos(ld.open[n]) /\ n + 1 \notin 1..n
      BY <1>1, <1>2, <1>3, <1>5, <2>2
    <3>2. TargetOf(Key(ld, n), j) \in ld.loaded
      BY <1>1, <1>2, <1>5, <2>2, <3>1 DEF ImportInv
    <3>3. QED
      BY <1>2, <1>4, <2>2, <3>2
  <2>3. CASE i = n /\ j = p
    BY <1>1, <1>2, <1>3, <1>4, <1>5, <2>3
  <2>4. QED
    BY <2>1, <2>2, <2>3
<1>6. Loading(nx)
  BY <1>1, <1>2 DEF Loading
<1>7. QED
  BY <1>2, <1>4, <1>5, <1>6 DEF ImportInv

LEMMA OpenImports ==
  ASSUME job \in Jobs, NEW ld, Shaped(ld), StackInv(ld), ImportInv(ld), AtImport(ld), Usable(Target(ld)),
         Target(ld) \notin ld.loaded, Target(ld) \notin InProgress(ld),
         NEW nx, Opens(ld, nx, Target(ld), Stmts(Target(ld)))
  PROVE  ImportInv(nx)
<1> DEFINE n == Len(ld.open)
           p == Pos(Top(ld)) + 1
<1>1. n \in DOMAIN ld.open /\ DOMAIN ld.open = 1..n /\ n \in Nat \ {0} /\ Top(ld) = ld.open[n] /\ Visiting(ld)
  BY TopIs DEF AtImport, Visiting
<1>2. /\ DOMAIN nx.open = 1..(n + 1) /\ Pos(nx.open[n]) = p /\ Pos(nx.open[n + 1]) = 0 /\ Key(nx, n + 1) = Target(ld)
      /\ \A i \in 1..n : Key(nx, i) = Key(ld, i)
      /\ \A i \in 1..n : i # n => nx.open[i] = ld.open[i]
  BY <1>1, OpenStack
<1>3. p \in Nat /\ p - 1 = Pos(ld.open[n]) /\ TargetOf(Key(ld, n), p) = Target(ld)
  <2>1. p \in Nat /\ Target(ld) = TargetOf(Top(ld).key, p)
    BY <1>1, NextIs
  <2>2. Pos(Top(ld)) \in Nat
    BY <1>1 DEF StackInv, Reads
  <2> HIDE DEF n
  <2>3. QED
    BY <1>1, <2>1, <2>2 DEF Key
<1>4. nx.loaded = ld.loaded /\ nx.modules = ld.modules
  BY DEF Opens
<1> HIDE DEF p
<1>5. ASSUME NEW i \in 1..(n + 1), NEW j \in 1..Pos(nx.open[i]), ImportAt(Key(nx, i), j)
      PROVE  \/ TargetOf(Key(nx, i), j) \in nx.loaded
             \/ j = Pos(nx.open[i]) /\ i + 1 \in 1..(n + 1) /\ TargetOf(Key(nx, i), j) = Key(nx, i + 1)
  <2>1. CASE i \in 1..n /\ i # n
    <3>1. i + 1 \in 1..n
      BY <1>1, <2>1
    <3>2. i + 1 \in 1..(n + 1)
      BY <1>1, <3>1
    <3>3. QED
      BY <1>1, <1>2, <1>4, <1>5, <2>1, <3>1, <3>2 DEF ImportInv
  <2>2. CASE i = n /\ j # p
    <3>1. j \in 1..Pos(ld.open[n]) /\ n + 1 \notin 1..n
      BY <1>1, <1>2, <1>3, <1>5, <2>2
    <3>2. TargetOf(Key(ld, n), j) \in ld.loaded
      BY <1>1, <1>2, <1>5, <2>2, <3>1 DEF ImportInv
    <3>3. QED
      BY <1>1, <1>2, <1>4, <2>2, <3>2
  <2>3. CASE i = n /\ j = p
    BY <1>1, <1>2, <1>3, <1>4, <1>5, <2>3
  <2>4. CASE i = n + 1
    BY <1>2, <1>5, <2>4
  <2>5. QED
    BY <1>1, <2>1, <2>2, <2>3, <2>4
<1>6. Loading(nx)
  <2>1. n + 1 \in DOMAIN nx.open
    BY <1>1, <1>2
  <2>2. QED
    BY <2>1 DEF Loading
<1>7. QED
  BY <1>2, <1>4, <1>5, <1>6 DEF ImportInv

\* At the end of a program all that it imports is loaded.
LEMMA AllLoaded ==
  ASSUME job \in Jobs, NEW ld, Shaped(ld), StackInv(ld), ImportInv(ld), Loading(ld), ~Visiting(ld)
  PROVE  /\ ImportsOf(Top(ld).key) \subseteq ld.loaded
         /\ Pos(Top(ld)) = Len(Stmts(Top(ld).key)) /\ DOMAIN Stmts(Top(ld).key) = 1..Pos(Top(ld))
<1> DEFINE n == Len(ld.open)
           e == Top(ld)
<1>1. n \in DOMAIN ld.open /\ DOMAIN ld.open = 1..n /\ n \in Nat \ {0} /\ e = ld.open[n]
  BY TopIs
<1>2. e.rest = <<>> /\ Reads(e) /\ (e.key = Root \/ Usable(e.key))
  BY <1>1 DEF Visiting, StackInv, Key
<1>3. DOMAIN Stmts(e.key) = 1..Len(Stmts(e.key)) /\ Len(Stmts(e.key)) \in Nat
  BY <1>2, StmtsTyped
<1>4. Pos(e) = Len(Stmts(e.key))
  BY <1>2, <1>3 DEF Pos
<1>5. ASSUME NEW j \in 1..Pos(e), ImportAt(e.key, j)
      PROVE  TargetOf(e.key, j) \in ld.loaded
  <2>1. n + 1 \notin DOMAIN ld.open
    BY <1>1
  <2> HIDE DEF e
  <2>2. QED
    BY <1>1, <1>5, <2>1 DEF ImportInv, Key
<1>6. QED
  BY <1>3, <1>4, <1>5 DEF ImportsOf

LEMMA CloseImports ==
  ASSUME job \in Jobs, NEW ld, Shaped(ld), StackInv(ld), ImportInv(ld), Loading(ld), ~Visiting(ld), Top(ld).key # Root,
         NEW nx, Closes(ld, nx)
  PROVE  ImportInv(nx)
<1> DEFINE n == Len(ld.open)
           m == Top(ld).key
<1>1. /\ n \in Nat /\ n > 1 /\ DOMAIN ld.open = 1..n /\ DOMAIN nx.open = 1..(n - 1)
      /\ \A i \in 1..(n - 1) : Key(nx, i) = Key(ld, i) /\ Pos(nx.open[i]) = Pos(ld.open[i])
  BY CloseStack
<1>2. m = Key(ld, n)
  BY TopIs DEF Key
<1>3. nx.loaded = ld.loaded \cup {m} /\ nx.modules = Append(ld.modules, m)
  BY DEF Closes
<1>4. ImportsOf(m) \subseteq ld.loaded
  BY AllLoaded
<1>5. ASSUME NEW i \in 1..(n - 1), NEW j \in 1..Pos(nx.open[i]), ImportAt(Key(nx, i), j)
      PROVE  \/ TargetOf(Key(nx, i), j) \in nx.loaded
             \/ j = Pos(nx.open[i]) /\ i + 1 \in 1..(n - 1) /\ TargetOf(Key(nx, i), j) = Key(nx, i + 1)
  <2>1. i \in 1..n /\ j \in 1..Pos(ld.open[i]) /\ ImportAt(Key(ld, i), j)
    BY <1>1, <1>5
  <2>2. \/ TargetOf(Key(ld, i), j) \in ld.loaded
        \/ j = Pos(ld.open[i]) /\ i + 1 \in 1..n /\ TargetOf(Key(ld, i), j) = Key(ld, i + 1)
    BY <1>1, <2>1 DEF ImportInv
  <2>3. CASE TargetOf(Key(ld, i), j) \in ld.loaded
    BY <1>1, <1>3, <2>3
  <2>4. CASE j = Pos(ld.open[i]) /\ i = n - 1 /\ TargetOf(Key(ld, i), j) = Key(ld, i + 1)
    <3>1. i + 1 = n
      BY <1>1, <2>4
    <3>2. QED
      BY <1>1, <1>2, <1>3, <2>4, <3>1
  <2>5. CASE j = Pos(ld.open[i]) /\ i # n - 1 /\ TargetOf(Key(ld, i), j) = Key(ld, i + 1)
    <3>1. i + 1 \in 1..(n - 1)
      BY <1>1, <2>5
    <3>2. QED
      BY <1>1, <2>5, <3>1
  <2>6. QED
    BY <2>2, <2>3, <2>4, <2>5
<1>6. ASSUME NEW x \in DOMAIN nx.modules, NEW t \in ImportsOf(nx.modules[x])
      PROVE  \E y \in 1..(x - 1) : nx.modules[y] = t
  <2> DEFINE k == Len(ld.modules)
  <2>1. /\ Program(ld.modules) /\ Program(nx.modules)
        /\ Len(nx.modules) = k + 1 /\ nx.modules[k + 1] = m
        /\ \A y \in 1..k : nx.modules[y] = ld.modules[y]
    BY <1>3, MoreIs DEF Shaped
  <2>2. DOMAIN ld.modules = 1..k /\ DOMAIN nx.modules = 1..(k + 1) /\ k \in Nat
    BY <2>1, ProgramIs
  <2> HIDE DEF k
  <2>3. CASE x = k + 1
    <3>1. t \in ToSet(ld.modules)
      BY <1>4, <1>6, <2>1, <2>3 DEF StackInv
    <3>2. PICK y \in 1..k : ld.modules[y] = t
      BY <2>2, <3>1 DEF ToSet
    <3>3. y \in 1..(x - 1) /\ nx.modules[y] = t
      BY <2>1, <2>2, <2>3, <3>2
    <3>4. QED
      BY <3>3
  <2>4. CASE x \in 1..k
    <3>1. \E y \in 1..(x - 1) : ld.modules[y] = t
      BY <1>6, <2>1, <2>2, <2>4 DEF ImportInv
    <3>2. \A y \in 1..(x - 1) : y \in 1..k
      BY <2>2, <2>4
    <3>3. QED
      BY <2>1, <3>1, <3>2
  <2>5. QED
    BY <2>2, <2>3, <2>4
<1>7. Loading(nx)
  <2>1. 1 \in DOMAIN nx.open
    BY <1>1
  <2>2. QED
    BY <2>1 DEF Loading
<1>8. QED
  BY <1>1, <1>5, <1>6, <1>7 DEF ImportInv

LEMMA CloseRootImports ==
  ASSUME job \in Jobs, NEW ld, Shaped(ld), StackInv(ld), ImportInv(ld), Loading(ld), ~Visiting(ld), Top(ld).key = Root,
         NEW nx, nx.open = <<>>, nx.loaded = ld.loaded, nx.modules = ld.modules
  PROVE  ImportInv(nx)
<1>1. DOMAIN nx.open = {} /\ ImportsOf(Root) \subseteq nx.loaded
  BY AllLoaded
<1>2. QED
  BY <1>1 DEF ImportInv

LEMMA SpotsOf ==
  ASSUME NEW ld, Shaped(ld), Loading(ld)
  PROVE  /\ DOMAIN ld.open = 1..Len(ld.open) /\ Len(ld.open) \in Nat \ {0}
         /\ \A i \in 1..Len(ld.open) : /\ Kept(ld, i) = ld.open[i].out /\ Len(ld.open[i].out) \in Nat
                                       /\ DOMAIN ld.open[i].out = 1..Len(ld.open[i].out)
         /\ Spots(ld) = {s \in (1..Len(ld.open)) \X Nat : s[2] \in 1..Len(ld.open[s[1]].out)}
<1>1. DOMAIN ld.open = 1..Len(ld.open) /\ Len(ld.open) \in Nat \ {0}
  BY TopIs
<1>2. ASSUME NEW i \in 1..Len(ld.open)
      PROVE  /\ Kept(ld, i) = ld.open[i].out /\ Len(ld.open[i].out) \in Nat
             /\ DOMAIN ld.open[i].out = 1..Len(ld.open[i].out)
  BY <1>1, ProgramIs DEF Kept, Shaped
<1>3. Spots(ld) = {s \in (1..Len(ld.open)) \X Nat : s[2] \in DOMAIN Kept(ld, s[1])}
  BY <1>1 DEF Spots
<1>4. QED
  BY <1>1, <1>2, <1>3

\* Another list of the same statements, in the same order.
LEMMA Relay ==
  ASSUME NEW ld, NEW at, Laid(ld, at), NEW nx, Done(nx) = Done(ld), NEW g,
         \A s \in Spots(nx) : g[s] \in Spots(ld) /\ Kept(nx, s[1])[s[2]] = Kept(ld, g[s][1])[g[s][2]],
         \A t \in Spots(ld) : \E s \in Spots(nx) : g[s] = t,
         \A s, t \in Spots(nx) : g[s] = g[t] => s = t,
         \A s, t \in Spots(nx) : Before(g[s], g[t]) => Before(s, t)
  PROVE  Laid(nx, [s \in Spots(nx) |-> at[g[s]]])
<1> DEFINE b == [s \in Spots(nx) |-> at[g[s]]]
<1>1. \A s \in Spots(nx) : b[s] = at[g[s]]
  OBVIOUS
<1> HIDE DEF b
<1>2. \A s \in Spots(nx) : b[s] \in Done(nx) /\ Kept(nx, s[1])[s[2]] = Stmts(b[s][1])[b[s][2]]
  BY <1>1 DEF Laid
<1>3. \A p \in Done(nx) : \E s \in Spots(nx) : b[s] = p
  BY <1>1 DEF Laid
<1>4. \A s, t \in Spots(nx) : b[s] = b[t] => s = t
  BY <1>1 DEF Laid
<1>5. \A s, t \in Spots(nx) : Precedes(b[s], b[t]) => Before(s, t)
  BY <1>1 DEF Laid
<1>6. Laid(nx, b)
  BY <1>2, <1>3, <1>4, <1>5 DEF Laid
<1>7. QED
  BY <1>6 DEF b

LEMMA SameLaid ==
  ASSUME NEW ld, NEW at, Laid(ld, at), NEW nx, Done(nx) = Done(ld), Spots(nx) = Spots(ld),
         \A s \in Spots(ld) : Kept(nx, s[1]) = Kept(ld, s[1])
  PROVE  Laid(nx, at)
BY DEF Laid

\* An import adds nothing to what is done.
LEMMA ImportDone ==
  ASSUME NEW ld, NEW nx, NEW n \in Nat \ {0}, DOMAIN ld.open = 1..n,
         DOMAIN nx.open = 1..n \/ (DOMAIN nx.open = 1..(n + 1) /\ Pos(nx.open[n + 1]) = 0),
         \A i \in 1..n : Key(nx, i) = Key(ld, i),
         \A i \in 1..n : i # n => nx.open[i] = ld.open[i],
         NEW p \in Nat \ {0}, Pos(ld.open[n]) = p - 1, Pos(nx.open[n]) = p, ImportAt(Key(ld, n), p), nx.loaded = ld.loaded
  PROVE  Done(nx) = Done(ld)
<1>1. ld.open # <<>> /\ nx.open # <<>>
  BY DOMAIN <<>> = {}
<1>2. Loading(ld) /\ Loading(nx)
  BY <1>1 DEF Loading
<1>3. ASSUME NEW q \in ({Root} \cup Below(Root)) \X (Nat \ {0}), q[2] \in Decls(q[1])
      PROVE  (\E i \in DOMAIN nx.open : q[1] = Key(nx, i) /\ q[2] <= Pos(nx.open[i]))
                <=> (\E i \in DOMAIN ld.open : q[1] = Key(ld, i) /\ q[2] <= Pos(ld.open[i]))
  <2>1. q[1] = Key(ld, n) => q[2] # p
    BY <1>3 DEF Decls
  <2>2. q[2] \in Nat \ {0}
    BY <1>3
  <2>3. ASSUME NEW i \in 1..n
        PROVE  (q[1] = Key(nx, i) /\ q[2] <= Pos(nx.open[i])) <=> (q[1] = Key(ld, i) /\ q[2] <= Pos(ld.open[i]))
    <3>1. CASE i = n
      BY <2>1, <2>2, <3>1
    <3>2. CASE i # n
      BY <3>2
    <3>3. QED
      BY <3>1, <3>2
  <2>4. ASSUME n + 1 \in DOMAIN nx.open
        PROVE  ~(q[2] <= Pos(nx.open[n + 1]))
    BY <1>3, <2>2, <2>4
  <2>5. DOMAIN ld.open \subseteq DOMAIN nx.open /\ DOMAIN nx.open \subseteq (1..n) \cup {n + 1}
    OBVIOUS
  <2>6. ASSUME NEW i \in DOMAIN nx.open, q[1] = Key(nx, i), q[2] <= Pos(nx.open[i])
        PROVE  \E h \in DOMAIN ld.open : q[1] = Key(ld, h) /\ q[2] <= Pos(ld.open[h])
    <3>1. i \in 1..n
      BY <2>4, <2>5, <2>6
    <3>2. QED
      BY <2>3, <2>6, <3>1
  <2>7. ASSUME NEW i \in DOMAIN ld.open, q[1] = Key(ld, i), q[2] <= Pos(ld.open[i])
        PROVE  \E h \in DOMAIN nx.open : q[1] = Key(nx, h) /\ q[2] <= Pos(nx.open[h])
    BY <2>3, <2>5, <2>7
  <2>8. QED
    BY <2>6, <2>7
<1>4. Done(nx) \subseteq Done(ld) /\ Done(ld) \subseteq Done(nx)
  <2>1. ASSUME NEW q
        PROVE  q \in Done(nx) <=> q \in Done(ld)
    BY <1>2, <1>3 DEF Done
  <2>2. QED
    BY <2>1
<1>5. QED
  BY <1>4

LEMMA PassLaid ==
  ASSUME job \in Jobs, NEW ld, Shaped(ld), StackInv(ld), AtImport(ld), NEW at, Laid(ld, at),
         NEW nx, Moves(ld, nx, Tail(Top(ld).rest), Top(ld).out), nx.errors # {} => ModuleErrors
  PROVE  Laid(nx, at)
<1> DEFINE n == Len(ld.open)
           p == Pos(Top(ld)) + 1
<1>1. /\ Visiting(ld) /\ Loading(ld) /\ n \in DOMAIN ld.open /\ DOMAIN ld.open = 1..n /\ n \in Nat \ {0}
      /\ Top(ld) = ld.open[n]
  BY TopIs DEF AtImport, Visiting
<1>2. /\ DOMAIN nx.open = DOMAIN ld.open
      /\ \A i \in DOMAIN ld.open : Key(nx, i) = Key(ld, i)
      /\ \A i \in DOMAIN ld.open : i # n => nx.open[i] = ld.open[i]
      /\ Pos(nx.open[n]) = p
  BY <1>1, PassStack
<1>3. ImportAt(Key(ld, n), p)
  BY <1>1, NextIs DEF Key
<1>4. Pos(Top(ld)) \in Nat
  BY <1>1 DEF StackInv, Reads
<1>5. p \in Nat \ {0} /\ Pos(ld.open[n]) = p - 1
  BY <1>1, <1>4
<1>6. nx.loaded = ld.loaded
  BY DEF Moves
<1> HIDE DEF p
<1>7. Done(nx) = Done(ld)
  <2>1. DOMAIN nx.open = 1..n \/ (DOMAIN nx.open = 1..(n + 1) /\ Pos(nx.open[n + 1]) = 0)
    BY <1>1, <1>2
  <2>2. /\ \A i \in 1..n : Key(nx, i) = Key(ld, i)
        /\ \A i \in 1..n : i # n => nx.open[i] = ld.open[i]
    BY <1>1, <1>2
  <2> HIDE DEF n
  <2>3. QED
    BY <1>1, <1>2, <1>3, <1>5, <1>6, <2>1, <2>2, ImportDone
<1>8. Shaped(nx) /\ Loading(nx)
  <2>1. n \in DOMAIN nx.open
    BY <1>1, <1>2
  <2>2. QED
    BY <2>1 DEF Moves, Loading
<1>9. \A i \in 1..n : Kept(nx, i) = Kept(ld, i)
  <2>1. nx.open[n].out = Top(ld).out
    BY DEF Moves
  <2>2. \A i \in 1..n : nx.open[i].out = ld.open[i].out
    BY <1>1, <1>2, <2>1
  <2>3. QED
    BY <1>1, <1>8, <2>2 DEF Kept
<1>10. Spots(nx) = Spots(ld)
  BY <1>1, <1>2, <1>8, <1>9 DEF Spots
<1>11. \A s \in Spots(ld) : Kept(nx, s[1]) = Kept(ld, s[1])
  BY <1>1, <1>9 DEF Spots
<1>12. QED
  BY <1>7, <1>10, <1>11, SameLaid

LEMMA OpenLaid ==
  ASSUME job \in Jobs, NEW ld, Shaped(ld), StackInv(ld), AtImport(ld), Usable(Target(ld)),
         Target(ld) \notin ld.loaded, Target(ld) \notin InProgress(ld), NEW at, Laid(ld, at),
         NEW nx, Opens(ld, nx, Target(ld), Stmts(Target(ld)))
  PROVE  Laid(nx, at)
<1> DEFINE n == Len(ld.open)
           p == Pos(Top(ld)) + 1
<1>1. /\ Visiting(ld) /\ Loading(ld) /\ n \in DOMAIN ld.open /\ DOMAIN ld.open = 1..n /\ n \in Nat \ {0}
      /\ Top(ld) = ld.open[n]
  BY TopIs DEF AtImport, Visiting
<1>2. /\ DOMAIN nx.open = 1..(n + 1) /\ Pos(nx.open[n]) = p /\ Pos(nx.open[n + 1]) = 0
      /\ \A i \in DOMAIN ld.open : Key(nx, i) = Key(ld, i)
      /\ \A i \in DOMAIN ld.open : i # n => nx.open[i] = ld.open[i]
  BY OpenStack
<1>3. ImportAt(Key(ld, n), p)
  BY <1>1, NextIs DEF Key
<1>4. Pos(Top(ld)) \in Nat
  BY <1>1 DEF StackInv, Reads
<1>5. p \in Nat \ {0} /\ Pos(ld.open[n]) = p - 1
  BY <1>1, <1>4
<1>6. nx.loaded = ld.loaded
  BY DEF Opens
<1> HIDE DEF p
<1>7. Done(nx) = Done(ld)
  <2> HIDE DEF n
  <2>1. QED
    BY <1>1, <1>2, <1>3, <1>5, <1>6, ImportDone
<1>8. Loading(nx)
  <2>1. n + 1 \in DOMAIN nx.open
    BY <1>1, <1>2
  <2>2. QED
    BY <2>1 DEF Loading
<1>9. (\A i \in 1..n : Kept(nx, i) = Kept(ld, i)) /\ Kept(nx, n + 1) = <<>>
  <2>1. nx.open[n].out = Top(ld).out /\ nx.open[n + 1].out = <<>>
    BY DEF Opens
  <2>2. \A i \in 1..n : nx.open[i].out = ld.open[i].out
    BY <1>1, <1>2, <2>1
  <2>3. QED
    BY <1>1, <1>8, <2>1, <2>2 DEF Kept
<1>10. Spots(nx) = Spots(ld)
  <2>1. DOMAIN nx.open = DOMAIN ld.open \cup {n + 1} /\ DOMAIN Kept(nx, n + 1) = {}
    BY <1>1, <1>2, <1>9
  <2>2. QED
    BY <1>1, <1>8, <1>9, <2>1 DEF Spots
<1>11. \A s \in Spots(ld) : Kept(nx, s[1]) = Kept(ld, s[1])
  BY <1>1, <1>9 DEF Spots
<1>12. QED
  BY <1>7, <1>10, <1>11, SameLaid

LEMMA CloseRootLaid ==
  ASSUME job \in Jobs, NEW ld, Shaped(ld), StackInv(ld), ImportInv(ld), Loading(ld), ~Visiting(ld), Top(ld).key = Root,
         NEW at, Laid(ld, at), NEW nx, nx.open = <<>>, nx.program = Top(ld).out, nx.loaded = ld.loaded
  PROVE  Laid(nx, at)
<1> DEFINE n == Len(ld.open)
<1>1. n \in DOMAIN ld.open /\ DOMAIN ld.open = 1..n /\ n \in Nat \ {0} /\ Top(ld) = ld.open[n]
  BY TopIs
<1>2. n = 1
  BY <1>1 DEF StackInv, Key
<1>3. DOMAIN ld.open = {1} /\ Key(ld, 1) = Root
  BY <1>1, <1>2 DEF StackInv
<1>4. DOMAIN Stmts(Root) = 1..Pos(ld.open[1]) /\ Pos(ld.open[1]) \in Nat
  <2>1. DOMAIN Stmts(Root) = 1..Pos(Top(ld))
    BY AllLoaded
  <2>2. Pos(ld.open[1]) \in Nat
    BY <1>3 DEF StackInv, Reads
  <2>3. QED
    BY <1>1, <1>2, <2>1, <2>2
<1>5. ~Loading(nx) /\ DOMAIN nx.open = {}
  BY DEF Loading
<1>6. Kept(nx, 1) = Kept(ld, 1)
  BY <1>1, <1>2, <1>5 DEF Kept
<1>7. Spots(nx) = Spots(ld)
  BY <1>3, <1>5, <1>6 DEF Spots
<1>8. Done(nx) = Done(ld)
  <2>1. \A h \in Decls(Root) : h <= Pos(ld.open[1])
    BY <1>4 DEF Decls
  <2>2. ASSUME NEW q \in ({Root} \cup Below(Root)) \X (Nat \ {0}), q[2] \in Decls(q[1])
        PROVE  q[1] = Root <=> (\E i \in DOMAIN ld.open : q[1] = Key(ld, i) /\ q[2] <= Pos(ld.open[i]))
    BY <1>3, <2>1, <2>2
  <2>3. ASSUME NEW q
        PROVE  q \in Done(nx) <=> q \in Done(ld)
    BY <1>5, <2>2 DEF Done
  <2>4. QED
    BY <2>3
<1>9. \A s \in Spots(ld) : Kept(nx, s[1]) = Kept(ld, s[1])
  BY <1>3, <1>6 DEF Spots
<1>10. QED
  BY <1>7, <1>8, <1>9, SameLaid

LEMMA CloseDone ==
  ASSUME job \in Jobs, NEW ld, Shaped(ld), StackInv(ld), ImportInv(ld), Loading(ld), ~Visiting(ld), Top(ld).key # Root,
         NEW nx, Closes(ld, nx)
  PROVE  Done(nx) = Done(ld)
<1> DEFINE n == Len(ld.open)
           m == Top(ld).key
<1>1. /\ n \in Nat /\ n > 1 /\ DOMAIN ld.open = 1..n /\ DOMAIN nx.open = 1..(n - 1)
      /\ \A i \in 1..(n - 1) : Key(nx, i) = Key(ld, i) /\ Pos(nx.open[i]) = Pos(ld.open[i])
  BY CloseStack
<1>2. m = Key(ld, n) /\ Top(ld) = ld.open[n]
  BY TopIs DEF Key
<1>3. nx.loaded = ld.loaded \cup {m}
  BY DEF Closes
<1>4. \A h \in Decls(m) : h <= Pos(ld.open[n])
  <2>1. DOMAIN Stmts(m) = 1..Pos(Top(ld))
    BY AllLoaded
  <2>2. Pos(ld.open[n]) \in Nat
    BY <1>1 DEF StackInv, Reads
  <2>3. \A h \in Decls(m) : h \in 1..Pos(ld.open[n])
    BY <1>2, <2>1 DEF Decls
  <2>4. QED
    BY <2>2, <2>3
<1>5. Loading(nx)
  <2>1. 1 \in DOMAIN nx.open
    BY <1>1
  <2>2. QED
    BY <2>1 DEF Loading
<1> HIDE DEF m
<1>6. ASSUME NEW q \in ({Root} \cup Below(Root)) \X (Nat \ {0}), q[2] \in Decls(q[1])
      PROVE  (q[1] \in nx.loaded \/ \E i \in DOMAIN nx.open : q[1] = Key(nx, i) /\ q[2] <= Pos(nx.open[i]))
              <=> (q[1] \in ld.loaded \/ \E i \in DOMAIN ld.open : q[1] = Key(ld, i) /\ q[2] <= Pos(ld.open[i]))
  <2>1. ASSUME NEW i \in DOMAIN nx.open, q[1] = Key(nx, i), q[2] <= Pos(nx.open[i])
        PROVE  \E h \in DOMAIN ld.open : q[1] = Key(ld, h) /\ q[2] <= Pos(ld.open[h])
    <3>1. i \in 1..(n - 1) /\ i \in DOMAIN ld.open
      BY <1>1
    <3>2. QED
      BY <1>1, <2>1, <3>1
  <2>2. ASSUME q[1] = m
        PROVE  \E h \in DOMAIN ld.open : q[1] = Key(ld, h) /\ q[2] <= Pos(ld.open[h])
    <3>1. n \in DOMAIN ld.open
      BY <1>1
    <3>2. QED
      BY <1>2, <1>4, <1>6, <2>2, <3>1
  <2>3. ASSUME NEW i \in DOMAIN ld.open, q[1] = Key(ld, i), q[2] <= Pos(ld.open[i])
        PROVE  q[1] = m \/ \E h \in DOMAIN nx.open : q[1] = Key(nx, h) /\ q[2] <= Pos(nx.open[h])
    <3>1. CASE i = n
      BY <1>2, <2>3, <3>1
    <3>2. CASE i # n
      <4>1. i \in 1..(n - 1)
        BY <1>1, <3>2
      <4>2. QED
        BY <1>1, <2>3, <4>1
    <3>3. QED
      BY <3>1, <3>2
  <2>4. QED
    BY <1>3, <2>1, <2>2, <2>3
<1>7. ASSUME NEW q
      PROVE  q \in Done(nx) <=> q \in Done(ld)
  BY <1>5, <1>6 DEF Done
<1>8. QED
  BY <1>7

\* The places of the closed module are now behind those of its importer.
LEMMA CloseLaid ==
  ASSUME job \in Jobs, NEW ld, Shaped(ld), StackInv(ld), ImportInv(ld), Loading(ld), ~Visiting(ld), Top(ld).key # Root,
         NEW at, Laid(ld, at), NEW nx, Closes(ld, nx)
  PROVE  \E b : Laid(nx, b)
<1> DEFINE n == Len(ld.open)
           u == ld.open[n - 1].out
           v == ld.open[n].out
           L == Len(u)
           M == Len(v)
           g == [s \in Spots(nx) |-> IF s[1] = n - 1 /\ s[2] > L THEN <<n, s[2] - L>> ELSE s]
<1>1. n \in Nat /\ n > 1 /\ DOMAIN ld.open = 1..n /\ DOMAIN nx.open = 1..(n - 1)
  BY CloseStack
<1>2. Done(nx) = Done(ld)
  BY CloseDone
<1>3. Shaped(nx) /\ Loading(nx) /\ Top(ld) = ld.open[n] /\ Len(nx.open) = n - 1
  <2>1. 1 \in DOMAIN nx.open
    BY <1>1
  <2>2. QED
    BY <2>1, TopIs DEF Closes, Loading
<1>4. Program(u) /\ Program(v) /\ L \in Nat /\ M \in Nat
  <2>1. n - 1 \in DOMAIN ld.open /\ n \in DOMAIN ld.open
    BY <1>1
  <2>2. Program(u) /\ Program(v)
    BY <2>1 DEF Shaped
  <2>3. QED
    BY <2>2, ProgramIs
<1>5. /\ ld.open[n - 1].out = u /\ ld.open[n].out = v /\ Len(u) = L /\ Len(v) = M
      /\ nx.open[n - 1].out = u \o v
      /\ \A i \in 1..(n - 2) : nx.open[i].out = ld.open[i].out
  <2>0. \A r, k, s, o : r = [key |-> k, rest |-> s, out |-> o] => r.out = o
    OBVIOUS
  <2>1. /\ nx.open[n - 1] = [key |-> ld.open[n - 1].key, rest |-> ld.open[n - 1].rest,
                             out |-> ld.open[n - 1].out \o Top(ld).out]
        /\ \A i \in 1..(n - 2) : nx.open[i] = ld.open[i]
    BY DEF Closes
  <2>2. nx.open[n - 1].out = ld.open[n - 1].out \o ld.open[n].out
    <3> HIDE DEF n
    <3>1. nx.open[n - 1].out = ld.open[n - 1].out \o Top(ld).out
      BY <2>1, <2>0
    <3>2. QED
      BY <1>3, <3>1
  <2>3. \A i \in 1..(n - 2) : nx.open[i].out = ld.open[i].out
    BY <2>1
  <2>4. Len(u) = L /\ Len(v) = M
    OBVIOUS
  <2> HIDE DEF L, M
  <2>5. QED
    BY <2>2, <2>3, <2>4
<1> HIDE DEF u, v, L, M
<1>6. /\ Len(nx.open[n - 1].out) = L + M
      /\ \A x \in 1..(L + M) : nx.open[n - 1].out[x] = IF x <= L THEN u[x] ELSE v[x - L]
  <2>1. /\ Len(u \o v) = L + M
        /\ \A x \in 1..(L + M) : (u \o v)[x] = IF x <= L THEN u[x] ELSE v[x - L]
    <3>1. Len(u) = L /\ Len(v) = M
      BY <1>5
    <3>2. QED
      BY <1>4, <3>1, JoinIs
  <2> DEFINE w == u \o v
  <2>2. nx.open[n - 1].out = w
    BY <1>5
  <2> HIDE DEF w
  <2>3. Len(w) = L + M /\ \A x \in 1..(L + M) : w[x] = IF x <= L THEN u[x] ELSE v[x - L]
    BY <2>1 DEF w
  <2>4. QED
    BY <2>2, <2>3
<1>7. /\ \A i \in 1..n : Kept(ld, i) = ld.open[i].out
      /\ \A i \in 1..(n - 1) : Kept(nx, i) = nx.open[i].out
      /\ Spots(ld) = {s \in (1..n) \X Nat : s[2] \in 1..Len(ld.open[s[1]].out)}
      /\ Spots(nx) = {s \in (1..(n - 1)) \X Nat : s[2] \in 1..Len(nx.open[s[1]].out)}
  BY <1>3, SpotsOf
<1> HIDE DEF n
<1>7a. n \in 1..n /\ n - 1 \in 1..n /\ n - 1 \in 1..(n - 1)
  BY <1>1
<1>7b. Kept(ld, n - 1) = u /\ Kept(ld, n) = v /\ Len(ld.open[n - 1].out) = L /\ Len(ld.open[n].out) = M
      /\ Len(nx.open[n - 1].out) = L + M
  BY <1>5, <1>6, <1>7, <1>7a
<1>7c. ASSUME NEW k \in 1..M
       PROVE  <<n, k>> \in Spots(ld)
  <2>1. k \in Nat /\ k \in 1..Len(ld.open[n].out)
    BY <1>4, <1>7b
  <2>2. QED
    BY <1>7, <1>7a, <2>1
<1> DEFINE Low(s) == s[1] \in 1..(n - 2)
           Mid(s) == s[1] = n - 1 /\ s[2] \in 1..L
           Up(s)  == s[1] = n - 1 /\ s[2] \in (L + 1)..(L + M)
<1>8. ASSUME NEW s \in Spots(nx)
      PROVE  /\ Low(s) \/ Mid(s) \/ Up(s)
             /\ s = <<s[1], s[2]>> /\ s[1] \in 1..(n - 1) /\ s[2] \in Nat \ {0}
             /\ Low(s) \/ Mid(s) => g[s] = s /\ s \in Spots(ld)
             /\ Up(s) => g[s] = <<n, s[2] - L>> /\ g[s] \in Spots(ld)
             /\ Kept(nx, s[1])[s[2]] = Kept(ld, g[s][1])[g[s][2]]
  <2>1. s \in (1..(n - 1)) \X Nat /\ s[2] \in 1..Len(nx.open[s[1]].out) /\ s = <<s[1], s[2]>>
    BY <1>7
  <2>2. s[1] \in 1..(n - 1) /\ s[2] \in Nat
    BY <2>1
  <2>3. CASE Low(s)
    <3>1. s[1] \in 1..n /\ s[1] # n - 1 /\ nx.open[s[1]].out = ld.open[s[1]].out
      <4>1. s[1] \in 1..(n - 2)
        BY <2>3
      <4>2. s[1] \in 1..n /\ s[1] # n - 1
        BY <1>1, <4>1
      <4>3. nx.open[s[1]].out = ld.open[s[1]].out
        BY <1>5, <4>1
      <4>4. QED
        BY <4>2, <4>3
    <3>2. s \in Spots(ld) /\ g[s] = s
      BY <1>7, <2>1, <2>2, <3>1
    <3>3. Kept(nx, s[1]) = Kept(ld, s[1])
      BY <1>7, <2>2, <3>1
    <3>4. s[2] \in Nat \ {0} /\ ~Up(s)
      <4>1. Len(ld.open[s[1]].out) \in Nat
        BY <1>1, <3>1, ProgramIs DEF Shaped
      <4>2. QED
        BY <2>1, <3>1, <4>1
    <3> HIDE DEF g, Low, Mid, Up
    <3>5. QED
      BY <2>1, <2>2, <2>3, <3>2, <3>3, <3>4
  <2>4. CASE s[1] = n - 1
    <3>1. s[2] \in 1..(L + M) /\ Kept(nx, s[1])[s[2]] = IF s[2] <= L THEN u[s[2]] ELSE v[s[2] - L]
      BY <1>1, <1>6, <1>7, <2>1, <2>2, <2>4
    <3>2. Kept(ld, n - 1) = u /\ Kept(ld, n) = v
      BY <1>7b
    <3>3. CASE s[2] <= L
      <4>1. Mid(s) /\ ~Up(s) /\ g[s] = s /\ s[2] \in Nat \ {0}
        BY <1>4, <2>4, <3>1, <3>3
      <4>2. s \in Spots(ld)
        BY <1>7, <1>7b, <1>7a, <2>1, <2>4, <4>1
      <4>3. Kept(nx, s[1])[s[2]] = Kept(ld, s[1])[s[2]]
        BY <2>4, <3>1, <3>2, <3>3
      <4> HIDE DEF g, Low, Mid, Up
      <4>4. QED
        BY <2>1, <2>2, <4>1, <4>2, <4>3
    <3>4. CASE ~(s[2] <= L)
      <4>1. s[2] - L \in 1..M /\ s[2] \in Nat \ {0} /\ s[2] > L /\ s[2] \in (L + 1)..(L + M)
        BY <1>4, <3>1, <3>4
      <4>2. Up(s) /\ ~Mid(s) /\ ~Low(s)
        BY <1>1, <1>4, <2>4, <3>1, <4>1
      <4>3. g[s] = <<n, s[2] - L>>
        BY <2>4, <4>1
      <4>4. <<n, s[2] - L>> \in Spots(ld)
        BY <1>7c, <4>1
      <4>5. Kept(nx, s[1])[s[2]] = Kept(ld, n)[s[2] - L]
        BY <3>1, <3>2, <3>4
      <4> HIDE DEF g, Low, Mid, Up
      <4>6. QED
        BY <2>1, <2>2, <4>1, <4>2, <4>3, <4>4, <4>5
    <3>5. QED
      BY <3>3, <3>4
  <2>5. QED
    BY <1>1, <2>2, <2>3, <2>4
<1>9. ASSUME NEW t \in Spots(ld)
      PROVE  \E s \in Spots(nx) : g[s] = t
  <2>1. t \in (1..n) \X Nat /\ t[2] \in 1..Len(ld.open[t[1]].out) /\ t = <<t[1], t[2]>>
    BY <1>7
  <2>2. CASE t[1] # n
    <3>1. t[1] \in 1..(n - 1) /\ t[2] \in 1..Len(nx.open[t[1]].out)
      <4>1. CASE t[1] = n - 1
        <5>1. t[2] \in 1..L
          BY <1>7b, <2>1, <4>1
        <5>2. t[2] \in 1..(L + M)
          BY <1>4, <5>1
        <5>3. QED
          BY <1>7b, <1>7a, <4>1, <5>2
      <4>2. CASE t[1] # n - 1
        <5>1. t[1] \in 1..(n - 2)
          BY <1>1, <2>1, <2>2, <4>2
        <5>2. t[1] \in 1..(n - 1) /\ nx.open[t[1]].out = ld.open[t[1]].out
          <6>1. \A i \in 1..(n - 2) : i \in 1..(n - 1)
            BY <1>1
          <6>2. QED
            BY <1>5, <5>1, <6>1
        <5>3. QED
          BY <2>1, <5>2
      <4>3. QED
        BY <4>1, <4>2
    <3>2. t \in Spots(nx)
      BY <1>7, <2>1, <3>1
    <3>3. t[1] = n - 1 => t[2] <= L
      <4>1. t[1] = n - 1 => t[2] \in 1..L
        BY <1>7b, <2>1
      <4>2. QED
        BY <1>4, <4>1
    <3>4. g[t] = t
      BY <1>4, <2>1, <3>2, <3>3
    <3>5. QED
      BY <3>2, <3>4
  <2>3. CASE t[1] = n
    <3> DEFINE s == <<n - 1, t[2] + L>>
    <3>1. t[2] \in 1..M
      BY <1>7b, <2>1, <2>3
    <3>2. t[2] + L \in Nat /\ t[2] + L \in 1..(L + M) /\ t[2] + L > L /\ (t[2] + L) - L = t[2]
      BY <1>4, <3>1
    <3>3. s \in Spots(nx)
      BY <1>1, <1>6, <1>7, <3>2
    <3>4. g[s] = <<n, t[2]>>
      BY <3>2, <3>3
    <3>5. QED
      BY <2>1, <2>3, <3>3, <3>4
  <2>4. QED
    BY <2>2, <2>3
<1> HIDE DEF g
<1>10. ASSUME NEW s \in Spots(nx), NEW t \in Spots(nx)
       PROVE  (g[s] = g[t] => s = t) /\ (Before(g[s], g[t]) => Before(s, t))
  <2>1. /\ s = <<s[1], s[2]>> /\ s[1] \in 1..(n - 1) /\ s[2] \in Nat
        /\ t = <<t[1], t[2]>> /\ t[1] \in 1..(n - 1) /\ t[2] \in Nat
    BY <1>8
  <2>2. CASE ~Up(s) /\ ~Up(t)
    <3>1. g[s] = s /\ g[t] = t
      BY <1>8, <2>2
    <3>2. QED
      BY <3>1
  <2>3. CASE Up(s) /\ Up(t)
    <3>1. g[s] = <<n, s[2] - L>> /\ g[t] = <<n, t[2] - L>> /\ s[1] = t[1]
      BY <1>8, <2>3
    <3>2. s[2] - L = t[2] - L => s[2] = t[2]
      BY <1>4, <2>1
    <3>3. s[2] - L < t[2] - L => s[2] < t[2]
      BY <1>4, <2>1
    <3>4. QED
      BY <1>1, <2>1, <3>1, <3>2, <3>3 DEF Before
  <2>4. CASE Up(s) /\ ~Up(t)
    <3>1. g[s] = <<n, s[2] - L>> /\ g[t] = t
      BY <1>8, <2>4
    <3>2. g[s] # g[t] /\ ~Before(g[s], g[t])
      BY <1>1, <2>1, <3>1 DEF Before
    <3>3. QED
      BY <3>2
  <2>5. CASE ~Up(s) /\ Up(t)
    <3>1. g[s] = s /\ g[t] = <<n, t[2] - L>> /\ t[1] = n - 1 /\ t[2] \in (L + 1)..(L + M)
      BY <1>8, <2>5
    <3>2. g[s] # g[t]
      BY <1>1, <2>1, <3>1
    <3>3. Before(s, t)
      <4>1. CASE s[1] = n - 1
        <5>1. s[2] \in 1..L
          BY <1>1, <1>8, <2>5, <4>1
        <5>2. QED
          BY <1>4, <2>1, <3>1, <4>1, <5>1 DEF Before
      <4>2. CASE s[1] # n - 1
        BY <1>1, <2>1, <3>1, <4>2 DEF Before
      <4>3. QED
        BY <4>1, <4>2
    <3>4. QED
      BY <3>2, <3>3
  <2>6. QED
    BY <2>2, <2>3, <2>4, <2>5
<1>11. \A s \in Spots(nx) : g[s] \in Spots(ld) /\ Kept(nx, s[1])[s[2]] = Kept(ld, g[s][1])[g[s][2]]
  BY <1>8
<1>12. Laid(nx, [s \in Spots(nx) |-> at[g[s]]])
  BY <1>2, <1>9, <1>10, <1>11, Relay
<1>13. QED
  BY <1>12

\* The keys of the open programs differ, and none is loaded.
LEMMA OwnKeys ==
  ASSUME NEW ld, Shaped(ld), StackInv(ld), NEW i \in DOMAIN ld.open, NEW j \in DOMAIN ld.open
  PROVE  (Key(ld, i) = Key(ld, j) => i = j) /\ Key(ld, i) \notin ld.loaded
<1>1. i \in Nat /\ j \in Nat
  BY ProgramIs DEF Shaped
<1>2. Key(ld, i) \notin ld.loaded
  BY DEF StackInv
<1>3. (i < j => Key(ld, i) # Key(ld, j)) /\ (j < i => Key(ld, i) # Key(ld, j))
  BY DEF StackInv
<1>4. QED
  BY <1>1, <1>2, <1>3

\* Nothing that is done comes after an import of an open program.
LEMMA NothingAfter ==
  ASSUME job \in Jobs, NEW ld, Shaped(ld), StackInv(ld), ImportInv(ld), Loading(ld),
         NEW i \in DOMAIN ld.open, NEW h, NEW q \in Done(ld)
  PROVE  ~Precedes(<<Key(ld, i), h>>, q)
<1> SUFFICES ASSUME NEW j \in 1..(q[2] - 1), ImportAt(q[1], j), TargetOf(q[1], j) = Key(ld, i)
             PROVE  FALSE
  BY DEF Precedes
<1>1. Key(ld, i) \notin ld.loaded
  BY OwnKeys
<1>2. q[2] \in Nat /\ q[2] \in DOMAIN Stmts(q[1])
  BY DEF Done, Decls
<1>3. CASE q[1] \in ld.loaded
  <2>1. DOMAIN Stmts(q[1]) = 1..Len(Stmts(q[1])) /\ Len(Stmts(q[1])) \in Nat
    BY <1>3, StmtsTyped DEF StackInv
  <2>2. j \in DOMAIN Stmts(q[1])
    BY <1>2, <2>1
  <2>3. Key(ld, i) \in ImportsOf(q[1])
    BY <2>2 DEF ImportsOf
  <2>4. PICK x \in DOMAIN ld.modules : ld.modules[x] = q[1]
    BY <1>3 DEF StackInv, ToSet
  <2>5. PICK y \in 1..(x - 1) : ld.modules[y] = Key(ld, i)
    BY <2>3, <2>4 DEF ImportInv
  <2>6. y \in DOMAIN ld.modules
    <3>1. DOMAIN ld.modules = 1..Len(ld.modules) /\ Len(ld.modules) \in Nat
      BY ProgramIs DEF Shaped
    <3>2. QED
      BY <2>4, <2>5, <3>1
  <2>7. Key(ld, i) \in ld.loaded
    BY <2>5, <2>6 DEF StackInv, ToSet
  <2>8. QED
    BY <1>1, <2>7
<1>4. CASE q[1] \notin ld.loaded
  <2>1. PICK k \in DOMAIN ld.open : q[1] = Key(ld, k) /\ q[2] <= Pos(ld.open[k])
    BY <1>4 DEF Done
  <2>2. Pos(ld.open[k]) \in Nat
    BY DEF StackInv, Reads
  <2>3. j \in 1..Pos(ld.open[k]) /\ j # Pos(ld.open[k])
    BY <1>2, <2>1, <2>2
  <2>4. TargetOf(q[1], j) \in ld.loaded
    BY <2>1, <2>3 DEF ImportInv
  <2>5. QED
    BY <1>1, <2>4
<1>5. QED
  BY <1>3, <1>4

\* A statement that is kept is one more that is done.
LEMMA KeepDone ==
  ASSUME job \in Jobs, NEW ld, Shaped(ld), StackInv(ld), Visiting(ld), ~AtImport(ld),
         NEW out, NEW nx, Moves(ld, nx, Tail(Top(ld).rest), out), nx.errors # {} => ModuleErrors
  PROVE  LET q == <<Top(ld).key, Pos(Top(ld)) + 1>>
         IN  Done(nx) = Done(ld) \cup {q} /\ q \notin Done(ld)
<1> DEFINE n == Len(ld.open)
           p == Pos(Top(ld)) + 1
           m == Top(ld).key
           q == <<m, p>>
<1>1. n \in DOMAIN ld.open /\ Loading(ld) /\ m = Key(ld, n) /\ Top(ld) = ld.open[n]
  BY TopIs DEF Visiting, Key
<1>2. /\ DOMAIN nx.open = DOMAIN ld.open
      /\ \A i \in DOMAIN ld.open : Key(nx, i) = Key(ld, i)
      /\ \A i \in DOMAIN ld.open : i # n => nx.open[i] = ld.open[i]
      /\ Pos(nx.open[n]) = p
  BY PassStack
<1>3. p \in Decls(m)
  BY NextIs DEF Decls
<1>4. Pos(ld.open[n]) \in Nat /\ p \in Nat \ {0} /\ Pos(ld.open[n]) = p - 1
  <2>1. Pos(ld.open[n]) \in Nat
    BY <1>1 DEF StackInv, Reads
  <2>2. QED
    BY <1>1, <2>1
<1>5. m \in {Root} \cup Below(Root)
  BY <1>1 DEF StackInv
<1>6. nx.loaded = ld.loaded /\ Loading(nx)
  BY <1>1, <1>2 DEF Moves, Loading
<1>7. \A i \in DOMAIN ld.open : (m = Key(ld, i) => i = n) /\ m \notin ld.loaded
  BY <1>1, OwnKeys
<1> HIDE DEF p, m, n
<1>8. q \notin Done(ld)
  <2>1. ~(p <= Pos(ld.open[n]))
    BY <1>4
  <2>2. QED
    BY <1>1, <1>7, <2>1 DEF Done
<1>9. q \in Done(nx)
  <2>1. p <= Pos(nx.open[n]) /\ m = Key(nx, n) /\ n \in DOMAIN nx.open
    BY <1>1, <1>2, <1>4
  <2>2. QED
    BY <1>3, <1>4, <1>5, <2>1 DEF Done
<1>10. ASSUME NEW r \in ({Root} \cup Below(Root)) \X (Nat \ {0}), r # q, NEW i \in DOMAIN ld.open, r[1] = Key(ld, i)
       PROVE  r[2] <= Pos(nx.open[i]) <=> r[2] <= Pos(ld.open[i])
  <2>1. CASE i # n
    BY <1>2, <2>1
  <2>2. CASE i = n
    <3>1. r[2] \in Nat /\ r[2] # p
      BY <1>1, <1>10, <2>2
    <3>2. QED
      BY <1>2, <1>4, <2>2, <3>1
  <2>3. QED
    BY <2>1, <2>2
<1>11. ASSUME NEW r, r # q
       PROVE  r \in Done(nx) <=> r \in Done(ld)
  <2>1. ASSUME r \in ({Root} \cup Below(Root)) \X (Nat \ {0})
        PROVE  (\E i \in DOMAIN nx.open : r[1] = Key(nx, i) /\ r[2] <= Pos(nx.open[i]))
               <=> (\E i \in DOMAIN ld.open : r[1] = Key(ld, i) /\ r[2] <= Pos(ld.open[i]))
    <3> HIDE DEF q
    <3>1. QED
      BY <1>2, <1>10, <1>11, <2>1
  <2> HIDE DEF q
  <2>2. QED
    BY <1>1, <1>6, <2>1 DEF Done
<1>12. QED
  BY <1>8, <1>9, <1>11 DEF p, m

\* A statement is laid behind all others.
LEMMA KeepLaid ==
  ASSUME job \in Jobs, NEW ld, Shaped(ld), StackInv(ld), ImportInv(ld), Visiting(ld), ~AtImport(ld), NEW at, Laid(ld, at),
         NEW nx, Moves(ld, nx, Tail(Top(ld).rest), Append(Top(ld).out, Head(Top(ld).rest))), nx.errors # {} => ModuleErrors
  PROVE  \E b : Laid(nx, b)
<1> DEFINE n == Len(ld.open)
           u == Top(ld).out
           L == Len(u)
           w == Append(u, Head(Top(ld).rest))
           z == <<n, L + 1>>
           q == <<Top(ld).key, Pos(Top(ld)) + 1>>
           b == [s \in Spots(nx) |-> IF s = z THEN q ELSE at[s]]
<1>1. n \in DOMAIN ld.open /\ DOMAIN ld.open = 1..n /\ n \in Nat \ {0} /\ Loading(ld) /\ Top(ld) = ld.open[n] /\ Program(u)
  BY TopIs DEF Visiting
<1>2. L \in Nat /\ Len(w) = L + 1 /\ (\A x \in 1..L : w[x] = u[x]) /\ w[L + 1] = Head(Top(ld).rest)
  BY <1>1, ProgramIs, MoreIs
<1>3. /\ DOMAIN nx.open = 1..n /\ Shaped(nx) /\ nx.open[n].out = w
      /\ \A i \in 1..n : i # n => nx.open[i] = ld.open[i]
  <2>1. Shaped(nx) /\ DOMAIN nx.open = DOMAIN ld.open /\ \A i \in DOMAIN ld.open : i # n => nx.open[i] = ld.open[i]
    BY DEF Moves
  <2>2. nx.open[n].out = w
    <3>1. nx.open[n] = [key |-> Top(ld).key, rest |-> Tail(Top(ld).rest), out |-> w]
      BY DEF Moves
    <3> HIDE DEF w, n
    <3>2. QED
      BY <3>1
  <2>3. QED
    BY <1>1, <2>1, <2>2
<1>4. StackInv(nx) /\ (\A i \in DOMAIN ld.open : Key(nx, i) = Key(ld, i)) /\ ImportInv(nx)
  <2>1. StackInv(nx) /\ \A i \in DOMAIN ld.open : Key(nx, i) = Key(ld, i)
    BY PassStack
  <2>2. ImportInv(nx)
    BY PassImports
  <2>3. QED
    BY <2>1, <2>2
<1>5. Done(nx) = Done(ld) \cup {q} /\ q \notin Done(ld)
  BY KeepDone
<1>6. Head(Top(ld).rest) = Stmts(q[1])[q[2]]
  BY NextIs
<1>7. \A r \in Done(nx) : ~Precedes(q, r)
  <2>1. q = <<Key(nx, n), Pos(Top(ld)) + 1>> /\ n \in DOMAIN nx.open
    BY <1>1, <1>3, <1>4 DEF Key
  <2>2. Loading(nx)
    BY <2>1 DEF Loading
  <2> HIDE DEF n, q
  <2>3. QED
    BY <1>3, <1>4, <2>1, <2>2, NothingAfter
<1>8. Loading(nx) /\ Len(nx.open) = n
  BY <1>1, <1>3 DEF Loading, Moves
<1>9. /\ \A i \in 1..n : Kept(ld, i) = ld.open[i].out
      /\ \A i \in 1..n : Kept(nx, i) = nx.open[i].out
      /\ Spots(ld) = {s \in (1..n) \X Nat : s[2] \in 1..Len(ld.open[s[1]].out)}
      /\ Spots(nx) = {s \in (1..n) \X Nat : s[2] \in 1..Len(nx.open[s[1]].out)}
  BY <1>1, <1>3, <1>8, SpotsOf
<1>10. ld.open[n].out = u /\ Len(u) = L
  BY <1>1
<1> HIDE DEF n, u, L, w, q
<1>11. /\ Kept(ld, n) = u /\ Kept(nx, n) = w
       /\ \A i \in 1..n : i # n => Kept(nx, i) = Kept(ld, i) /\ nx.open[i].out = ld.open[i].out
  BY <1>1, <1>3, <1>9, <1>10
<1>12. Spots(nx) = Spots(ld) \cup {z} /\ z \notin Spots(ld)
  <2>1. L \notin 1..0 /\ L + 1 \in 1..(L + 1) /\ L + 1 \notin 1..L /\ 1..(L + 1) = (1..L) \cup {L + 1} /\ L + 1 \in Nat
    BY <1>2
  <2>2. z \in Spots(nx) /\ z \notin Spots(ld)
    BY <1>1, <1>2, <1>3, <1>9, <1>10, <2>1
  <2>3. ASSUME NEW s \in (1..n) \X Nat, s # z
        PROVE  s[2] \in 1..Len(nx.open[s[1]].out) <=> s[2] \in 1..Len(ld.open[s[1]].out)
    <3>1. CASE s[1] = n
      <4>1. s[2] # L + 1
        BY <2>3, <3>1
      <4>2. QED
        BY <1>2, <1>3, <1>10, <2>1, <3>1, <4>1
    <3>2. CASE s[1] # n
      BY <1>3, <2>3, <3>2
    <3>3. QED
      BY <3>1, <3>2
  <2> HIDE DEF z
  <2>4. QED
    BY <1>9, <2>2, <2>3
<1>13. ASSUME NEW s \in Spots(ld)
       PROVE  Kept(nx, s[1])[s[2]] = Kept(ld, s[1])[s[2]] /\ Before(s, z) /\ b[s] = at[s]
  <2>1. s[1] \in 1..n /\ s[2] \in Nat /\ s[2] \in 1..Len(ld.open[s[1]].out)
    BY <1>9
  <2>2. b[s] = at[s]
    BY <1>12
  <2>3. CASE s[1] = n
    <3>1. s[2] \in 1..L
      BY <1>10, <2>1, <2>3
    <3>2. Before(s, z)
      BY <1>2, <2>1, <2>3, <3>1 DEF Before
    <3>3. QED
      BY <1>2, <1>11, <2>2, <2>3, <3>1, <3>2
  <2>4. CASE s[1] # n
    <3>1. Before(s, z)
      BY <1>1, <2>1, <2>4 DEF Before
    <3>2. QED
      BY <1>11, <2>1, <2>2, <2>4, <3>1
  <2>5. QED
    BY <2>3, <2>4
<1>14. b[z] = q /\ Kept(nx, z[1])[z[2]] = Head(Top(ld).rest)
  BY <1>2, <1>11, <1>12
<1> HIDE DEF z, b
<1>15. \A s \in Spots(nx) : b[s] \in Done(nx) /\ Kept(nx, s[1])[s[2]] = Stmts(b[s][1])[b[s][2]]
  BY <1>5, <1>6, <1>12, <1>13, <1>14 DEF Laid
<1>16. \A r \in Done(nx) : \E s \in Spots(nx) : b[s] = r
  <2>1. ASSUME NEW r \in Done(ld)
        PROVE  \E s \in Spots(nx) : b[s] = r
    <3>1. PICK s \in Spots(ld) : at[s] = r
      BY DEF Laid
    <3>2. QED
      BY <1>12, <1>13, <3>1
  <2>2. QED
    BY <1>5, <1>12, <1>14, <2>1
<1>17. \A s, t \in Spots(nx) : b[s] = b[t] => s = t
  <2>1. \A s, t \in Spots(ld) : b[s] = b[t] => s = t
    BY <1>13 DEF Laid
  <2>2. \A s \in Spots(ld) : b[s] # b[z]
    BY <1>5, <1>13, <1>14 DEF Laid
  <2>3. QED
    BY <1>12, <2>1, <2>2
<1>18. \A s, t \in Spots(nx) : Precedes(b[s], b[t]) => Before(s, t)
  <2>1. \A s, t \in Spots(ld) : Precedes(b[s], b[t]) => Before(s, t)
    BY <1>13 DEF Laid
  <2>2. \A t \in Spots(nx) : ~Precedes(b[z], b[t])
    BY <1>7, <1>14, <1>15
  <2>3. QED
    BY <1>12, <1>13, <2>1, <2>2
<1>19. Laid(nx, b)
  BY <1>15, <1>16, <1>17, <1>18 DEF Laid
<1>20. QED
  BY <1>19

-----------------------------------------------------------------------------
(* The invariant of the loader.                                              *)

\* A target that is refused is one that no import may have.
LEMMA RefusedIs ==
  ASSUME job \in Jobs, NEW ld, Shaped(ld), StackInv(ld), AtImport(ld), ~Usable(Target(ld)) \/ Target(ld) \in InProgress(ld)
  PROVE  ModuleErrors
<1>1. Visiting(ld) /\ Loading(ld)
  BY DEF AtImport, Visiting
<1>2. Target(ld) \in Below(Root) /\ \A i \in DOMAIN ld.open : Target(ld) \in Below(Key(ld, i))
  BY <1>1, NextIs
<1>3. CASE ~Usable(Target(ld))
  BY <1>2, <1>3 DEF ModuleErrors
<1>4. CASE Target(ld) \in InProgress(ld)
  <2>1. PICK i \in 2..Len(ld.open) : Target(ld) = Key(ld, i)
    BY <1>4 DEF InProgress, Key
  <2>2. i \in DOMAIN ld.open
    BY <1>1, <2>1, TopIs
  <2>3. Target(ld) \in Below(Target(ld))
    BY <1>2, <2>1, <2>2
  <2>4. QED
    BY <1>2, <2>3 DEF ModuleErrors
<1>5. QED
  BY <1>3, <1>4

\* An import is passed, refused or opened.
LEMMA ImportIs ==
  ASSUME job \in Jobs, NEW ld, Shaped(ld), StackInv(ld), AtImport(ld)
  PROVE  LET m  == Target(ld)
             nx == ImportModule(ld, job.files)
         IN  \/ m \in ld.loaded /\ nx = Advance(ld)
             \/ (~Usable(m) \/ m \in InProgress(ld)) /\ \E error : nx = Complain(ld, error)
             \/ /\ Usable(m) /\ m \notin ld.loaded /\ m \notin InProgress(ld)
                /\ nx = [Advance(ld) EXCEPT !.open = Append(@, Open(m, Stmts(m)))]
<1> DEFINE m  == Target(ld)
           nx == ImportModule(ld, job.files)
<1>1. Visiting(ld) /\ Loading(ld)
  BY DEF AtImport, Visiting
<1>2. m # Root
  BY <1>1, NextIs
<1>3. m \in ld.loaded => Usable(m) /\ m \notin InProgress(ld)
  <2>1. m \in ld.loaded => Usable(m)
    BY DEF StackInv
  <2>2. ASSUME NEW i \in 2..Len(ld.open)
        PROVE  ld.open[i].key \notin ld.loaded
    <3>1. i \in DOMAIN ld.open
      BY <1>1, TopIs
    <3>2. QED
      BY <3>1, OwnKeys DEF Key
  <2>3. QED
    BY <2>1, <2>2 DEF InProgress
<1> HIDE DEF m
<1>4. CASE m \in ld.loaded
  <2>1. m \in DOMAIN job.files /\ job.files[m].readable /\ job.files[m].parses /\ m \notin InProgress(ld)
    BY <1>3, <1>4 DEF Usable
  <2>2. nx = Advance(ld)
    BY <1>4, <2>1 DEF ImportModule, m
  <2>3. QED
    BY <1>4, <2>2 DEF m
<1>5. CASE m \notin ld.loaded /\ Usable(m) /\ m \notin InProgress(ld)
  <2>1. m \in DOMAIN job.files /\ job.files[m].readable /\ job.files[m].parses /\ Stmts(m) = job.files[m].stmts
    BY <1>2, <1>5 DEF Usable, Stmts
  <2>2. nx = [Advance(ld) EXCEPT !.open = Append(@, Open(m, job.files[m].stmts))]
    BY <1>5, <2>1 DEF ImportModule, m
  <2>3. QED
    BY <1>5, <2>1, <2>2 DEF m
<1>6. CASE m \notin ld.loaded /\ (~Usable(m) \/ m \in InProgress(ld))
  <2>1. m \notin DOMAIN job.files \/ ~job.files[m].readable \/ ~job.files[m].parses \/ m \in InProgress(ld)
    BY <1>6 DEF Usable
  <2>2. \E error : nx = Complain(ld, error)
    BY <1>6, <2>1 DEF ImportModule, m
  <2>3. QED
    BY <1>6, <2>2 DEF m
<1>7. QED
  BY <1>4, <1>5, <1>6

LEMMA ImportKeepsInv ==
  ASSUME job \in Jobs, NEW ld, LoaderInv(ld), AtImport(ld)
  PROVE  LoaderInv(ImportModule(ld, job.files))
<1> DEFINE m  == Target(ld)
           nx == ImportModule(ld, job.files)
<1>1. Shaped(ld) /\ StackInv(ld) /\ (ld.errors = {} => ImportInv(ld) /\ \E at : Laid(ld, at))
  BY DEF LoaderInv
<1>2. Visiting(ld)
  BY DEF AtImport
<1>3. CASE m \in ld.loaded /\ nx = Advance(ld)
  <2> HIDE DEF nx
  <2>1. Moves(ld, nx, Tail(Top(ld).rest), Top(ld).out) /\ nx.errors = ld.errors
    BY <1>1, <1>2, <1>3, AdvanceIs
  <2>2. nx.errors # {} => ModuleErrors
    BY <1>1, <2>1 DEF StackInv
  <2>3. Shaped(nx) /\ StackInv(nx)
    BY <1>1, <1>2, <2>1, <2>2, PassStack DEF Moves
  <2>4. ASSUME ld.errors = {}
        PROVE  ImportInv(nx) /\ \E at : Laid(nx, at)
    <3>1. ImportInv(nx)
      BY <1>1, <1>2, <1>3, <2>1, <2>2, <2>4, PassImports
    <3>2. PICK at : Laid(ld, at)
      BY <1>1, <2>4
    <3>3. Laid(nx, at)
      BY <1>1, <2>1, <2>2, <3>2, PassLaid
    <3>4. QED
      BY <3>1, <3>3
  <2>5. QED
    BY <2>1, <2>3, <2>4 DEF LoaderInv, nx
<1>4. CASE (~Usable(m) \/ m \in InProgress(ld)) /\ \E error : nx = Complain(ld, error)
  <2>1. PICK error : nx = Complain(ld, error)
    BY <1>4
  <2> HIDE DEF nx
  <2>2. Moves(ld, nx, Tail(Top(ld).rest), Top(ld).out) /\ nx.errors = ld.errors \cup {error}
    BY <1>1, <1>2, <2>1, ComplainIs
  <2>3. ModuleErrors
    BY <1>1, <1>4, RefusedIs
  <2>4. Shaped(nx) /\ StackInv(nx)
    BY <1>1, <1>2, <2>2, <2>3, PassStack DEF Moves
  <2>5. QED
    BY <2>2, <2>4 DEF LoaderInv, nx
<1>5. CASE /\ Usable(m) /\ m \notin ld.loaded /\ m \notin InProgress(ld)
           /\ nx = [Advance(ld) EXCEPT !.open = Append(@, Open(m, Stmts(m)))]
  <2>1. Program(Stmts(m))
    BY <1>5, StmtsTyped
  <2> HIDE DEF nx, m
  <2>2. Opens(ld, nx, m, Stmts(m))
    BY <1>1, <1>2, <1>5, <2>1, OpenIs
  <2> USE DEF m
  <2>3. Shaped(nx) /\ StackInv(nx)
    BY <1>1, <1>5, <2>2, OpenStack DEF Opens
  <2>4. ASSUME ld.errors = {}
        PROVE  ImportInv(nx) /\ \E at : Laid(nx, at)
    <3>1. ImportInv(nx)
      BY <1>1, <1>5, <2>2, <2>4, OpenImports
    <3>2. PICK at : Laid(ld, at)
      BY <1>1, <2>4
    <3>3. Laid(nx, at)
      BY <1>1, <1>5, <2>2, <3>2, OpenLaid
    <3>4. QED
      BY <3>1, <3>3
  <2>5. nx.errors = ld.errors
    BY <2>2 DEF Opens
  <2>6. QED
    BY <2>3, <2>4, <2>5 DEF LoaderInv, nx
<1>6. QED
  BY <1>1, <1>3, <1>4, <1>5, ImportIs

LEMMA KeepKeepsInv ==
  ASSUME job \in Jobs, NEW ld, LoaderInv(ld), Visiting(ld), ~AtImport(ld)
  PROVE  LoaderInv(KeepStmt(ld))
<1> DEFINE nx == KeepStmt(ld)
           w  == Append(Top(ld).out, Head(Top(ld).rest))
<1>1. Shaped(ld) /\ StackInv(ld) /\ (ld.errors = {} => ImportInv(ld) /\ \E at : Laid(ld, at))
  BY DEF LoaderInv
<1>2. Moves(ld, nx, Tail(Top(ld).rest), w) /\ nx.errors = ld.errors
  BY <1>1, KeepIs
<1> HIDE DEF nx
<1>3. nx.errors # {} => ModuleErrors
  BY <1>1, <1>2 DEF StackInv
<1>4. Shaped(nx) /\ StackInv(nx)
  BY <1>1, <1>2, <1>3, PassStack DEF Moves
<1>5. ASSUME ld.errors = {}
      PROVE  ImportInv(nx) /\ \E at : Laid(nx, at)
  <2>1. ImportInv(nx)
    BY <1>1, <1>2, <1>3, <1>5, PassImports
  <2>2. PICK at : Laid(ld, at)
    BY <1>1, <1>5
  <2>3. \E b : Laid(nx, b)
    BY <1>1, <1>2, <1>3, <1>5, <2>2, KeepLaid
  <2>4. QED
    BY <2>1, <2>3
<1>6. QED
  BY <1>2, <1>4, <1>5 DEF LoaderInv, nx

LEMMA CloseKeepsInv ==
  ASSUME job \in Jobs, NEW ld, LoaderInv(ld), Loading(ld), ~Visiting(ld)
  PROVE  LoaderInv(CloseProgram(ld))
<1> DEFINE nx == CloseProgram(ld)
<1>1. Shaped(ld) /\ StackInv(ld) /\ (ld.errors = {} => ImportInv(ld) /\ \E at : Laid(ld, at))
  BY DEF LoaderInv
<1>2. CASE Top(ld).key = Root
  <2>1. /\ Shaped(nx) /\ nx.open = <<>> /\ nx.program = Top(ld).out
        /\ nx.loaded = ld.loaded /\ nx.modules = ld.modules /\ nx.errors = ld.errors
    BY <1>1, <1>2, CloseRootIs
  <2> HIDE DEF nx
  <2>2. StackInv(nx)
    BY <1>1, <2>1, CloseRootStack
  <2>3. ASSUME ld.errors = {}
        PROVE  ImportInv(nx) /\ \E at : Laid(nx, at)
    <3>1. ImportInv(nx)
      BY <1>1, <1>2, <2>1, <2>3, CloseRootImports
    <3>2. PICK at : Laid(ld, at)
      BY <1>1, <2>3
    <3>3. Laid(nx, at)
      BY <1>1, <1>2, <2>1, <2>3, <3>2, CloseRootLaid
    <3>4. QED
      BY <3>1, <3>3
  <2>4. QED
    BY <2>1, <2>2, <2>3 DEF LoaderInv, nx
<1>3. CASE Top(ld).key # Root
  <2>1. Len(ld.open) > 1
    <3>1. Len(ld.open) \in DOMAIN ld.open /\ Top(ld) = ld.open[Len(ld.open)] /\ Len(ld.open) \in Nat \ {0}
      BY <1>1, TopIs
    <3>2. ASSUME Len(ld.open) = 1
          PROVE  FALSE
      <4>1. 1 \in DOMAIN ld.open /\ Top(ld) = ld.open[1]
        BY <3>1, <3>2
      <4>2. QED
        BY <1>1, <1>3, <4>1 DEF StackInv, Key
    <3> DEFINE n == Len(ld.open)
    <3>3. n \in Nat \ {0} /\ n # 1
      BY <3>1, <3>2
    <3> HIDE DEF n
    <3>4. n > 1
      BY <3>3
    <3>5. QED
      BY <3>4 DEF n
  <2>2. Closes(ld, nx)
    BY <1>1, <1>3, <2>1, CloseIs
  <2> HIDE DEF nx
  <2>3. Shaped(nx) /\ StackInv(nx) /\ nx.errors = ld.errors
    BY <1>1, <1>3, <2>2, CloseStack DEF Closes
  <2>4. ASSUME ld.errors = {}
        PROVE  ImportInv(nx) /\ \E at : Laid(nx, at)
    <3>1. ImportInv(nx)
      BY <1>1, <1>3, <2>2, <2>4, CloseImports
    <3>2. PICK at : Laid(ld, at)
      BY <1>1, <2>4
    <3>3. \E b : Laid(nx, b)
      BY <1>1, <1>3, <2>2, <2>4, <3>2, CloseLaid
    <3>4. QED
      BY <3>1, <3>3
  <2>5. QED
    BY <2>3, <2>4 DEF LoaderInv, nx
<1>4. QED
  BY <1>2, <1>3

LEMMA StartIs ==
  ASSUME job \in Jobs
  PROVE  LoaderInv(StartLoading(job.stmts))
<1> DEFINE ld == StartLoading(job.stmts)
           e  == Open(Root, job.stmts)
<1>1. e = [key |-> Root, rest |-> job.stmts, out |-> <<>>] /\ Stmts(Root) = job.stmts
  BY DEF Open, Stmts
<1>2. ld = [open |-> <<e>>, loaded |-> {}, modules |-> <<>>, errors |-> {}, program |-> <<>>]
  BY DEF StartLoading
<1> HIDE DEF ld, e
<1>3. ld.open = <<e>> /\ ld.loaded = {} /\ ld.modules = <<>> /\ ld.errors = {} /\ ld.program = <<>>
  BY <1>2
<1>4. Program(<<>>) /\ Program(<<e>>) /\ DOMAIN <<e>> = {1} /\ <<e>>[1] = e /\ Len(<<e>>) = 1
  <2>1. Program(<<>>)
    BY DEF Program
  <2>2. <<e>> \in Seq({e}) /\ DOMAIN <<e>> = {1} /\ <<e>>[1] = e /\ Len(<<e>>) = 1
    OBVIOUS
  <2>3. Program(<<e>>)
    BY <2>2, RangeTyped DEF Program
  <2>4. QED
    BY <2>1, <2>2, <2>3
<1>5. Program(job.stmts) /\ Len(job.stmts) \in Nat /\ DOMAIN job.stmts = 1..Len(job.stmts)
  BY <1>1, StmtsTyped
<1>6. Shaped(ld)
  BY <1>1, <1>2, <1>3, <1>4, <1>5 DEF Shaped
<1>7. Pos(e) = 0 /\ Reads(e)
  <2>1. e.key = Root /\ e.rest = job.stmts
    BY <1>1
  <2>2. Pos(e) = 0
    BY <1>1, <1>5, <2>1 DEF Pos
  <2>3. QED
    BY <1>1, <1>5, <2>1, <2>2 DEF Reads
<1>8. StackInv(ld)
  <2>1. Key(ld, 1) = Root /\ DOMAIN ld.open = {1} /\ ld.open[1] = e
    BY <1>1, <1>3, <1>4 DEF Key
  <2>2. DOMAIN ld.modules = {} /\ ToSet(ld.modules) = {}
    BY <1>3 DEF ToSet
  <2>3. QED
    BY <1>3, <1>7, <2>1, <2>2 DEF StackInv
<1>9. Loading(ld)
  BY <1>3, <1>4 DEF Loading
<1>10. ImportInv(ld)
  <2>1. DOMAIN ld.modules = {} /\ DOMAIN ld.open = {1} /\ 1..Pos(ld.open[1]) = {}
    BY <1>3, <1>4, <1>7
  <2>2. QED
    BY <1>9, <2>1 DEF ImportInv
<1>11. Laid(ld, <<>>)
  <2>1. Spots(ld) = {}
    <3>1. DOMAIN Kept(ld, 1) = {} /\ DOMAIN ld.open = {1}
      BY <1>1, <1>3, <1>4, <1>9 DEF Kept
    <3>2. QED
      BY <1>9, <3>1 DEF Spots
  <2>2. Done(ld) = {}
    <3>1. DOMAIN ld.open = {1} /\ Pos(ld.open[1]) = 0
      BY <1>3, <1>4, <1>7
    <3>2. \A k \in Nat \ {0} : ~(k <= 0)
      OBVIOUS
    <3>3. QED
      BY <1>3, <1>9, <3>1, <3>2 DEF Done
  <2>3. QED
    BY <2>1, <2>2 DEF Laid
<1>12. QED
  BY <1>6, <1>8, <1>10, <1>11 DEF LoaderInv, ld

-----------------------------------------------------------------------------
(* The merged program.                                                       *)

\* Without an error what is loaded is what the main program reaches.
LEMMA LoadedIs ==
  ASSUME job \in Jobs, NEW ld, Shaped(ld), StackInv(ld), ImportInv(ld), ~Loading(ld)
  PROVE  ld.loaded = Below(Root) /\ ~ModuleErrors
<1>1. /\ ImportsOf(Root) \subseteq ld.loaded
      /\ \A m \in ld.loaded : Usable(m) /\ m \in Below(Root)
      /\ ToSet(ld.modules) = ld.loaded
  BY DEF ImportInv, StackInv
<1>2. ld.loaded \subseteq Imported
  BY <1>1, NoneIsRoot
<1>3. DOMAIN ld.modules = 1..Len(ld.modules) /\ Len(ld.modules) \in Nat
  BY ProgramIs DEF Shaped
<1>4. ASSUME NEW x \in DOMAIN ld.modules
      PROVE  LET ms == {ld.modules[y] : y \in 1..(x - 1)}
             IN  /\ ms \in SUBSET Imported /\ ImportsOf(ld.modules[x]) \subseteq ms /\ Closed(ms)
                 /\ ld.modules[x] \notin ms
  <2> DEFINE ms == {ld.modules[y] : y \in 1..(x - 1)}
  <2>1. \A y \in 1..(x - 1) : y \in DOMAIN ld.modules /\ y # x /\ \A z \in 1..(y - 1) : z \in 1..(x - 1)
    BY <1>3
  <2>2. ms \in SUBSET Imported
    BY <1>1, <1>2, <2>1 DEF ToSet
  <2>3. ImportsOf(ld.modules[x]) \subseteq ms
    BY DEF ImportInv
  <2>4. ASSUME NEW y \in 1..(x - 1)
        PROVE  ImportsOf(ld.modules[y]) \subseteq ms
    <3>1. \A t \in ImportsOf(ld.modules[y]) : \E z \in 1..(y - 1) : ld.modules[z] = t
      BY <2>1 DEF ImportInv
    <3>2. QED
      BY <2>1, <3>1
  <2>5. Closed(ms)
    BY <2>4 DEF Closed
  <2>6. ld.modules[x] \notin ms
    BY <2>1 DEF StackInv
  <2>7. QED
    BY <2>2, <2>3, <2>5, <2>6
<1>5. ASSUME NEW m \in ld.loaded
      PROVE  ImportsOf(m) \subseteq ld.loaded /\ m \notin Below(m)
  <2>1. PICK x \in DOMAIN ld.modules : ld.modules[x] = m
    BY <1>1 DEF ToSet
  <2> DEFINE ms == {ld.modules[y] : y \in 1..(x - 1)}
  <2>2. ms \in SUBSET Imported /\ ImportsOf(m) \subseteq ms /\ Closed(ms) /\ m \notin ms
    BY <1>4, <2>1
  <2>3. ms \subseteq ld.loaded
    <3>1. \A y \in 1..(x - 1) : y \in DOMAIN ld.modules
      BY <1>3
    <3>2. QED
      BY <1>1, <3>1 DEF ToSet
  <2> HIDE DEF ms
  <2>4. m \notin Below(m)
    BY <2>2 DEF Below
  <2>5. QED
    BY <2>2, <2>3, <2>4
<1>6. Closed(ld.loaded)
  BY <1>5 DEF Closed
<1>7. ld.loaded = Below(Root)
  BY <1>1, <1>2, <1>6 DEF Below
<1>8. QED
  BY <1>1, <1>5, <1>7 DEF ModuleErrors

\* The places of a statement in the program are those where it is written.
LEMMA PlacesAre ==
  ASSUME job \in Jobs, Shaped(loader), StackInv(loader), ImportInv(loader), ~Loading(loader), NEW at, Laid(loader, at)
  PROVE  /\ \A x \in DOMAIN loader.program :
               at[<<1, x>>] \in Done(loader) /\ loader.program[x] = Stmts(at[<<1, x>>][1])[at[<<1, x>>][2]]
         /\ \A p \in Done(loader) : \E x \in DOMAIN loader.program : at[<<1, x>>] = p
         /\ \A x, y \in DOMAIN loader.program : at[<<1, x>>] = at[<<1, y>>] => x = y
         /\ \A x, y \in DOMAIN loader.program : Precedes(at[<<1, x>>], at[<<1, y>>]) => x < y
         /\ \A p : p \in Done(loader) <=> /\ p \in ({Root} \cup Below(Root)) \X (Nat \ {0})
                                          /\ p[2] \in Decls(p[1])
<1> DEFINE P == loader.program
<1>1. DOMAIN P = 1..Len(P) /\ Len(P) \in Nat
  BY ProgramIs DEF Shaped
<1>2. Spots(loader) = {s \in {1} \X Nat : s[2] \in DOMAIN P} /\ Kept(loader, 1) = P
  BY DEF Spots, Kept
<1> HIDE DEF P
<1>3. \A x \in DOMAIN P : <<1, x>> \in Spots(loader)
  BY <1>1, <1>2
<1>4. \A s \in Spots(loader) : s = <<1, s[2]>> /\ s[2] \in DOMAIN P /\ s[2] \in Nat /\ s[1] = 1
  BY <1>2
<1>5. \A x \in DOMAIN P : at[<<1, x>>] \in Done(loader) /\ P[x] = Stmts(at[<<1, x>>][1])[at[<<1, x>>][2]]
  BY <1>2, <1>3 DEF Laid
<1>6. ASSUME NEW p \in Done(loader)
      PROVE  \E x \in DOMAIN P : at[<<1, x>>] = p
  <2>1. PICK s \in Spots(loader) : at[s] = p
    BY DEF Laid
  <2>2. at[<<1, s[2]>>] = p /\ s[2] \in DOMAIN P
    BY <1>4, <2>1
  <2>3. QED
    BY <2>2
<1>7. ASSUME NEW x \in DOMAIN P, NEW y \in DOMAIN P
      PROVE  /\ at[<<1, x>>] = at[<<1, y>>] => x = y
             /\ Precedes(at[<<1, x>>], at[<<1, y>>]) => x < y
  <2>1. <<1, x>> \in Spots(loader) /\ <<1, y>> \in Spots(loader)
    BY <1>3
  <2>2. at[<<1, x>>] = at[<<1, y>>] => <<1, x>> = <<1, y>>
    BY <2>1 DEF Laid
  <2>3. Precedes(at[<<1, x>>], at[<<1, y>>]) => Before(<<1, x>>, <<1, y>>)
    BY <2>1 DEF Laid
  <2>4. Before(<<1, x>>, <<1, y>>) => x < y
    BY DEF Before
  <2>5. QED
    BY <2>2, <2>3, <2>4
<1>8. ASSUME NEW p
      PROVE  p \in Done(loader) <=> p \in ({Root} \cup Below(Root)) \X (Nat \ {0}) /\ p[2] \in Decls(p[1])
  <2>1. loader.loaded = Below(Root)
    BY LoadedIs
  <2>2. QED
    BY <2>1 DEF Done
<1>9. QED
  BY <1>5, <1>6, <1>7, <1>8 DEF P

\* Both have a place for each other, so they are as many.
OneToOne(O, S, at) ==
  /\ \A x \in O : at[<<1, x>>] \in S
  /\ \A p \in S : \E x \in O : at[<<1, x>>] = p
  /\ \A x, y \in O : at[<<1, x>>] = at[<<1, y>>] => x = y

LEMMA AsOften ==
  ASSUME NEW P, Program(P), NEW O \in SUBSET DOMAIN P, NEW S, NEW at, OneToOne(O, S, at)
  PROVE  Cardinality(O) = Cardinality(S)
<1> DEFINE f == [x \in O |-> at[<<1, x>>]]
<1>1. IsFiniteSet(O)
  <2>1. O \subseteq 1..Len(P) /\ Len(P) \in Nat
    BY ProgramIs
  <2>2. IsFiniteSet(1..Len(P))
    BY <2>1, FS_Interval
  <2>3. QED
    BY <2>1, <2>2, FS_Subset
<1>2. f \in [O -> S] /\ \A x \in O : f[x] = at[<<1, x>>]
  BY DEF OneToOne
<1> HIDE DEF f
<1>3. ASSUME NEW x \in O, NEW y \in O, f[x] = f[y]
      PROVE  x = y
  <2>1. at[<<1, x>>] = at[<<1, y>>]
    BY <1>2, <1>3
  <2>2. QED
    BY <2>1 DEF OneToOne
<1>4. ASSUME NEW p \in S
      PROVE  \E x \in O : f[x] = p
  <2>1. PICK x \in O : at[<<1, x>>] = p
    BY DEF OneToOne
  <2>2. QED
    BY <1>2, <2>1
<1>5. f \in Injection(O, S) /\ f \in Surjection(O, S)
  BY <1>2, <1>3, <1>4 DEF Injection, Surjection, IsInjective
<1>6. ExistsBijection(O, S)
  BY <1>5 DEF ExistsBijection, Bijection
<1>7. QED
  BY <1>1, <1>6, FS_Bijection

\* The property follows from the invariant.
LEMMA ImportsFollow ==
  ASSUME job \in Jobs, LoaderInv(loader)
  PROVE  ImportsOnce
<1> SUFFICES ASSUME ~Loading(loader) PROVE ImportsOnce
  BY DEF ImportsOnce
<1>1. Shaped(loader) /\ StackInv(loader)
  BY DEF LoaderInv
<1>2. (loader.errors = {}) = ~ModuleErrors
  BY <1>1, LoadedIs DEF LoaderInv, StackInv
<1>3. CASE ModuleErrors
  BY <1>2, <1>3 DEF ImportsOnce
<1>4. CASE ~ModuleErrors
  <2> DEFINE P == loader.program
             All == {Root} \cup Below(Root)
  <2>1. ImportInv(loader) /\ \E at : Laid(loader, at)
    BY <1>2, <1>4 DEF LoaderInv
  <2>2. PICK at : Laid(loader, at)
    BY <2>1
  <2>3. /\ \A x \in DOMAIN P : at[<<1, x>>] \in Done(loader) /\ P[x] = Stmts(at[<<1, x>>][1])[at[<<1, x>>][2]]
        /\ \A p \in Done(loader) : \E x \in DOMAIN P : at[<<1, x>>] = p
        /\ \A x, y \in DOMAIN P : at[<<1, x>>] = at[<<1, y>>] => x = y
        /\ \A x, y \in DOMAIN P : Precedes(at[<<1, x>>], at[<<1, y>>]) => x < y
        /\ \A p : p \in Done(loader) <=> p \in All \X (Nat \ {0}) /\ p[2] \in Decls(p[1])
    BY <1>1, <2>1, <2>2, PlacesAre
  <2>4. \A p \in Done(loader) : p \in Sites(Stmts(p[1])[p[2]])
    <3>1. ASSUME NEW p \in Done(loader)
          PROVE  p \in Sites(Stmts(p[1])[p[2]])
      <4>1. p = <<p[1], p[2]>> /\ p[1] \in All /\ p[2] \in DOMAIN Stmts(p[1])
        BY <2>3 DEF Decls
      <4>2. QED
        BY <4>1 DEF Sites
    <3>2. QED
      BY <3>1
  <2>5. \A x \in DOMAIN P : Sites(P[x]) # {}
    BY <2>3, <2>4
  <2>6. \A m \in All : DOMAIN Stmts(m) = 1..Len(Stmts(m)) /\ Len(Stmts(m)) \in Nat
    BY <1>4, StmtsTyped DEF ModuleErrors
  <2>7. ASSUME NEW m \in All, NEW i \in DOMAIN Stmts(m), ~ImportAt(m, i)
        PROVE  Sites(Stmts(m)[i]) = {p \in Done(loader) : Stmts(p[1])[p[2]] = Stmts(m)[i]}
    <3> DEFINE w == Stmts(m)[i]
    <3>1. w.s # "import"
      BY <2>7 DEF ImportAt
    <3> HIDE DEF w
    <3>2. ASSUME NEW p \in Sites(w)
          PROVE  p \in Done(loader) /\ Stmts(p[1])[p[2]] = w
      <4>1. p = <<p[1], p[2]>> /\ p[1] \in All /\ p[2] \in DOMAIN Stmts(p[1]) /\ Stmts(p[1])[p[2]] = w
        BY DEF Sites
      <4>2. p[2] \in Decls(p[1])
        BY <3>1, <4>1 DEF Decls, ImportAt
      <4>3. p[2] \in Nat \ {0}
        BY <2>6, <4>1
      <4>4. QED
        BY <2>3, <4>1, <4>2, <4>3
    <3>3. QED
      BY <2>4, <3>2 DEF w
  <2>8. ASSUME NEW m \in All, NEW i \in DOMAIN Stmts(m), ~ImportAt(m, i)
        PROVE  Cardinality(Occurrences(Stmts(m)[i])) = Cardinality(Sites(Stmts(m)[i]))
    <3> DEFINE w == Stmts(m)[i]
               S == Sites(w)
    <3>1. S = {p \in Done(loader) : Stmts(p[1])[p[2]] = w}
      BY <2>7, <2>8
    <3>2. Program(P)
      BY <1>1 DEF Shaped
    <3> HIDE DEF w, S, P
    <3>3. \A x \in DOMAIN P : P[x] = w => at[<<1, x>>] \in S
      BY <2>3, <3>1
    <3>4. \A p \in S : \E x \in DOMAIN P : P[x] = w /\ at[<<1, x>>] = p
      <4>1. ASSUME NEW p \in S
            PROVE  \E x \in DOMAIN P : P[x] = w /\ at[<<1, x>>] = p
        <5>1. p \in Done(loader) /\ Stmts(p[1])[p[2]] = w
          BY <3>1
        <5>2. PICK x \in DOMAIN P : at[<<1, x>>] = p
          BY <2>3, <5>1
        <5>3. P[x] = w
          BY <2>3, <5>1, <5>2
        <5>4. QED
          BY <5>2, <5>3
      <4>2. QED
        BY <4>1
    <3>5. \A x, y \in DOMAIN P : at[<<1, x>>] = at[<<1, y>>] => x = y
      BY <2>3
    <3> DEFINE O == {h \in DOMAIN P : P[h] = w}
    <3>6. OneToOne(O, S, at) /\ O \in SUBSET DOMAIN P
      BY <3>3, <3>4, <3>5 DEF OneToOne
    <3> HIDE DEF O
    <3>7. Cardinality(O) = Cardinality(S)
      BY <3>2, <3>6, AsOften
    <3>8. QED
      BY <3>7 DEF O, Occurrences, P, w, S
  <2>9. ASSUME NEW m \in All, NEW i \in DOMAIN Stmts(m), ~ImportAt(m, i), NEW j \in 1..(i - 1), ImportAt(m, j),
               NEW h \in DOMAIN Stmts(TargetOf(m, j)), ~ImportAt(TargetOf(m, j), h),
               Sites(Stmts(TargetOf(m, j))[h]) = {<<TargetOf(m, j), h>>}, Sites(Stmts(m)[i]) = {<<m, i>>},
               NEW x \in Occurrences(Stmts(TargetOf(m, j))[h]), NEW y \in Occurrences(Stmts(m)[i])
        PROVE  x < y
    <3> DEFINE t == TargetOf(m, j)
    <3>1. x \in DOMAIN P /\ P[x] = Stmts(t)[h] /\ y \in DOMAIN P /\ P[y] = Stmts(m)[i]
      BY DEF Occurrences
    <3>2. at[<<1, x>>] \in Sites(Stmts(t)[h]) /\ at[<<1, y>>] \in Sites(Stmts(m)[i])
      BY <2>3, <2>4, <3>1
    <3>3. at[<<1, x>>] = <<t, h>> /\ at[<<1, y>>] = <<m, i>>
      BY <2>9, <3>2
    <3>4. Precedes(<<t, h>>, <<m, i>>)
      BY <2>9 DEF Precedes
    <3>5. Precedes(at[<<1, x>>], at[<<1, y>>])
      BY <3>3, <3>4
    <3>6. QED
      BY <2>3, <3>1, <3>5
  <2>10. QED
    BY <1>2, <2>5, <2>8, <2>9 DEF ImportsOnce
<1>5. QED
  BY <1>3, <1>4

\* Only the three steps of the loader change it.
LEMMA LoaderStep ==
  ASSUME [Next]_vars
  PROVE  /\ UNCHANGED job
         /\ \/ UNCHANGED loader
            \/ Visiting(loader) /\ ~AtImport(loader) /\ loader' = KeepStmt(loader)
            \/ AtImport(loader) /\ loader' = ImportModule(loader, job.files)
            \/ Loading(loader) /\ ~Visiting(loader) /\ loader' = CloseProgram(loader)
<1>1. CASE EngineStep
  <2>1. CASE KeepStatement \/ Import \/ CloseModule
    BY <2>1 DEF KeepStatement, Import, CloseModule, ResolveStep
  <2>2. Resolved \/ Check \/ PolicyGate \/ Optimize \/ DeclareModels \/ StartNode \/ DataStep => UNCHANGED <<job, loader>>
    BY DEF Resolved, Check, PolicyGate, Optimize, DeclareModels, StartNode, DataStep, compiled
  <2>3. TrainStep \/ PredictStep \/ ChartStep \/ DpStep \/ SaveStep \/ SaveRows \/ EndNode \/ EndRun \/ SaveOutput \/ ReportRun
          => UNCHANGED <<job, loader>>
    BY DEF TrainStep, PredictStep, ChartStep, DpStep, SaveStep, SaveRows, EndNode, EndRun, SaveOutput, ReportRun, compiled
  <2>4. QED
    BY <1>1, <2>1, <2>2, <2>3 DEF EngineStep, EngineNext
<1>2. CASE ~EngineStep
  BY <1>2 DEF Next, Watch, vars, engineVars, compiled, EngineCrash, Tick, Gate, PollEnded, PollRunning, Wake, PollFails,
     Kill, Answer
<1>3. QED
  BY <1>1, <1>2

\* Before an engine's first step nothing is loaded; each step keeps the invariant.
LEMMA LoaderInvStep ==
  ASSUME job \in Jobs, LoaderInv(loader), [Next]_vars
  PROVE  (job \in Jobs /\ LoaderInv(loader))'
<1>1. UNCHANGED job
  BY LoaderStep
<1>2. LoaderInv(loader')
  BY LoaderStep, KeepKeepsInv, ImportKeepsInv, CloseKeepsInv
<1>3. \A m : Stmts(m)' = Stmts(m) /\ Usable(m)' = Usable(m)
  BY <1>1 DEF Stmts, Usable
<1>4. \A m, i : ImportAt(m, i)' = ImportAt(m, i) /\ TargetOf(m, i)' = TargetOf(m, i)
  BY <1>3 DEF ImportAt, TargetOf
<1>5. \A m : ImportsOf(m)' = ImportsOf(m) /\ Decls(m)' = Decls(m)
  BY <1>3, <1>4 DEF ImportsOf, Decls
<1>6. Imported' = Imported /\ \A ms : Closed(ms)' = Closed(ms)
  BY <1>1, <1>3, <1>5 DEF Imported, Closed
<1>7. \A m : Below(m)' = Below(m)
  BY <1>5, <1>6 DEF Below
<1>8. ModuleErrors' = ModuleErrors
  BY <1>3, <1>7 DEF ModuleErrors
<1>9. \A e : Pos(e)' = Pos(e) /\ Reads(e)' = Reads(e)
  BY <1>3 DEF Pos, Reads
<1>10. StackInv(loader)'
  BY <1>2, <1>3, <1>7, <1>8, <1>9 DEF LoaderInv, StackInv, Key
<1>11. loader'.errors = {} => ImportInv(loader)'
  BY <1>2, <1>4, <1>5, <1>9 DEF LoaderInv, ImportInv, Key, Loading
<1>12. \A at : Laid(loader', at) => Laid(loader, at)'
  <2>1. Done(loader)' = Done(loader')
    BY <1>5, <1>7, <1>9 DEF Done, Key, Loading
  <2>2. Spots(loader)' = Spots(loader') /\ \A i : Kept(loader, i)' = Kept(loader', i)
    BY DEF Spots, Kept, Loading
  <2>3. \A p, q : Precedes(p, q)' = Precedes(p, q)
    BY <1>4 DEF Precedes
  <2>4. QED
    BY <1>3, <2>1, <2>2, <2>3 DEF Laid, Before
<1>13. LoaderInv(loader)'
  BY <1>2, <1>10, <1>11, <1>12 DEF LoaderInv, Shaped
<1>14. QED
  BY <1>1, <1>13

\* The merged program has every declaration that the main program reaches,
\* as often as it is written and after what its importer needs.
THEOREM ImportsAreOnce == Spec => []ImportsOnce
<1> DEFINE Inv == job \in Jobs /\ LoaderInv(loader)
<1>1. Init => Inv
  BY StartIs DEF Init, EngineInit
<1>2. Inv /\ [Next]_vars => Inv'
  BY LoaderInvStep
<1>3. Inv => ImportsOnce
  BY ImportsFollow
<1>4. QED
  BY <1>1, <1>2, <1>3, PTL DEF Spec
=============================================================================
