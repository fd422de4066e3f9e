--------------------------- MODULE AuditLogProofs ---------------------------
(***************************************************************************)
(* What holds of the audit log for every number of threads, processes,     *)
(* readers and appends, and whatever crashes or fails: the records in the  *)
(* file are one hash chain, no acknowledged record is ever lost, and the   *)
(* log implements AuditTrail.                                              *)
(***************************************************************************)
EXTENDS AuditLog, SequenceTheorems, WellFoundedInduction, TLAPS

-----------------------------------------------------------------------------
(* The inductive invariant.                                                *)

\* A thread between its two steps on the file lock owns the lock.
Critical == {"locked", "built", "cut", "text", "line", "synced"}
FlockHeld == \A w \in Threads : pc[w] \in Critical => flock = w

\* What a thread may append to a log: the next link of its chain.
NextOf(w, log) ==
  {[index |-> Len(log), payload |-> <<w, n>>, prev |-> PrevHash(log)] : n \in 1..MaxAppends[w]}

\* What a thread in its critical section knows of the file: nobody has written
\* to it since it was read, but for the thread itself.
ThreadInv(w) ==
  /\ pc[w] # "idle" => appends[w] > 0
  /\ pc[w] \in {"built", "cut"} => record[w] \in NextOf(w, Texts(file))
  /\ pc[w] = "cut" => synced < Len(file) /\ file[Len(file)] = Fragment
  /\ pc[w] \in {"text", "line", "synced"} =>
       Texts(file) # <<>> /\ Last(Texts(file)) = record[w]
  /\ pc[w] = "synced" => synced = Len(file)
AppendInv == \A w \in Threads : ThreadInv(w)

FileTyped == file \in Seq(Range(file))
AckedIndexed == \A rec \in acked : rec.index \in Nat

IInv == /\ TypeOK /\ FileTyped /\ FlockHeld /\ AppendInv
        /\ ChainIntact /\ AckedIndexed /\ AckedSurvive

-----------------------------------------------------------------------------
(* Induction on the natural numbers, for a set of them. *)

LEMMA LeastOf ==
  ASSUME NEW T, T \subseteq Nat, T # {}
  PROVE  \E x \in T : \A y \in T : x <= y
<1>1. PICK x \in T : \A y \in T : ~ (<<y, x>> \in OpToRel(<, Nat))
  BY WFMin, NatLessThanWellFounded
<1>2. \A y \in T : ~ (y < x)
  BY <1>1 DEF OpToRel
<1>3. QED
  BY <1>2

LEMMA Induction ==
  ASSUME NEW S, 0 \in S, \A n \in Nat : n \in S => n + 1 \in S
  PROVE  Nat \subseteq S
<1> DEFINE Missing == Nat \ S
<1>1. SUFFICES ASSUME Missing # {}
               PROVE  FALSE
  OBVIOUS
<1>2. PICK x \in Missing : \A y \in Missing : x <= y
  BY <1>1, LeastOf
<1>3. x - 1 \in Nat /\ x - 1 \in S
  BY <1>2
<1>4. QED
  BY <1>2, <1>3

-----------------------------------------------------------------------------
(* The texts of a file. *)

\* What Texts computes on its way: the texts of every prefix of f.
IsTextsUpTo(u, f, m) ==
  u = [n \in 0..m |-> IF n = 0 THEN <<>>
                      ELSE IF f[n] \in {Fragment, Newline} THEN u[n - 1]
                      ELSE Append(u[n - 1], f[n])]

LEMMA TextsUpTo ==
  ASSUME NEW f, NEW m \in Nat
  PROVE  \E u : IsTextsUpTo(u, f, m)
<1> DEFINE S == {k \in Nat : \E u : IsTextsUpTo(u, f, k)}
<1>1. 0 \in S
  <2>1. IsTextsUpTo([n \in 0..0 |-> <<>>], f, 0)
    BY DEF IsTextsUpTo
  <2>2. QED
    BY <2>1
<1>2. ASSUME NEW k \in Nat, k \in S
      PROVE  k + 1 \in S
  <2>1. PICK u : IsTextsUpTo(u, f, k)
    BY <1>2
  <2> DEFINE last == IF f[k + 1] \in {Fragment, Newline} THEN u[k] ELSE Append(u[k], f[k + 1])
             v == [n \in 0..k + 1 |-> IF n = k + 1 THEN last ELSE u[n]]
  <2>2. IsTextsUpTo(v, f, k + 1)
    <3>1. \A n \in 0..k : u[n] = IF n = 0 THEN <<>>
                                 ELSE IF f[n] \in {Fragment, Newline} THEN u[n - 1]
                                 ELSE Append(u[n - 1], f[n])
      BY <2>1 DEF IsTextsUpTo
    <3>2. v[k + 1] = last /\ \A n \in 0..k : v[n] = u[n]
      OBVIOUS
    <3>3. ASSUME NEW n \in 0..k + 1
          PROVE  v[n] = IF n = 0 THEN <<>>
                        ELSE IF f[n] \in {Fragment, Newline} THEN v[n - 1]
                        ELSE Append(v[n - 1], f[n])
      <4> HIDE DEF v
      <4>1. CASE n = k + 1
        <5>1. n - 1 = k /\ n # 0 /\ k \in 0..k
          BY <4>1
        <5>2. QED
          BY <3>2, <4>1, <5>1
      <4>2. CASE n \in 0..k
        <5>1. n = 0 \/ n - 1 \in 0..k
          BY <4>2
        <5>2. QED
          BY <3>1, <3>2, <4>2, <5>1
      <4>3. QED
        BY <4>1, <4>2
    <3>4. QED
      BY <3>3 DEF IsTextsUpTo
  <2>3. QED
    BY <2>2
<1>3. QED
  BY <1>1, <1>2, Induction

LEMMA TextsRecursive ==
  ASSUME NEW f, Len(f) \in Nat
  PROVE  \E u : IsTextsUpTo(u, f, Len(f)) /\ Texts(f) = u[Len(f)]
BY TextsUpTo DEF Texts, IsTextsUpTo

\* The texts of a prefix depend on that prefix alone.
LEMMA TextsAgree ==
  ASSUME NEW f, NEW g, NEW m \in Nat, NEW l \in Nat, m <= l,
         \A i \in 1..m : f[i] = g[i],
         NEW u, IsTextsUpTo(u, f, m), NEW v, IsTextsUpTo(v, g, l)
  PROVE  u[m] = v[m]
<1> DEFINE S == {n \in Nat : n <= m => u[n] = v[n]}
<1>1. \A n \in 0..m : u[n] = IF n = 0 THEN <<>>
                             ELSE IF f[n] \in {Fragment, Newline} THEN u[n - 1]
                             ELSE Append(u[n - 1], f[n])
  BY DEF IsTextsUpTo
<1>2. \A n \in 0..l : v[n] = IF n = 0 THEN <<>>
                             ELSE IF g[n] \in {Fragment, Newline} THEN v[n - 1]
                             ELSE Append(v[n - 1], g[n])
  BY DEF IsTextsUpTo
<1>3. 0 \in S
  BY <1>1, <1>2
<1>4. ASSUME NEW n \in Nat, n \in S
      PROVE  n + 1 \in S
  <2>1. SUFFICES ASSUME n + 1 <= m
                 PROVE  u[n + 1] = v[n + 1]
    OBVIOUS
  <2>2. /\ u[n] = v[n] /\ f[n + 1] = g[n + 1] /\ (n + 1) - 1 = n /\ n + 1 # 0
        /\ n + 1 \in 0..m /\ n + 1 \in 0..l
    BY <1>4, <2>1
  <2>3. QED
    BY <1>1, <1>2, <2>2
<1>5. Nat \subseteq S
  BY <1>3, <1>4, Induction
<1>6. QED
  BY <1>5

LEMMA TextsEmpty == Texts(<<>>) = <<>>
<1>1. PICK u : IsTextsUpTo(u, <<>>, 0) /\ Texts(<<>>) = u[0]
  BY TextsRecursive
<1>2. QED
  BY <1>1 DEF IsTextsUpTo

LEMMA TextsAppend ==
  ASSUME NEW S, NEW f \in Seq(S), NEW x
  PROVE  Texts(Append(f, x)) = IF x \in {Fragment, Newline} THEN Texts(f)
                               ELSE Append(Texts(f), x)
<1> DEFINE g == Append(f, x)
           n == Len(f)
<1>1. /\ n \in Nat /\ Len(g) = n + 1 /\ g[n + 1] = x /\ \A i \in 1..n : g[i] = f[i]
  <2>1. f \in Seq(S \cup {x}) /\ x \in S \cup {x}
    OBVIOUS
  <2>2. QED
    BY <2>1, AppendProperties, LenProperties
<1> HIDE DEF g, n
<1>2. PICK u : IsTextsUpTo(u, f, n) /\ Texts(f) = u[n]
  BY <1>1, TextsRecursive DEF n
<1>3. PICK v : IsTextsUpTo(v, g, n + 1) /\ Texts(g) = v[n + 1]
  BY <1>1, TextsRecursive
<1>4. u[n] = v[n]
  BY <1>1, <1>2, <1>3, TextsAgree
<1>5. n + 1 \in 0..n + 1 /\ n + 1 # 0 /\ (n + 1) - 1 = n
  BY <1>1
<1>6. v[n + 1] = IF g[n + 1] \in {Fragment, Newline} THEN v[n] ELSE Append(v[n], g[n + 1])
  BY <1>3, <1>5 DEF IsTextsUpTo
<1>7. QED
  BY <1>1, <1>2, <1>3, <1>4, <1>6 DEF g

LEMMA TextsType ==
  ASSUME NEW S, NEW f \in Seq(S), NEW u, IsTextsUpTo(u, f, Len(f)), NEW m \in 0..Len(f)
  PROVE  u[m] \in Seq(S)
<1> DEFINE T == {n \in Nat : n <= Len(f) => u[n] \in Seq(S)}
<1>1. \A n \in 0..Len(f) : u[n] = IF n = 0 THEN <<>>
                                  ELSE IF f[n] \in {Fragment, Newline} THEN u[n - 1]
                                  ELSE Append(u[n - 1], f[n])
  BY DEF IsTextsUpTo
<1>2. 0 \in T
  <2>1. Len(f) \in Nat /\ 0 \in 0..Len(f)
    OBVIOUS
  <2>2. u[0] = <<>> /\ <<>> \in Seq(S)
    BY <1>1, <2>1
  <2>3. QED
    BY <2>2
<1>3. ASSUME NEW n \in Nat, n \in T
      PROVE  n + 1 \in T
  <2>1. SUFFICES ASSUME n + 1 <= Len(f)
                 PROVE  u[n + 1] \in Seq(S)
    OBVIOUS
  <2>2. /\ u[n] \in Seq(S) /\ f[n + 1] \in S /\ (n + 1) - 1 = n /\ n + 1 # 0
        /\ n + 1 \in 0..Len(f)
    BY <1>3, <2>1
  <2>3. u[n + 1] = u[n] \/ u[n + 1] = Append(u[n], f[n + 1])
    BY <1>1, <2>2
  <2>4. CASE u[n + 1] = u[n]
    BY <2>2, <2>4
  <2>5. CASE u[n + 1] = Append(u[n], f[n + 1])
    <3>1. Append(u[n], f[n + 1]) \in Seq(S)
      BY <2>2, AppendProperties
    <3>2. QED
      BY <2>5, <3>1
  <2>6. QED
    BY <2>3, <2>4, <2>5
<1>4. Nat \subseteq T
  BY <1>2, <1>3, Induction
<1>5. QED
  BY <1>4

\* The texts of a prefix are a prefix of the texts.
LEMMA TextsPrefix ==
  ASSUME NEW S, NEW f \in Seq(S), NEW m \in 0..Len(f)
  PROVE  LET part == Texts(SubSeq(f, 1, m))
         IN  /\ part \in Seq(S) /\ Texts(f) \in Seq(S)
             /\ Len(part) <= Len(Texts(f))
             /\ part = SubSeq(Texts(f), 1, Len(part))
<1> DEFINE g == SubSeq(f, 1, m)
<1>1. Len(f) \in Nat /\ m \in Nat /\ Len(g) = m /\ \A i \in 1..m : g[i] = f[i]
  OBVIOUS
<1> HIDE DEF g
<1>2. PICK u : IsTextsUpTo(u, f, Len(f)) /\ Texts(f) = u[Len(f)]
  BY <1>1, TextsRecursive
<1>3. PICK v : IsTextsUpTo(v, g, m) /\ Texts(g) = v[m]
  BY <1>1, TextsRecursive
<1>4. Texts(g) = u[m]
  BY <1>1, <1>2, <1>3, TextsAgree, SMTT(30)
<1>5. \A n \in 0..Len(f) : u[n] \in Seq(S)
  BY <1>2, TextsType
<1> DEFINE T == {k \in Nat : m <= k /\ k <= Len(f) =>
                   /\ Len(u[m]) <= Len(u[k])
                   /\ \A i \in 1..Len(u[m]) : u[k][i] = u[m][i]}
<1>6. 0 \in T
  <2>1. m = 0 => u[m] = u[0] /\ Len(u[m]) \in Nat
    BY <1>1, <1>5
  <2>2. QED
    BY <1>1, <2>1
<1>7. ASSUME NEW k \in Nat, k \in T
      PROVE  k + 1 \in T
  <2>1. SUFFICES ASSUME m <= k + 1, k + 1 <= Len(f)
                 PROVE  /\ Len(u[m]) <= Len(u[k + 1])
                        /\ \A i \in 1..Len(u[m]) : u[k + 1][i] = u[m][i]
    OBVIOUS
  <2>2. CASE m = k + 1
    BY <1>1, <1>5, <2>2
  <2>3. CASE m <= k
    <3>1. /\ Len(u[m]) <= Len(u[k]) /\ \A i \in 1..Len(u[m]) : u[k][i] = u[m][i]
      BY <1>7, <2>1, <2>3
    <3>2. /\ k + 1 \in 0..Len(f) /\ (k + 1) - 1 = k /\ k + 1 # 0
          /\ u[k] \in Seq(S) /\ u[m] \in Seq(S) /\ f[k + 1] \in S
      BY <1>1, <1>5, <2>1
    <3>3. u[k + 1] = u[k] \/ u[k + 1] = Append(u[k], f[k + 1])
      BY <1>2, <3>2 DEF IsTextsUpTo
    <3>4. /\ Len(u[k]) <= Len(u[k + 1]) /\ \A i \in 1..Len(u[k]) : u[k + 1][i] = u[k][i]
          /\ Len(u[k + 1]) \in Nat /\ Len(u[k]) \in Nat /\ Len(u[m]) \in Nat
      <4>1. CASE u[k + 1] = u[k]
        BY <3>2, <4>1, LenProperties
      <4>2. CASE u[k + 1] = Append(u[k], f[k + 1])
        <5>1. /\ Len(Append(u[k], f[k + 1])) = Len(u[k]) + 1
              /\ \A i \in 1..Len(u[k]) : Append(u[k], f[k + 1])[i] = u[k][i]
          BY <3>2, AppendProperties
        <5>2. Len(u[k]) \in Nat /\ Len(u[m]) \in Nat
          BY <3>2, LenProperties
        <5>3. QED
          BY <4>2, <5>1, <5>2
      <4>3. QED
        BY <3>3, <4>1, <4>2
    <3>5. Len(u[m]) <= Len(u[k + 1])
      BY <3>1, <3>4
    <3>6. ASSUME NEW i \in 1..Len(u[m])
          PROVE  u[k + 1][i] = u[m][i]
      <4>1. i \in 1..Len(u[k])
        BY <3>1, <3>4
      <4>2. QED
        BY <3>1, <3>4, <4>1
    <3>7. QED
      BY <3>5, <3>6
  <2>4. QED
    BY <1>1, <2>1, <2>2, <2>3
<1>8. Nat \subseteq T
  BY <1>6, <1>7, Induction
<1>9. Len(f) \in T /\ m <= Len(f) /\ Len(f) <= Len(f)
  BY <1>1, <1>8
<1>10. /\ Len(u[m]) <= Len(u[Len(f)])
       /\ \A i \in 1..Len(u[m]) : u[Len(f)][i] = u[m][i]
  BY <1>9
<1>11. u[m] \in Seq(S) /\ u[Len(f)] \in Seq(S)
  BY <1>1, <1>5
<1>12. u[m] = SubSeq(u[Len(f)], 1, Len(u[m]))
  BY <1>10, <1>11
<1>13. QED
  BY <1>2, <1>4, <1>10, <1>11, <1>12 DEF g

-----------------------------------------------------------------------------
(* What the steps do to the trail.                                         *)

\* The records that no failure can take.
Confirmed == Texts(SubSeq(file, 1, synced))

LEMMA PrefixOfAppend ==
  ASSUME NEW S, NEW f \in Seq(S), NEW x, NEW n \in 0..Len(f)
  PROVE  /\ SubSeq(Append(f, x), 1, n) = SubSeq(f, 1, n)
         /\ Len(Append(f, x)) = Len(f) + 1 /\ Append(f, x)[Len(f) + 1] = x
         /\ Append(f, x) \in Seq(S \cup {x})
<1> DEFINE U == S \cup {x}
           g == Append(f, x)
<1>1. f \in Seq(U) /\ x \in U /\ Len(f) \in Nat
  BY LenProperties
<1>2. /\ g \in Seq(U) /\ Len(g) = Len(f) + 1 /\ g[Len(f) + 1] = x
      /\ \A i \in 1..Len(f) : g[i] = f[i]
  BY <1>1, AppendProperties
<1> HIDE DEF g, U
<1>3. SubSeq(g, 1, n) = SubSeq(f, 1, n)
  BY <1>1, <1>2
<1>4. QED
  BY <1>2, <1>3 DEF g, U

LEMMA PrefixOfPrefix ==
  ASSUME NEW S, NEW f \in Seq(S), NEW m \in 0..Len(f), NEW n \in 0..m
  PROVE  /\ SubSeq(f, 1, m) \in Seq(S) /\ Len(SubSeq(f, 1, m)) = m
         /\ SubSeq(SubSeq(f, 1, m), 1, n) = SubSeq(f, 1, n)
OBVIOUS

\* One piece is written at the end of the file.
LEMMA Written ==
  ASSUME TypeOK, FileTyped, NEW x, file' = Append(file, x), synced' = synced
  PROVE  /\ FileTyped' /\ Len(file') = Len(file) + 1 /\ file'[Len(file')] = x
         /\ synced < Len(file') /\ Confirmed' = Confirmed
         /\ Texts(file') = IF x \in {Fragment, Newline} THEN Texts(file)
                           ELSE Append(Texts(file), x)
<1>1. file \in Seq(Range(file)) /\ Len(file) \in Nat /\ synced \in 0..Len(file)
  BY LenProperties DEF TypeOK, FileTyped
<1>2. /\ SubSeq(file', 1, synced) = SubSeq(file, 1, synced)
      /\ Len(file') = Len(file) + 1 /\ file'[Len(file) + 1] = x
      /\ file' \in Seq(Range(file) \cup {x})
  BY <1>1, PrefixOfAppend
<1>3. FileTyped'
  BY <1>2, SeqOfRange DEF FileTyped
<1>4. Texts(Append(file, x)) = IF x \in {Fragment, Newline} THEN Texts(file)
                               ELSE Append(Texts(file), x)
  BY <1>1, TextsAppend
<1>5. Confirmed' = Confirmed
  BY <1>2 DEF Confirmed
<1>6. synced < Len(file')
  BY <1>1, <1>2
<1>7. QED
  BY <1>2, <1>3, <1>4, <1>5, <1>6

\* A text takes the place of its beginning.
LEMMA Completed ==
  ASSUME TypeOK, FileTyped, NEW x, file' = Append(Front(file), x), synced' = synced,
         synced < Len(file), file[Len(file)] = Fragment, x \notin {Fragment, Newline}
  PROVE  /\ FileTyped' /\ Len(file') = Len(file) /\ Confirmed' = Confirmed
         /\ Texts(file') = Append(Texts(file), x)
<1> DEFINE S == Range(file)
           f == Front(file)
<1>1. file \in Seq(S) /\ Len(file) \in Nat /\ synced \in 0..Len(file)
  BY LenProperties DEF TypeOK, FileTyped
<1> HIDE DEF S
<1>2. Len(file) - 1 \in 0..Len(file) /\ synced \in 0..Len(file) - 1
  BY <1>1
<1>3. /\ f \in Seq(S) /\ Len(f) = Len(file) - 1
      /\ SubSeq(f, 1, synced) = SubSeq(file, 1, synced)
  BY <1>1, <1>2, PrefixOfPrefix DEF Front
<1>4. file = Append(f, Fragment)
  <2>1. \A i \in 1..Len(f) : f[i] = file[i]
    BY <1>1, <1>2 DEF Front
  <2>2. /\ Append(f, Fragment) \in Seq(S \cup {Fragment}) /\ file \in Seq(S \cup {Fragment})
        /\ Len(Append(f, Fragment)) = Len(f) + 1
        /\ \A i \in 1..Len(f) : Append(f, Fragment)[i] = f[i]
        /\ Append(f, Fragment)[Len(f) + 1] = Fragment
    <3>1. f \in Seq(S \cup {Fragment}) /\ Fragment \in S \cup {Fragment}
      BY <1>3
    <3>2. file \in Seq(S \cup {Fragment})
      BY <1>1
    <3> HIDE DEF f
    <3>3. QED
      BY <3>1, <3>2, AppendProperties
  <2>3. Len(file) = Len(f) + 1
    BY <1>1, <1>3
  <2> HIDE DEF f
  <2>4. \A i \in 1..Len(file) : Append(f, Fragment)[i] = file[i]
    BY <1>1, <2>1, <2>2, <2>3
  <2>5. QED
    BY <2>2, <2>3, <2>4, SeqEqual
<1> HIDE DEF f
<1>5. Texts(file) = Texts(f)
  BY <1>3, <1>4, TextsAppend
<1>6. /\ SubSeq(file', 1, synced) = SubSeq(f, 1, synced)
      /\ Len(file') = Len(f) + 1 /\ file' \in Seq(S \cup {x})
  BY <1>2, <1>3, PrefixOfAppend DEF f
<1>7. Texts(file') = Append(Texts(f), x)
  BY <1>3, TextsAppend DEF f
<1>8. FileTyped'
  BY <1>6, SeqOfRange DEF FileTyped
<1>9. Confirmed' = Confirmed
  BY <1>3, <1>6 DEF Confirmed
<1>10. Len(file') = Len(file)
  BY <1>1, <1>3, <1>6
<1>11. QED
  BY <1>5, <1>7, <1>8, <1>9, <1>10

LEMMA NextOfIsRecord ==
  ASSUME NEW w, NEW log, NEW rec \in NextOf(w, log)
  PROVE  rec \notin {Fragment, Newline} /\ rec.index = Len(log) /\ rec.prev = PrevHash(log)
BY DEF NextOf, Fragment, Newline

\* A power failure takes unconfirmed records off the end, and no others.
LEMMA PowerLost ==
  ASSUME TypeOK, FileTyped, PowerLoss
  PROVE  /\ FileTyped' /\ synced' \in 0..Len(file') /\ Confirmed' = Confirmed
         /\ \E k \in Len(Confirmed)..Len(Texts(file)) : Texts(file') = SubSeq(Texts(file), 1, k)
<1> DEFINE S == Range(file)
<1>1. file \in Seq(S) /\ Len(file) \in Nat /\ synced \in 0..Len(file) /\ synced' = synced
  BY LenProperties DEF TypeOK, FileTyped, PowerLoss
<1>2. PICK n \in synced..Len(file) :
        file' = SubSeq(file, 1, n) \/ file' = Append(SubSeq(file, 1, n), Fragment)
  BY DEF PowerLoss
<1> DEFINE kept == SubSeq(file, 1, n)
           t == Texts(file)
<1>3. n \in 0..Len(file) /\ synced \in 0..n
  BY <1>1
<1> HIDE DEF S
<1>4. /\ kept \in Seq(S) /\ Len(kept) = n
      /\ SubSeq(kept, 1, synced) = SubSeq(file, 1, synced)
  BY <1>1, <1>3, PrefixOfPrefix
<1>5. /\ Texts(kept) \in Seq(S) /\ t \in Seq(S) /\ Len(Texts(kept)) <= Len(t)
      /\ Texts(kept) = SubSeq(t, 1, Len(Texts(kept)))
  BY <1>1, <1>3, TextsPrefix
<1> HIDE DEF kept, t
<1>6. Confirmed \in Seq(S) /\ Len(Confirmed) <= Len(Texts(kept))
  BY <1>3, <1>4, TextsPrefix DEF Confirmed
<1>7. Len(Texts(kept)) \in Len(Confirmed)..Len(t)
  BY <1>5, <1>6, LenProperties
<1>8. /\ FileTyped' /\ synced' \in 0..Len(file')
      /\ SubSeq(file', 1, synced) = SubSeq(kept, 1, synced) /\ Texts(file') = Texts(kept)
  <2>1. CASE file' = kept
    BY <1>1, <1>3, <1>4, <2>1, SeqOfRange DEF FileTyped
  <2>2. CASE file' = Append(kept, Fragment)
    <3>1. /\ SubSeq(file', 1, synced) = SubSeq(kept, 1, synced)
          /\ Len(file') = n + 1 /\ file' \in Seq(S \cup {Fragment})
      BY <1>3, <1>4, <2>2, PrefixOfAppend
    <3>2. FileTyped'
      BY <3>1, SeqOfRange DEF FileTyped
    <3>3. Texts(Append(kept, Fragment)) = Texts(kept)
      BY <1>4, TextsAppend
    <3>4. synced' \in 0..Len(file')
      BY <1>1, <1>3, <3>1
    <3>5. QED
      BY <2>2, <3>1, <3>2, <3>3, <3>4
  <2>3. QED
    BY <1>2, <2>1, <2>2 DEF kept
<1>9. Confirmed' = Confirmed
  BY <1>1, <1>4, <1>8 DEF Confirmed
<1>10. QED
  BY <1>5, <1>7, <1>8, <1>9 DEF t

\* Every step extends the trail by its next record, confirms it, loses records
\* that are not confirmed, or does nothing to it.
TrailStep ==
  \/ Texts(file') = Texts(file) /\ Confirmed' = Confirmed
  \/ /\ \E w \in Threads : \E rec \in NextOf(w, Texts(file)) :
          Texts(file') = Append(Texts(file), rec)
     /\ Confirmed' = Confirmed
  \/ Texts(file') = Texts(file) /\ Confirmed' = Texts(file)
  \/ /\ \E k \in Len(Confirmed)..Len(Texts(file)) : Texts(file') = SubSeq(Texts(file), 1, k)
     /\ Confirmed' = Confirmed

LEMMA TrailSteps ==
  ASSUME TypeOK, FileTyped, AppendInv, [Next]_vars
  PROVE  TrailStep /\ FileTyped' /\ synced' \in 0..Len(file')
<1>1. file \in Seq(Range(file)) /\ Len(file) \in Nat /\ synced \in 0..Len(file)
  BY LenProperties DEF TypeOK, FileTyped
<1>2. CASE UNCHANGED <<file, synced>>
  BY <1>1, <1>2 DEF FileTyped, TrailStep, Confirmed
<1>3. ASSUME NEW w \in Threads, AppendStep(w)
      PROVE  TrailStep /\ FileTyped' /\ synced' \in 0..Len(file')
  <2>1. CASE LockMutex(w) \/ LockFile(w) \/ Build(w) \/ ParseFails(w) \/ Acknowledge(w)
             \/ WriteFails(w)
    BY <2>1, <1>2 DEF LockMutex, LockFile, Build, ParseFails, Acknowledge, WriteFails
  <2>2. CASE WriteSome(w) \/ WriteNewline(w)
    <3>1. \E x \in {Fragment, Newline} : file' = Append(file, x) /\ synced' = synced
      BY <2>2 DEF WriteSome, WriteNewline
    <3>2. QED
      BY <1>1, <3>1, Written DEF TrailStep
  <2>3. CASE WriteText(w)
    <3>1. /\ file' = Append(Front(file), record[w]) /\ synced' = synced /\ synced < Len(file)
          /\ file[Len(file)] = Fragment /\ record[w] \in NextOf(w, Texts(file))
      BY <2>3 DEF WriteText, AppendInv, ThreadInv
    <3>2. record[w] \notin {Fragment, Newline}
      BY <3>1, NextOfIsRecord
    <3>3. /\ FileTyped' /\ Len(file') = Len(file) /\ Confirmed' = Confirmed
          /\ Texts(file') = Append(Texts(file), record[w])
      BY <3>1, <3>2, Completed
    <3>4. QED
      BY <1>1, <3>1, <3>3 DEF TrailStep
  <2>4. CASE Sync(w)
    <3>1. file' = file /\ synced' = Len(file)
      BY <2>4 DEF Sync
    <3>2. SubSeq(file, 1, Len(file)) = file
      BY <1>1, SubSeqFull
    <3>3. Confirmed' = Texts(file) /\ Texts(file') = Texts(file)
      BY <3>1, <3>2 DEF Confirmed
    <3>4. FileTyped' /\ synced' \in 0..Len(file')
      BY <1>1, <3>1 DEF FileTyped
    <3>5. QED
      BY <3>3, <3>4 DEF TrailStep
  <2>5. QED
    BY <1>3, <2>1, <2>2, <2>3, <2>4 DEF AppendStep
<1>4. CASE PowerLoss
  BY <1>4, PowerLost DEF TrailStep
<1>5. ASSUME NEW r \in Readers, LockShared(r) \/ ReadAll(r)
      PROVE  TrailStep /\ FileTyped' /\ synced' \in 0..Len(file')
  BY <1>2, <1>5 DEF LockShared, ReadAll
<1>6. ASSUME NEW p \in Processes, Crash(p)
      PROVE  TrailStep /\ FileTyped' /\ synced' \in 0..Len(file')
  BY <1>2, <1>6 DEF Crash
<1>7. CASE UNCHANGED vars
  BY <1>2, <1>7 DEF vars
<1>8. QED
  BY <1>3, <1>4, <1>5, <1>6, <1>7 DEF Next

-----------------------------------------------------------------------------
(* Types, locks and the critical section. *)

LEMMA TypeStep ==
  ASSUME TypeOK, FileTyped, AppendInv, [Next]_vars
  PROVE  TypeOK'
<1> USE AuditAssumption DEF TypeOK, Stages
<1>1. synced' \in 0..Len(file')
  BY TrailSteps
<1>2. ASSUME NEW w \in Threads, Return(w)
      PROVE  /\ mutex' \in [Processes -> Threads \cup {None}] /\ flock' \in Threads \cup {None}
             /\ pc' \in [Threads -> Stages] /\ DOMAIN record' = Threads
  BY <1>2 DEF Return, Goto
<1>3. ASSUME NEW P, Die(P)
      PROVE  /\ mutex' \in [Processes -> Threads \cup {None}] /\ flock' \in Threads \cup {None}
             /\ pc' \in [Threads -> Stages] /\ DOMAIN record' = Threads
  BY <1>3 DEF Die
<1>4. CASE UNCHANGED vars
  BY <1>4 DEF vars
<1>5. ASSUME NEW w \in Threads, AppendStep(w)
      PROVE  TypeOK'
  <2>1. CASE LockMutex(w)
    BY <2>1, <1>1 DEF LockMutex, Goto
  <2>2. CASE LockFile(w) \/ Build(w)
    BY <2>2, <1>1 DEF LockFile, Build, Goto
  <2>3. CASE ParseFails(w) \/ Acknowledge(w) \/ WriteFails(w)
    BY <2>3, <1>1, <1>2 DEF ParseFails, Acknowledge, WriteFails
  <2>4. CASE WriteSome(w) \/ WriteText(w) \/ WriteNewline(w) \/ Sync(w)
    BY <2>4, <1>1 DEF WriteSome, WriteText, WriteNewline, Sync, Goto
  <2>5. QED
    BY <1>5, <2>1, <2>2, <2>3, <2>4 DEF AppendStep
<1>6. ASSUME NEW r \in Readers, LockShared(r) \/ ReadAll(r)
      PROVE  TypeOK'
  BY <1>1, <1>6 DEF LockShared, ReadAll
<1>7. ASSUME NEW p \in Processes, Crash(p)
      PROVE  TypeOK'
  BY <1>1, <1>3, <1>7 DEF Crash
<1>8. CASE PowerLoss
  BY <1>1, <1>3, <1>8 DEF PowerLoss
<1>9. QED
  BY <1>4, <1>5, <1>6, <1>7, <1>8 DEF Next

LEMMA FlockStep ==
  ASSUME TypeOK, FlockHeld, [Next]_vars
  PROVE  FlockHeld'
<1> USE AuditAssumption DEF TypeOK, FlockHeld, Critical, Stages
<1>1. ASSUME NEW w \in Threads, Return(w)
      PROVE  FlockHeld'
  BY <1>1 DEF Return, Goto
<1>2. ASSUME NEW P, Die(P)
      PROVE  FlockHeld'
  BY <1>2 DEF Die
<1>3. CASE UNCHANGED vars
  BY <1>3 DEF vars
<1>4. ASSUME NEW w \in Threads, AppendStep(w)
      PROVE  FlockHeld'
  <2>1. CASE LockMutex(w) \/ LockFile(w) \/ Build(w)
    BY <2>1 DEF LockMutex, LockFile, Build, Goto
  <2>2. CASE ParseFails(w) \/ Acknowledge(w) \/ WriteFails(w)
    BY <2>2, <1>1 DEF ParseFails, Acknowledge, WriteFails
  <2>3. CASE WriteSome(w) \/ WriteText(w) \/ WriteNewline(w) \/ Sync(w)
    BY <2>3 DEF WriteSome, WriteText, WriteNewline, Sync, Goto
  <2>4. QED
    BY <1>4, <2>1, <2>2, <2>3 DEF AppendStep
<1>5. ASSUME NEW r \in Readers, LockShared(r) \/ ReadAll(r)
      PROVE  FlockHeld'
  BY <1>5 DEF LockShared, ReadAll
<1>6. ASSUME NEW p \in Processes, Crash(p)
      PROVE  FlockHeld'
  BY <1>2, <1>6 DEF Crash
<1>7. CASE PowerLoss
  BY <1>2, <1>7 DEF PowerLoss
<1>8. QED
  BY <1>3, <1>4, <1>5, <1>6, <1>7 DEF Next

LEMMA AppendInvStep ==
  ASSUME TypeOK, FileTyped, FlockHeld, AppendInv, [Next]_vars
  PROVE  AppendInv'
<1> USE AuditAssumption DEF TypeOK, Stages, AppendInv
<1>1. ASSUME NEW v \in Threads, UNCHANGED <<file, synced>>, pc'[v] = pc[v],
             record'[v] = record[v], appends'[v] = appends[v]
      PROVE  ThreadInv(v)'
  BY <1>1 DEF ThreadInv
<1>2. ASSUME NEW v \in Threads, pc'[v] = "idle"
      PROVE  ThreadInv(v)'
  BY <1>2 DEF ThreadInv
<1>3. ASSUME NEW w \in Threads, NEW v \in Threads, v # w, pc[w] \in Critical,
             pc'[v] = pc[v], appends'[v] = appends[v]
      PROVE  ThreadInv(v)'
  <2>1. pc[v] \notin Critical
    BY <1>3 DEF FlockHeld
  <2>2. QED
    BY <1>3, <2>1 DEF ThreadInv, Critical
<1>4. ASSUME NEW w \in Threads, AppendStep(w), NEW v \in Threads
      PROVE  ThreadInv(v)'
  <2>1. CASE LockMutex(w)
    <3>1. /\ UNCHANGED <<file, synced>> /\ record' = record
          /\ appends' = [appends EXCEPT ![w] = @ + 1] /\ pc' = [pc EXCEPT ![w] = "mutex"]
      BY <2>1 DEF LockMutex, Goto
    <3>2. CASE v = w
      <4>1. appends'[w] > 0 /\ pc'[w] = "mutex"
        BY <3>1
      <4>2. QED
        BY <3>2, <4>1 DEF ThreadInv
    <3>3. CASE v # w
      BY <3>1, <3>3, <1>1
    <3>4. QED
      BY <3>2, <3>3
  <2>2. CASE LockFile(w)
    <3>1. /\ UNCHANGED <<file, synced, record, appends>> /\ pc[w] = "mutex"
          /\ pc' = [pc EXCEPT ![w] = "locked"]
      BY <2>2 DEF LockFile, Goto
    <3>2. CASE v = w
      BY <3>1, <3>2 DEF ThreadInv
    <3>3. CASE v # w
      BY <3>1, <3>3, <1>1
    <3>4. QED
      BY <3>2, <3>3
  <2>3. CASE Build(w)
    <3>1. /\ UNCHANGED <<file, synced, appends>> /\ pc[w] = "locked"
          /\ pc' = [pc EXCEPT ![w] = "built"]
          /\ record' = [record EXCEPT ![w] =
               [index |-> Len(Texts(file)), payload |-> <<w, appends[w]>>,
                prev |-> PrevHash(Texts(file))]]
      BY <2>3 DEF Build, Goto, IndexFor
    <3>2. CASE v = w
      <4>1. appends[w] \in 1..MaxAppends[w]
        <5>1. appends[w] \in 0..MaxAppends[w] /\ MaxAppends[w] \in Nat /\ appends[w] > 0
          BY <3>1 DEF ThreadInv
        <5>2. QED
          BY <5>1
      <4>2. record'[w] \in NextOf(w, Texts(file))
        BY <3>1, <4>1 DEF NextOf
      <4>3. QED
        BY <3>1, <3>2, <4>1, <4>2 DEF ThreadInv
    <3>3. CASE v # w
      BY <3>1, <3>3, <1>1
    <3>4. QED
      BY <3>2, <3>3
  <2>4. CASE ParseFails(w) \/ Acknowledge(w) \/ WriteFails(w)
    <3>1. /\ UNCHANGED <<file, synced, appends>> /\ pc' = [pc EXCEPT ![w] = "idle"]
          /\ record' = [record EXCEPT ![w] = None]
      BY <2>4 DEF ParseFails, Acknowledge, WriteFails, Return, Goto
    <3>2. QED
      BY <3>1, <1>1, <1>2
  <2>5. CASE WriteSome(w)
    <3>1. /\ file' = Append(file, Fragment) /\ UNCHANGED <<synced, record, appends>>
          /\ pc[w] = "built" /\ pc' = [pc EXCEPT ![w] = "cut"]
      BY <2>5 DEF WriteSome, Goto
    <3>2. /\ Texts(file') = Texts(file) /\ synced < Len(file') /\ file'[Len(file')] = Fragment
      BY <3>1, Written
    <3>3. CASE v = w
      BY <3>1, <3>2, <3>3 DEF ThreadInv
    <3>4. CASE v # w
      BY <3>1, <3>4, <1>3 DEF Critical
    <3>5. QED
      BY <3>3, <3>4
  <2>6. CASE WriteText(w)
    <3>1. /\ file' = Append(Front(file), record[w]) /\ UNCHANGED <<synced, record, appends>>
          /\ pc[w] = "cut" /\ pc' = [pc EXCEPT ![w] = "text"]
      BY <2>6 DEF WriteText, Goto
    <3>2. /\ synced < Len(file) /\ file[Len(file)] = Fragment /\ appends[w] > 0
          /\ record[w] \in NextOf(w, Texts(file)) /\ record[w] \notin {Fragment, Newline}
      BY <3>1, NextOfIsRecord DEF ThreadInv
    <3>3. Texts(file') = Append(Texts(file), record[w])
      BY <3>1, <3>2, Completed
    <3>4. Texts(file) \in Seq(Range(file))
      <4>1. Len(file) \in 0..Len(file)
        BY LenProperties DEF FileTyped
      <4>2. QED
        BY <4>1, TextsPrefix DEF FileTyped
    <3>5. Texts(file') # <<>> /\ Last(Texts(file')) = record[w]
      <4>1. Texts(file) \in Seq(Range(file) \cup {record[w]})
        BY <3>4
      <4>2. QED
        BY <3>3, <4>1, AppendProperties DEF Last
    <3>6. CASE v = w
      BY <3>1, <3>2, <3>5, <3>6 DEF ThreadInv
    <3>7. CASE v # w
      BY <3>1, <3>7, <1>3 DEF Critical
    <3>8. QED
      BY <3>6, <3>7
  <2>7. CASE WriteNewline(w)
    <3>1. /\ file' = Append(file, Newline) /\ UNCHANGED <<synced, record, appends>>
          /\ pc[w] = "text" /\ pc' = [pc EXCEPT ![w] = "line"]
      BY <2>7 DEF WriteNewline, Goto
    <3>2. Texts(file') = Texts(file)
      BY <3>1, Written
    <3>3. CASE v = w
      BY <3>1, <3>2, <3>3 DEF ThreadInv
    <3>4. CASE v # w
      BY <3>1, <3>4, <1>3 DEF Critical
    <3>5. QED
      BY <3>3, <3>4
  <2>8. CASE Sync(w)
    <3>1. /\ file' = file /\ synced' = Len(file) /\ UNCHANGED <<record, appends>>
          /\ pc[w] = "line" /\ pc' = [pc EXCEPT ![w] = "synced"]
      BY <2>8 DEF Sync, Goto
    <3>2. CASE v = w
      BY <3>1, <3>2 DEF ThreadInv
    <3>3. CASE v # w
      BY <3>1, <3>3, <1>3 DEF Critical
    <3>4. QED
      BY <3>2, <3>3
  <2>9. QED
    BY <1>4, <2>1, <2>2, <2>3, <2>4, <2>5, <2>6, <2>7, <2>8 DEF AppendStep
<1>5. ASSUME NEW r \in Readers, LockShared(r) \/ ReadAll(r)
      PROVE  AppendInv'
  BY <1>1, <1>5 DEF LockShared, ReadAll
<1>6. ASSUME NEW p \in Processes, Crash(p)
      PROVE  AppendInv'
  <2>1. UNCHANGED <<file, synced, appends>> /\ Die({p})
    BY <1>6 DEF Crash
  <2>2. \A v \in Threads : pc'[v] = "idle" \/ (pc'[v] = pc[v] /\ record'[v] = record[v])
    BY <2>1 DEF Die
  <2>3. QED
    BY <2>1, <2>2, <1>1, <1>2
<1>7. CASE PowerLoss
  <2>1. \A v \in Threads : pc'[v] = "idle"
    BY <1>7 DEF PowerLoss, Die
  <2>2. QED
    BY <2>1, <1>2
<1>8. CASE UNCHANGED vars
  BY <1>1, <1>8 DEF vars
<1>9. QED
  BY <1>4, <1>5, <1>6, <1>7, <1>8 DEF Next

-----------------------------------------------------------------------------
(* The chain. *)

LEMMA ChainExtended ==
  ASSUME NEW S, NEW log \in Seq(S), ValidChain(log), NEW w, NEW rec \in NextOf(w, log)
  PROVE  ValidChain(Append(log, rec))
<1> DEFINE longer == Append(log, rec)
           n == Len(log)
<1>1. /\ longer \in Seq(S \cup {rec}) /\ n \in Nat /\ Len(longer) = n + 1
      /\ longer[n + 1] = rec /\ \A i \in 1..n : longer[i] = log[i]
  <2>1. log \in Seq(S \cup {rec}) /\ rec \in S \cup {rec}
    OBVIOUS
  <2>2. QED
    BY <2>1, AppendProperties, LenProperties
<1>2. DOMAIN log = 1..n /\ DOMAIN longer = 1..n + 1
  BY <1>1, LenProperties
<1>3. rec.index = n /\ rec.prev = PrevHash(log)
  BY NextOfIsRecord
<1>4. PrevHash(log) = IF n = 0 THEN Genesis ELSE Hash(log[n])
  BY DEF PrevHash, Last
<1> HIDE DEF longer, n
<1>5. ASSUME NEW i \in 1..n + 1
      PROVE  /\ longer[i].index = i - 1
             /\ longer[i].prev = IF i = 1 THEN Genesis ELSE Hash(longer[i - 1])
  <2>1. CASE i = n + 1
    <3>1. i - 1 = n /\ (i = 1 <=> n = 0) /\ (n # 0 => n \in 1..n)
      BY <1>1, <2>1
    <3>2. longer[i] = rec /\ (n # 0 => longer[i - 1] = log[n])
      BY <1>1, <2>1, <3>1
    <3>3. QED
      BY <1>3, <1>4, <3>1, <3>2
  <2>2. CASE i \in 1..n
    <3>1. longer[i] = log[i] /\ (i # 1 => longer[i - 1] = log[i - 1])
      BY <1>1, <2>2
    <3>2. QED
      BY <1>2, <2>2, <3>1 DEF ValidChain
  <2>3. QED
    BY <1>1, <2>1, <2>2
<1>6. QED
  BY <1>2, <1>5 DEF ValidChain, longer

LEMMA ChainCut ==
  ASSUME NEW S, NEW log \in Seq(S), ValidChain(log), NEW k \in 0..Len(log)
  PROVE  ValidChain(SubSeq(log, 1, k))
<1>1. /\ SubSeq(log, 1, k) \in Seq(S) /\ Len(SubSeq(log, 1, k)) = k
      /\ \A i \in 1..k : SubSeq(log, 1, k)[i] = log[i]
  OBVIOUS
<1>2. DOMAIN SubSeq(log, 1, k) = 1..k /\ DOMAIN log = 1..Len(log)
  BY <1>1, LenProperties
<1>3. QED
  BY <1>1, <1>2 DEF ValidChain

\* The confirmed records are a prefix of the trail.
LEMMA TrailTyped ==
  ASSUME TypeOK, FileTyped
  PROVE  /\ Texts(file) \in Seq(Range(file)) /\ Confirmed \in Seq(Range(file))
         /\ Len(Texts(file)) \in Nat /\ Len(Confirmed) \in 0..Len(Texts(file))
         /\ \A i \in 1..Len(Confirmed) : Confirmed[i] = Texts(file)[i]
<1> DEFINE S == Range(file)
           t == Texts(file)
<1>1. file \in Seq(S) /\ synced \in 0..Len(file)
  BY DEF TypeOK, FileTyped
<1> HIDE DEF S
<1>2. /\ Confirmed \in Seq(S) /\ t \in Seq(S) /\ Len(Confirmed) <= Len(t)
      /\ Confirmed = SubSeq(t, 1, Len(Confirmed))
  BY <1>1, TextsPrefix DEF Confirmed
<1> HIDE DEF t
<1>3. Len(t) \in Nat /\ Len(Confirmed) \in 0..Len(t)
  BY <1>2, LenProperties
<1>4. \A i \in 1..Len(Confirmed) : SubSeq(t, 1, Len(Confirmed))[i] = t[i]
  BY <1>2, <1>3
<1>5. QED
  BY <1>2, <1>3, <1>4 DEF S, t

LEMMA ChainStep ==
  ASSUME TypeOK, FileTyped, ChainIntact, TrailStep
  PROVE  ChainIntact'
<1> DEFINE S == Range(file)
           t == Texts(file)
<1>1. t \in Seq(S) /\ Len(t) \in Nat /\ Len(Confirmed) \in Nat /\ ValidChain(t)
  BY TrailTyped DEF ChainIntact
<1> SUFFICES ValidChain(Texts(file'))
  BY DEF ChainIntact
<1>2. CASE Texts(file') = t
  BY <1>1, <1>2
<1>3. ASSUME NEW w \in Threads, NEW rec \in NextOf(w, t), Texts(file') = Append(t, rec)
      PROVE  ValidChain(Texts(file'))
  BY <1>1, <1>3, ChainExtended
<1>4. ASSUME NEW k \in Len(Confirmed)..Len(t), Texts(file') = SubSeq(t, 1, k)
      PROVE  ValidChain(Texts(file'))
  <2>1. k \in 0..Len(t)
    BY <1>1
  <2>2. QED
    BY <1>1, <1>4, <2>1, ChainCut
<1>5. QED
  BY <1>2, <1>3, <1>4 DEF TrailStep

\* An acknowledged record is confirmed, and stays where it is.
LEMMA AckedStep ==
  ASSUME TypeOK, FileTyped, AppendInv, ChainIntact, AckedIndexed, AckedSurvive, TrailStep,
         [Next]_vars
  PROVE  AckedIndexed' /\ AckedSurvive'
<1> DEFINE t == Texts(file)
<1>1. /\ t \in Seq(Range(file)) /\ Len(t) \in Nat /\ Len(Confirmed) \in 0..Len(t)
      /\ \A i \in 1..Len(Confirmed) : Confirmed[i] = t[i]
  BY TrailTyped
<1>2. ASSUME NEW rec \in acked
      PROVE  /\ rec.index \in Nat /\ rec.index < Len(Confirmed)
             /\ Confirmed[rec.index + 1] = rec
  BY <1>2 DEF AckedIndexed, AckedSurvive, Confirmed
<1>3. Confirmed' = Confirmed \/ Confirmed' = t
  BY DEF TrailStep
<1> HIDE DEF t
<1>4. CASE acked' = acked
  <2>1. ASSUME NEW rec \in acked
        PROVE  /\ rec.index \in Nat /\ rec.index < Len(Confirmed')
               /\ Confirmed'[rec.index + 1] = rec
    <3>1. rec.index + 1 \in 1..Len(Confirmed) /\ rec.index < Len(t)
      BY <1>1, <1>2
    <3>2. t[rec.index + 1] = rec
      BY <1>1, <1>2, <3>1
    <3>3. QED
      BY <1>2, <1>3, <3>1, <3>2
  <2>2. QED
    BY <1>4, <2>1 DEF AckedIndexed, AckedSurvive, Confirmed
<1>5. ASSUME NEW w \in Threads, Acknowledge(w)
      PROVE  AckedIndexed' /\ AckedSurvive'
  <2>1. /\ UNCHANGED <<file, synced>> /\ acked' = acked \cup {record[w]}
        /\ pc[w] = "synced"
    BY <1>5 DEF Acknowledge
  <2>2. synced = Len(file) /\ t # <<>> /\ t[Len(t)] = record[w]
    BY <2>1 DEF AppendInv, ThreadInv, Last, t
  <2>3. SubSeq(file, 1, Len(file)) = file
    BY SubSeqFull DEF FileTyped
  <2>4. Confirmed = t /\ Confirmed' = t
    BY <2>1, <2>2, <2>3 DEF Confirmed, t
  <2>5. Len(t) \in 1..Len(t) /\ Len(t) - 1 \in Nat
    BY <1>1, <2>2
  <2>6. record[w].index = Len(t) - 1
    <3>1. Len(t) \in DOMAIN t
      BY <1>1, <2>5, LenProperties
    <3>2. QED
      BY <2>2, <3>1 DEF ChainIntact, ValidChain, t
  <2>7. ASSUME NEW rec \in acked'
        PROVE  rec.index \in Nat /\ rec.index < Len(t) /\ t[rec.index + 1] = rec
    <3>1. CASE rec = record[w]
      BY <2>2, <2>5, <2>6, <3>1
    <3>2. CASE rec \in acked
      BY <1>2, <2>4, <3>2
    <3>3. QED
      BY <2>1, <3>1, <3>2
  <2>8. QED
    BY <2>4, <2>7 DEF AckedIndexed, AckedSurvive, Confirmed
<1>6. acked' = acked \/ \E w \in Threads : Acknowledge(w)
  BY DEF Next, vars, AppendStep, LockMutex, LockFile, Build, ParseFails, WriteSome, WriteText,
         WriteNewline, Sync, WriteFails, LockShared, ReadAll, Crash, PowerLoss
<1>7. QED
  BY <1>4, <1>5, <1>6

-----------------------------------------------------------------------------
(* The theorems. *)

LEMMA InvariantInit ==
  ASSUME Init
  PROVE  IInv
<1> USE AuditAssumption DEF Init
<1>1. TypeOK
  BY DEF TypeOK, Stages
<1>2. FileTyped
  BY SeqOfRange, EmptySeq DEF FileTyped
<1>3. FlockHeld /\ AppendInv
  BY DEF FlockHeld, Critical, AppendInv, ThreadInv
<1>4. ChainIntact
  BY TextsEmpty DEF ChainIntact, ValidChain
<1>5. AckedIndexed /\ AckedSurvive
  BY DEF AckedIndexed, AckedSurvive
<1>6. QED
  BY <1>1, <1>2, <1>3, <1>4, <1>5 DEF IInv

LEMMA InvariantStep ==
  ASSUME IInv, [Next]_vars
  PROVE  IInv'
<1> USE DEF IInv
<1>1. TrailStep /\ FileTyped'
  BY TrailSteps
<1>2. TypeOK'
  BY TypeStep
<1>3. FlockHeld'
  BY FlockStep
<1>4. AppendInv'
  BY AppendInvStep
<1>5. ChainIntact'
  BY <1>1, ChainStep
<1>6. AckedIndexed' /\ AckedSurvive'
  BY <1>1, AckedStep
<1>7. QED
  BY <1>1, <1>2, <1>3, <1>4, <1>5, <1>6

\* Through every step of every thread and every failure, a writer owns the file
\* lock and knows what is in the file, and the records are a chain of which the
\* acknowledged ones are synced.
THEOREM Invariant == Spec => []IInv
<1>1. Init => IInv
  BY InvariantInit
<1>2. IInv /\ [Next]_vars => IInv'
  BY InvariantStep
<1>3. QED
  BY <1>1, <1>2, PTL DEF Spec

\* The variables keep their types, and the part of the file that survives a
\* power failure never exceeds the file, though such failures shorten it.
THEOREM TypeCorrect == Spec => []TypeOK
<1>1. IInv => TypeOK
  BY DEF IInv
<1>2. QED
  BY <1>1, Invariant, PTL

\* The records in the file are one gapless hash chain after any interleaving of
\* any number of processes and threads, and after any crashes, failed writes,
\* failed fsyncs and power failures.
THEOREM Chained == Spec => []ChainIntact
<1>1. IInv => ChainIntact
  BY DEF IInv
<1>2. QED
  BY <1>1, Invariant, PTL

\* A record whose append returned Ok stays in the part of the file that no
\* failure can take, at its index.
THEOREM AckedKept == Spec => []AckedSurvive
<1>1. IInv => AckedSurvive
  BY DEF IInv
<1>2. QED
  BY <1>1, Invariant, PTL

LEMMA TrailInit ==
  ASSUME Init
  PROVE  Trail!Init
<1>1. Texts(file) = <<>>
  BY TextsEmpty DEF Init
<1>2. SubSeq(file, 1, synced) = <<>>
  BY SubSeqEmpty DEF Init
<1>3. Len(Texts(SubSeq(file, 1, synced))) = 0
  <2>1. Texts(SubSeq(file, 1, synced)) = <<>>
    BY <1>2, TextsEmpty
  <2>2. Len(<<>>) = 0
    OBVIOUS
  <2>3. QED
    BY <2>1, <2>2
<1>4. QED
  BY <1>1, <1>3 DEF Trail!Init

LEMMA TrailNext ==
  ASSUME TypeOK, FileTyped, ChainIntact, TrailStep
  PROVE  [Trail!Next]_<<Texts(file), Len(Texts(SubSeq(file, 1, synced)))>>
<1> DEFINE t == Texts(file)
<1>1. /\ t \in Seq(Range(file)) /\ Len(t) \in Nat /\ Len(Confirmed) \in 0..Len(t)
  BY TrailTyped
<1>2. CASE Texts(file') = t /\ Confirmed' = Confirmed
  BY <1>2 DEF Confirmed
<1>3. ASSUME NEW w \in Threads, NEW rec \in NextOf(w, t), Texts(file') = Append(t, rec),
             Confirmed' = Confirmed
      PROVE  Trail!Next
  <2>1. PICK n \in 1..MaxAppends[w] :
          rec = [index |-> Len(t), payload |-> <<w, n>>, prev |-> PrevHash(t)]
    BY DEF NextOf
  <2>2. <<w, n>> \in UNION {{x} \X (1..MaxAppends[x]) : x \in Threads}
    OBVIOUS
  <2>3. PrevHash(t) = IF t = <<>> THEN Genesis
                      ELSE Digest(Len(t) - 1, t[Len(t)].payload, t[Len(t)].prev)
    <3>1. ASSUME t # <<>>
          PROVE  t[Len(t)].index = Len(t) - 1
      <4>1. Len(t) \in DOMAIN t
        BY <1>1, <3>1, LenProperties
      <4>2. QED
        BY <4>1 DEF ChainIntact, ValidChain
    <3>2. QED
      BY <3>1 DEF PrevHash, Hash, Last
  <2>4. rec = Trail!NextRecord(t, <<w, n>>)
    BY <2>1, <2>3 DEF Trail!NextRecord
  <2>5. Trail!Extend(<<w, n>>)
    BY <1>3, <2>4 DEF Trail!Extend, Confirmed
  <2>6. QED
    BY <2>2, <2>5 DEF Trail!Next
<1>4. CASE Texts(file') = t /\ Confirmed' = t
  BY <1>4 DEF Trail!Next, Trail!Confirm, Confirmed
<1>5. ASSUME NEW k \in Len(Confirmed)..Len(t), Texts(file') = SubSeq(t, 1, k),
             Confirmed' = Confirmed
      PROVE  Trail!Next
  BY <1>5 DEF Trail!Next, Trail!Lose, Confirmed
<1>6. QED
  BY <1>2, <1>3, <1>4, <1>5 DEF TrailStep

\* An append, with its two locks, its three writes and its fsync, is one
\* extension of the chain; an fsync confirms, a power failure takes only what
\* is not confirmed, and nothing else changes the trail.
THEOREM TrailImplemented == Spec => ImplementsTrail
<1>1. Init => Trail!Init
  BY TrailInit
<1>2. IInv /\ [Next]_vars => [Trail!Next]_<<Texts(file), Len(Texts(SubSeq(file, 1, synced)))>>
  BY TrailSteps, TrailNext DEF IInv
<1>3. QED
  BY <1>1, <1>2, Invariant, PTL DEF Spec, ImplementsTrail, Trail!Spec
=============================================================================
