------------------------------- MODULE Split --------------------------------
(* xazz-exec/src/split.rs: the partition of the rows 1..n of a training      *)
(* table into training and validation rows.  The fraction is given in        *)
(* tenths; targets are naturals, Null for a missing and Half for a           *)
(* fractional label.  An outcome is [ok, train, val], rows in order.         *)
EXTENDS Integers, SequencesExt

CONSTANTS Null, Half

Rejected == [ok |-> FALSE, train |-> <<>>, val |-> <<>>]
Parts(train, val) == [ok |-> TRUE, train |-> train, val |-> val]
IsLabel(v) == v \notin {Null, Half}

(* Exact, which the product of doubles is below 90 rows.                     *)
ValidationRows(n, tenths) == (n * tenths) \div 10

(* The elements of a finite set, each after those that come before it.       *)
InOrder(before) ==
    [k \in 1..Cardinality(DOMAIN before) |-> CHOOSE i \in DOMAIN before : Cardinality(before[i]) = k - 1]
Ascending(rows) == InOrder([i \in rows |-> {j \in rows : j < i}])

ClassRows(targets, c) == {i \in DOMAIN targets : targets[i] = c}

(* The classes that keep a training row when they give one more away.        *)
WholeClasses(targets, counts) == {c \in DOMAIN counts : counts[c] < Cardinality(ClassRows(targets, c))}  \* mutant: also the last row
CanSpare(targets, counts) == {c \in DOMAIN counts : counts[c] < Cardinality(ClassRows(targets, c)) - 1}

(* The class furthest below its share, the least of several.                 *)
Deficit(targets, tenths, counts, c) == Cardinality(ClassRows(targets, c)) * tenths - 10 * counts[c]
Neediest(targets, tenths, counts) ==
    LET spare == CanSpare(targets, counts)
    IN  CHOOSE c \in spare : \A d \in spare :
            \/ Deficit(targets, tenths, counts, c) > Deficit(targets, tenths, counts, d)
            \/ Deficit(targets, tenths, counts, c) = Deficit(targets, tenths, counts, d) /\ c =< d

(* One validation row for every class that can spare one if that is possible,*)
(* the others one by one.                                                    *)
Covered(targets, total) ==
    LET eligible == {c \in ToSet(targets) : Cardinality(ClassRows(targets, c)) > 1}
    IN  IF total >= Cardinality(eligible) THEN eligible ELSE {}
Apportion(targets, tenths, total) ==
    LET first == Covered(targets, total)
        more  == total - Cardinality(first)
        given[k \in 0..more] ==
            IF k = 0 THEN [c \in ToSet(targets) |-> IF c \in first THEN 1 ELSE 0]
            ELSE [given[k - 1] EXCEPT ![Neediest(targets, tenths, given[k - 1])] = @ + 1]
    IN  given[more]

(* The last rows of each class validate.                                     *)
LastOfClasses(targets, counts) ==
    {i \in DOMAIN targets : Cardinality({j \in ClassRows(targets, targets[i]) : j > i}) < counts[targets[i]]}
Stratify(targets, tenths, total) ==
    LET rows == DOMAIN targets
        val  == LastOfClasses(targets, Apportion(targets, tenths, total))
    IN  IF total > Len(targets) - Cardinality(ToSet(targets)) THEN Rejected
        ELSE Parts(Ascending(rows \ val), Ascending(val))

LastRows(order, total) ==
    Parts(SubSeq(order, 1, Len(order) - total), SubSeq(order, Len(order) - total + 1, Len(order)))

(* The random order is the outcome of a fixed generator: some permutation.   *)
Shuffles(order) == {[i \in DOMAIN order |-> order[p[i]]] : p \in {q \in [DOMAIN order -> DOMAIN order] : IsInjective(q)}}

(* select_split_indices, order being the rows by time or as they are, which  *)
(* is how they are wherever a stratified split is made.                      *)
SelectSplit(order, timed, tenths, strategy, targets) ==
    LET n     == Len(order)
        total == ValidationRows(n, tenths)
    IN  IF \/ tenths \notin 0..9
           \/ timed /\ strategy # "sequential"
           \/ strategy = "stratified" /\ \E i \in DOMAIN targets : ~IsLabel(targets[i])
        THEN {Rejected}
        ELSE IF tenths = 0 THEN {Parts(order, <<>>)}
        ELSE IF total = 0 \/ total >= n THEN {Rejected}
        ELSE CASE strategy = "sequential" -> {LastRows(order, total)}
               [] strategy = "random" -> {LastRows(o, total) : o \in Shuffles(order)}
               [] strategy = "stratified" -> {Stratify(targets, tenths, total)}

(* time_order_by_column: stable, and only without missing times.             *)
RowsByTime(time) ==
    InOrder([i \in DOMAIN time |-> {j \in DOMAIN time : time[j] < time[i] \/ (time[j] = time[i] /\ j < i)}])

(* validate_time_boundary                                                    *)
StrictBoundary(p, time) == p.val # <<>> /\ p.train # <<>> => time[Last(p.train)] < time[Head(p.val)]

(* The split that train_impl makes of a table.                               *)
TableSplits(table, tenths, strategy, byTime) ==
    LET n     == Len(table.targets)
        timed == byTime /\ tenths > 0
        order == IF timed THEN RowsByTime(table.time) ELSE [i \in 1..n |-> i]
    IN  IF byTime /\ strategy # "sequential" THEN {Rejected}
        ELSE IF timed /\ Null \in ToSet(table.time) THEN {Rejected}
        ELSE {IF p.ok /\ timed /\ ~StrictBoundary(p, table.time) THEN Rejected ELSE p :
                 p \in SelectSplit(order, timed, tenths, strategy, table.targets)}
=============================================================================
