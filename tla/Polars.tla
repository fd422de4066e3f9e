------------------------------- MODULE Polars -------------------------------
(* The part of the Polars library that lower.rs and runtime.rs call: data    *)
(* frames and the frame operations.  External to the repository; what is     *)
(* modelled is what the code relies on.                                      *)
(*                                                                           *)
(* A frame has its column names in order, their descriptions cols : name ->  *)
(* [t: type, dp: noise draws that entered it] and rows, each a function from *)
(* the names to cells.  A cell is an                                         *)
(* integer, a boolean, a string (model value), the rendering <<n>> of an     *)
(* integer, an uninterpreted statistic, or Null.  Where Polars leaves the    *)
(* order of rows open the operation has several outcomes, so every operation *)
(* returns the set of the frames it may produce.                             *)
EXTENDS Integers, SequencesExt

CONSTANT Null

(* A map with one more entry, or another value for one it has.               *)
Bind(f, k, v) == [x \in DOMAIN f \cup {k} |-> IF x = k THEN v ELSE f[x]]

Frame(names, cols, rows) == [names |-> names, cols |-> cols, rows |-> rows, err |-> "none"]
Fail(why) == [names |-> <<>>, cols |-> <<>>, rows |-> <<>>, err |-> why]
Names(f) == ToSet(f.names)
Failed(f) == f.err # "none"

Numeric == {"int", "float"}
MapRows(Cell(_), rows) == [i \in DOMAIN rows |-> Cell(rows[i])]

(* An operation over columns a frame does not have fails; one that would     *)
(* give two columns the same name fails as well.                             *)
IfPresent(f, needed, outcomes) ==
    IF needed \subseteq Names(f) THEN outcomes ELSE {Fail("missing column")}
Distinct(names) == IsInjective(names)

(* LazyFrame::filter keeps the rows for which the predicate is true.         *)
FilterRows(f, Keep(_)) == [f EXCEPT !.rows = SelectSeq(@, Keep)]

Project(f, names) ==
    IfPresent(f, ToSet(names),
        IF Distinct(names)
        THEN {Frame(names, Restrict(f.cols, ToSet(names)), MapRows(LAMBDA r : Restrict(r, ToSet(names)), f.rows))}
        ELSE {Fail("duplicate column")})

(* with_columns: add a column or replace the one of that name.               *)
With(f, name, col, Cell(_)) ==
    Frame(IF name \in Names(f) THEN f.names ELSE Append(f.names, name), Bind(f.cols, name, col),
          MapRows(LAMBDA r : Bind(r, name, Cell(r)), f.rows))

RenameColumn(f, old, new) ==
    LET Back(n) == IF n = new THEN old ELSE n
        names   == (Names(f) \ {old}) \cup {new}
        Move(g) == [n \in names |-> g[Back(n)]]
    IN  IfPresent(f, {old},
          IF new \in Names(f) \ {old} THEN {Fail("duplicate column")}
          ELSE {Frame(ReplaceAll(f.names, old, new), Move(f.cols), MapRows(Move, f.rows))})

(* cast: strings that are not numbers become null; integers print and parse  *)
(* back as themselves.                                                       *)
CastCell(v, from, to) ==
    CASE v = Null -> Null
      [] from = to -> v
      [] from = "str" /\ to \in Numeric -> IF \E n \in -9..9 : v = <<n>> THEN v[1] ELSE Null
      [] from \in Numeric /\ to = "str" -> <<v>>
      [] from = "bool" /\ to \in Numeric -> IF v THEN 1 ELSE 0
      [] from \in Numeric /\ to = "bool" -> v # 0
      [] OTHER -> v

Orders(n) == {p \in [1..n -> 1..n] : IsInjective(p)}
Permuted(f, p) == [f EXCEPT !.rows = [i \in DOMAIN p |-> f.rows[p[i]]]]

(* sort: nulls first in either direction; equal keys in any order (the sort  *)
(* is not asked to be stable).                                               *)
SortBy(f, c, desc) ==
    LET Key(p, i) == f.rows[p[i]][c]
        Before(a, b) == \/ a = Null
                        \/ b # Null /\ (IF desc THEN a >= b ELSE a =< b)
    IN  IfPresent(f, {c},
          {Permuted(f, p) : p \in {q \in Orders(Len(f.rows)) :
              \A i \in 1..(Len(f.rows) - 1) : Before(Key(q, i), Key(q, i + 1))}})

FirstRows(f, n) == [f EXCEPT !.rows = SubSeq(@, 1, IF n < Len(@) THEN n ELSE Len(@))]

(* sample_n without replacement: any n rows; more than there are is an error.*)
Sampled(f, n) ==
    IF n < 0 \/ n > Len(f.rows) THEN {Fail("sample too large")}
    ELSE {FirstRows(Permuted(f, p), n) : p \in Orders(Len(f.rows))}

(* The non-null cells of a column, in row order.                             *)
Cells(rows, c) == SelectSeq([i \in DOMAIN rows |-> rows[i][c]], LAMBDA v : v # Null)
Sum(s) == FoldLeft(+, 0, s)

(* Aggregates.  What no property looks into stays an uninterpreted statistic *)
(* of the bag of cells it was computed from.                                 *)
Statistic(kind, cs, rows) ==
    LET vs == Cells(rows, cs[1]) IN
    CASE kind = "len" -> Len(rows)
      [] kind = "count" -> Len(vs)
      [] kind = "sum" -> Sum(vs)
      [] kind = "min" -> IF vs = <<>> THEN Null ELSE Min(ToSet(vs))
      [] kind = "max" -> IF vs = <<>> THEN Null ELSE Max(ToSet(vs))
      [] OTHER -> IF vs = <<>> THEN Null
                  ELSE <<kind, ToBag([i \in DOMAIN rows |-> [c \in ToSet(cs) |-> rows[i][c]]])>>

StatisticType(kind, t) ==
    CASE kind \in {"len", "count"} -> "int"
      [] kind \in {"sum", "min", "max"} -> t
      [] OTHER -> "float"

(* select(outs) over the whole frame, or group_by(key).agg(outs), which      *)
(* returns the groups in any order.  An out is [name, kind, cols].           *)
AggregateBy(f, key, outs) ==
    LET needed == UNION {ToSet(outs[i].cols) : i \in DOMAIN outs} \cup {k \in {key} : k # Null}
        names  == [i \in DOMAIN outs |-> outs[i].name]
        all    == IF key = Null THEN names ELSE <<key>> \o names
        Out(n) == outs[CHOOSE i \in DOMAIN outs : outs[i].name = n]
        OutCol(n) == LET o == Out(n) IN
            IF n = key THEN f.cols[key]
            ELSE [t  |-> IF o.cols = <<>> THEN "int" ELSE StatisticType(o.kind, f.cols[o.cols[1]].t),
                  dp |-> UNION {f.cols[c].dp : c \in ToSet(o.cols)}]
        Row(g, rows) == [n \in ToSet(all) |->
            IF n = key THEN g
            ELSE LET o == Out(n) IN Statistic(o.kind, IF o.cols = <<>> THEN <<key>> ELSE o.cols, rows)]
        cols   == [n \in ToSet(all) |-> OutCol(n)]
        groups == {f.rows[i][key] : i \in DOMAIN f.rows}
    IN  IfPresent(f, needed,
          IF ~Distinct(all) THEN {Fail("duplicate column")}
          ELSE IF key = Null THEN {Frame(all, cols, <<Row(Null, f.rows)>>)}
          ELSE {Frame(all, cols, [i \in DOMAIN gs |-> Row(gs[i], SelectSeq(f.rows, LAMBDA r : r[key] = gs[i]))])
                  : gs \in SetToSeqs(groups)})

(* join on equal, non-null keys.  The right keys do not reappear except in a *)
(* full join; a right column whose name is taken gets a suffix.              *)
JoinFrames(l, r, lon, ron, how) ==
    LET Taken(n)  == IF n \in Names(l) THEN n \o "_right" ELSE n
        kept      == SelectSeq(r.names, LAMBDA n : ~(how \in {"inner", "left"} /\ n \in ToSet(ron)))
        order     == l.names \o [i \in DOMAIN kept |-> Taken(kept[i])]
        names     == ToSet(order)
        Origin(n) == CHOOSE m \in ToSet(kept) : Taken(m) = n
        cols      == [n \in names |-> IF n \in Names(l) THEN l.cols[n] ELSE r.cols[Origin(n)]]
        Pair(a, b) == [n \in names |-> IF n \in Names(l) THEN (IF a = 0 THEN Null ELSE l.rows[a][n])
                                       ELSE IF b = 0 THEN Null ELSE r.rows[b][Origin(n)]]
        Matches(a, b) == \A i \in DOMAIN lon : l.rows[a][lon[i]] # Null /\ l.rows[a][lon[i]] = r.rows[b][ron[i]]
        matched   == {p \in (DOMAIN l.rows) \X (DOMAIN r.rows) : how = "cross" \/ Matches(p[1], p[2])}
        aloneL    == {<<a, 0>> : a \in {x \in DOMAIN l.rows : ~ \E p \in matched : p[1] = x}}
        aloneR    == {<<0, b>> : b \in {x \in DOMAIN r.rows : ~ \E p \in matched : p[2] = x}}
        pairs     == matched \cup (IF how \in {"left", "outer"} THEN aloneL ELSE {})
                             \cup (IF how = "outer" THEN aloneR ELSE {})
    IN  IF ~(ToSet(lon) \subseteq Names(l) /\ ToSet(ron) \subseteq Names(r))
        THEN {Fail("missing column")}
        ELSE IF ~Distinct(order) THEN {Fail("duplicate column")}
        ELSE {Frame(order, cols, [i \in DOMAIN o |-> Pair(o[i][1], o[i][2])]) : o \in SetToSeqs(pairs)}
=============================================================================
