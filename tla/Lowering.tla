------------------------------ MODULE Lowering ------------------------------
(* xazz-exec/src/lower.rs: one data operation of the typed IR applied to the *)
(* current frame.  group is the pending groupBy column, Null for none; the   *)
(* outcome is the set of <<frame, group>> pairs that can result.  Lazy plans *)
(* are evaluated at once: a plan fails with the first of its operations that *)
(* fails, and nothing happens between an operation and its collect.          *)
EXTENDS Expressions

AggSuffix(c, kind) == c \o "_" \o kind

(* What an aggregating operation outputs: the named statistics.              *)
Outs(op) ==
    CASE op.k = "agg" -> IF op.kind = "len" THEN <<[name |-> "len", kind |-> "len", cols |-> <<>>]>>
                         ELSE <<[name |-> op.col, kind |-> op.kind, cols |-> <<op.col>>]>>
      [] op.k = "aggList" -> [i \in DOMAIN op.specs |->
             [name |-> AggSuffix(op.specs[i].col, op.specs[i].kind),
              kind |-> op.specs[i].kind, cols |-> <<op.specs[i].col>>]]
      [] op.k = "quantile" -> <<[name |-> op.col, kind |-> "quantile", cols |-> <<op.col>>]>>
      [] op.k = "corr" -> <<[name |-> op.a \o "_" \o op.b \o "_corr", kind |-> "corr", cols |-> <<op.a, op.b>>]>>
Aggregating == {"agg", "aggList", "quantile", "corr"}

(* Equal-width buckets over [min, max], the last one closed; the labels are  *)
(* the bucket numbers.                                                       *)
HistogramBins(values, bins) ==
    LET lo     == Min(ToSet(values))
        hi     == Max(ToSet(values))
        Idx(v) == Min({((v - lo) * bins) \div (hi - lo), bins - 1})
    IN  IF values = <<>> \/ bins = 0 THEN <<>>
        ELSE IF lo = hi THEN <<Len(values)>>
        ELSE [b \in 1..bins |-> Len(SelectSeq(values, LAMBDA v : Idx(v) = b - 1))]

Histogram(f, c, bins) ==
    LET values == IF f.cols[c].t \in Numeric THEN Cells(f.rows, c) ELSE <<>>
        counts == HistogramBins(values, bins)
    IN  IfPresent(f, {c},
          {Frame(<<"bin", "n">>,
                 [bin |-> [t |-> "str", dp |-> f.cols[c].dp], n |-> [t |-> "int", dp |-> f.cols[c].dp]],
                 [b \in DOMAIN counts |-> [bin |-> <<b>>, n |-> counts[b]]])})

(* Four times the k-th linear quartile of a sorted sequence.                 *)
Quartile4(s, k) ==
    LET pos == (Len(s) - 1) * k
        i   == pos \div 4 + 1
    IN  4 * s[i] + (IF pos % 4 = 0 THEN 0 ELSE (pos % 4) * (s[i + 1] - s[i]))

OutlierIqr(f, c, factor) ==
    LET s  == SortSeq(Cells(f.rows, c), <)
        q1 == Quartile4(s, 1)
        q3 == Quartile4(s, 3)
        Inside(r) == r[c] # Null /\ 4 * r[c] >= q1 - factor * (q3 - q1)
                                 /\ 4 * r[c] =< q3 + factor * (q3 - q1)
    IN  IfPresent(f, {c}, {IF s = <<>> THEN [f EXCEPT !.rows = <<>>] ELSE FilterRows(f, Inside)})

FillValue(f, c, value) ==
    LET vs == Cells(f.rows, c) IN
    CASE value = "zero" -> 0
      [] value \in {"mean", "median"} -> IF vs = <<>> THEN Null ELSE <<value, ToBag(vs)>>
      [] OTHER -> value
FillNull(f, c, value) ==
    IfPresent(f, {c}, {With(f, c, f.cols[c], LAMBDA r : IF r[c] = Null THEN FillValue(f, c, value) ELSE r[c])})

CastColumn(f, c, to) ==
    IfPresent(f, {c}, {With(f, c, [t |-> to, dp |-> f.cols[c].dp], LAMBDA r : CastCell(r[c], f.cols[c].t, to))})

ReplaceIn(f, c, from, to) ==
    IfPresent(f, {c},
      IF f.cols[c].t # "str" THEN {Fail("not a string column")}
      ELSE {With(f, c, f.cols[c], LAMBDA r : IF r[c] = from THEN to ELSE r[c])})

WithColumn(f, name, e) ==
    IfPresent(f, ExprColumns(e),
      {With(f, name, [t |-> ExprType(e, f.cols), dp |-> UNION {f.cols[c].dp : c \in ExprColumns(e)}],
            LAMBDA r : Value(e, r))})

JoinWith(f, op, table) ==
    IF op.other \notin DOMAIN table THEN {Fail("not in the symbol table")}
    ELSE JoinFrames(f, table[op.other], op.leftOn, op.rightOn, op.how)

(* The frame that an operation makes of f, for every operation that neither  *)
(* sets nor takes the pending group.                                         *)
Transformed(op, f, table) ==
    CASE op.k = "filter" -> IfPresent(f, ExprColumns(op.expr), {FilterRows(f, LAMBDA r : Value(op.expr, r) = TRUE)})
      [] op.k = "select" -> Project(f, op.cols)
      [] op.k = "outlierIqr" -> OutlierIqr(f, op.col, op.factor)
      [] op.k = "orderBy" -> SortBy(f, op.col, op.desc)
      [] op.k = "take" -> IF op.n =< 0 THEN {Fail("take needs n > 0")} ELSE {FirstRows(f, op.n)}
      [] op.k = "sample" -> Sampled(f, op.n)
      [] op.k = "dropNull" -> IfPresent(f, {op.col}, {FilterRows(f, LAMBDA r : r[op.col] # Null)})
      [] op.k = "fillNull" -> FillNull(f, op.col, op.value)
      [] op.k = "join" -> JoinWith(f, op, table)
      [] op.k = "withColumn" -> WithColumn(f, op.name, op.expr)
      [] op.k = "cast" -> CastColumn(f, op.col, op.to)
      [] op.k = "rename" -> RenameColumn(f, op.old, op.new)
      [] op.k = "replace" -> ReplaceIn(f, op.col, op.from, op.to)

(* lower_data: groupBy only remembers its column, the aggregates take it, a  *)
(* histogram drops it, and everything in between passes it on.               *)
LowerData(op, f, group, table) ==
    IF op.k = "groupBy" THEN {<<f, op.col>>}
    ELSE IF op.k \in Aggregating THEN {<<g, Null>> : g \in AggregateBy(f, group, Outs(op))}
    ELSE IF op.k = "histogram" THEN {<<g, Null>> : g \in Histogram(f, op.col, op.bins)}
    ELSE {<<g, group>> : g \in Transformed(op, f, table)}
=============================================================================
