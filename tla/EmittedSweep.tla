---------------------------- MODULE EmittedSweep ----------------------------
(* xazz-compiler/src/emitter.rs: the program that `xazz emit rust' makes of a*)
(* sweep: when it stops a combination, how it measures one, and how it       *)
(* reports the rows, [combo, score], in the order they were tried.  It does  *)
(* with one loop and sorting in place what dl.rs and SweepReport do.         *)
EXTENDS Split, Classification

(* The early_stop of the emitted loop.                                       *)
Patient(patience, idle) == patience > 0 /\ idle > patience  \* mutant
RunsOut(patience, idle) == patience > 0 /\ idle >= patience

(* The epoch after which the loop is left for want of improvement, 0 if the  *)
(* given losses do not make it.                                              *)
EmittedStop(losses, patience) ==
    LET Epoch(loop, e) ==
            LET better == loop.best = Null \/ losses[e] < loop.best
                idle   == IF better THEN 0 ELSE loop.idle + 1
            IN  IF loop.at > 0 THEN loop
                ELSE [best |-> IF better THEN losses[e] ELSE loop.best, idle |-> idle,
                      at |-> IF RunsOut(patience, idle) THEN e ELSE 0]
    IN  FoldLeftDomain(Epoch, [best |-> Null, idle |-> 0, at |-> 0], losses).at

(* xz_regression_metrics: deviations from the mean, here n times as large.   *)
EmittedMetrics(preds, targets) ==
    LET n == Len(preds)
        sum == FoldLeft(+, 0, targets)
        Add(acc, i) ==
            [abs |-> acc.abs + Abs(preds[i] - targets[i]),
             res |-> acc.res + n * n * (targets[i] - preds[i]) * (targets[i] - preds[i]),
             tot |-> acc.tot + (n * targets[i] - sum) * (n * targets[i] - sum)]
        acc == FoldLeftDomain(Add, [abs |-> 0, res |-> 0, tot |-> 0], targets)
    IN  [mae |-> Ratio(acc.abs, n), r2 |-> IF acc.tot > 0 THEN Ratio(acc.tot - acc.res, acc.tot) ELSE Ratio(0, 1)]

(* xz_sweep_axis: the metric compares equal.                                 *)
AxisBelow(axis, a, b) == axis # "metric" /\ a.combo[axis] < b.combo[axis]

(* xz_sweep_compare: the sort key, then the tiebreaks without repetition,    *)
(* then the axes that are left.                                              *)
Fallback(c) ==
    FoldLeft(LAMBDA keys, axis : IF axis \in {"metric", c.sort} \cup ToSet(keys) THEN keys ELSE Append(keys, axis),
             <<>>, c.tiebreak \o <<"epochs", "lr", "batch">>)
PrimaryBelow(a, b, c) == IF c.sort = "metric" THEN Above(b.score, a.score) ELSE AxisBelow(c.sort, a, b)
SweepBelow(a, b, c) ==
    \/ PrimaryBelow(a, b, c)
    \/ ~PrimaryBelow(b, a, c) /\ \E i \in DOMAIN Fallback(c) :
          /\ AxisBelow(Fallback(c)[i], a, b)
          /\ \A h \in 1..(i - 1) : ~AxisBelow(Fallback(c)[h], b, a)

(* sort_by is stable.                                                        *)
Arranged(order, Below(_, _)) ==
    LET Earlier(k, l) == Below(order[k], order[l]) \/ (~Below(order[l], order[k]) /\ k < l)
        places == SortSeq([k \in DOMAIN order |-> k], Earlier)
    IN  [k \in DOMAIN order |-> order[places[k]]]

(* The first minimum is selected, the `top' best rows are kept, and those    *)
(* are put in the order asked for.                                           *)
EmittedReport(rows, c) ==
    LET all    == [i \in DOMAIN rows |-> i]
        winner == CHOOSE i \in DOMAIN rows : \A j \in DOMAIN rows :
                     Above(rows[j].score, rows[i].score) \/ (~Above(rows[i].score, rows[j].score) /\ i =< j)
        kept   == IF c.top = Null \/ Max({c.top, 1}) >= Len(rows) THEN all
                  ELSE SubSeq(Arranged(all, LAMBDA i, j : Above(rows[j].score, rows[i].score)), 1, Max({c.top, 1}))
    IN  [order  |-> Arranged(kept, LAMBDA i, j : SweepBelow(rows[i], rows[j], c)), winner |-> winner]
=============================================================================
