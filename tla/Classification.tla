--------------------------- MODULE Classification ---------------------------
(* xazz-exec/src/classification.rs: the report on a classifier.  Ratios are  *)
(* pairs <<numerator, denominator>>; a score is an integer, the larger the   *)
(* more probable the positive class.                                         *)
EXTENDS Integers, SequencesExt

Ratio(p, q) == <<p, q>>
Abs(k) == IF k < 0 THEN -k ELSE k
Above(r, s) == r[1] * s[2] > s[1] * r[2]
Same(r, s) == r[1] * s[2] = s[1] * r[2]

(* detect_classification: at least two classes, all labels integers.         *)
Classes(targets, IsLabel(_)) ==
    IF \A i \in DOMAIN targets : IsLabel(targets[i])
    THEN LET cs == SortSeq(SetToSeq(ToSet(targets)), <) IN IF Len(cs) < 2 THEN <<>> ELSE cs
    ELSE <<>>

(* decode_logits: the first of the largest logits.                           *)
Decode(row, classes) ==
    classes[CHOOSE c \in DOMAIN row : \A d \in DOMAIN row : row[d] < row[c] \/ (row[d] = row[c] /\ c =< d)]

Confusion(preds, actual, classes) ==
    [a \in DOMAIN classes |-> [p \in DOMAIN classes |->
        Cardinality({i \in DOMAIN preds : actual[i] = classes[a] /\ preds[i] = classes[p]})]]

Plus(r, s) == Ratio(r[1] * s[2] + s[1] * r[2], r[2] * s[2])
MeanOver(F(_), S) ==
    LET sum == MapThenFoldSet(Plus, Ratio(0, 1), F, LAMBDA T : CHOOSE i \in T : TRUE, S)
    IN  Ratio(sum[1], sum[2] * Cardinality(S))
OrZero(p, q) == IF q = 0 THEN Ratio(0, 1) ELSE Ratio(p, q)

(* binary_auc: the rank sum of the positives, equal scores sharing the mean  *)
(* of their ranks.  Ranks are doubled so that they stay integers.            *)
FirstRank(rows, k) == Min({j \in DOMAIN rows : rows[j][1] = rows[k][1]})
LowestRank(rows, k) == Min({j \in DOMAIN rows : rows[j][1] = rows[k][1]})  \* mutant: ties are not shared
LastRank(rows, k) == Max({j \in DOMAIN rows : rows[j][1] = rows[k][1]})
BinaryAuc(scores, positives) ==
    LET rows    == SortSeq([i \in DOMAIN scores |-> <<scores[i], i>>], LAMBDA a, b : a[1] < b[1])
        pos     == Cardinality(positives)
        neg     == Len(scores) - pos
        ranks   == {j \in DOMAIN rows : rows[j][2] \in positives}
        rankSum == MapThenSumSet(LAMBDA k : FirstRank(rows, k) + LastRank(rows, k), ranks)
    IN  IF pos = 0 \/ neg = 0 THEN <<>> ELSE Ratio(rankSum - pos * (pos + 1), 2 * pos * neg)

(* classification_metrics: precision, recall and F1 are means over classes.  *)
ClassMeasures(preds, actual, classes, scores) ==
    LET cm           == Confusion(preds, actual, classes)
        ks           == DOMAIN classes
        Predicted(c) == MapThenSumSet(LAMBDA a : cm[a][c], ks)
        Actual(c)    == MapThenSumSet(LAMBDA p : cm[c][p], ks)
    IN  [accuracy  |-> Ratio(MapThenSumSet(LAMBDA c : cm[c][c], ks), Len(actual)),
         precision |-> MeanOver(LAMBDA c : OrZero(cm[c][c], Predicted(c)), ks),
         recall    |-> MeanOver(LAMBDA c : OrZero(cm[c][c], Actual(c)), ks),
         f1        |-> MeanOver(LAMBDA c : OrZero(2 * cm[c][c], Predicted(c) + Actual(c)), ks),
         auc       |-> IF Len(classes) = 2
                       THEN BinaryAuc(scores, {i \in DOMAIN actual : actual[i] = classes[2]}) ELSE <<>>]

(* dl.rs, regression_metrics and the mean squared error: R2 is 0 when the    *)
(* targets do not vary.                                                      *)
RegressionMeasures(preds, actual) ==
    LET n     == Len(actual)
        rows  == DOMAIN actual
        ssRes == MapThenSumSet(LAMBDA i : (actual[i] - preds[i]) * (actual[i] - preds[i]), rows)
        total == MapThenSumSet(LAMBDA i : actual[i], rows)
        ssTot == n * MapThenSumSet(LAMBDA i : actual[i] * actual[i], rows) - total * total  \* n times SS_tot
    IN  [mse |-> Ratio(ssRes, n),
         mae |-> Ratio(MapThenSumSet(LAMBDA i : Abs(actual[i] - preds[i]), rows), n),
         r2  |-> IF ssTot = 0 THEN Ratio(0, 1) ELSE Ratio(ssTot - n * ssRes, ssTot)]
=============================================================================
