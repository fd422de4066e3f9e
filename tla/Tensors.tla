------------------------------ MODULE Tensors -------------------------------
(* tensor_bridge.rs and dl.rs: how a table becomes the rows of numbers that  *)
(* a network is given, when it is trained and when it predicts, and how the  *)
(* programs written by emitter.rs do the same.  A frame is [names, cells],   *)
(* a column [t, rows] with a whole number or Null in each row.  A number is  *)
(* exact, a standardized one [off, variance]: its distance from the mean and *)
(* the variance whose root that is divided by.                               *)
EXTENDS Split, Classification, Network

SeriesToF32(column) == column.rows
IsNumericType(t) == t \in {"int", "float"}
Height(frame) == Len(frame.cells[frame.names[1]].rows)

(* extract_data: the numeric columns but the target, in the frame's order.   *)
ExtractData(frame, target) ==
    LET numeric  == SelectSeq(frame.names, LAMBDA n : IsNumericType(frame.cells[n].t))
        features == SelectSeq(numeric, LAMBDA n : n # target)
    IN  [ok    |-> target \in ToSet(numeric),
         names |-> features,
         rows  |-> [i \in 1..Height(frame) |-> [j \in DOMAIN features |-> SeriesToF32(frame.cells[features[j]])[i]]]]

(* Mean and variance of the numbers there are; those of nothing are 0 and 1. *)
Finite(values) == SelectSeq(values, LAMBDA v : v # Null)
Total(values) == FoldLeft(+, 0, values)
Mean(values) ==
    LET p == Finite(values) IN IF p = <<>> THEN Ratio(0, 1) ELSE Ratio(Total(p), Len(p))
Variance(values) ==
    LET p == Finite(values)
        Square(v) == (Len(p) * v - Total(p)) * (Len(p) * v - Total(p))
    IN  IF Len(p) < 2 THEN Ratio(1, 1)
        ELSE Ratio(Total([i \in DOMAIN p |-> Square(p[i])]), Len(p) * Len(p) * (Len(p) - 1))
StatsOf(data, among) ==
    LET Values(j) == [i \in DOMAIN among |-> data.rows[among[i]][j]]
    IN  [mean |-> [j \in DOMAIN data.names |-> Mean(Values(j))],
         variance |-> [j \in DOMAIN data.names |-> Variance(Values(j))]]

(* A missing number becomes the mean; a model that looks indices up gets the *)
(* numbers as they are, and 0 for a missing one.                             *)
Standardized(v, mean, variance) ==
    [off |-> Plus(IF v = Null THEN mean ELSE Ratio(v, 1), Ratio(-mean[1], mean[2])), variance |-> variance]
Raw(v) == IF v = Null THEN 0 ELSE v
Input(v, stats, j, raw) == IF raw THEN Raw(v) ELSE Standardized(v, stats.mean[j], stats.variance[j])

-----------------------------------------------------------------------------
(* train_impl: the statistics are those of the training rows alone.          *)
OfAllRows(frame, train) == [i \in 1..Height(frame) |-> i]  \* mutant
StatRows(frame, train) == train
TrainInput(frame, target, train, raw) ==
    LET data  == ExtractData(frame, target)
        stats == StatsOf(data, StatRows(frame, train))
    IN  [names |-> data.names, stats |-> stats, raw |-> raw,
         xs |-> [i \in DOMAIN data.rows |-> [j \in DOMAIN data.names |-> Input(data.rows[i][j], stats, j, raw)]]]

(* prepare_inference_input: the columns by the names of the trained model.   *)
PrepareInferenceInput(trained, frame) ==
    [i \in 1..Height(frame) |-> [j \in DOMAIN trained.names |->
        Input(SeriesToF32(frame.cells[trained.names[j]])[i], trained.stats, j, trained.raw)]]

(* forward_predictions: in chunks of so many rows, 0 for all of them.        *)
ChunkRanges(n, chunk) ==
    LET step == IF chunk = 0 THEN n ELSE chunk
    IN  [k \in 1..((n + step - 1) \div step) |-> <<(k - 1) * step + 1, Min({k * step, n})>>]
ForwardPredictions(Model(_), xs, chunk) ==
    LET ranges == ChunkRanges(Len(xs), chunk)
    IN  FlattenSeq([k \in DOMAIN ranges |->
            LET part == SubSeq(xs, ranges[k][1], ranges[k][2]) IN [i \in DOMAIN part |-> Model(part[i])]])

(* check_embedding_indices: the indices without a row of their own.          *)
LeadingVocabs(layers, width) ==
    IF layers # <<>> /\ layers[1].l = "Embedding" /\ Widen(width, layers[1]) > 0 THEN Vocabs(layers[1], width) ELSE <<>>
OutOfRange(xs, vocabs) ==
    Cardinality({ij \in (DOMAIN xs) \X (DOMAIN vocabs) : LET v == xs[ij[1]][ij[2]] IN v < 0 \/ v > vocabs[ij[2]] - 1})
CheckEmbeddingIndices(layers, width, xs) == OutOfRange(xs, LeadingVocabs(layers, width))

-----------------------------------------------------------------------------
(* extract_xy of a generated program: row by row; what is not a number is    *)
(* missing.                                                                  *)
AnyvalueF32(column, i) == IF IsNumericType(column.t) THEN column.rows[i] ELSE Null
ExtractXy(frame, target) ==
    LET features == SelectSeq(frame.names, LAMBDA n : n # target /\ IsNumericType(frame.cells[n].t))
        Row(i) == FoldLeft(LAMBDA row, n : Append(row, AnyvalueF32(frame.cells[n], i)), <<>>, features)
    IN  [names |-> features, rows |-> [i \in 1..Height(frame) |-> Row(i)]]

(* Its statistics are those of all the rows, also of those it validates on,  *)
(* and are written beside the checkpoint for its predictions.                *)
EmittedInput(frame, target, raw) ==
    LET data  == ExtractXy(frame, target)
        stats == StatsOf(data, [i \in DOMAIN data.rows |-> i])
    IN  [names |-> data.names, stats |-> stats, raw |-> raw,
         xs |-> [i \in DOMAIN data.rows |-> [j \in DOMAIN data.names |-> Input(data.rows[i][j], stats, j, raw)]]]
EmittedPredictInput(saved, frame) ==
    [i \in 1..Height(frame) |-> [j \in DOMAIN saved.names |->
        Input(AnyvalueF32(frame.cells[saved.names[j]], i), saved.stats, j, saved.raw)]]
=============================================================================
