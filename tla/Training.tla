------------------------------ MODULE Training ------------------------------
(* xazz-exec/src/dl.rs and backend.rs: train(...), sweeps and predict(...)   *)
(* of one engine process.  What the network computes is not modelled: losses *)
(* and outputs are whatever the numeric library returns, weights are named   *)
(* by the fit that made them, <<command, combination>>.                      *)
(*                                                                           *)
(* A command is [k |-> "train", var, block, layers, table, config] or        *)
(* [k |-> "predict", var]; a table is [width, targets, time], a config       *)
(* [epochs, lr, batch (their axes), sweep, tenths, strategy, byTime,         *)
(* patience, metric, explicit, sort, tiebreak, top].                         *)
EXTENDS EmittedSweep, Tensors

CONSTANTS
    Programs,    \* the command sequences a process may run
    Requests,    \* values of XAZZ_BACKEND, Null when unset
    Compiled,    \* the backends in the binary
    Present,     \* the backends whose device can be opened
    CacheSlots,  \* XAZZ_INFER_CACHE_SLOTS
    Losses,      \* losses an epoch may have
    Outputs      \* values an output neuron may have

(* A training table has a target and a time in every row, a training one of  *)
(* the three strategies and a patience that is no negative number; losses are*)
(* ordered like integers, and XAZZ_INFER_CACHE_SLOTS of 0 is not accepted.   *)
TypedTraining(cmd) ==
    /\ cmd.table.targets \in Seq(Nat \cup {Null, Half})
    /\ cmd.table.time \in Seq(Int \cup {Null}) /\ Len(cmd.table.time) = Len(cmd.table.targets)
    /\ cmd.config.strategy \in {"sequential", "random", "stratified"} /\ cmd.config.byTime \in BOOLEAN
    /\ cmd.config.patience \in Nat
ASSUME TrainingAssumption ==
    /\ \A p \in Programs : /\ p \in Seq(ToSet(p))
                           /\ \A i \in DOMAIN p : p[i].k = "train" => TypedTraining(p[i])
    /\ Losses \subseteq Int /\ Null \notin Int
    /\ CacheSlots \in Nat \ {0}

VARIABLES
    program, backend,
    pc, phase,   \* next, epoch, compare, checkpoint, manifest, report, export, keep, done or failed
    fit,         \* the fit in progress
    grid, best,  \* sweep: the entries so far, the index of the best
    report,      \* the last sweep report: rows, selected row, number of combinations
    models,      \* model_table: variable -> [block, weights]
    files,       \* checkpoint, manifest and ONNX export of each block
    writes,      \* number of file writes: the modification times
    cache,       \* loaded inference modules, most recently used first
    predicted    \* the last prediction: [var, weights], Null before any
vars == <<program, backend, pc, phase, fit, grid, best, report, models, files, writes, cache, predicted>>
store == <<models, files, writes, cache, predicted>>
sweeping == <<grid, best, report>>

Command == program[pc]
Config == Command.config
NoFile == [weights |-> Null, stamp |-> 0]
NoReport == [rows |-> <<>>, selected |-> 0, total |-> 0]

-----------------------------------------------------------------------------
(* resolve: a backend that is not compiled in or has no device falls back.   *)
IsCompiled(b) == b \in Compiled
CanBuild(b) == b \in Present
Resolve(request) == IF IsCompiled(request) /\ CanBuild(request) THEN request ELSE "cpu"

(* expand_sweep: every combination of the axes, lexicographically.           *)
Combos(c) ==
    FlattenSeq([i \in DOMAIN c.epochs |-> FlattenSeq([j \in DOMAIN c.lr |->
        [k \in DOMAIN c.batch |-> [epochs |-> c.epochs[i], lr |-> c.lr[j], batch |-> c.batch[k]]]])])

ClassMetrics == {"cross_entropy", "accuracy", "precision", "recall", "f1", "auc"}
Labels(cmd) == IF OutDim(cmd.layers, cmd.table.width) > 1 THEN Classes(cmd.table.targets, IsLabel) ELSE <<>>

(* What train_impl refuses before the first epoch.                           *)
Trainable(cmd) ==
    LET out == OutDim(cmd.layers, cmd.table.width)
        classes == Labels(cmd)
    IN  /\ cmd.table.width > 0 /\ cmd.table.targets # <<>>
        /\ out > 0
        /\ out > 1 => Len(classes) = out /\ Last(cmd.layers).l = "Dense"
        /\ IF classes = <<>> THEN cmd.config.metric \notin ClassMetrics
           ELSE cmd.config.explicit => cmd.config.metric \in ClassMetrics

(* The metric a sweep goes by.                                               *)
SweepMetric(cmd) == IF ~cmd.config.explicit /\ Labels(cmd) # <<>> THEN "cross_entropy" ELSE cmd.config.metric

-----------------------------------------------------------------------------
Fit(combo, split) ==
    [combo |-> combo, split |-> split, history |-> <<>>, bestLoss |-> Null,
     bestEpoch |-> 0, stale |-> 0, stopped |-> FALSE, outputs |-> <<>>, report |-> <<>>]
NoFit == Fit(0, Rejected)

Init ==
    /\ program \in Programs
    /\ backend \in {Resolve(r) : r \in Requests}
    /\ pc = 1 /\ phase = "next" /\ fit = NoFit
    /\ grid = <<>> /\ best = 0 /\ report = NoReport
    /\ models = <<>> /\ writes = 0 /\ cache = <<>> /\ predicted = Null
    /\ files = [f \in {"checkpoint", "manifest", "export"} \X {program[i].block : i \in {j \in DOMAIN program : program[j].k = "train"}}
                  |-> NoFile]

Fails == phase' = "failed" /\ UNCHANGED <<pc, fit, sweeping, store>>
AtCommand(k) == phase = "next" /\ pc \in DOMAIN program /\ Command.k = k
Proceed == pc' = pc + 1 /\ phase' = "next"

(* The generator is seeded alike for every fit, so all the combinations of a *)
(* sweep have the split of the first.                                        *)
StartTrain ==
    /\ AtCommand("train")
    /\ \E p \in TableSplits(Command.table, Config.tenths, Config.strategy, Config.byTime) :
         IF p.ok /\ Trainable(Command)
         THEN /\ phase' = "epoch" /\ fit' = Fit(1, p)
              /\ grid' = <<>> /\ best' = 0 /\ report' = NoReport
              /\ UNCHANGED <<pc, store>>
         ELSE Fails
    /\ UNCHANGED <<program, backend>>

Combo == Combos(Config)[fit.combo]
Validates == fit.split.val # <<>>
AtMost(loss, bound) == bound = Null \/ loss =< bound  \* mutant: an equal loss improves
Improves(loss, bound) == bound = Null \/ loss < bound

(* One epoch; without validation rows there is no validation loss and no     *)
(* early stop.  A loss that is not finite fails the training.                *)
Epoch ==
    /\ phase = "epoch" /\ ~fit.stopped /\ Len(fit.history) < Combo.epochs
    /\ \/ Fails
       \/ \E loss \in (IF Validates THEN Losses ELSE {Null}) :
            LET better == Validates /\ Improves(loss, fit.bestLoss)
                stale  == IF better \/ ~Validates THEN 0 ELSE fit.stale + 1
            IN  /\ fit' = [fit EXCEPT
                     !.history = Append(@, loss), !.stale = stale,
                     !.bestLoss = IF better THEN loss ELSE @,
                     !.bestEpoch = IF better THEN Len(fit.history) + 1 ELSE @,
                     !.stopped = Config.patience > 0 /\ Validates /\ stale >= Config.patience]
                /\ UNCHANGED <<pc, phase, sweeping, store>>
    /\ UNCHANGED <<program, backend>>

(* A missing target is the mean of the training rows, which the instances    *)
(* keep whole.                                                               *)
Target(cmd, train, i) ==
    LET t       == cmd.table.targets
        present == {j \in ToSet(train) : t[j] # Null}
    IN  IF t[i] # Null THEN t[i]
        ELSE IF present = {} THEN 0 ELSE MapThenSumSet(LAMBDA j : t[j], present) \div Cardinality(present)

(* The report on one part of the rows.                                       *)
PartReport(cmd, train, rows, outputs, loss) ==
    LET actual == [i \in DOMAIN rows |-> Target(cmd, train, rows[i])]
        outs   == [i \in DOMAIN rows |-> outputs[rows[i]]]
        labels == Labels(cmd)
    IN  IF labels = <<>> THEN RegressionMeasures(outs, actual)
        ELSE [cross_entropy |-> Ratio(loss, 1)]
             @@ ClassMeasures([i \in DOMAIN outs |-> Decode(outs[i], labels)], actual, labels,
                              [i \in DOMAIN outs |-> outs[i][2] - outs[i][1]])

(* The trained model is applied to every row and the report made from that.  *)
NeuronOutputs == IF Labels(Command) = <<>> THEN Outputs ELSE [DOMAIN Labels(Command) -> Outputs]
EvaluationLosses == IF Labels(Command) = <<>> THEN {<<0, 0>>} ELSE Losses \X Losses
Evaluate ==
    /\ phase = "epoch" /\ (fit.stopped \/ Len(fit.history) = Combo.epochs)
    /\ \/ Fails
       \/ \E outputs \in [DOMAIN Command.table.targets -> NeuronOutputs], losses \in EvaluationLosses :
            LET Part(rows, loss) == PartReport(Command, fit.split.train, rows, outputs, loss)
                train == Part(fit.split.train, losses[1])
                val   == IF Validates THEN Part(fit.split.val, losses[2]) ELSE <<>>
            IN  IF Labels(Command) # <<>> /\ Config.metric = "auc" /\ (IF Validates THEN val ELSE train).auc = <<>>
                THEN Fails
                ELSE /\ fit' = [fit EXCEPT !.outputs = outputs, !.report = [train |-> train, val |-> val]]
                     /\ phase' = IF Config.sweep THEN "compare" ELSE "checkpoint"
                     /\ UNCHANGED <<pc, sweeping, store>>
    /\ UNCHANGED <<program, backend>>

-----------------------------------------------------------------------------
(* A sweep keeps the first combination with the least score.                 *)
NoScore == Ratio(1, 0)
Negated(r) == IF r = <<>> THEN NoScore ELSE Ratio(-r[1], r[2])
Score(entry, metric) ==
    LET measures == IF entry.val # <<>> THEN entry.val ELSE entry.train
    IN  IF metric \in {"mse", "mae", "cross_entropy"} THEN measures[metric] ELSE Negated(measures[metric])
NotAbove(a, b, metric) == ~Above(Score(a, metric), Score(b, metric))  \* mutant: a tie replaces the best
Lower(a, b, metric) == Above(Score(b, metric), Score(a, metric))

Entry == [combo |-> Combo, epoch |-> fit.bestEpoch] @@ fit.report
Compare ==
    /\ phase = "compare"
    /\ grid' = Append(grid, Entry)
    /\ best' = IF best = 0 \/ Lower(Entry, grid[best], SweepMetric(Command)) THEN fit.combo ELSE best
    /\ IF fit.combo < Len(Combos(Config))
       THEN phase' = "epoch" /\ fit' = Fit(fit.combo + 1, fit.split)
       ELSE phase' = "checkpoint" /\ UNCHANGED fit
    /\ UNCHANGED <<program, backend, pc, report, store>>

(* SweepReport::compare: the primary key, then the other axes, those of the  *)
(* tiebreak list first.                                                      *)
Axes == <<"epochs", "lr", "batch">>
Keys(c) == LET rest == SelectSeq(Axes, LAMBDA a : a \notin {c.sort} \cup ToSet(c.tiebreak))
           IN  <<c.sort>> \o SelectSeq(c.tiebreak, LAMBDA a : a # c.sort) \o rest
Precedes(a, b, key, metric) == IF key = "metric" THEN Lower(a, b, metric) ELSE a.combo[key] < b.combo[key]
Before(a, b, keys, metric) ==
    \E i \in DOMAIN keys : /\ Precedes(a, b, keys[i], metric)
                           /\ \A j \in 1..(i - 1) : ~Precedes(b, a, keys[j], metric)
(* The rows sort_by leaves, which is stable: indices into the grid.          *)
Sorted(rows, Less(_, _)) == SortSeq(rows, LAMBDA i, j : Less(i, j) \/ (~Less(j, i) /\ i < j))
Retained(c, metric) ==
    LET all == [i \in DOMAIN grid |-> i]
        top == IF c.top = Null THEN Len(grid) ELSE Max({c.top, 1})
    IN  IF top >= Len(grid) THEN all
        ELSE SubSeq(Sorted(all, LAMBDA i, j : Lower(grid[i], grid[j], metric)), 1, top)

WinnerOf(combo) == IF Config.sweep THEN best ELSE combo
Weights == <<pc, WinnerOf(fit.combo)>>
Write(kind, weights) ==
    /\ files' = [files EXCEPT ![<<kind, Command.block>>] = [weights |-> weights, stamp |-> writes + 1]]
    /\ writes' = writes + 1

(* The checkpoint, then its manifest; for a sweep only those of the winner.  *)
SaveCheckpoint ==
    /\ phase = "checkpoint"
    /\ \/ Fails
       \/ /\ Write("checkpoint", Weights) /\ phase' = "manifest"
          /\ UNCHANGED <<pc, fit, sweeping, models, cache, predicted>>
    /\ UNCHANGED <<program, backend>>
SaveManifest ==
    /\ phase = "manifest"
    /\ \/ Fails
       \/ /\ Write("manifest", Weights)
          /\ phase' = IF Config.sweep THEN "report" ELSE IF backend = "onnx" THEN "export" ELSE "keep"
          /\ UNCHANGED <<pc, fit, sweeping, models, cache, predicted>>
    /\ UNCHANGED <<program, backend>>
ReportSweep ==
    /\ phase = "report"
    /\ LET metric == SweepMetric(Command)
           rows   == Sorted(Retained(Config, metric), LAMBDA i, j : Before(grid[i], grid[j], Keys(Config), metric))
       IN  report' = [rows |-> rows, selected |-> IndexFirstSubSeq(<<best>>, rows), total |-> Len(grid)]
    /\ phase' = "keep"
    /\ UNCHANGED <<program, backend, pc, fit, grid, best, store>>
ExportTrained ==
    /\ phase = "export"
    /\ \/ Fails
       \/ Write("export", Weights) /\ phase' = "keep" /\ UNCHANGED <<pc, fit, sweeping, models, cache, predicted>>
    /\ UNCHANGED <<program, backend>>

(* A model trained on a device is transferred to the CPU in memory, after its*)
(* files are written; each combination of a sweep is, before it is compared. *)
MaterializeFails ==
    /\ backend = "gpu" /\ phase \in {"compare", "keep"}
    /\ Config.sweep <=> phase = "compare"
    /\ Fails /\ UNCHANGED <<program, backend>>

(* The model of an assignment is kept under its variable.                    *)
Keep ==
    /\ phase = "keep" /\ Proceed
    /\ models' = IF Command.var = Null THEN models
                 ELSE [v \in DOMAIN models \cup {Command.var} |->
                         IF v = Command.var THEN [block |-> Command.block, weights |-> Weights] ELSE models[v]]
    /\ UNCHANGED <<program, backend, fit, sweeping, files, writes, cache, predicted>>

-----------------------------------------------------------------------------
(* Inference.  The CPU provider uses the model in memory; the others a module*)
(* loaded from the block's file and cached under the file's identity.        *)
PathKey(kind, block) == <<kind, block, 0>>  \* mutant: the path alone
ArtifactKey(kind, block) == <<kind, block, files[kind, block].stamp>>
Cached(key) == \E i \in DOMAIN cache : cache[i].key = key
Touch(key, weights) ==
    LET at  == CHOOSE i \in DOMAIN cache : cache[i].key = key
        all == <<[key |-> key, weights |-> weights]>> \o cache
    IN  /\ cache' = IF Cached(key) THEN <<cache[at]>> \o RemoveAt(cache, at)
                    ELSE SubSeq(all, 1, Min({Len(all), CacheSlots}))
        /\ predicted' = [var |-> Command.var, weights |-> cache'[1].weights]

Fresh(block) ==
    /\ files["export", block] # NoFile
    /\ files["export", block].stamp >= files["checkpoint", block].stamp

Predicts == AtCommand("predict") /\ Command.var \in DOMAIN models
PredictUnknown ==
    /\ AtCommand("predict") /\ Command.var \notin DOMAIN models
    /\ Fails /\ UNCHANGED <<program, backend>>

PredictInMemory ==
    /\ Predicts /\ backend = "cpu" /\ Proceed
    /\ predicted' = [var |-> Command.var, weights |-> models[Command.var].weights]
    /\ UNCHANGED <<program, backend, fit, sweeping, models, files, writes, cache>>

LoadInferenceModel(block) == files["checkpoint", block].weights
PredictOnDevice ==
    /\ Predicts /\ backend = "gpu"
    /\ LET block == models[Command.var].block
           key   == ArtifactKey("checkpoint", block)
       IN  \/ ~Cached(key) /\ Fails
           \/ /\ Touch(key, LoadInferenceModel(block)) /\ Proceed
              /\ UNCHANGED <<fit, sweeping, models, files, writes>>
    /\ UNCHANGED <<program, backend>>

(* ensure_export, then the session of the exported graph.                    *)
ExportStale ==
    /\ Predicts /\ backend = "onnx"
    /\ LET m == models[Command.var] IN
       /\ ~Fresh(m.block)
       /\ \/ Fails
          \/ /\ files' = [files EXCEPT ![<<"export", m.block>>] = [weights |-> m.weights, stamp |-> writes + 1]]
             /\ writes' = writes + 1
             /\ UNCHANGED <<pc, phase, fit, sweeping, models, cache, predicted>>
    /\ UNCHANGED <<program, backend>>
PredictOnnx ==
    /\ Predicts /\ backend = "onnx"
    /\ LET block == models[Command.var].block
           key   == ArtifactKey("export", block)
       IN  /\ Fresh(block)
           /\ \/ ~Cached(key) /\ Fails
              \/ /\ Touch(key, files["export", block].weights) /\ Proceed
                 /\ UNCHANGED <<fit, sweeping, models, files, writes>>
    /\ UNCHANGED <<program, backend>>

EndProgram ==
    /\ phase = "next" /\ pc > Len(program) /\ phase' = "done"
    /\ UNCHANGED <<program, backend, pc, fit, sweeping, store>>

Next ==
    \/ StartTrain \/ Epoch \/ Evaluate \/ Compare
    \/ SaveCheckpoint \/ SaveManifest \/ ReportSweep \/ ExportTrained \/ MaterializeFails \/ Keep
    \/ PredictUnknown \/ PredictInMemory \/ PredictOnDevice \/ ExportStale \/ PredictOnnx
    \/ EndProgram
Spec == Init /\ [][Next]_vars

-----------------------------------------------------------------------------
(* The two parts are a partition of the rows of the requested size; no class *)
(* is lost to training, and each that can spare a row is validated if there  *)
(* is room; with a time column all of training precedes all of validation.   *)
RowsOf(part, label) == {i \in ToSet(part) : Command.table.targets[i] = label}
SplitSound ==
    phase = "epoch" =>
        LET p        == fit.split
            rows     == DOMAIN Command.table.targets
            all      == p.train \o p.val
            classes  == ToSet(Command.table.targets)
            eligible == {c \in classes : Cardinality(RowsOf(all, c)) > 1}
        IN  /\ IsInjective(all) /\ ToSet(all) = rows
            /\ Len(p.val) = ValidationRows(Len(all), Config.tenths)
            /\ Config.strategy = "stratified" /\ Validates =>
                 /\ \A c \in classes : RowsOf(p.train, c) # {}
                 /\ Len(p.val) >= Cardinality(eligible) => \A c \in eligible : RowsOf(p.val, c) # {}
            /\ Config.byTime /\ Validates =>
                 \A i \in ToSet(p.train), j \in ToSet(p.val) : Command.table.time[i] < Command.table.time[j]

(* Training stops at the first epoch that is `patience' epochs past the best *)
(* one so far, never without validation rows, and reports that best epoch,   *)
(* the first of those with the least loss.  A generated program leaves the   *)
(* loop after the same epoch if it has the same losses (train_impl in dl.rs, *)
(* emit_dl_sweep_call in emitter.rs).                                        *)
FirstBest(h) == IF h = <<>> \/ Null \in ToSet(h) THEN 0
                ELSE CHOOSE e \in DOMAIN h : \A d \in DOMAIN h : h[e] < h[d] \/ (h[e] = h[d] /\ e =< d)
Exhausted(h) == Config.patience > 0 /\ h # <<>> /\ Null \notin ToSet(h) /\ Len(h) - FirstBest(h) >= Config.patience
EarlyStopSound ==
    phase = "epoch" =>
        /\ fit.bestEpoch = FirstBest(fit.history)
        /\ fit.stopped = Exhausted(fit.history)
        /\ \A e \in 0..(Len(fit.history) - 1) : ~Exhausted(SubSeq(fit.history, 1, e))
        /\ Validates =>
             EmittedStop(fit.history, Config.patience) = IF fit.stopped THEN Len(fit.history) ELSE 0

(* The reported AUC is the share of the pairs of a positive and a negative   *)
(* row that the model ranks right, ties counting half; accuracy is the share *)
(* of the rows whose largest logit is their class; R2 is 1 exactly for a     *)
(* model without error on targets that vary, and never above.  A generated   *)
(* program computes the same mean absolute error and R2.                     *)
PairShare(rows, positive) ==
    LET targets == Command.table.targets
        Gap(i)  == fit.outputs[i][2] - fit.outputs[i][1]
        pos     == {i \in ToSet(rows) : targets[i] = positive}
        pairs   == pos \X (ToSet(rows) \ pos)
        right   == {pq \in pairs : Gap(pq[1]) > Gap(pq[2])}
        ties    == {pq \in pairs : Gap(pq[1]) = Gap(pq[2])}
    IN  IF pairs = {} THEN <<>> ELSE Ratio(2 * Cardinality(right) + Cardinality(ties), 2 * Cardinality(pairs))
Chosen(i) == LET row == fit.outputs[i] IN Labels(Command)[Min({c \in DOMAIN row : row[c] = Max(ToSet(row))})]
MeasuresAre(measures, rows) ==
    IF Labels(Command) = <<>>
    THEN /\ ~Above(measures.r2, Ratio(1, 1))
         /\ LET emitted == EmittedMetrics([i \in DOMAIN rows |-> fit.outputs[rows[i]]],
                                          [i \in DOMAIN rows |-> Target(Command, fit.split.train, rows[i])])
            IN  Same(emitted.mae, measures.mae) /\ Same(emitted.r2, measures.r2)
         /\ measures.mse[1] > 0 => ~Same(measures.r2, Ratio(1, 1))
    ELSE /\ Same(measures.accuracy, Ratio(Cardinality({i \in ToSet(rows) : Chosen(i) = Command.table.targets[i]}), Len(rows)))
         /\ Len(Labels(Command)) = 2 =>
              LET share == PairShare(rows, Labels(Command)[2])
              IN  IF share = <<>> THEN measures.auc = <<>> ELSE Same(measures.auc, share)
MetricsAreDefinitions ==
    phase \in {"compare", "checkpoint"} =>
        /\ MeasuresAre(fit.report.train, fit.split.train)
        /\ Validates => MeasuresAre(fit.report.val, fit.split.val)

(* After a sweep exactly one reported row is selected: the first of the      *)
(* combinations with the least score of all, reported or not.  The `top' rows*)
(* are no worse than those left out and in the order asked for, and the      *)
(* checkpoint and the manifest on disk are the winner's.  A generated program*)
(* with the same scores reports the same rows in the same order.             *)
SweepReportsWinner ==
    phase = "keep" /\ Config.sweep =>
        LET metric == SweepMetric(Command)
            all    == DOMAIN grid
            rows   == report.rows
        IN  /\ report.total = Len(Combos(Config)) /\ Len(grid) = report.total
            /\ IsInjective(rows) /\ Len(rows) = (IF Config.top = Null THEN report.total ELSE Min({report.total, Max({Config.top, 1})}))
            /\ report.selected \in DOMAIN rows
            /\ \A i \in all : \/ Lower(grid[rows[report.selected]], grid[i], metric)
                               \/ (~Lower(grid[i], grid[rows[report.selected]], metric) /\ rows[report.selected] =< i)
            /\ \A i \in ToSet(rows), j \in all \ ToSet(rows) : ~Lower(grid[j], grid[i], metric)
            /\ \A i \in 1..(Len(rows) - 1) : ~Precedes(grid[rows[i + 1]], grid[rows[i]], Config.sort, metric)
            /\ \A kind \in {"checkpoint", "manifest"} : files[kind, Command.block].weights = <<pc, rows[report.selected]>>
            /\ Labels(Command) = <<>> =>
                 LET scored == [i \in all |-> [combo |-> grid[i].combo, score |-> Score(grid[i], metric)]]
                 IN  EmittedReport(scored, Config) = [order |-> rows, winner |-> rows[report.selected]]

(* The network that is trained, the graph exported from it and the module    *)
(* that a generated program trains are the same function of a row, with the  *)
(* declared width.  The generated module differs where dropout follows       *)
(* another activation: the engine forgets that one, the emitter does not.    *)
Rows(width) == [1..width -> {-1, 0, 1, 2, 3}]
DropoutOverwrites(layers) ==
    \E i, j \in DOMAIN layers : i < j /\ layers[j].l = "Dropout" /\ layers[i].l \in {"ReLU", "Sigmoid", "Tanh", "Softmax"}
                               /\ \A h \in i..j : layers[h].l \notin Structural
NetworksAgree(layers, width) ==
    \A row \in Rows(width) :
        /\ Len(Forward(layers, row)) = OutDim(layers, width)
        /\ RunGraph(BuildModel(layers, width), row) = Forward(layers, row)
        /\ ~DropoutOverwrites(layers) => EmittedForward(layers, row) = Forward(layers, row)

(* A prediction on the training table, whatever the order of its columns and *)
(* the chunks it is made in, gives the network the inputs of the training;   *)
(* nothing of the validation rows is in the statistics; exactly the indices  *)
(* that the lookup clamps are counted.  A generated program is given the same*)
(* when there are no validation rows, and predicts as it was trained always. *)
Column(t, rows) == [t |-> t, rows |-> rows]
Frames(n) == {[names |-> <<"f", "s", "y", "g">>,
               cells |-> [f |-> Column("int", r), s |-> Column("str", r), y |-> Column("float", r), g |-> Column("float", q)]] :
                r \in [1..n -> {Null, 0, 3}], q \in [1..n -> {Null, 3}]}
Blanked(frame, rows) ==
    [frame EXCEPT !.cells = [c \in DOMAIN @ |-> [@[c] EXCEPT !.rows = [i \in DOMAIN @ |-> IF i \in rows THEN Null ELSE @[i]]]]]
InputsAgree(layers, n, split) ==
    \A frame \in Frames(n), raw \in BOOLEAN :
        LET trained == TrainInput(frame, "y", split.train, raw)
            emitted == EmittedInput(frame, "y", raw)
            shuffled == [frame EXCEPT !.names = Reverse(@)]
            vocabs  == LeadingVocabs(layers, 2)
            clamped == {ij \in (1..n) \X (DOMAIN vocabs) : LET v == trained.xs[ij[1]][ij[2]] IN Clamp(v, vocabs[ij[2]] - 1) # v}
        IN  /\ PrepareInferenceInput(trained, shuffled) = trained.xs
            /\ \A chunk \in 0..n : ForwardPredictions(LAMBDA x : x, trained.xs, chunk) = trained.xs
            /\ TrainInput(Blanked(frame, ToSet(split.val)), "y", split.train, raw).stats = trained.stats
            /\ raw => CheckEmbeddingIndices(layers, 2, trained.xs) = Cardinality(clamped)
            /\ EmittedPredictInput(emitted, shuffled) = emitted.xs
            /\ split.val = <<>> => emitted.xs = trained.xs

(* What is computed for a row in a prediction is what was computed for it in *)
(* training: the networks and what they are given agree (dl.rs build_mlp and *)
(* prepare_inference_input, onnx_export.rs, emitter.rs).                     *)
ServedAsTrained ==
    phase = "epoch" /\ fit.combo = 1 /\ fit.history = <<>> =>
        /\ NetworksAgree(Command.layers, Command.table.width)
        /\ Len(Command.table.targets) =< 3 => InputsAgree(Command.layers, Len(Command.table.targets), fit.split)

(* A prediction uses the weights of the variable it names, unless it reads   *)
(* them from a file that another variable of the block has written since: on *)
(* a device those of the block's last training; with ONNX also those of an   *)
(* earlier one, as a sweep leaves the export to the next prediction of any   *)
(* variable of the block, and from then on it is newer than the checkpoint   *)
(* (train_unpersisted and ensure_export of backend.rs and onnx_export.rs).   *)
Fits(block) == {i \in 1..(pc - 1) : program[i].k = "train" /\ program[i].block = block}
LastFit(block) == Max(Fits(block))
PredictionsUseOwnModel ==
    [][ Predicts /\ pc' = pc + 1 =>
          LET own   == models[Command.var].weights
              block == models[Command.var].block
              used  == predicted'.weights
          IN  \/ used = own
              \/ backend # "cpu" /\ own[1] # LastFit(block) /\ used[1] = LastFit(block)
              \/ /\ backend = "onnx" /\ program[LastFit(block)].config.sweep
                 /\ used[1] \in Fits(block) \ {LastFit(block)}
      ]_vars
=============================================================================
