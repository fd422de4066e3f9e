--------------------------- MODULE TrainingProofs ---------------------------
(* Theorems about Training: early stopping stops where it should, a split is *)
(* a sound partition of the rows, and a prediction uses the model it names   *)
(* or, on a device, one that its block was trained to.  They hold for every  *)
(* program, every table, every loss sequence and any number of cache slots.  *)
EXTENDS Training, SequenceTheorems, FiniteSetTheorems, WellFoundedInduction, TLAPS

-----------------------------------------------------------------------------
(* The inductive invariant.                                                  *)

TrainedBlocks == {program[i].block : i \in {j \in DOMAIN program : program[j].k = "train"}}

\* The parts of the state that the other invariants speak of.
TypeInv ==
    /\ program \in Programs
    /\ pc \in Nat \ {0}
    /\ DOMAIN fit = DOMAIN NoFit
    /\ DOMAIN files = {"checkpoint", "manifest", "export"} \X TrainedBlocks
    /\ writes \in Nat
    /\ cache \in Seq(ToSet(cache))
    /\ phase \in {"next", "epoch", "compare", "checkpoint", "manifest", "report", "export", "keep", "done", "failed"}
    /\ phase \notin {"next", "done", "failed"} => pc \in DOMAIN program /\ Command.k = "train"

\* The losses seen so far, and what the counters of the loop say of them.
LeastAt(h, e) == e \in DOMAIN h /\ \A d \in DOMAIN h : h[e] < h[d] \/ (h[e] = h[d] /\ e =< d)
EpochInv ==
    phase = "epoch" =>
        /\ Validates =>
             /\ fit.history \in Seq(Losses)
             /\ fit.history = <<>> => fit.bestEpoch = 0 /\ fit.bestLoss = Null
             /\ fit.history # <<>> => LeastAt(fit.history, fit.bestEpoch) /\ fit.bestLoss = fit.history[fit.bestEpoch]
             /\ fit.stale = Len(fit.history) - fit.bestEpoch
             /\ fit.stopped = (Config.patience > 0 /\ fit.history # <<>> /\ fit.stale >= Config.patience)
        /\ ~Validates => fit.history \in Seq({Null}) /\ fit.bestEpoch = 0 /\ fit.stopped = FALSE
        /\ \A e \in 0..(Len(fit.history) - 1) : ~Exhausted(SubSeq(fit.history, 1, e))

\* The fit is of a split of the rows that the strategy makes.
SplitInv ==
    phase \in {"epoch", "compare"} =>
        fit.split.ok /\ fit.split \in TableSplits(Command.table, Config.tenths, Config.strategy, Config.byTime)

\* Weights are named by the command that fitted them, alike wherever they are.
Written(f) == f \in DOMAIN files /\ files[f].stamp > 0
InFlight == phase \in {"manifest", "report", "export", "keep"}
FitNow(block) == InFlight /\ Command.block = block
Held == {models[v].weights : v \in DOMAIN models} \cup {files[f].weights : f \in {g \in DOMAIN files : Written(g)}}
HeldInv ==
    /\ \A w \in Held : w[1] \in Nat /\ (w[1] < pc \/ (InFlight /\ w = Weights))
    /\ \A w, x \in Held : w[1] = x[1] => w = x

ModelInv ==
    \A v \in DOMAIN models : \E b \in TrainedBlocks : models[v].block = b /\ models[v].weights[1] \in Fits(b)

\* The checkpoint is that of the last fit.
CheckpointInv ==
    \A b \in TrainedBlocks :
        /\ FitNow(b) => Written(<<"checkpoint", b>>) /\ files["checkpoint", b].weights = Weights
        /\ ~FitNow(b) /\ Fits(b) # {} =>
             Written(<<"checkpoint", b>>) /\ files["checkpoint", b].weights[1] = LastFit(b)

\* The export is of some fit of the block, and after a training without a
\* sweep it is of that one and newer than the checkpoint.
ExportInv ==
    /\ phase = "export" => backend = "onnx" /\ ~Config.sweep
    /\ phase = "report" => Config.sweep
    /\ \A b \in TrainedBlocks :
        /\ Written(<<"export", b>>) =>
             \/ files["export", b].weights[1] \in Fits(b)
             \/ phase = "keep" /\ FitNow(b) /\ files["export", b].weights = Weights
        /\ backend = "onnx" /\ phase = "keep" /\ FitNow(b) /\ ~Config.sweep =>
             /\ files["export", b].stamp > files["checkpoint", b].stamp
             /\ files["export", b].weights = Weights
        /\ backend = "onnx" /\ ~FitNow(b) /\ Fits(b) # {} /\ ~program[LastFit(b)].config.sweep =>
             /\ files["export", b].stamp > files["checkpoint", b].stamp
             /\ files["export", b].weights[1] = LastFit(b)

\* Time stamps are of the past, and a cached module is that of its file if
\* the file has the same stamp still.
StampInv ==
    /\ \A f \in DOMAIN files : files[f].stamp \in 0..writes /\ (files[f].stamp = 0 => files[f] = NoFile)
    /\ \A i \in DOMAIN cache :
        /\ cache[i].key[3] \in 0..writes
        /\ \A f \in DOMAIN files : cache[i].key = <<f[1], f[2], files[f].stamp>> => cache[i].weights = files[f].weights

StoreInv == phase # "failed" => HeldInv /\ ModelInv /\ CheckpointInv /\ ExportInv /\ StampInv
Inv == TypeInv /\ EpochInv /\ SplitInv /\ StoreInv

-----------------------------------------------------------------------------
(* Early stopping.                                                           *)

\* The first least loss is the one at the only such place.
LEMMA FirstBestIs ==
  ASSUME NEW h \in Seq(Losses), h # <<>>, NEW e, LeastAt(h, e)
  PROVE  Null \notin ToSet(h) /\ FirstBest(h) = e /\ e \in 1..Len(h)
<1>1. DOMAIN h = 1..Len(h) /\ Len(h) \in Nat /\ \A i \in DOMAIN h : h[i] \in Int
  BY TrainingAssumption, LenProperties DEF TrainingAssumption
<1>2. Null \notin ToSet(h)
  BY <1>1, TrainingAssumption DEF TrainingAssumption, ToSet
<1>3. \A f \in DOMAIN h : LeastAt(h, f) => f = e
  BY <1>1 DEF LeastAt
<1>4. FirstBest(h) = CHOOSE f \in DOMAIN h : \A d \in DOMAIN h : h[f] < h[d] \/ (h[f] = h[d] /\ f =< d)
  BY <1>2 DEF FirstBest
<1>5. e \in 1..Len(h)
  BY <1>1 DEF LeastAt
<1>6. QED
  BY <1>2, <1>3, <1>4, <1>5 DEF LeastAt

\* What the counters of the loop say is what the property asks for.
LEMMA CountersAreSound ==
  ASSUME TypeInv, EpochInv, phase = "epoch"
  PROVE  /\ fit.bestEpoch = FirstBest(fit.history)
         /\ fit.stopped = Exhausted(fit.history)
         /\ \A e \in 0..(Len(fit.history) - 1) : ~Exhausted(SubSeq(fit.history, 1, e))
<1>1. \A e \in 0..(Len(fit.history) - 1) : ~Exhausted(SubSeq(fit.history, 1, e))
  BY DEF EpochInv
<1>2. CASE fit.history = <<>>
  <2>1. fit.bestEpoch = 0 /\ FirstBest(fit.history) = 0
    BY <1>2 DEF EpochInv, FirstBest
  <2>2. fit.stopped = FALSE /\ Exhausted(fit.history) = FALSE
    BY <1>2 DEF EpochInv, Exhausted
  <2>3. QED
    BY <2>1, <2>2, <1>1
<1>3. CASE fit.history # <<>> /\ Validates
  <2>1. fit.history \in Seq(Losses) /\ LeastAt(fit.history, fit.bestEpoch)
    BY <1>3 DEF EpochInv
  <2>2. Null \notin ToSet(fit.history) /\ FirstBest(fit.history) = fit.bestEpoch
    BY <1>3, <2>1, FirstBestIs
  <2>3. fit.stopped = Exhausted(fit.history)
    BY <1>3, <2>2 DEF EpochInv, Exhausted
  <2>4. QED
    BY <2>2, <2>3, <1>1
<1>4. CASE fit.history # <<>> /\ ~Validates
  <2>1. fit.history \in Seq({Null}) /\ fit.bestEpoch = 0 /\ fit.stopped = FALSE
    BY <1>4 DEF EpochInv
  <2>2. 1 \in DOMAIN fit.history /\ fit.history[1] = Null
    BY <1>4, <2>1
  <2>3. Null \in ToSet(fit.history)
    BY <2>2 DEF ToSet
  <2>4. FirstBest(fit.history) = 0 /\ Exhausted(fit.history) = FALSE
    BY <2>3 DEF FirstBest, Exhausted
  <2>5. QED
    BY <2>1, <2>4, <1>1
<1>5. QED
  BY <1>2, <1>3, <1>4

\* A loop that has not begun.
LEMMA FreshFit ==
  ASSUME NEW combo, NEW split, fit' = Fit(combo, split)
  PROVE  EpochInv'
<1>1. /\ fit'.history = <<>> /\ fit'.bestLoss = Null /\ fit'.bestEpoch = 0
      /\ fit'.stale = 0 /\ fit'.stopped = FALSE
  BY DEF Fit
<1>2. Len(fit'.history) = 0 /\ <<>> \in Seq(Losses) /\ <<>> \in Seq({Null})
  BY <1>1
<1>3. \A e \in 0..(Len(fit'.history) - 1) : FALSE
  BY <1>2
<1>4. (~Validates => fit.history \in Seq({Null}) /\ fit.bestEpoch = 0 /\ fit.stopped = FALSE)'
  BY <1>1, <1>2
<1>5. fit'.stale = Len(fit'.history) - fit'.bestEpoch
  BY <1>1, <1>2
<1>6. (fit.stopped = (Config.patience > 0 /\ fit.history # <<>> /\ fit.stale >= Config.patience))'
  BY <1>1
<1>7. QED
  BY <1>1, <1>2, <1>3, <1>4, <1>5, <1>6 DEF EpochInv

\* A loss after the others, and the prefixes that this adds.
LEMMA OneMoreLoss ==
  ASSUME NEW S, NEW h \in Seq(S), NEW loss \in S
  PROVE  /\ Append(h, loss) \in Seq(S) /\ Append(h, loss) # <<>>
         /\ Len(Append(h, loss)) = Len(h) + 1 /\ Len(h) \in Nat
         /\ DOMAIN h = 1..Len(h) /\ DOMAIN Append(h, loss) = 1..(Len(h) + 1)
         /\ \A d \in DOMAIN h : Append(h, loss)[d] = h[d]
         /\ Append(h, loss)[Len(h) + 1] = loss
         /\ \A e \in 0..Len(h) : SubSeq(Append(h, loss), 1, e) = IF e = Len(h) THEN h ELSE SubSeq(h, 1, e)
<1>1. /\ Append(h, loss) \in Seq(S) /\ Append(h, loss) # <<>>
      /\ Len(Append(h, loss)) = Len(h) + 1 /\ Len(h) \in Nat
      /\ DOMAIN h = 1..Len(h)
      /\ Append(h, loss)[Len(h) + 1] = loss
      /\ \A d \in 1..Len(h) : Append(h, loss)[d] = h[d]
  BY AppendProperties, LenProperties
<1>2. DOMAIN Append(h, loss) = 1..(Len(h) + 1)
  BY <1>1, LenProperties
<1>3. ASSUME NEW e \in 0..Len(h)
      PROVE  SubSeq(Append(h, loss), 1, e) = IF e = Len(h) THEN h ELSE SubSeq(h, 1, e)
  <2>1. /\ SubSeq(Append(h, loss), 1, e) \in Seq(S) /\ Len(SubSeq(Append(h, loss), 1, e)) = e
        /\ \A i \in 1..e : SubSeq(Append(h, loss), 1, e)[i] = h[i]
    BY <1>1, <1>3, SubSeqProperties
  <2>2. /\ SubSeq(h, 1, e) \in Seq(S) /\ Len(SubSeq(h, 1, e)) = e
        /\ \A i \in 1..e : SubSeq(h, 1, e)[i] = h[i]
    BY <1>1, <1>3, SubSeqProperties
  <2>3. SubSeq(Append(h, loss), 1, e) = SubSeq(h, 1, e)
    BY <2>1, <2>2, SeqEqual
  <2>4. e = Len(h) => SubSeq(Append(h, loss), 1, e) = h
    BY <1>1, <2>1, SeqEqual
  <2>5. QED
    BY <2>3, <2>4
<1>4. QED
  BY <1>1, <1>2, <1>3

\* A further loss leaves the first least one where it is or is it.
LEMMA LeastAppended ==
  ASSUME NEW l \in Nat, NEW h, DOMAIN h = 1..l, \A d \in 1..l : h[d] \in Int,
         NEW g, DOMAIN g = 1..(l + 1), \A d \in 1..l : g[d] = h[d], g[l + 1] \in Int
  PROVE  /\ l = 0 => LeastAt(g, 1)
         /\ \A e : LeastAt(h, e) => IF g[l + 1] < h[e] THEN LeastAt(g, l + 1) ELSE LeastAt(g, e)
<1>1. \A d \in 1..(l + 1) : d \in 1..l \/ d = l + 1
  OBVIOUS
<1>2. l = 0 => LeastAt(g, 1)
  BY DEF LeastAt
<1>3. ASSUME NEW e, LeastAt(h, e), g[l + 1] < h[e]
      PROVE  LeastAt(g, l + 1)
  <2>1. e \in 1..l /\ \A d \in 1..l : h[e] < h[d] \/ (h[e] = h[d] /\ e =< d)
    BY <1>3 DEF LeastAt
  <2>2. \A d \in 1..l : g[l + 1] < g[d]
    BY <1>3, <2>1
  <2>3. QED
    BY <1>1, <2>2 DEF LeastAt
<1>4. ASSUME NEW e, LeastAt(h, e), ~ (g[l + 1] < h[e])
      PROVE  LeastAt(g, e)
  <2>1. e \in 1..l /\ \A d \in 1..l : h[e] < h[d] \/ (h[e] = h[d] /\ e =< d)
    BY <1>4 DEF LeastAt
  <2>2. g[e] < g[l + 1] \/ (g[e] = g[l + 1] /\ e =< l + 1)
    BY <1>4, <2>1
  <2>3. QED
    BY <1>1, <2>1, <2>2 DEF LeastAt
<1>5. QED
  BY <1>2, <1>3, <1>4

\* One more epoch.
LEMMA EpochKeeps ==
  ASSUME TypeInv, EpochInv, Epoch
  PROVE  EpochInv'
<1>1. CASE phase' = "failed"
  BY <1>1 DEF EpochInv
<1>2. CASE phase' # "failed"
  <2>0. /\ phase = "epoch" /\ ~fit.stopped /\ UNCHANGED <<program, pc>>
        /\ DOMAIN fit = {"combo", "split", "history", "bestLoss", "bestEpoch", "stale", "stopped", "outputs", "report"}
    BY <1>2 DEF Epoch, Fails, TypeInv, NoFit, Fit
  <2>1. PICK loss \in (IF Validates THEN Losses ELSE {Null}) :
          LET better == Validates /\ Improves(loss, fit.bestLoss)
              stale  == IF better \/ ~Validates THEN 0 ELSE fit.stale + 1
          IN  fit' = [fit EXCEPT
                 !.history = Append(@, loss), !.stale = stale,
                 !.bestLoss = IF better THEN loss ELSE @,
                 !.bestEpoch = IF better THEN Len(fit.history) + 1 ELSE @,
                 !.stopped = Config.patience > 0 /\ Validates /\ stale >= Config.patience]
    BY <1>2 DEF Epoch, Fails
  <2> DEFINE better == Validates /\ Improves(loss, fit.bestLoss)
  <2> DEFINE stale == IF better \/ ~Validates THEN 0 ELSE fit.stale + 1
  <2>2. /\ fit'.history = Append(fit.history, loss) /\ fit'.stale = stale
        /\ fit'.bestLoss = (IF better THEN loss ELSE fit.bestLoss)
        /\ fit'.bestEpoch = (IF better THEN Len(fit.history) + 1 ELSE fit.bestEpoch)
        /\ fit'.split = fit.split
    BY <2>0, <2>1
  <2>3. fit'.stopped = (Config.patience > 0 /\ Validates /\ stale >= Config.patience)
    BY <2>0, <2>1
  <2>4. /\ Config' = Config /\ (Validates' <=> Validates)
        /\ \A h : Exhausted(h)' <=> Exhausted(h)
    BY <2>0, <2>2 DEF Config, Command, Validates, Exhausted, FirstBest
  <2>5. fit.stopped = Exhausted(fit.history)
    BY <2>0, CountersAreSound
  <2>6. ~Exhausted(fit.history)
    BY <2>0, <2>5
  <2>7. \A e \in 0..(Len(fit.history) - 1) : ~Exhausted(SubSeq(fit.history, 1, e))
    BY <2>0 DEF EpochInv
  <2>8. CASE Validates
    <3>1. /\ fit.history \in Seq(Losses) /\ loss \in Losses
          /\ fit.history = <<>> => fit.bestEpoch = 0 /\ fit.bestLoss = Null
          /\ fit.history # <<>> => LeastAt(fit.history, fit.bestEpoch) /\ fit.bestLoss = fit.history[fit.bestEpoch]
          /\ fit.stale = Len(fit.history) - fit.bestEpoch
      BY <2>0, <2>8 DEF EpochInv
    <3>2. /\ \A d \in DOMAIN fit.history : fit.history[d] \in Int
          /\ loss \in Int /\ Null \notin Int
      <4>1. Losses \subseteq Int /\ Null \notin Int
        BY TrainingAssumption DEF TrainingAssumption
      <4>2. \A d \in DOMAIN fit.history : fit.history[d] \in Losses
        BY <3>1, LenProperties
      <4>3. QED
        BY <3>1, <4>1, <4>2
    <3>3. /\ fit'.history \in Seq(Losses) /\ fit'.history # <<>>
          /\ Len(fit'.history) = Len(fit.history) + 1 /\ Len(fit.history) \in Nat
          /\ DOMAIN fit.history = 1..Len(fit.history) /\ DOMAIN fit'.history = 1..(Len(fit.history) + 1)
          /\ \A d \in DOMAIN fit.history : fit'.history[d] = fit.history[d]
          /\ fit'.history[Len(fit.history) + 1] = loss
          /\ \A e \in 0..Len(fit.history) :
               SubSeq(fit'.history, 1, e) = IF e = Len(fit.history) THEN fit.history ELSE SubSeq(fit.history, 1, e)
      BY <2>2, <3>1, OneMoreLoss
    <3>4. fit.history # <<>> => fit.bestEpoch \in 1..Len(fit.history)
      BY <3>1, <3>3 DEF LeastAt
    <3>5. LeastAt(fit'.history, fit'.bestEpoch) /\ fit'.bestLoss = fit'.history[fit'.bestEpoch]
      <4> DEFINE h == fit.history
                 l == Len(fit.history)
                 g == fit'.history
                 b == fit.bestEpoch
      <4>1. /\ l = 0 => LeastAt(g, 1)
            /\ \A e : LeastAt(h, e) => IF g[l + 1] < h[e] THEN LeastAt(g, l + 1) ELSE LeastAt(g, e)
        BY <3>2, <3>3, LeastAppended
      <4>2. CASE h = <<>>
        <5>1. better /\ l = 0
          BY <2>8, <3>1, <4>2 DEF Improves
        <5>2. fit'.bestEpoch = l + 1 /\ fit'.bestLoss = loss /\ l + 1 = 1
          BY <2>2, <5>1
        <5>3. QED
          BY <3>3, <4>1, <5>1, <5>2
      <4>3. CASE h # <<>>
        <5>1. LeastAt(h, b) /\ b \in 1..l /\ fit.bestLoss = h[b] /\ h[b] \in Int
          BY <3>1, <3>2, <3>3, <3>4, <4>3
        <5>2. fit.bestLoss # Null
          BY <3>2, <5>1
        <5>3. better <=> loss < h[b]
          BY <2>8, <5>1, <5>2 DEF Improves
        <5>4. g[l + 1] = loss /\ g[b] = h[b]
          BY <3>3, <5>1
        <5>5. CASE loss < h[b]
          <6>1. fit'.bestEpoch = l + 1 /\ fit'.bestLoss = loss
            BY <2>2, <5>3, <5>5
          <6>2. LeastAt(g, l + 1)
            BY <4>1, <5>1, <5>4, <5>5
          <6>3. QED
            BY <5>4, <6>1, <6>2
        <5>6. CASE ~ (loss < h[b])
          <6>1. fit'.bestEpoch = b /\ fit'.bestLoss = h[b]
            BY <2>2, <5>1, <5>3, <5>6
          <6>2. LeastAt(g, b)
            BY <4>1, <5>1, <5>4, <5>6
          <6>3. QED
            BY <5>4, <6>1, <6>2
        <5>7. QED
          BY <5>5, <5>6
      <4>4. QED
        BY <4>2, <4>3
    <3>6. fit'.stale = Len(fit'.history) - fit'.bestEpoch
      <4>1. fit.bestEpoch \in Nat
        BY <3>1, <3>3, <3>4
      <4>2. QED
        BY <2>2, <2>8, <3>1, <3>3, <4>1
    <3>7. fit'.stopped = (Config.patience > 0 /\ fit'.history # <<>> /\ fit'.stale >= Config.patience)
      <4>1. fit'.stale = stale /\ fit'.history # <<>>
        BY <2>2, <3>3
      <4> HIDE DEF stale
      <4>2. QED
        BY <2>3, <2>8, <4>1
    <3>8. ASSUME NEW e \in 0..(Len(fit'.history) - 1)
          PROVE  ~Exhausted(SubSeq(fit'.history, 1, e))
      <4>1. e \in 0..Len(fit.history)
        BY <3>3
      <4>2. CASE e = Len(fit.history)
        <5>1. SubSeq(fit'.history, 1, e) = fit.history
          BY <3>3, <4>1, <4>2
        <5>2. QED
          BY <2>6, <5>1
      <4>3. CASE e # Len(fit.history)
        <5>1. SubSeq(fit'.history, 1, e) = SubSeq(fit.history, 1, e) /\ e \in 0..(Len(fit.history) - 1)
          BY <3>3, <4>1, <4>3
        <5>2. QED
          BY <2>7, <5>1
      <4>4. QED
        BY <4>2, <4>3
    <3>9. QED
      BY <2>4, <2>8, <3>3, <3>5, <3>6, <3>7, <3>8 DEF EpochInv
  <2>9. CASE ~Validates
    <3>1. fit.history \in Seq({Null}) /\ loss = Null /\ fit.bestEpoch = 0
      BY <2>0, <2>9 DEF EpochInv
    <3>2. /\ fit'.history \in Seq({Null})
          /\ Len(fit'.history) = Len(fit.history) + 1 /\ Len(fit.history) \in Nat
          /\ \A e \in 0..Len(fit.history) :
               SubSeq(fit'.history, 1, e) = IF e = Len(fit.history) THEN fit.history ELSE SubSeq(fit.history, 1, e)
      <4>1. loss \in {Null}
        BY <3>1
      <4>2. QED
        BY <2>2, <3>1, <4>1, OneMoreLoss
    <3>3. fit'.bestEpoch = 0 /\ fit'.stopped = FALSE
      BY <2>2, <2>3, <2>9, <3>1
    <3>4. ASSUME NEW e \in 0..(Len(fit'.history) - 1)
          PROVE  ~Exhausted(SubSeq(fit'.history, 1, e))
      <4>1. e \in 0..Len(fit.history)
        BY <3>2
      <4>2. CASE e = Len(fit.history)
        <5>1. SubSeq(fit'.history, 1, e) = fit.history
          BY <3>2, <4>1, <4>2
        <5>2. QED
          BY <2>6, <5>1
      <4>3. CASE e # Len(fit.history)
        <5>1. SubSeq(fit'.history, 1, e) = SubSeq(fit.history, 1, e) /\ e \in 0..(Len(fit.history) - 1)
          BY <3>2, <4>1, <4>3
        <5>2. QED
          BY <2>7, <5>1
      <4>4. QED
        BY <4>2, <4>3
    <3>5. QED
      BY <2>4, <2>9, <3>2, <3>3, <3>4 DEF EpochInv
  <2>10. QED
    BY <2>8, <2>9
<1>3. QED
  BY <1>1, <1>2

-----------------------------------------------------------------------------
(* The cache.                                                                *)

\* A sequence is one over its own elements.
LEMMA RangeTyped ==
  ASSUME NEW S, NEW s \in Seq(S)
  PROVE  s \in Seq(ToSet(s)) /\ ToSet(s) \subseteq S
<1>1. /\ Len(s) \in Nat /\ DOMAIN s = 1..Len(s)
      /\ s = [i \in 1..Len(s) |-> s[i]]
      /\ \A i \in 1..Len(s) : s[i] \in S
  BY LenProperties
<1>2. s \in [1..Len(s) -> ToSet(s)]
  BY <1>1 DEF ToSet
<1>3. s \in Seq(ToSet(s))
  BY <1>1, <1>2, SeqDef
<1>4. ToSet(s) \subseteq S
  BY <1>1 DEF ToSet
<1>5. QED
  BY <1>3, <1>4

\* What get_or_insert_with leaves: the module asked for in front, and behind
\* it only modules that were there.
LEMMA TouchLeaves ==
  ASSUME TypeInv, NEW key, NEW weights, Touch(key, weights)
  PROVE  /\ cache' \in Seq(ToSet(cache'))
         /\ predicted'.weights = cache'[1].weights
         /\ cache'[1] = [key |-> key, weights |-> weights] \/ (cache'[1] \in ToSet(cache) /\ cache'[1].key = key)
         /\ ToSet(cache') \subseteq ToSet(cache) \cup {[key |-> key, weights |-> weights]}
<1> DEFINE new == [key |-> key, weights |-> weights]
<1> DEFINE at == CHOOSE i \in DOMAIN cache : cache[i].key = key
<1> DEFINE all == <<new>> \o cache
<1>0. /\ cache \in Seq(ToSet(cache)) /\ Len(cache) \in Nat /\ DOMAIN cache = 1..Len(cache)
      /\ predicted'.weights = cache'[1].weights
  BY LenProperties DEF TypeInv, Touch
<1>1. CASE Cached(key)
  <2>1. at \in 1..Len(cache) /\ cache[at].key = key
    BY <1>0, <1>1 DEF Cached
  <2>2. cache' = <<cache[at]>> \o RemoveAt(cache, at)
    BY <1>1 DEF Touch
  <2>3. cache[at] \in ToSet(cache)
    BY <1>0, <2>1 DEF ToSet
  <2>4. /\ SubSeq(cache, 1, at - 1) \in Seq(ToSet(cache))
        /\ SubSeq(cache, at + 1, Len(cache)) \in Seq(ToSet(cache))
    BY <1>0, <2>1
  <2>5. RemoveAt(cache, at) \in Seq(ToSet(cache))
    BY <2>4, ConcatProperties DEF RemoveAt
  <2>6. <<cache[at]>> \in Seq(ToSet(cache)) /\ Len(<<cache[at]>>) = 1 /\ <<cache[at]>>[1] = cache[at]
    BY <2>3
  <2>7. cache' \in Seq(ToSet(cache)) /\ cache'[1] = cache[at]
    <3>1. Len(RemoveAt(cache, at)) \in Nat
      BY <2>5, LenProperties
    <3>2. QED
      BY <2>2, <2>5, <2>6, <3>1, ConcatProperties
  <2>8. QED
    BY <1>0, <2>1, <2>3, <2>7, RangeTyped
<1>2. CASE ~Cached(key)
  <2>1. cache' = SubSeq(all, 1, Min({Len(all), CacheSlots}))
    BY <1>2 DEF Touch
  <2>2. cache \in Seq(ToSet(cache) \cup {new}) /\ <<new>> \in Seq(ToSet(cache) \cup {new})
        /\ Len(<<new>>) = 1 /\ <<new>>[1] = new
    BY <1>0
  <2>3. all \in Seq(ToSet(cache) \cup {new}) /\ Len(all) = 1 + Len(cache) /\ all[1] = new
    BY <1>0, <2>2, ConcatProperties
  <2>4. Min({Len(all), CacheSlots}) \in 1..Len(all)
    <3>1. CacheSlots \in Nat \ {0}
      BY TrainingAssumption DEF TrainingAssumption
    <3>2. Len(all) \in Nat \ {0}
      BY <1>0, <2>3
    <3>3. \E m \in {Len(all), CacheSlots} : \A n \in {Len(all), CacheSlots} : m =< n
      BY <3>1, <3>2
    <3>4. /\ Min({Len(all), CacheSlots}) \in {Len(all), CacheSlots}
          /\ Min({Len(all), CacheSlots}) =< Len(all)
      BY <3>3 DEF Min
    <3>5. QED
      BY <3>1, <3>2, <3>4
  <2>5. cache' \in Seq(ToSet(cache) \cup {new}) /\ cache'[1] = new
    <3> DEFINE n == Min({Len(all), CacheSlots})
    <3> HIDE DEF all, n, new
    <3>1. n \in 1..Len(all) /\ Len(all) \in Nat /\ all \in Seq(ToSet(cache) \cup {new}) /\ all[1] = new
      BY <1>0, <2>3, <2>4 DEF n
    <3>2. /\ SubSeq(all, 1, n) \in Seq(ToSet(cache) \cup {new})
          /\ \A i \in 1..n : SubSeq(all, 1, n)[i] = all[1 + i - 1]
      BY <3>1, SubSeqProperties
    <3>3. 1 \in 1..n
      BY <3>1
    <3>4. SubSeq(all, 1, n)[1] = all[1]
      BY <3>2, <3>3
    <3>5. QED
      BY <2>1, <3>1, <3>2, <3>4 DEF n
  <2>6. QED
    BY <1>0, <2>5, RangeTyped
<1>3. QED
  BY <1>1, <1>2

-----------------------------------------------------------------------------
(* Types.                                                                    *)

LEMMA InitTyped == Init => TypeInv
<1> SUFFICES ASSUME Init PROVE TypeInv
  OBVIOUS
<1>1. cache \in Seq(ToSet(cache))
  BY DEF Init
<1>2. DOMAIN fit = DOMAIN NoFit
  BY DEF Init
<1>3. DOMAIN files = {"checkpoint", "manifest", "export"} \X TrainedBlocks
  BY DEF Init, TrainedBlocks
<1>4. QED
  BY <1>1, <1>2, <1>3 DEF Init, TypeInv

\* A command that ends, or fails, or goes on to another phase.
LEMMA TypedWhileTraining ==
  ASSUME TypeInv, UNCHANGED <<program, pc>>, DOMAIN fit' = DOMAIN NoFit,
         DOMAIN files' = DOMAIN files, writes' \in Nat, cache' = cache,
         \/ phase' \in {"next", "done", "failed"}
         \/ /\ pc \in DOMAIN program /\ Command.k = "train"
            /\ phase' \in {"epoch", "compare", "checkpoint", "manifest", "report", "export", "keep"}
  PROVE  TypeInv'
<1>1. TrainedBlocks' = TrainedBlocks /\ Command' = Command /\ (cache \in Seq(ToSet(cache)))'
  BY DEF TrainedBlocks, Command, TypeInv
<1>2. QED
  BY <1>1 DEF TypeInv

LEMMA TypedAtNext ==
  ASSUME TypeInv, program' = program, pc' = pc + 1, phase' = "next", fit' = fit,
         files' = files, writes' = writes, (cache \in Seq(ToSet(cache)))'
  PROVE  TypeInv'
<1>1. TrainedBlocks' = TrainedBlocks
  BY DEF TrainedBlocks
<1>2. QED
  BY <1>1 DEF TypeInv

LEMMA FitTyped ==
  ASSUME NEW combo, NEW split
  PROVE  DOMAIN Fit(combo, split) = DOMAIN NoFit
BY DEF NoFit, Fit

LEMMA TypePreserved == TypeInv /\ [Next]_vars => TypeInv'
<1> SUFFICES ASSUME TypeInv, [Next]_vars PROVE TypeInv'
  OBVIOUS
<1>1. CASE Next
  <2>0. phase \notin {"next", "done", "failed"} => pc \in DOMAIN program /\ Command.k = "train"
    BY DEF TypeInv
  <2>00. DOMAIN fit = DOMAIN NoFit /\ writes \in Nat /\ cache \in Seq(ToSet(cache))
    BY DEF TypeInv
  <2>1. CASE StartTrain
    <3>1. PICK p : IF p.ok /\ Trainable(Command)
                   THEN phase' = "epoch" /\ fit' = Fit(1, p) /\ UNCHANGED <<pc, store>>
                   ELSE Fails
      BY <2>1 DEF StartTrain
    <3>2. pc \in DOMAIN program /\ Command.k = "train" /\ program' = program
      BY <2>1 DEF StartTrain, AtCommand
    <3>3. DOMAIN fit' = DOMAIN NoFit /\ UNCHANGED <<pc, store>> /\ phase' \in {"epoch", "failed"}
      BY <3>1, <2>00, FitTyped DEF Fails
    <3>4. QED
      BY <3>2, <3>3, <2>00, TypedWhileTraining DEF store
  <2>2. CASE Epoch
    <3>1. phase = "epoch" /\ program' = program
      BY <2>2 DEF Epoch
    <3>2. DOMAIN fit' = DOMAIN fit /\ UNCHANGED <<pc, store>> /\ phase' \in {"epoch", "failed"}
      BY <2>2 DEF Epoch, Fails
    <3>3. QED
      BY <3>1, <3>2, <2>0, <2>00, TypedWhileTraining DEF store
  <2>3. CASE Evaluate
    <3>1. phase = "epoch" /\ program' = program
      BY <2>3 DEF Evaluate
    <3>2. DOMAIN fit' = DOMAIN fit /\ UNCHANGED <<pc, store>> /\ phase' \in {"compare", "checkpoint", "failed"}
      BY <2>3 DEF Evaluate, Fails
    <3>3. QED
      BY <3>1, <3>2, <2>0, <2>00, TypedWhileTraining DEF store
  <2>4. CASE Compare
    <3>1. phase = "compare" /\ UNCHANGED <<program, pc, store>>
      BY <2>4 DEF Compare
    <3>2. DOMAIN fit' = DOMAIN NoFit /\ phase' \in {"epoch", "checkpoint"}
      BY <2>4, <2>00, FitTyped DEF Compare
    <3>3. QED
      BY <3>1, <3>2, <2>0, <2>00, TypedWhileTraining DEF store
  <2>5. CASE SaveCheckpoint \/ SaveManifest \/ ExportTrained \/ ReportSweep \/ MaterializeFails
    <3>1. /\ phase \in {"checkpoint", "manifest", "export", "report", "compare", "keep"}
          /\ UNCHANGED <<program, pc, fit, cache>>
          /\ DOMAIN files' = DOMAIN files /\ writes' \in Nat
          /\ phase' \in {"manifest", "report", "export", "keep", "failed"}
      <4>1. CASE SaveCheckpoint
        BY <4>1, <2>00 DEF SaveCheckpoint, Fails, Write, store
      <4>2. CASE SaveManifest
        BY <4>2, <2>00 DEF SaveManifest, Fails, Write, store
      <4>3. CASE ExportTrained
        BY <4>3, <2>00 DEF ExportTrained, Fails, Write, store
      <4>4. CASE ReportSweep
        BY <4>4, <2>00 DEF ReportSweep, store
      <4>5. CASE MaterializeFails
        BY <4>5, <2>00 DEF MaterializeFails, Fails, store
      <4>6. QED
        BY <2>5, <4>1, <4>2, <4>3, <4>4, <4>5
    <3>2. QED
      BY <3>1, <2>0, <2>00, TypedWhileTraining
  <2>6. CASE Keep
    <3>1. /\ program' = program /\ pc' = pc + 1 /\ phase' = "next"
          /\ UNCHANGED <<fit, files, writes, cache>>
      BY <2>6 DEF Keep, Proceed
    <3>2. QED
      BY <3>1, <2>00, TypedAtNext
  <2>7. CASE PredictUnknown \/ ExportStale \/ EndProgram
    <3>1. /\ UNCHANGED <<program, pc, fit, cache>> /\ phase' \in {"next", "done", "failed"}
          /\ DOMAIN files' = DOMAIN files /\ writes' \in Nat
      BY <2>7, <2>00 DEF PredictUnknown, ExportStale, EndProgram, Fails, store, Predicts, AtCommand
    <3>2. QED
      BY <3>1, <2>00, TypedWhileTraining
  <2>8. CASE PredictInMemory
    BY <2>8, <2>00, TypedAtNext DEF PredictInMemory, Proceed
  <2>9. CASE PredictOnDevice \/ PredictOnnx
    <3>1. CASE Fails
      <4>1. program' = program
        BY <2>9 DEF PredictOnDevice, PredictOnnx
      <4>2. QED
        BY <3>1, <4>1, <2>00, TypedWhileTraining DEF Fails, store
    <3>2. CASE ~Fails
      <4>1. PICK key, weights : Touch(key, weights) /\ Proceed /\ UNCHANGED <<fit, sweeping, models, files, writes>>
        BY <2>9, <3>2 DEF PredictOnDevice, PredictOnnx
      <4>2. program' = program
        BY <2>9 DEF PredictOnDevice, PredictOnnx
      <4>3. QED
        BY <4>1, <4>2, TouchLeaves, TypedAtNext DEF Proceed
    <3>3. QED
      BY <3>1, <3>2
  <2>10. QED
    BY <1>1, <2>1, <2>2, <2>3, <2>4, <2>5, <2>6, <2>7, <2>8, <2>9 DEF Next
<1>2. CASE UNCHANGED vars
  BY <1>2 DEF vars, TypeInv, TrainedBlocks, Command
<1>3. QED
  BY <1>1, <1>2

-----------------------------------------------------------------------------
(* The files.                                                                *)

LEMMA MaxIs ==
  ASSUME NEW S, S \subseteq Int, NEW m \in S, \A x \in S : m >= x
  PROVE  Max(S) = m
<1>1. \A x \in S : (\A y \in S : x >= y) => x = m
  OBVIOUS
<1>2. Max(S) \in S /\ \A y \in S : Max(S) >= y
  BY DEF Max
<1>3. QED
  BY <1>1, <1>2

LEMMA FilesOf ==
  ASSUME TypeInv, NEW b \in TrainedBlocks
  PROVE  /\ <<"checkpoint", b>> \in DOMAIN files
         /\ <<"export", b>> \in DOMAIN files
         /\ <<"manifest", b>> \in DOMAIN files
BY DEF TypeInv

\* The block of a training command is one of those that have files.
LEMMA BlockAtWork ==
  ASSUME TypeInv, phase \notin {"next", "done", "failed"}
  PROVE  /\ Command.block \in TrainedBlocks /\ Command.k = "train" /\ pc \in DOMAIN program
         /\ \A b : pc \notin Fits(b)
BY DEF TypeInv, TrainedBlocks, Command, Fits

\* A write makes the file newer than all others and than what is cached.
LEMMA FileWritten ==
  ASSUME TypeInv, StampInv, NEW f \in DOMAIN files, NEW w,
         files' = [files EXCEPT ![f] = [weights |-> w, stamp |-> writes + 1]],
         writes' = writes + 1, cache' = cache, models' = models
  PROVE  /\ DOMAIN files' = DOMAIN files
         /\ files'[f].weights = w /\ files'[f].stamp = writes + 1
         /\ \A g \in DOMAIN files \ {f} : files'[g] = files[g] /\ files'[g].stamp \in 0..writes
         /\ \A g \in DOMAIN files : Written(g)' <=> (Written(g) \/ g = f)
         /\ Held' \subseteq Held \cup {w}
         /\ StampInv'
<1>1. /\ DOMAIN files' = DOMAIN files /\ writes \in Nat
      /\ files'[f] = [weights |-> w, stamp |-> writes + 1]
      /\ \A g \in DOMAIN files \ {f} : files'[g] = files[g]
  BY DEF TypeInv
<1>2. \A g \in DOMAIN files : files[g].stamp \in 0..writes /\ (files[g].stamp = 0 => files[g] = NoFile)
  BY DEF StampInv
<1>3. \A g \in DOMAIN files : Written(g)' <=> (Written(g) \/ g = f)
  BY <1>1 DEF Written
<1>4. Held' \subseteq Held \cup {w}
  <2>1. ASSUME NEW g \in DOMAIN files, Written(g)'
        PROVE  files'[g].weights \in Held \cup {w}
    BY <1>1, <1>3, <2>1 DEF Held
  <2>2. QED
    BY <1>1, <2>1 DEF Held
<1>5. StampInv'
  <2>1. ASSUME NEW g \in DOMAIN files'
        PROVE  files'[g].stamp \in 0..writes' /\ (files'[g].stamp = 0 => files'[g] = NoFile)
    BY <1>1, <1>2
  <2>2. ASSUME NEW i \in DOMAIN cache
        PROVE  /\ cache[i].key[3] \in 0..writes'
               /\ \A g \in DOMAIN files' : cache[i].key = <<g[1], g[2], files'[g].stamp>> => cache[i].weights = files'[g].weights
    <3>1. cache[i].key[3] \in 0..writes
      BY DEF StampInv
    <3>2. ASSUME NEW g \in DOMAIN files', cache[i].key = <<g[1], g[2], files'[g].stamp>>
          PROVE  cache[i].weights = files'[g].weights
      <4>1. files'[g].stamp =< writes
        BY <3>1, <3>2
      <4>2. g # f
        BY <1>1, <4>1
      <4>3. QED
        BY <1>1, <3>2, <4>2 DEF StampInv
    <3>3. QED
      BY <1>1, <3>1, <3>2
  <2>3. QED
    BY <2>1, <2>2 DEF StampInv
<1>6. QED
  BY <1>1, <1>2, <1>3, <1>4, <1>5

\* Steps that leave the files, the models and the cache alone.
LEMMA StoreStutters ==
  ASSUME TypeInv, StoreInv, UNCHANGED <<program, backend, pc, store>>,
         \/ phase' = "failed"
         \/ /\ phase # "failed" /\ ~InFlight /\ ~InFlight'
         \/ phase = "report" /\ phase' = "keep" /\ UNCHANGED <<fit, grid, best>>
  PROVE  StoreInv'
<1>1. CASE phase' = "failed"
  BY <1>1 DEF StoreInv
<1>2. CASE phase' # "failed"
  <2>1. HeldInv /\ ModelInv /\ CheckpointInv /\ ExportInv /\ StampInv
    BY <1>2 DEF StoreInv
  <2>2. /\ Held' = Held /\ TrainedBlocks' = TrainedBlocks /\ Command' = Command
        /\ \A b : Fits(b)' = Fits(b) /\ LastFit(b)' = LastFit(b)
        /\ \A f : Written(f)' <=> Written(f)
    BY DEF Held, Written, TrainedBlocks, Command, Fits, LastFit, store
  <2>3. InFlight' => InFlight /\ Weights' = Weights
    BY <1>2 DEF InFlight, Weights, WinnerOf, Config, Command
  <2>4. InFlight' <=> InFlight
    BY <1>2 DEF InFlight
  <2>5. \A b : FitNow(b)' <=> FitNow(b)
    BY <2>2, <2>4 DEF FitNow
  <2>6. HeldInv'
    BY <2>1, <2>2, <2>3, <2>4 DEF HeldInv
  <2>7. ModelInv' /\ StampInv'
    BY <2>1, <2>2 DEF ModelInv, StampInv, store
  <2>8. CheckpointInv'
    BY <2>1, <2>2, <2>3, <2>5 DEF CheckpointInv, store, FitNow
  <2>9. ExportInv'
    <3>1. phase' \notin {"export", "report"} /\ Config' = Config
      BY <1>2, <2>2 DEF InFlight, Config
    <3>2. phase' = "keep" => phase = "report" /\ Config.sweep
      BY <1>2, <2>1 DEF InFlight, ExportInv
    <3>3. phase = "keep" => FALSE
      BY <1>2 DEF InFlight
    <3>4. QED
      BY <2>1, <2>2, <2>5, <3>1, <3>2, <3>3 DEF ExportInv, store
  <2>10. QED
    BY <2>6, <2>7, <2>8, <2>9 DEF StoreInv
<1>3. QED
  BY <1>1, <1>2

\* The checkpoint of a fit is the first file that names it.
LEMMA CheckpointSaved ==
  ASSUME TypeInv, StoreInv, SaveCheckpoint
  PROVE  StoreInv'
<1>1. CASE phase' = "failed"
  BY <1>1 DEF StoreInv
<1>2. CASE phase' # "failed"
  <2> DEFINE block == Command.block
  <2> DEFINE f == <<"checkpoint", block>>
  <2>1. HeldInv /\ ModelInv /\ CheckpointInv /\ ExportInv /\ StampInv
    BY DEF StoreInv, SaveCheckpoint
  <2>2. /\ phase = "checkpoint" /\ phase' = "manifest" /\ Write("checkpoint", Weights)
        /\ UNCHANGED <<program, backend, pc, fit, grid, best, models, cache>>
    BY <1>2 DEF SaveCheckpoint, Fails, sweeping
  <2>3. block \in TrainedBlocks /\ f \in DOMAIN files
    BY <2>2, BlockAtWork, FilesOf
  <2>4. /\ DOMAIN files' = DOMAIN files
        /\ files'[f].weights = Weights /\ files'[f].stamp = writes + 1
        /\ \A g \in DOMAIN files \ {f} : files'[g] = files[g] /\ files'[g].stamp \in 0..writes
        /\ \A g \in DOMAIN files : Written(g)' <=> (Written(g) \/ g = f)
        /\ Held' \subseteq Held \cup {Weights}
        /\ StampInv'
    BY <2>1, <2>2, <2>3, FileWritten DEF Write
  <2>5. /\ ~InFlight /\ InFlight' /\ Weights' = Weights /\ Command' = Command /\ Config' = Config
        /\ TrainedBlocks' = TrainedBlocks
        /\ \A b : Fits(b)' = Fits(b) /\ LastFit(b)' = LastFit(b)
    BY <2>2 DEF InFlight, Weights, WinnerOf, Config, Command, Fits, LastFit, TrainedBlocks
  <2>6. \A b : ~FitNow(b) /\ (FitNow(b)' <=> b = block)
    BY <2>5 DEF FitNow
  <2>7. Weights[1] = pc /\ pc \in Nat
    BY DEF Weights, TypeInv
  <2>8. HeldInv'
    <3>1. \A w \in Held : w[1] \in Nat /\ w[1] < pc
      BY <2>1, <2>5 DEF HeldInv
    <3>2. \A w \in Held' : w[1] \in Nat /\ (w[1] < pc' \/ (InFlight' /\ w = Weights'))
      BY <2>2, <2>4, <2>5, <2>7, <3>1
    <3>3. \A w, x \in Held' : w[1] = x[1] => w = x
      BY <2>1, <2>4, <2>7, <3>1 DEF HeldInv
    <3>4. QED
      BY <3>2, <3>3 DEF HeldInv
  <2>9. ModelInv'
    BY <2>1, <2>2, <2>5 DEF ModelInv
  <2>10. CheckpointInv'
    <3>1. ASSUME NEW b \in TrainedBlocks, b # block
          PROVE  /\ <<"checkpoint", b>> \in DOMAIN files \ {f}
                 /\ files'["checkpoint", b] = files["checkpoint", b]
                 /\ Written(<<"checkpoint", b>>)' <=> Written(<<"checkpoint", b>>)
      <4>1. <<"checkpoint", b>> \in DOMAIN files \ {f}
        BY <3>1, FilesOf
      <4>2. QED
        BY <2>4, <4>1
    <3>2. Written(f)' /\ files'["checkpoint", block].weights = Weights'
      BY <2>3, <2>4, <2>5
    <3>3. QED
      BY <2>1, <2>5, <2>6, <3>1, <3>2 DEF CheckpointInv
  <2>11. ExportInv'
    <3>1. ASSUME NEW b \in TrainedBlocks
          PROVE  /\ files'["export", b] = files["export", b]
                 /\ Written(<<"export", b>>)' <=> Written(<<"export", b>>)
      <4>1. <<"export", b>> \in DOMAIN files \ {f}
        BY FilesOf
      <4>2. QED
        BY <2>4, <4>1
    <3>2. ASSUME NEW b \in TrainedBlocks, b # block
          PROVE  files'["checkpoint", b] = files["checkpoint", b]
      <4>1. <<"checkpoint", b>> \in DOMAIN files \ {f}
        BY <3>2, FilesOf
      <4>2. QED
        BY <2>4, <4>1
    <3>3. QED
      BY <2>1, <2>2, <2>5, <2>6, <3>1, <3>2 DEF ExportInv
  <2>12. QED
    BY <2>4, <2>8, <2>9, <2>10, <2>11 DEF StoreInv
<1>3. QED
  BY <1>1, <1>2

\* The manifest and the export that follow it name the same fit.
LEMMA FurtherSaved ==
  ASSUME TypeInv, StoreInv, SaveManifest \/ ExportTrained
  PROVE  StoreInv'
<1>1. CASE phase' = "failed"
  BY <1>1 DEF StoreInv
<1>2. CASE phase' # "failed"
  <2> DEFINE block == Command.block
  <2> DEFINE kind == IF phase = "manifest" THEN "manifest" ELSE "export"
  <2> DEFINE f == <<kind, block>>
  <2>1. HeldInv /\ ModelInv /\ CheckpointInv /\ ExportInv /\ StampInv
    BY DEF StoreInv, SaveManifest, ExportTrained
  <2>2. /\ phase \in {"manifest", "export"} /\ Write(kind, Weights)
        /\ phase = "manifest" => phase' = IF Config.sweep THEN "report" ELSE IF backend = "onnx" THEN "export" ELSE "keep"
        /\ phase = "export" => phase' = "keep"
        /\ UNCHANGED <<program, backend, pc, fit, grid, best, models, cache>>
    BY <1>2 DEF SaveManifest, ExportTrained, Fails, sweeping
  <2>3. block \in TrainedBlocks /\ f \in DOMAIN files
    BY <2>2, BlockAtWork, FilesOf
  <2>4. /\ DOMAIN files' = DOMAIN files
        /\ files'[f].weights = Weights /\ files'[f].stamp = writes + 1
        /\ \A g \in DOMAIN files \ {f} : files'[g] = files[g] /\ files'[g].stamp \in 0..writes
        /\ \A g \in DOMAIN files : Written(g)' <=> (Written(g) \/ g = f)
        /\ Held' \subseteq Held \cup {Weights}
        /\ StampInv'
    BY <2>1, <2>2, <2>3, FileWritten DEF Write
  <2>5. /\ InFlight /\ InFlight' /\ Weights' = Weights /\ Command' = Command /\ Config' = Config
        /\ TrainedBlocks' = TrainedBlocks
        /\ \A b : Fits(b)' = Fits(b) /\ LastFit(b)' = LastFit(b)
    BY <2>2 DEF InFlight, Weights, WinnerOf, Config, Command, Fits, LastFit, TrainedBlocks
  <2>6. \A b : (FitNow(b) <=> b = block) /\ (FitNow(b)' <=> b = block)
    BY <2>5 DEF FitNow
  <2>7. Weights[1] = pc /\ pc \in Nat /\ writes \in Nat
    BY DEF Weights, TypeInv
  <2>8. Weights \in Held
    <3>1. <<"checkpoint", block>> \in DOMAIN files
      BY <2>3, FilesOf
    <3>2. Written(<<"checkpoint", block>>) /\ files["checkpoint", block].weights = Weights
      BY <2>1, <2>3, <2>6 DEF CheckpointInv
    <3>3. QED
      BY <3>1, <3>2 DEF Held
  <2>9. HeldInv'
    BY <2>1, <2>2, <2>4, <2>5, <2>8 DEF HeldInv
  <2>10. ModelInv'
    BY <2>1, <2>2, <2>5 DEF ModelInv
  <2>11. \A b \in TrainedBlocks : /\ files'["checkpoint", b] = files["checkpoint", b]
                                  /\ Written(<<"checkpoint", b>>)' <=> Written(<<"checkpoint", b>>)
                                  /\ files'["checkpoint", b].stamp \in 0..writes
    <3>1. ASSUME NEW b \in TrainedBlocks
          PROVE  <<"checkpoint", b>> \in DOMAIN files \ {f}
      BY FilesOf
    <3>2. QED
      BY <2>4, <3>1
  <2>12. CheckpointInv'
    BY <2>1, <2>5, <2>6, <2>11 DEF CheckpointInv
  <2>13. ExportInv'
    <3>1. ASSUME NEW b \in TrainedBlocks, b # block \/ phase = "manifest"
          PROVE  /\ files'["export", b] = files["export", b]
                 /\ Written(<<"export", b>>)' <=> Written(<<"export", b>>)
      <4>1. <<"export", b>> \in DOMAIN files \ {f}
        BY <3>1, FilesOf
      <4>2. QED
        BY <2>4, <4>1
    <3>2. phase = "export" => /\ files'["export", block].weights = Weights
                              /\ files'["export", block].stamp = writes + 1
      BY <2>4
    <3>3. (phase = "export" => backend = "onnx" /\ ~Config.sweep)' /\ (phase = "report" => Config.sweep)'
      BY <2>2, <2>5
    <3>4. ASSUME NEW b \in TrainedBlocks
          PROVE  /\ (Written(<<"export", b>>) =>
                       \/ files["export", b].weights[1] \in Fits(b)
                       \/ phase = "keep" /\ FitNow(b) /\ files["export", b].weights = Weights)'
                 /\ (backend = "onnx" /\ phase = "keep" /\ FitNow(b) /\ ~Config.sweep =>
                       /\ files["export", b].stamp > files["checkpoint", b].stamp
                       /\ files["export", b].weights = Weights)'
                 /\ (backend = "onnx" /\ ~FitNow(b) /\ Fits(b) # {} /\ ~program[LastFit(b)].config.sweep =>
                       /\ files["export", b].stamp > files["checkpoint", b].stamp
                       /\ files["export", b].weights[1] = LastFit(b))'
      <4>1. CASE b # block
        BY <2>1, <2>2, <2>5, <2>6, <2>11, <3>1, <4>1 DEF ExportInv
      <4>2. CASE b = block /\ phase = "manifest"
        <5>1. FitNow(b) /\ FitNow(b)' /\ phase # "keep"
          BY <2>6, <4>2
        <5>2. Written(<<"export", b>>)' => files'["export", b].weights[1] \in Fits(b)'
          BY <2>1, <2>5, <3>1, <4>2, <5>1 DEF ExportInv
        <5>3. ~(backend' = "onnx" /\ phase' = "keep" /\ ~Config'.sweep)
          BY <2>2, <2>5, <4>2
        <5>4. QED
          BY <5>1, <5>2, <5>3
      <4>3. CASE b = block /\ phase = "export"
        <5>1. FitNow(b)' /\ phase' = "keep" /\ Weights' = Weights
          BY <2>2, <2>5, <2>6, <4>3
        <5>2. /\ files'["export", b].weights = Weights'
              /\ files'["export", b].stamp = writes + 1
          BY <3>2, <4>3, <5>1
        <5>3. files'["checkpoint", b].stamp \in 0..writes
          BY <2>11
        <5>4. files'["export", b].stamp > files'["checkpoint", b].stamp
          <6>1. \A x \in 0..writes : writes + 1 > x
            BY <2>7
          <6>2. QED
            BY <5>2, <5>3, <6>1
        <5>5. QED
          BY <5>1, <5>2, <5>4
      <4>4. QED
        BY <2>2, <4>1, <4>2, <4>3
    <3>5. QED
      BY <2>5, <3>3, <3>4 DEF ExportInv
  <2>14. QED
    BY <2>4, <2>9, <2>10, <2>12, <2>13 DEF StoreInv
<1>3. QED
  BY <1>1, <1>2

\* What a step to the next command adds to the fits.
LEMMA FitsAfter ==
  ASSUME TypeInv, program' = program, pc' = pc + 1
  PROVE  /\ \A b : Command.k = "train" /\ Command.block = b => Fits(b)' = Fits(b) \cup {pc}
         /\ \A b : ~(Command.k = "train" /\ Command.block = b) => Fits(b)' = Fits(b) /\ LastFit(b)' = LastFit(b)
<1>1. pc \in Nat \ {0} /\ 1..(pc' - 1) = 1..(pc - 1) \cup {pc}
  BY DEF TypeInv
<1>2. ASSUME NEW b, Command.k = "train" /\ Command.block = b
      PROVE  Fits(b)' = Fits(b) \cup {pc}
  BY <1>1, <1>2 DEF Fits, Command
<1>3. ASSUME NEW b, ~(Command.k = "train" /\ Command.block = b)
      PROVE  Fits(b)' = Fits(b) /\ LastFit(b)' = LastFit(b)
  <2>1. Fits(b)' = Fits(b)
    BY <1>1, <1>3 DEF Fits, Command
  <2>2. QED
    BY <2>1 DEF LastFit
<1>4. QED
  BY <1>2, <1>3

\* The fit is done: its weights are those of the variable.
LEMMA ModelKept ==
  ASSUME TypeInv, StoreInv, Keep
  PROVE  StoreInv'
<1>0. PICK block : block = Command.block
  OBVIOUS
<1>1. HeldInv /\ ModelInv /\ CheckpointInv /\ ExportInv /\ StampInv
  BY DEF StoreInv, Keep
<1>2. /\ phase = "keep" /\ phase' = "next" /\ pc' = pc + 1
      /\ UNCHANGED <<program, backend, fit, files, writes, cache>>
  BY DEF Keep, Proceed
<1>3. /\ block \in TrainedBlocks /\ Command.k = "train" /\ pc \in Nat /\ Weights[1] = pc
      /\ TrainedBlocks' = TrainedBlocks
  BY <1>0, <1>2, BlockAtWork DEF TypeInv, Weights, TrainedBlocks
<1>4. /\ Fits(block)' = Fits(block) \cup {pc}
      /\ \A b : b # block => Fits(b)' = Fits(b) /\ LastFit(b)' = LastFit(b)
  BY <1>0, <1>2, <1>3, FitsAfter
<1>5. LastFit(block)' = pc
  <2>1. Fits(block)' \subseteq Int /\ \A i \in Fits(block)' : pc >= i
    BY <1>3, <1>4 DEF Fits
  <2>2. QED
    BY <1>4, <2>1, MaxIs DEF LastFit
<1>6. /\ InFlight /\ ~InFlight' /\ \A b : (FitNow(b) <=> b = block) /\ ~FitNow(b)'
  BY <1>0, <1>2 DEF InFlight, FitNow
<1>7. /\ <<"checkpoint", block>> \in DOMAIN files
      /\ Written(<<"checkpoint", block>>) /\ files["checkpoint", block].weights = Weights
  BY <1>1, <1>3, <1>6, FilesOf DEF CheckpointInv
<1>8. Weights \in Held
  BY <1>7 DEF Held
<1>9. \A v \in DOMAIN models' : \/ models'[v] = [block |-> block, weights |-> Weights]
                                \/ v \in DOMAIN models /\ models'[v] = models[v]
  BY <1>0 DEF Keep
<1>10. Held' \subseteq Held
  <2>1. \A v \in DOMAIN models' : models'[v].weights \in Held
    BY <1>8, <1>9 DEF Held
  <2>2. \A g \in DOMAIN files' : Written(g)' => files'[g].weights \in Held
    BY <1>2 DEF Held, Written
  <2>3. QED
    BY <2>1, <2>2 DEF Held
<1>11. HeldInv'
  BY <1>1, <1>2, <1>3, <1>10 DEF HeldInv
<1>12. ModelInv'
  <2>1. \A b : Fits(b) \subseteq Fits(b)'
    BY <1>4
  <2>2. ASSUME NEW v \in DOMAIN models'
        PROVE  \E b \in TrainedBlocks : models'[v].block = b /\ models'[v].weights[1] \in Fits(b)'
    <3>1. CASE models'[v] = [block |-> block, weights |-> Weights]
      <4>1. models'[v].block = block /\ models'[v].weights[1] = pc
        BY <1>3, <3>1
      <4>2. QED
        BY <1>3, <1>4, <4>1
    <3>2. CASE v \in DOMAIN models /\ models'[v] = models[v]
      <4>1. \E b \in TrainedBlocks : models[v].block = b /\ models[v].weights[1] \in Fits(b)
        BY <1>1, <3>2 DEF ModelInv
      <4>2. QED
        BY <2>1, <3>2, <4>1
    <3>3. QED
      BY <1>9, <3>1, <3>2
  <2>3. QED
    BY <1>3, <2>2 DEF ModelInv
<1>13. CheckpointInv'
  <2>1. \A b \in TrainedBlocks : Written(<<"checkpoint", b>>)' <=> Written(<<"checkpoint", b>>)
    BY <1>2 DEF Written
  <2>2. ASSUME NEW b \in TrainedBlocks, Fits(b)' # {}
        PROVE  Written(<<"checkpoint", b>>)' /\ files'["checkpoint", b].weights[1] = LastFit(b)'
    <3>1. CASE b = block
      BY <1>2, <1>3, <1>5, <1>7, <2>1, <3>1
    <3>2. CASE b # block
      <4>1. Fits(b) # {} /\ LastFit(b)' = LastFit(b)
        BY <1>4, <2>2, <3>2
      <4>2. QED
        BY <1>1, <1>2, <1>6, <2>1, <3>2, <4>1 DEF CheckpointInv
    <3>3. QED
      BY <3>1, <3>2
  <2>3. QED
    BY <1>3, <1>6, <2>2 DEF CheckpointInv
<1>14. ExportInv'
  <2>1. \A b \in TrainedBlocks : Written(<<"export", b>>)' <=> Written(<<"export", b>>)
    BY <1>2 DEF Written
  <2>2. ASSUME NEW b \in TrainedBlocks, b # block
        PROVE  /\ (Written(<<"export", b>>) => files["export", b].weights[1] \in Fits(b))'
               /\ (backend = "onnx" /\ Fits(b) # {} /\ ~program[LastFit(b)].config.sweep =>
                     /\ files["export", b].stamp > files["checkpoint", b].stamp
                     /\ files["export", b].weights[1] = LastFit(b))'
    <3>1. /\ ~FitNow(b) /\ Fits(b)' = Fits(b) /\ LastFit(b)' = LastFit(b)
          /\ files' = files /\ program' = program /\ backend' = backend
      BY <1>2, <1>4, <1>6, <2>2
    <3>2. /\ Written(<<"export", b>>) => files["export", b].weights[1] \in Fits(b)
          /\ backend = "onnx" /\ Fits(b) # {} /\ ~program[LastFit(b)].config.sweep =>
               /\ files["export", b].stamp > files["checkpoint", b].stamp
               /\ files["export", b].weights[1] = LastFit(b)
      BY <1>1, <3>1 DEF ExportInv
    <3>3. QED
      BY <2>1, <3>1, <3>2
  <2>3. ASSUME Written(<<"export", block>>)'
        PROVE  files'["export", block].weights[1] \in Fits(block)'
    <3>1. \/ files["export", block].weights[1] \in Fits(block)
          \/ files["export", block].weights = Weights
      BY <1>1, <1>3, <2>1, <2>3 DEF ExportInv
    <3>2. files["export", block].weights[1] \in Fits(block) \cup {pc}
      BY <1>3, <3>1
    <3>3. QED
      BY <1>2, <1>4, <3>2
  <2>4. backend' = "onnx" /\ ~program'[LastFit(block)'].config.sweep =>
              /\ files'["export", block].stamp > files'["checkpoint", block].stamp
              /\ files'["export", block].weights[1] = LastFit(block)'
    BY <1>0, <1>1, <1>2, <1>3, <1>5, <1>6 DEF ExportInv, Config, Command
  <2>5. phase' \notin {"export", "report", "keep"}
    BY <1>2
  <2>6. ASSUME NEW b \in TrainedBlocks
        PROVE  /\ Written(<<"export", b>>)' => files'["export", b].weights[1] \in Fits(b)'
               /\ (backend = "onnx" /\ Fits(b) # {} /\ ~program[LastFit(b)].config.sweep)' =>
                     /\ files'["export", b].stamp > files'["checkpoint", b].stamp
                     /\ files'["export", b].weights[1] = LastFit(b)'
    <3>1. CASE b = block
      BY <2>3, <2>4, <3>1
    <3>2. CASE b # block
      BY <2>2, <3>2
    <3>3. QED
      BY <3>1, <3>2
  <2>7. QED
    BY <1>3, <2>5, <2>6 DEF ExportInv
<1>15. StampInv'
  BY <1>1, <1>2 DEF StampInv
<1>16. QED
  BY <1>11, <1>12, <1>13, <1>14, <1>15 DEF StoreInv

\* A prediction goes on to the next command with nothing but the cache changed.
LEMMA PredictedNext ==
  ASSUME TypeInv, StoreInv, Predicts, Proceed, UNCHANGED <<program, backend, fit, sweeping, models, files, writes>>,
         StampInv'
  PROVE  StoreInv'
<1>1. HeldInv /\ ModelInv /\ CheckpointInv /\ ExportInv
  BY DEF StoreInv, Predicts, AtCommand
<1>2. phase = "next" /\ phase' = "next" /\ pc' = pc + 1 /\ pc \in Nat /\ Command.k = "predict"
  BY DEF Predicts, AtCommand, Proceed, TypeInv
<1>3. \A b : Fits(b)' = Fits(b) /\ LastFit(b)' = LastFit(b)
  BY <1>2, FitsAfter
<1>4. ~InFlight /\ ~InFlight' /\ \A b : ~FitNow(b) /\ ~FitNow(b)'
  BY <1>2 DEF InFlight, FitNow
<1>5. Held' = Held /\ TrainedBlocks' = TrainedBlocks /\ \A f : Written(f)' <=> Written(f)
  BY DEF Held, TrainedBlocks, Written
<1>6. HeldInv'
  BY <1>1, <1>2, <1>4, <1>5 DEF HeldInv
<1>7. ModelInv'
  BY <1>1, <1>3, <1>5 DEF ModelInv
<1>8. CheckpointInv'
  BY <1>1, <1>3, <1>4, <1>5 DEF CheckpointInv
<1>9. ExportInv'
  BY <1>1, <1>2, <1>3, <1>4, <1>5 DEF ExportInv
<1>10. QED
  BY <1>6, <1>7, <1>8, <1>9 DEF StoreInv

\* A module that is loaded is that of the file as it is now.
LEMMA CacheStaysTrue ==
  ASSUME TypeInv, StampInv, NEW f \in DOMAIN files, NEW key, key = <<f[1], f[2], files[f].stamp>>,
         Touch(key, files[f].weights), UNCHANGED <<files, writes>>
  PROVE  StampInv' /\ predicted'.weights = files[f].weights
<1> DEFINE new == [key |-> key, weights |-> files[f].weights]
<1>1. /\ cache' \in Seq(ToSet(cache')) /\ predicted'.weights = cache'[1].weights
      /\ cache'[1] = new \/ (cache'[1] \in ToSet(cache) /\ cache'[1].key = key)
      /\ ToSet(cache') \subseteq ToSet(cache) \cup {new}
  BY TouchLeaves
<1>2. ASSUME NEW e \in ToSet(cache) \cup {new}
      PROVE  /\ e.key[3] \in 0..writes
             /\ \A g \in DOMAIN files : e.key = <<g[1], g[2], files[g].stamp>> => e.weights = files[g].weights
  <2>1. CASE e \in ToSet(cache)
    BY <2>1 DEF StampInv, ToSet
  <2>2. CASE e = new
    <3>1. e.key = <<f[1], f[2], files[f].stamp>> /\ e.weights = files[f].weights
      BY <2>2
    <3>2. files[f].stamp \in 0..writes
      BY DEF StampInv
    <3>3. ASSUME NEW g \in DOMAIN files, e.key = <<g[1], g[2], files[g].stamp>>
          PROVE  g = f
      BY <3>1, <3>3 DEF TypeInv
    <3>4. QED
      BY <3>1, <3>2, <3>3
  <2>3. QED
    BY <1>2, <2>1, <2>2
<1>3. \A i \in DOMAIN cache' : cache'[i] \in ToSet(cache) \cup {new}
  BY <1>1 DEF ToSet
<1>4. StampInv'
  <2>1. \A g \in DOMAIN files : files[g].stamp \in 0..writes /\ (files[g].stamp = 0 => files[g] = NoFile)
    BY DEF StampInv
  <2>2. QED
    BY <1>2, <1>3, <2>1 DEF StampInv
<1>5. predicted'.weights = files[f].weights
  <2>1. cache'[1] \in ToSet(cache) \cup {new} /\ cache'[1].key = key
    BY <1>1
  <2>2. QED
    BY <1>1, <1>2, <2>1
<1>6. QED
  BY <1>4, <1>5

\* The three ways to predict, and the weights they use.
LEMMA PredictUses ==
  ASSUME TypeInv, StoreInv, PredictInMemory \/ PredictOnDevice \/ PredictOnnx, phase' # "failed"
  PROVE  /\ StoreInv'
         /\ \/ backend = "cpu" /\ predicted'.weights = models[Command.var].weights
            \/ backend = "gpu" /\ predicted'.weights = files["checkpoint", models[Command.var].block].weights
            \/ /\ backend = "onnx" /\ Fresh(models[Command.var].block)
               /\ predicted'.weights = files["export", models[Command.var].block].weights
<1>0. Predicts /\ StampInv /\ UNCHANGED <<program, backend>>
  BY DEF StoreInv, PredictInMemory, PredictOnDevice, PredictOnnx, Predicts, AtCommand
<1> DEFINE m == models[Command.var]
<1>1. m.block \in TrainedBlocks
  BY <1>0 DEF StoreInv, ModelInv, Predicts, AtCommand
<1>2. CASE PredictInMemory
  <2>1. Proceed /\ UNCHANGED <<program, backend, fit, sweeping, models, files, writes, cache>>
        /\ backend = "cpu" /\ predicted'.weights = m.weights
    BY <1>2 DEF PredictInMemory
  <2>2. StampInv'
    BY <1>0, <2>1 DEF StampInv
  <2>3. QED
    BY <1>0, <2>1, <2>2, PredictedNext
<1>3. CASE PredictOnDevice
  <2> DEFINE f == <<"checkpoint", m.block>>
  <2>1. /\ Touch(ArtifactKey("checkpoint", m.block), files[f].weights) /\ Proceed
        /\ UNCHANGED <<fit, sweeping, models, files, writes>> /\ backend = "gpu"
    BY <1>3 DEF PredictOnDevice, Fails, LoadInferenceModel
  <2>2. f \in DOMAIN files /\ ArtifactKey("checkpoint", m.block) = <<f[1], f[2], files[f].stamp>>
    BY <1>1, FilesOf DEF ArtifactKey
  <2>3. StampInv' /\ predicted'.weights = files[f].weights
    BY <1>0, <2>1, <2>2, CacheStaysTrue
  <2>4. QED
    BY <1>0, <2>1, <2>3, PredictedNext
<1>4. CASE PredictOnnx
  <2> DEFINE f == <<"export", m.block>>
  <2>1. /\ Touch(ArtifactKey("export", m.block), files[f].weights) /\ Proceed
        /\ UNCHANGED <<fit, sweeping, models, files, writes>> /\ backend = "onnx" /\ Fresh(m.block)
    BY <1>4 DEF PredictOnnx, Fails
  <2>2. f \in DOMAIN files /\ ArtifactKey("export", m.block) = <<f[1], f[2], files[f].stamp>>
    BY <1>1, FilesOf DEF ArtifactKey
  <2>3. StampInv' /\ predicted'.weights = files[f].weights
    BY <1>0, <2>1, <2>2, CacheStaysTrue
  <2>4. QED
    BY <1>0, <2>1, <2>3, PredictedNext
<1>5. QED
  BY <1>2, <1>3, <1>4

\* ensure_export writes the model that it was given, which a fit of its block
\* made; a fit without a sweep is not followed by a stale export.
LEMMA ExportRefreshed ==
  ASSUME TypeInv, StoreInv, ExportStale
  PROVE  StoreInv'
<1>1. CASE phase' = "failed"
  BY <1>1 DEF StoreInv
<1>2. CASE phase' # "failed"
  <2>1. HeldInv /\ ModelInv /\ CheckpointInv /\ ExportInv /\ StampInv
    BY DEF StoreInv, ExportStale, Predicts, AtCommand
  <2>2. PICK v \in DOMAIN models : v = Command.var
    BY DEF ExportStale, Predicts
  <2>3. PICK block \in TrainedBlocks : models[v].block = block /\ models[v].weights[1] \in Fits(block)
    BY <2>1 DEF ModelInv
  <2> DEFINE f == <<"export", block>>
  <2>4. /\ ~Fresh(block) /\ phase = "next" /\ phase' = "next" /\ backend = "onnx"
        /\ files' = [files EXCEPT ![f] = [weights |-> models[v].weights, stamp |-> writes + 1]]
        /\ writes' = writes + 1
        /\ UNCHANGED <<program, backend, pc, fit, grid, best, models, cache>>
    BY <1>2, <2>2, <2>3 DEF ExportStale, Predicts, AtCommand, Fails, sweeping
  <2>5. f \in DOMAIN files
    BY FilesOf
  <2>6. /\ DOMAIN files' = DOMAIN files
        /\ files'[f].weights = models[v].weights /\ files'[f].stamp = writes + 1
        /\ \A g \in DOMAIN files \ {f} : files'[g] = files[g] /\ files'[g].stamp \in 0..writes
        /\ \A g \in DOMAIN files : Written(g)' <=> (Written(g) \/ g = f)
        /\ Held' \subseteq Held \cup {models[v].weights}
        /\ StampInv'
    BY <2>1, <2>4, <2>5, FileWritten
  <2>7. /\ ~InFlight /\ ~InFlight' /\ TrainedBlocks' = TrainedBlocks
        /\ \A b : Fits(b)' = Fits(b) /\ LastFit(b)' = LastFit(b) /\ ~FitNow(b) /\ ~FitNow(b)'
    BY <2>4 DEF InFlight, FitNow, Fits, LastFit, TrainedBlocks
  <2>8. models[v].weights \in Held
    BY DEF Held
  <2>9. HeldInv'
    BY <2>1, <2>4, <2>6, <2>7, <2>8 DEF HeldInv
  <2>10. ModelInv'
    BY <2>1, <2>4, <2>7 DEF ModelInv
  <2>11. \A b \in TrainedBlocks : /\ files'["checkpoint", b] = files["checkpoint", b]
                                  /\ Written(<<"checkpoint", b>>)' <=> Written(<<"checkpoint", b>>)
    <3>1. ASSUME NEW b \in TrainedBlocks
          PROVE  <<"checkpoint", b>> \in DOMAIN files \ {f}
      BY FilesOf
    <3>2. QED
      BY <2>6, <3>1
  <2>12. CheckpointInv'
    BY <2>1, <2>7, <2>11 DEF CheckpointInv
  <2>13. ExportInv'
    <3>1. ASSUME NEW b \in TrainedBlocks
          PROVE  /\ Written(<<"export", b>>)' => files'["export", b].weights[1] \in Fits(b)
                 /\ Fits(b) # {} /\ ~program[LastFit(b)].config.sweep =>
                      /\ files'["export", b].stamp > files'["checkpoint", b].stamp
                      /\ files'["export", b].weights[1] = LastFit(b)
      <4>1. /\ Written(<<"export", b>>) => files["export", b].weights[1] \in Fits(b)
            /\ Fits(b) # {} /\ ~program[LastFit(b)].config.sweep =>
                 /\ files["export", b].stamp > files["checkpoint", b].stamp
                 /\ files["export", b].weights[1] = LastFit(b)
        BY <2>1, <2>4, <2>7 DEF ExportInv
      <4>2. CASE b # block
        <5>1. <<"export", b>> \in DOMAIN files \ {f}
          BY <4>2, FilesOf
        <5>2. QED
          BY <2>6, <2>11, <4>1, <5>1
      <4>3. CASE b = block
        <5>0. writes \in Nat
          BY DEF TypeInv
        <5>1. files["checkpoint", b].stamp \in 0..writes
          BY <2>1, FilesOf DEF StampInv
        <5>2. files'["checkpoint", b].stamp \in 0..writes /\ files'["export", b].stamp = writes + 1
          BY <2>6, <2>11, <4>3, <5>1
        <5>3. \A x \in 0..writes : writes + 1 > x
          BY <5>0
        <5>4. files'["export", b].weights = models[v].weights
          BY <2>6, <4>3
        <5>5. ~(Fits(b) # {} /\ ~program[LastFit(b)].config.sweep)
          <6>1. SUFFICES ASSUME Fits(b) # {}, ~program[LastFit(b)].config.sweep
                         PROVE  Fresh(b)
            BY <2>4, <4>3
          <6>2. /\ files["export", b].stamp > files["checkpoint", b].stamp
                /\ files["export", b].weights[1] = LastFit(b)
            BY <4>1, <6>1
          <6>3. files["export", b].stamp \in 0..writes
            BY <2>1, FilesOf DEF StampInv
          <6>4. \A e, c \in 0..writes : e > c => e # 0 /\ e >= c
            BY <5>0
          <6>5. files["export", b].stamp # 0 /\ files["export", b].stamp >= files["checkpoint", b].stamp
            BY <5>1, <6>2, <6>3, <6>4
          <6>6. files["export", b] # NoFile
            <7>1. NoFile.stamp = 0
              BY DEF NoFile
            <7>2. QED
              BY <6>5, <7>1
          <6>7. QED
            BY <6>5, <6>6 DEF Fresh
        <5>6. QED
          BY <2>3, <4>3, <5>4, <5>5
      <4>4. QED
        BY <4>2, <4>3
    <3>2. phase' \notin {"export", "report", "keep"} /\ program' = program
      BY <2>4
    <3>3. QED
      BY <2>7, <3>1, <3>2 DEF ExportInv
  <2>14. QED
    BY <2>6, <2>9, <2>10, <2>12, <2>13 DEF StoreInv
<1>3. QED
  BY <1>1, <1>2

-----------------------------------------------------------------------------
(* The split of the rows.                                                    *)

\* Induction, with a set for the property.
LEMMA Induction ==
  ASSUME NEW S, 0 \in S, \A n \in Nat : n \in S => n + 1 \in S
  PROVE  Nat \subseteq S
<1> DEFINE Missing == Nat \ S
<1>1. SUFFICES ASSUME Missing # {}
               PROVE  FALSE
  OBVIOUS
<1>2. PICK x \in Missing : \A y \in Missing : ~ (<<y, x>> \in OpToRel(<, Nat))
  BY <1>1, WFMin, NatLessThanWellFounded
<1>3. x \in Nat \ {0} /\ \A y \in Missing : ~ (y < x)
  BY <1>2 DEF OpToRel
<1>4. x - 1 \in Nat /\ x - 1 \in S
  BY <1>3
<1>5. QED
  BY <1>3, <1>4

\* A strict total order of a finite set, given by what comes before each.
IsOrder(before) ==
  /\ IsFiniteSet(DOMAIN before)
  /\ before \in [DOMAIN before -> SUBSET DOMAIN before]
  /\ \A i \in DOMAIN before : i \notin before[i]
  /\ \A i, j \in DOMAIN before : i = j \/ i \in before[j] \/ j \in before[i]
  /\ \A i, j, k \in DOMAIN before : i \in before[j] /\ j \in before[k] => i \in before[k]

\* Each place has exactly one element that has it.
LEMMA Places ==
  ASSUME NEW before, IsOrder(before)
  PROVE  LET S == DOMAIN before
         IN  /\ Cardinality(S) \in Nat
             /\ \A i \in S : Cardinality(before[i]) \in 0..(Cardinality(S) - 1)
             /\ \A i, j \in S : i \in before[j] <=> Cardinality(before[i]) < Cardinality(before[j])
             /\ \A i, j \in S : Cardinality(before[i]) = Cardinality(before[j]) => i = j
             /\ \A m \in 0..(Cardinality(S) - 1) : \E i \in S : Cardinality(before[i]) = m
<1> DEFINE S == DOMAIN before
           n == Cardinality(S)
<1>0. /\ IsFiniteSet(S) /\ \A i \in S : before[i] \in SUBSET S /\ i \notin before[i]
      /\ \A i, j \in S : i = j \/ i \in before[j] \/ j \in before[i]
      /\ \A i, j, k \in S : i \in before[j] /\ j \in before[k] => i \in before[k]
  BY DEF IsOrder
<1> HIDE DEF S
<1>1. n \in Nat
  BY <1>0, FS_CardinalityType
<1>2. \A i \in S : IsFiniteSet(before[i]) /\ Cardinality(before[i]) \in Nat
  BY <1>0, FS_Subset, FS_CardinalityType
<1>3. ASSUME NEW i \in S, NEW T, IsFiniteSet(T), before[i] \cup {i} \subseteq T
      PROVE  Cardinality(before[i]) < Cardinality(T)
  <2>1. Cardinality(before[i] \cup {i}) = Cardinality(before[i]) + 1
    BY <1>0, <1>2, FS_AddElement
  <2>2. Cardinality(before[i] \cup {i}) <= Cardinality(T)
    BY <1>3, FS_Subset
  <2>3. Cardinality(T) \in Nat
    BY <1>3, FS_CardinalityType
  <2>4. QED
    BY <1>2, <2>1, <2>2, <2>3
<1>4. \A i \in S : Cardinality(before[i]) \in 0..(n - 1)
  BY <1>0, <1>1, <1>2, <1>3
<1>5. ASSUME NEW i \in S, NEW j \in S, i \in before[j]
      PROVE  Cardinality(before[i]) < Cardinality(before[j])
  <2>1. before[i] \cup {i} \subseteq before[j]
    BY <1>0, <1>5
  <2>2. QED
    BY <1>2, <1>3, <2>1
<1>6. \A i, j \in S : i \in before[j] <=> Cardinality(before[i]) < Cardinality(before[j])
  <2> SUFFICES ASSUME NEW i \in S, NEW j \in S, Cardinality(before[i]) < Cardinality(before[j])
               PROVE  i \in before[j]
    BY <1>5
  <2>1. i = j \/ i \in before[j] \/ j \in before[i]
    BY <1>0
  <2>2. CASE j \in before[i]
    BY <1>2, <1>5, <2>2
  <2>3. QED
    BY <1>2, <2>1, <2>2
<1>7. \A i, j \in S : Cardinality(before[i]) = Cardinality(before[j]) => i = j
  BY <1>0, <1>2, <1>6
<1> DEFINE place == [i \in S |-> Cardinality(before[i])]
<1>8. IsFiniteSet(0..(n - 1)) /\ Cardinality(0..(n - 1)) = n
  BY <1>1, FS_Interval
<1>9. place \in Injection(S, 0..(n - 1))
  BY <1>4, <1>7 DEF Injection, IsInjective
<1>10. place \in Surjection(S, 0..(n - 1))
  BY <1>8, <1>9, FS_Injection
<1>11. \A m \in 0..(n - 1) : \E i \in S : Cardinality(before[i]) = m
  BY <1>10 DEF Surjection
<1>12. QED
  BY <1>1, <1>4, <1>6, <1>7, <1>11 DEF S

LEMMA InOrderIs ==
  ASSUME NEW before, IsOrder(before)
  PROVE  LET s == InOrder(before)
             S == DOMAIN before
         IN  /\ Cardinality(S) \in Nat /\ s \in Seq(S) /\ Len(s) = Cardinality(S) /\ DOMAIN s = 1..Cardinality(S)
             /\ IsInjective(s) /\ ToSet(s) = S
             /\ \A a, b \in DOMAIN s : a < b => s[a] \in before[s[b]]
<1> DEFINE s == InOrder(before)
           S == DOMAIN before
           n == Cardinality(S)
<1>1. n \in Nat /\ DOMAIN s = 1..n
  BY Places DEF InOrder
<1>2. ASSUME NEW k \in 1..n
      PROVE  s[k] \in S /\ Cardinality(before[s[k]]) = k - 1
  <2>1. \E i \in S : Cardinality(before[i]) = k - 1
    BY <1>1, Places
  <2>2. s[k] = CHOOSE i \in S : Cardinality(before[i]) = k - 1
    BY DEF InOrder
  <2>3. QED
    BY <2>1, <2>2
<1>3. s \in Seq(S) /\ Len(s) = n
  <2>1. s = [k \in 1..n |-> s[k]]
    BY DEF InOrder
  <2>2. s \in [1..n -> S]
    BY <1>2, <2>1
  <2>3. QED
    BY <1>1, <2>2
<1>4. IsInjective(s)
  BY <1>1, <1>2 DEF IsInjective
<1>5. ToSet(s) = S
  <2>1. ToSet(s) \subseteq S
    BY <1>1, <1>2 DEF ToSet
  <2>2. ASSUME NEW i \in S
        PROVE  i \in ToSet(s)
    <3>1. Cardinality(before[i]) \in 0..(n - 1)
      BY Places
    <3>2. Cardinality(before[i]) + 1 \in 1..n
      BY <1>1, <3>1
    <3>3. s[Cardinality(before[i]) + 1] = i
      BY <1>2, <3>1, <3>2, Places
    <3>4. QED
      BY <1>1, <3>2, <3>3 DEF ToSet
  <2>3. QED
    BY <2>1, <2>2
<1>6. \A a, b \in DOMAIN s : a < b => s[a] \in before[s[b]]
  BY <1>1, <1>2, Places
<1>7. QED
  BY <1>1, <1>3, <1>4, <1>5, <1>6

\* Rows in their own order.
LEMMA AscendingIs ==
  ASSUME NEW rows \in SUBSET Nat, IsFiniteSet(rows)
  PROVE  LET s == Ascending(rows)
         IN  /\ Cardinality(rows) \in Nat /\ s \in Seq(rows) /\ Len(s) = Cardinality(rows)
             /\ IsInjective(s) /\ ToSet(s) = rows
<1> DEFINE before == [i \in rows |-> {j \in rows : j < i}]
<1>1. IsOrder(before)
  BY DEF IsOrder
<1>2. DOMAIN before = rows /\ Ascending(rows) = InOrder(before)
  BY DEF Ascending
<1> HIDE DEF before
<1>3. QED
  BY <1>1, <1>2, InOrderIs

\* The rows by time.
LEMMA RowsByTimeIs ==
  ASSUME NEW time \in Seq(Int)
  PROVE  LET s == RowsByTime(time)
         IN  /\ s \in Seq(1..Len(time)) /\ Len(s) = Len(time) /\ IsInjective(s) /\ ToSet(s) = 1..Len(time)
             /\ \A a, b \in DOMAIN s : a < b => time[s[a]] =< time[s[b]]
<1> DEFINE rows == 1..Len(time)
           before == [i \in DOMAIN time |-> {j \in DOMAIN time : time[j] < time[i] \/ (time[j] = time[i] /\ j < i)}]
<1>1. Len(time) \in Nat /\ DOMAIN time = rows /\ \A i \in rows : i \in Nat /\ time[i] \in Int
  <2>1. Len(time) \in Nat /\ DOMAIN time = rows
    BY LenProperties
  <2>2. time \in [rows -> Int]
    BY LenProperties
  <2>3. QED
    BY <2>1, <2>2
<1>2. IsFiniteSet(rows) /\ Cardinality(rows) = Len(time)
  BY <1>1, FS_Interval
<1> HIDE DEF rows
<1>3. DOMAIN before = rows /\ \A i \in rows : before[i] = {j \in rows : time[j] < time[i] \/ (time[j] = time[i] /\ j < i)}
  BY <1>1
<1>4. RowsByTime(time) = InOrder(before)
  BY DEF RowsByTime
<1> HIDE DEF before
<1>5. IsOrder(before)
  <2>1. before \in [rows -> SUBSET rows]
    <3>1. before = [i \in rows |-> before[i]]
      BY <1>1 DEF before
    <3>2. QED
      BY <1>3, <3>1
  <2>2. \A i \in rows : i \notin before[i]
    BY <1>1, <1>3
  <2>3. \A i, j \in rows : i = j \/ i \in before[j] \/ j \in before[i]
    BY <1>1, <1>3
  <2>4. ASSUME NEW i \in rows, NEW j \in rows, NEW k \in rows, i \in before[j], j \in before[k]
        PROVE  i \in before[k]
    BY <1>1, <1>3, <2>4
  <2>5. QED
    BY <1>2, <1>3, <2>1, <2>2, <2>3, <2>4 DEF IsOrder
<1> DEFINE s == InOrder(before)
<1>6. /\ s \in Seq(rows) /\ Len(s) = Len(time) /\ IsInjective(s) /\ ToSet(s) = rows
      /\ \A a, b \in DOMAIN s : a < b => s[a] \in before[s[b]]
  BY <1>2, <1>3, <1>5, InOrderIs
<1>7. \A a \in DOMAIN s : s[a] \in rows
  BY <1>6
<1> HIDE DEF s
<1>8. ASSUME NEW a \in DOMAIN s, NEW b \in DOMAIN s, a < b
      PROVE  time[s[a]] =< time[s[b]]
  <2>1. s[b] \in rows /\ s[a] \in before[s[b]]
    BY <1>6, <1>7, <1>8
  <2>2. s[a] \in rows /\ (time[s[a]] < time[s[b]] \/ time[s[a]] = time[s[b]])
    BY <1>3, <2>1
  <2>3. QED
    BY <1>1, <2>1, <2>2
<1>9. QED
  BY <1>4, <1>6, <1>8 DEF s, rows

\* A sequence cut in two.
AreParts(p, S, s, k) ==
  LET m == Len(s) - k
  IN  /\ p.train \in Seq(S) /\ p.val \in Seq(S) /\ Len(p.train) = m /\ Len(p.val) = k
      /\ \A i \in 1..m : p.train[i] = s[i]
      /\ \A i \in 1..k : p.val[i] = s[m + i]
      /\ p.train \o p.val = s
LEMMA CutInTwo ==
  ASSUME NEW S, NEW s \in Seq(S), NEW k \in 0..Len(s)
  PROVE  AreParts(LastRows(s, k), S, s, k)
<1> DEFINE m == Len(s) - k
           train == SubSeq(s, 1, m)
           val == SubSeq(s, m + 1, Len(s))
<1>0. Len(s) \in Nat /\ m \in Nat /\ k \in Nat /\ Len(s) = m + k /\ \A i \in 1..Len(s) : s[i] \in S
  BY LenProperties
<1>1. /\ train \in Seq(S) /\ Len(train) = m /\ \A i \in 1..m : train[i] = s[i]
  <2>1. m \in Int /\ 1 \in Int /\ \A i \in 1..m : s[i] \in S
    BY <1>0
  <2>0. m \in Nat
    BY <1>0
  <2> HIDE DEF m
  <2>2. m - 1 + 1 = m /\ (IF 1 <= m THEN m - 1 + 1 ELSE 0) = m
    BY <2>0
  <2>4. \A i \in 1..m : 1 + i - 1 = i
    BY <2>0
  <2>3. /\ train \in Seq(S) /\ Len(train) = IF 1 <= m THEN m - 1 + 1 ELSE 0
        /\ \A i \in 1..(m - 1 + 1) : train[i] = s[1 + i - 1]
    BY <2>1, SubSeqProperties
  <2>5. QED
    BY <2>2, <2>3, <2>4
<1>2. /\ val \in Seq(S) /\ Len(val) = k /\ \A i \in 1..k : val[i] = s[m + i]
  <2>1. \A i \in 1..k : m + 1 + i - 1 = m + i
    BY <1>0
  <2>2. Len(s) - (m + 1) + 1 = k /\ (m + 1 <= Len(s) \/ k = 0) /\ (m + 1 \in Int)
    BY <1>0
  <2> HIDE DEF m
  <2>3. val \in Seq(S) /\ Len(val) = IF m + 1 <= Len(s) THEN Len(s) - (m + 1) + 1 ELSE 0
    BY <1>0, <2>2, SubSeqProperties
  <2>4. \A i \in 1..(Len(s) - (m + 1) + 1) : val[i] = s[m + 1 + i - 1]
    BY <1>0, <2>2, SubSeqProperties
  <2>5. QED
    BY <1>0, <2>1, <2>2, <2>3, <2>4
<1>4. LastRows(s, k) = [ok |-> TRUE, train |-> train, val |-> val]
  BY DEF LastRows, Parts
<1> HIDE DEF train, val, m
<1>3. train \o val = s
  <2>0. Len(train) = m /\ Len(val) = k /\ m + k = Len(s)
    BY <1>0, <1>1, <1>2
  <2>1. /\ train \o val \in Seq(S) /\ Len(train \o val) = Len(s)
        /\ \A i \in 1..Len(s) : (train \o val)[i] = IF i <= m THEN train[i] ELSE val[i - m]
    <3>1. train \in Seq(S) /\ val \in Seq(S)
      BY <1>1, <1>2
    <3>2. /\ train \o val \in Seq(S) /\ Len(train \o val) = m + k
          /\ \A i \in 1..(m + k) : (train \o val)[i] = IF i <= m THEN train[i] ELSE val[i - m]
      BY <2>0, <3>1, ConcatProperties
    <3>3. QED
      BY <2>0, <3>2
  <2>2. ASSUME NEW i \in 1..Len(s)
        PROVE  (train \o val)[i] = s[i]
    <3>1. CASE i <= m
      BY <1>0, <1>1, <2>1, <3>1
    <3>2. CASE ~ (i <= m)
      <4>1. i - m \in 1..k /\ m + (i - m) = i
        BY <1>0, <3>2
      <4>2. QED
        BY <1>2, <2>1, <3>2, <4>1
    <3>3. QED
      BY <3>1, <3>2
  <2>3. QED
    BY <2>1, <2>2, SeqEqual
<1>5. LastRows(s, k).train = train /\ LastRows(s, k).val = val
  BY <1>4
<1>6. QED
  BY <1>1, <1>2, <1>3, <1>5 DEF AreParts, m

\* Two sequences without repetition that share no row make one of all their rows.
LEMMA PutTogether ==
  ASSUME NEW S, NEW s \in Seq(S), NEW t \in Seq(S), IsInjective(s), IsInjective(t), ToSet(s) \cap ToSet(t) = {}
  PROVE  IsInjective(s \o t) /\ ToSet(s \o t) = ToSet(s) \cup ToSet(t) /\ Len(s \o t) = Len(s) + Len(t)
<1>1. /\ Len(s) \in Nat /\ Len(t) \in Nat /\ s \o t \in Seq(S) /\ Len(s \o t) = Len(s) + Len(t)
      /\ DOMAIN s = 1..Len(s) /\ DOMAIN t = 1..Len(t) /\ DOMAIN (s \o t) = 1..(Len(s) + Len(t))
  BY LenProperties, ConcatProperties
<1>2. \A i \in 1..(Len(s) + Len(t)) : (s \o t)[i] = IF i <= Len(s) THEN s[i] ELSE t[i - Len(s)]
  BY <1>1, ConcatProperties
<1>3. \A i \in 1..(Len(s) + Len(t)) : i <= Len(s) => i \in DOMAIN s /\ (s \o t)[i] = s[i]
  BY <1>1, <1>2
<1>4. \A i \in 1..(Len(s) + Len(t)) : ~ (i <= Len(s)) => i - Len(s) \in DOMAIN t /\ (s \o t)[i] = t[i - Len(s)]
  BY <1>1, <1>2
<1>5. ASSUME NEW i \in 1..(Len(s) + Len(t)), NEW j \in 1..(Len(s) + Len(t)), (s \o t)[i] = (s \o t)[j]
      PROVE  i = j
  <2>1. \A a \in DOMAIN s, b \in DOMAIN t : s[a] # t[b]
    BY DEF ToSet
  <2>2. CASE i <= Len(s) /\ j <= Len(s)
    BY <1>3, <1>5, <2>2 DEF IsInjective
  <2>3. CASE ~ (i <= Len(s)) /\ ~ (j <= Len(s))
    <3>1. i - Len(s) = j - Len(s)
      BY <1>4, <1>5, <2>3 DEF IsInjective
    <3>2. QED
      BY <1>1, <3>1
  <2>4. CASE (i <= Len(s)) # (j <= Len(s))
    BY <1>3, <1>4, <1>5, <2>1, <2>4
  <2>5. QED
    BY <2>2, <2>3, <2>4
<1>6. ToSet(s \o t) \subseteq ToSet(s) \cup ToSet(t)
  BY <1>1, <1>3, <1>4 DEF ToSet
<1>7. ASSUME NEW a \in DOMAIN s
      PROVE  s[a] \in ToSet(s \o t)
  BY <1>1, <1>3 DEF ToSet
<1>8. ASSUME NEW b \in DOMAIN t
      PROVE  t[b] \in ToSet(s \o t)
  <2>1. b + Len(s) \in 1..(Len(s) + Len(t)) /\ ~ (b + Len(s) <= Len(s)) /\ b + Len(s) - Len(s) = b
    BY <1>1
  <2>2. (s \o t)[b + Len(s)] = t[b]
    BY <1>4, <2>1
  <2>3. QED
    BY <1>1, <2>1, <2>2 DEF ToSet
<1>9. ToSet(s) \cup ToSet(t) \subseteq ToSet(s \o t)
  BY <1>7, <1>8 DEF ToSet
<1>10. QED
  BY <1>1, <1>5, <1>6, <1>9 DEF IsInjective

\* Every order of the rows is of all the rows.
LEMMA ShuffleIs ==
  ASSUME NEW n \in Nat, NEW order \in Seq(1..n), Len(order) = n, IsInjective(order), NEW o \in Shuffles(order)
  PROVE  o \in Seq(1..n) /\ Len(o) = n /\ IsInjective(o)
<1>1. DOMAIN order = 1..n /\ \A i \in 1..n : order[i] \in 1..n
  OBVIOUS
<1>2. PICK q \in [1..n -> 1..n] : IsInjective(q) /\ o = [i \in 1..n |-> order[q[i]]]
  BY <1>1 DEF Shuffles
<1>3. o \in [1..n -> 1..n]
  BY <1>1, <1>2
<1>4. o \in Seq(1..n) /\ Len(o) = n /\ DOMAIN o = 1..n
  BY <1>3
<1>5. \A i, j \in 1..n : order[i] = order[j] => i = j
  BY <1>1 DEF IsInjective
<1>6. \A i, j \in 1..n : q[i] = q[j] => i = j
  BY <1>2 DEF IsInjective
<1>7. \A i, j \in 1..n : o[i] = o[j] => i = j
  <2> SUFFICES ASSUME NEW i \in 1..n, NEW j \in 1..n, o[i] = o[j] PROVE i = j
    OBVIOUS
  <2>1. order[q[i]] = order[q[j]] /\ q[i] \in 1..n /\ q[j] \in 1..n
    BY <1>2
  <2>2. QED
    BY <1>5, <1>6, <2>1
<1>8. QED
  BY <1>4, <1>7 DEF IsInjective

\* A sequence without repetition that is as long as there are rows has them all.
LEMMA AllRows ==
  ASSUME NEW n \in Nat, NEW s \in Seq(1..n), Len(s) = n, IsInjective(s)
  PROVE  ToSet(s) = 1..n
<1>1. s \in Injection(1..n, 1..n)
  BY DEF Injection
<1>2. IsFiniteSet(1..n)
  BY FS_Interval
<1>3. s \in Surjection(1..n, 1..n)
  BY <1>1, <1>2, FS_Injection
<1>4. QED
  BY <1>3 DEF Surjection, ToSet

\* The rows of a class after a row of it.
Later(targets, i) == {j \in ClassRows(targets, targets[i]) : j > i}

LEMMA RowsFinite ==
  ASSUME NEW T, NEW targets \in Seq(T)
  PROVE  /\ Len(targets) \in Nat /\ DOMAIN targets = 1..Len(targets)
         /\ IsFiniteSet(DOMAIN targets) /\ Cardinality(DOMAIN targets) = Len(targets)
         /\ IsFiniteSet(ToSet(targets)) /\ ToSet(targets) \subseteq T
         /\ \A i \in DOMAIN targets : i \in Nat /\ targets[i] \in ToSet(targets)
<1>1. Len(targets) \in Nat /\ DOMAIN targets = 1..Len(targets)
  BY LenProperties
<1>2. IsFiniteSet(DOMAIN targets) /\ Cardinality(DOMAIN targets) = Len(targets)
  BY <1>1, FS_Interval
<1>3. targets \in Surjection(DOMAIN targets, ToSet(targets))
  BY DEF Surjection, ToSet
<1>4. IsFiniteSet(ToSet(targets))
  BY <1>2, <1>3, FS_Surjection
<1>5. QED
  BY <1>1, <1>2, <1>4 DEF ToSet

\* Each number of later rows, below the size of the class, belongs to exactly one of its rows.
LEMMA LaterIs ==
  ASSUME NEW T, NEW targets \in Seq(T), NEW c \in ToSet(targets)
  PROVE  LET S == ClassRows(targets, c)
             size == Cardinality(S)
         IN  /\ IsFiniteSet(S) /\ size \in Nat \ {0} /\ S \subseteq DOMAIN targets
             /\ \A i \in S : targets[i] = c /\ Cardinality(Later(targets, i)) \in 0..(size - 1)
             /\ \A i, j \in S : Cardinality(Later(targets, i)) = Cardinality(Later(targets, j)) => i = j
             /\ \A m \in 0..(size - 1) : \E i \in S : Cardinality(Later(targets, i)) = m
<1> DEFINE S == ClassRows(targets, c)
           before == [i \in S |-> {j \in S : j > i}]
<1>1. S \subseteq DOMAIN targets /\ S \subseteq Nat /\ \A i \in S : targets[i] = c
  BY RowsFinite DEF ClassRows
<1>2. IsFiniteSet(S) /\ Cardinality(S) \in Nat
  BY <1>1, RowsFinite, FS_Subset, FS_CardinalityType
<1>3. S # {}
  BY DEF ClassRows, ToSet
<1>4. Cardinality(S) # 0
  BY <1>2, <1>3, FS_EmptySet
<1> HIDE DEF S
<1>5. IsOrder(before)
  BY <1>1, <1>2 DEF IsOrder
<1>6. DOMAIN before = S /\ \A i \in S : before[i] = Later(targets, i)
  BY <1>1 DEF Later, S
<1> HIDE DEF before
<1>7. /\ \A i \in S : Cardinality(before[i]) \in 0..(Cardinality(S) - 1)
      /\ \A i, j \in S : Cardinality(before[i]) = Cardinality(before[j]) => i = j
      /\ \A m \in 0..(Cardinality(S) - 1) : \E i \in S : Cardinality(before[i]) = m
  BY <1>5, <1>6, Places
<1>8. QED
  BY <1>1, <1>2, <1>4, <1>6, <1>7 DEF S

\* Every class keeps a row for training.
LeaveOne(targets, counts) ==
  /\ counts \in [ToSet(targets) -> Nat]
  /\ \A c \in ToSet(targets) : counts[c] < Cardinality(ClassRows(targets, c))

LEMMA LastAre ==
  ASSUME NEW T, NEW targets \in Seq(T), NEW counts
  PROVE  /\ LastOfClasses(targets, counts) =
              {i \in DOMAIN targets : Cardinality(Later(targets, i)) < counts[targets[i]]}
         /\ IsFiniteSet(LastOfClasses(targets, counts)) /\ Cardinality(LastOfClasses(targets, counts)) \in Nat
<1>1. LastOfClasses(targets, counts) = {i \in DOMAIN targets : Cardinality(Later(targets, i)) < counts[targets[i]]}
  BY DEF LastOfClasses, Later
<1>2. LastOfClasses(targets, counts) \in SUBSET DOMAIN targets
  BY <1>1
<1>3. QED
  BY <1>1, <1>2, RowsFinite, FS_Subset, FS_CardinalityType

\* One more row for a class that can spare it is one more validation row.
LEMMA OneMoreRow ==
  ASSUME NEW T, NEW targets \in Seq(T), NEW counts, LeaveOne(targets, counts), NEW c \in CanSpare(targets, counts)
  PROVE  LET more == [counts EXCEPT ![c] = @ + 1]
         IN  /\ LeaveOne(targets, more)
             /\ Cardinality(LastOfClasses(targets, more)) = Cardinality(LastOfClasses(targets, counts)) + 1
<1> DEFINE more == [counts EXCEPT ![c] = @ + 1]
           S == ClassRows(targets, c)
           old == LastOfClasses(targets, counts)
           new == LastOfClasses(targets, more)
<1>1. /\ c \in ToSet(targets) /\ counts[c] \in Nat /\ counts[c] < Cardinality(S) - 1
      /\ \A d \in ToSet(targets) : counts[d] \in Nat /\ counts[d] < Cardinality(ClassRows(targets, d))
  BY DEF CanSpare, LeaveOne
<1>2. /\ more \in [ToSet(targets) -> Nat] /\ more[c] = counts[c] + 1
      /\ \A d \in ToSet(targets) : d # c => more[d] = counts[d]
  BY <1>1 DEF LeaveOne
<1> HIDE DEF more
<1>3. LeaveOne(targets, more)
  <2>1. Cardinality(S) \in Nat
    BY <1>1, LaterIs
  <2>2. more[c] < Cardinality(S)
    BY <1>1, <1>2, <2>1
  <2>3. QED
    BY <1>1, <1>2, <2>2 DEF LeaveOne
<1>4. PICK x \in S : Cardinality(Later(targets, x)) = counts[c]
  <2>1. Cardinality(S) \in Nat
    BY <1>1, LaterIs
  <2>2. counts[c] \in 0..(Cardinality(S) - 1)
    BY <1>1, <2>1
  <2>3. QED
    BY <1>1, <2>2, LaterIs
<1>5. x \in DOMAIN targets /\ targets[x] = c
  BY DEF ClassRows
<1>6. x \notin old
  BY <1>1, <1>4, <1>5, LastAre
<1>7. new = old \cup {x}
  <2>1. ASSUME NEW i \in DOMAIN targets, targets[i] # c
        PROVE  i \in new <=> i \in old
    <3>1. more[targets[i]] = counts[targets[i]]
      BY <1>2, <2>1, RowsFinite
    <3>2. QED
      BY <3>1, LastAre
  <2>2. ASSUME NEW i \in DOMAIN targets, targets[i] = c
        PROVE  i \in new <=> i \in old \/ i = x
    <3>1. i \in S /\ Cardinality(Later(targets, i)) \in Nat /\ Cardinality(S) \in Nat
      <4>1. i \in S
        BY <2>2 DEF ClassRows
      <4>2. Cardinality(S) \in Nat /\ Cardinality(Later(targets, i)) \in 0..(Cardinality(S) - 1)
        BY <1>1, <4>1, LaterIs
      <4>3. QED
        BY <4>1, <4>2
    <3>2. i \in new <=> Cardinality(Later(targets, i)) < counts[c] + 1
      BY <1>2, <2>2, LastAre
    <3>3. i \in old <=> Cardinality(Later(targets, i)) < counts[c]
      BY <2>2, LastAre
    <3>4. Cardinality(Later(targets, i)) = counts[c] <=> i = x
      BY <1>1, <1>4, <3>1, LaterIs
    <3>5. QED
      BY <1>1, <3>1, <3>2, <3>3, <3>4
  <2>3. new \subseteq DOMAIN targets /\ old \subseteq DOMAIN targets
    BY LastAre
  <2> HIDE DEF new, old
  <2>4. QED
    BY <1>5, <2>1, <2>2, <2>3
<1>8. IsFiniteSet(old)
  BY LastAre
<1>9. Cardinality(new) = Cardinality(old) + 1
  BY <1>6, <1>7, <1>8, FS_AddElement
<1>10. QED
  BY <1>3, <1>9 DEF more

\* While validation rows are missing there is a class that can spare one.
LEMMA SomeCanSpare ==
  ASSUME NEW T, NEW targets \in Seq(T), NEW counts, LeaveOne(targets, counts),
         Cardinality(LastOfClasses(targets, counts)) < Len(targets) - Cardinality(ToSet(targets))
  PROVE  CanSpare(targets, counts) # {}
<1> SUFFICES ASSUME CanSpare(targets, counts) = {}
             PROVE  FALSE
  OBVIOUS
<1> DEFINE rows == DOMAIN targets
           val == LastOfClasses(targets, counts)
           kept == rows \ val
           class == [i \in kept |-> targets[i]]
<1>1. /\ IsFiniteSet(rows) /\ Cardinality(rows) = Len(targets) /\ Len(targets) \in Nat
      /\ val \subseteq rows /\ IsFiniteSet(val) /\ Cardinality(val) \in Nat
      /\ IsFiniteSet(ToSet(targets))
  BY RowsFinite, LastAre
<1>2. \A c \in ToSet(targets) : counts[c] = Cardinality(ClassRows(targets, c)) - 1
  <2> SUFFICES ASSUME NEW c \in ToSet(targets)
               PROVE  counts[c] = Cardinality(ClassRows(targets, c)) - 1
    OBVIOUS
  <2>1. Cardinality(ClassRows(targets, c)) \in Nat
    BY LaterIs
  <2>2. counts[c] \in Nat /\ counts[c] < Cardinality(ClassRows(targets, c)) /\ DOMAIN counts = ToSet(targets)
    BY DEF LeaveOne
  <2>3. ~ (counts[c] < Cardinality(ClassRows(targets, c)) - 1)
    BY <2>2 DEF CanSpare
  <2>4. QED
    BY <2>1, <2>2, <2>3
<1>3. ASSUME NEW i \in rows
      PROVE  /\ targets[i] \in ToSet(targets) /\ i \in ClassRows(targets, targets[i])
             /\ i \in kept <=> Cardinality(Later(targets, i)) = counts[targets[i]]
  <2>1. targets[i] \in ToSet(targets) /\ i \in ClassRows(targets, targets[i])
    BY RowsFinite DEF ClassRows
  <2>2. /\ Cardinality(ClassRows(targets, targets[i])) \in Nat
        /\ Cardinality(Later(targets, i)) \in 0..(Cardinality(ClassRows(targets, targets[i])) - 1)
    BY <2>1, LaterIs
  <2>3. i \in val <=> Cardinality(Later(targets, i)) < counts[targets[i]]
    BY LastAre
  <2>4. QED
    BY <1>2, <2>1, <2>2, <2>3
<1>4. class \in Injection(kept, ToSet(targets))
  <2>1. class \in [kept -> ToSet(targets)]
    BY <1>3
  <2>2. ASSUME NEW i \in kept, NEW j \in kept, targets[i] = targets[j]
        PROVE  i = j
    <3>1. i \in ClassRows(targets, targets[i]) /\ j \in ClassRows(targets, targets[i])
      BY <1>3, <2>2
    <3>2. Cardinality(Later(targets, i)) = Cardinality(Later(targets, j))
      BY <1>3, <2>2
    <3>3. QED
      BY <1>3, <3>1, <3>2, LaterIs
  <2>3. QED
    BY <2>1, <2>2 DEF Injection, IsInjective
<1>5. class \in Surjection(kept, ToSet(targets))
  <2>1. ASSUME NEW c \in ToSet(targets)
        PROVE  \E i \in kept : targets[i] = c
    <3>1. Cardinality(ClassRows(targets, c)) \in Nat \ {0}
      BY LaterIs
    <3>2. counts[c] \in 0..(Cardinality(ClassRows(targets, c)) - 1)
      BY <1>2, <3>1
    <3>3. PICK i \in ClassRows(targets, c) : Cardinality(Later(targets, i)) = counts[c]
      BY <3>2, LaterIs
    <3>4. i \in rows /\ targets[i] = c
      BY DEF ClassRows
    <3>5. QED
      BY <1>3, <3>3, <3>4
  <2>2. QED
    BY <1>4, <2>1 DEF Injection, Surjection
<1>6. IsFiniteSet(kept) /\ Cardinality(kept) = Len(targets) - Cardinality(val)
  <2>1. kept \cup val = rows /\ kept \cap val = {}
    BY <1>1
  <2>2. IsFiniteSet(kept)
    BY <1>1, FS_Subset
  <2>3. Cardinality(rows) = Cardinality(kept) + Cardinality(val) - 0 /\ Cardinality(kept) \in Nat
    BY <1>1, <2>1, <2>2, FS_Union, FS_EmptySet, FS_CardinalityType
  <2>4. QED
    BY <1>1, <2>2, <2>3
<1>7. Cardinality(kept) = Cardinality(ToSet(targets))
  BY <1>1, <1>4, <1>5, FS_Injection
<1>8. QED
  BY <1>1, <1>6, <1>7

\* There is a least element of some numbers.
LEMMA SomeLeast ==
  ASSUME NEW S, S # {}, NEW f, \A c \in S : f[c] \in Nat
  PROVE  \E c \in S : \A d \in S : f[c] =< f[d]
<1> DEFINE values == {f[c] : c \in S}
<1>1. values # {} /\ values \subseteq Nat
  OBVIOUS
<1>2. PICK v \in values : \A w \in values : ~ (<<w, v>> \in OpToRel(<, Nat))
  BY <1>1, WFMin, NatLessThanWellFounded
<1>3. PICK c \in S : f[c] = v
  OBVIOUS
<1>4. ASSUME NEW d \in S
      PROVE  f[c] =< f[d]
  <2>1. f[d] \in values /\ f[d] \in Nat /\ v \in Nat
    BY <1>1
  <2>2. ~ (f[d] < v)
    BY <1>2, <2>1 DEF OpToRel
  <2>3. QED
    BY <1>3, <2>1, <2>2
<1>5. QED
  BY <1>4

\* The class that the next validation row is taken from can spare it.
LEMMA NeediestIs ==
  ASSUME NEW targets \in Seq(Nat), NEW tenths \in 0..9, NEW counts, LeaveOne(targets, counts), CanSpare(targets, counts) # {}
  PROVE  Neediest(targets, tenths, counts) \in CanSpare(targets, counts)
<1> DEFINE spare == CanSpare(targets, counts)
           lack == [c \in spare |-> Deficit(targets, tenths, counts, c)]
           n == Len(targets)
<1>1. n \in Nat /\ spare \subseteq ToSet(targets) /\ ToSet(targets) \subseteq Nat
  BY RowsFinite DEF CanSpare, LeaveOne
<1>2. ASSUME NEW c \in spare
      PROVE  lack[c] \in Int /\ lack[c] <= 10 * n
  <2>1. Cardinality(ClassRows(targets, c)) \in Nat /\ Cardinality(ClassRows(targets, c)) <= n
    <3>1. ClassRows(targets, c) \in SUBSET DOMAIN targets
      BY DEF ClassRows
    <3>2. QED
      BY <1>1, <3>1, RowsFinite, FS_Subset, FS_CardinalityType
  <2>2. counts[c] \in Nat
    BY <1>1 DEF LeaveOne
  <2>3. ASSUME NEW s \in Nat, NEW k \in Nat, s <= n
        PROVE  s * tenths - 10 * k \in Int /\ s * tenths - 10 * k <= 10 * n
    <3>1. tenths = 0 \/ tenths = 1 \/ tenths = 2 \/ tenths = 3 \/ tenths = 4 \/ tenths = 5 \/ tenths = 6 \/ tenths = 7 \/ tenths = 8 \/ tenths = 9
      OBVIOUS
    <3>2. QED
      BY <1>1, <2>3, <3>1
  <2>4. lack[c] = Cardinality(ClassRows(targets, c)) * tenths - 10 * counts[c]
    BY DEF Deficit
  <2>5. QED
    BY <2>1, <2>2, <2>3, <2>4
<1> HIDE DEF lack, n, spare
<1> DEFINE room == [c \in spare |-> 10 * n - lack[c]]
<1>3. \A c \in spare : room[c] \in Nat
  BY <1>1, <1>2
<1>4. PICK a \in spare : \A d \in spare : room[a] =< room[d]
  <2>1. spare # {}
    BY DEF spare
  <2> HIDE DEF room
  <2>2. QED
    BY <1>3, <2>1, SomeLeast
<1>5. \A d \in spare : lack[a] >= lack[d]
  BY <1>1, <1>2, <1>4
<1> DEFINE most == {c \in spare : lack[c] = lack[a]}
           name == [c \in most |-> c]
<1>6. PICK c \in most : \A d \in most : name[c] =< name[d]
  <2>1. most # {} /\ \A d \in most : name[d] \in Nat
    BY <1>1
  <2> HIDE DEF name
  <2>2. QED
    BY <2>1, SomeLeast
<1>7. c \in spare /\ \A d \in spare : lack[c] > lack[d] \/ (lack[c] = lack[d] /\ c =< d)
  BY <1>2, <1>5, <1>6
<1>8. \A d \in spare : lack[d] = Deficit(targets, tenths, counts, d)
  BY DEF lack
<1>9. \A d \in spare : \/ Deficit(targets, tenths, counts, c) > Deficit(targets, tenths, counts, d)
                       \/ Deficit(targets, tenths, counts, c) = Deficit(targets, tenths, counts, d) /\ c =< d
  BY <1>7, <1>8
<1>10. QED
  BY <1>7, <1>9 DEF Neediest, spare

\* One validation row for each class that is covered.
FirstCounts(targets, first) == [c \in ToSet(targets) |-> IF c \in first THEN 1 ELSE 0]
LEMMA FirstRows ==
  ASSUME NEW T, NEW targets \in Seq(T), NEW total \in Nat
  PROVE  LET first  == Covered(targets, total)
             counts == FirstCounts(targets, first)
         IN  /\ first \subseteq ToSet(targets) /\ Cardinality(first) \in 0..total
             /\ LeaveOne(targets, counts)
             /\ Cardinality(LastOfClasses(targets, counts)) = Cardinality(first)
<1> DEFINE first == Covered(targets, total)
           counts == FirstCounts(targets, first)
           val == LastOfClasses(targets, counts)
           class == [i \in val |-> targets[i]]
<1>1. /\ first \subseteq ToSet(targets) /\ IsFiniteSet(first) /\ Cardinality(first) \in 0..total
      /\ \A c \in first : Cardinality(ClassRows(targets, c)) > 1
  <2> DEFINE eligible == {c \in ToSet(targets) : Cardinality(ClassRows(targets, c)) > 1}
  <2>1. IsFiniteSet(eligible) /\ Cardinality(eligible) \in Nat
    BY RowsFinite, FS_Subset, FS_CardinalityType
  <2>2. first = IF total >= Cardinality(eligible) THEN eligible ELSE {}
    BY DEF Covered
  <2>3. CASE total >= Cardinality(eligible)
    <3>1. first = eligible
      BY <2>2, <2>3
    <3>2. Cardinality(first) \in 0..total
      BY <2>1, <2>3, <3>1
    <3>3. QED
      BY <2>1, <3>1, <3>2
  <2>4. CASE ~ (total >= Cardinality(eligible))
    <3>1. first = {}
      BY <2>2, <2>4
    <3>2. IsFiniteSet(first) /\ Cardinality(first) = 0
      BY <3>1, FS_EmptySet
    <3>3. QED
      BY <3>1, <3>2
  <2>5. QED
    BY <2>3, <2>4
<1> HIDE DEF first
<1>2. /\ counts \in [ToSet(targets) -> Nat]
      /\ \A c \in ToSet(targets) : counts[c] = IF c \in first THEN 1 ELSE 0
  BY DEF FirstCounts
<1> HIDE DEF counts
<1>3. \A c \in ToSet(targets) : Cardinality(ClassRows(targets, c)) \in Nat \ {0}
  BY LaterIs
<1>4. LeaveOne(targets, counts)
  <2>1. ASSUME NEW c \in ToSet(targets)
        PROVE  counts[c] < Cardinality(ClassRows(targets, c))
    BY <1>1, <1>2, <1>3
  <2>2. QED
    BY <1>2, <2>1 DEF LeaveOne
<1>5. ASSUME NEW i \in DOMAIN targets
      PROVE  /\ targets[i] \in ToSet(targets) /\ i \in ClassRows(targets, targets[i])
             /\ i \in val <=> targets[i] \in first /\ Cardinality(Later(targets, i)) = 0
  <2>1. targets[i] \in ToSet(targets) /\ i \in ClassRows(targets, targets[i])
    BY RowsFinite DEF ClassRows
  <2>2. Cardinality(Later(targets, i)) \in Nat
    <3>1. Cardinality(ClassRows(targets, targets[i])) \in Nat
      BY <2>1, LaterIs
    <3>2. Cardinality(Later(targets, i)) \in 0..(Cardinality(ClassRows(targets, targets[i])) - 1)
      BY <2>1, LaterIs
    <3>3. QED
      BY <3>1, <3>2
  <2>3. i \in val <=> Cardinality(Later(targets, i)) < counts[targets[i]]
    BY LastAre
  <2>4. QED
    BY <1>2, <2>1, <2>2, <2>3
<1>6. val \subseteq DOMAIN targets /\ IsFiniteSet(val)
  BY LastAre
<1> HIDE DEF val
<1>7. class \in Injection(val, first)
  <2>1. class \in [val -> first]
    BY <1>5, <1>6
  <2>2. ASSUME NEW i \in val, NEW j \in val, targets[i] = targets[j]
        PROVE  i = j
    <3>1. targets[i] \in ToSet(targets) /\ i \in ClassRows(targets, targets[i]) /\ j \in ClassRows(targets, targets[i])
      BY <1>5, <1>6, <2>2
    <3>2. Cardinality(Later(targets, i)) = Cardinality(Later(targets, j))
      BY <1>5, <1>6
    <3>3. QED
      BY <3>1, <3>2, LaterIs
  <2>3. QED
    BY <2>1, <2>2 DEF Injection, IsInjective
<1>8. class \in Surjection(val, first)
  <2>1. ASSUME NEW c \in first
        PROVE  \E i \in val : targets[i] = c
    <3>1. c \in ToSet(targets) /\ 0 \in 0..(Cardinality(ClassRows(targets, c)) - 1)
      BY <1>1, <1>3
    <3>2. PICK i \in ClassRows(targets, c) : Cardinality(Later(targets, i)) = 0
      BY <3>1, LaterIs
    <3>3. i \in DOMAIN targets /\ targets[i] = c
      BY DEF ClassRows
    <3>4. QED
      BY <1>5, <3>2, <3>3
  <2>2. QED
    BY <1>7, <2>1 DEF Injection, Surjection
<1>9. Cardinality(val) = Cardinality(first)
  BY <1>1, <1>7, <1>8, FS_Injection
<1>10. QED
  BY <1>1, <1>4, <1>9 DEF first, counts, val

\* The counts after each row that is given to a class.
IsGiven(given, targets, tenths, first, more) ==
  given = [k \in 0..more |->
             IF k = 0 THEN FirstCounts(targets, first)
             ELSE [given[k - 1] EXCEPT ![Neediest(targets, tenths, given[k - 1])] = @ + 1]]

LEMMA GivenExists ==
  ASSUME NEW targets, NEW tenths, NEW first, NEW more \in Nat
  PROVE  \E given : IsGiven(given, targets, tenths, first, more)
<1> DEFINE Next1(counts) == [counts EXCEPT ![Neediest(targets, tenths, counts)] = @ + 1]
           Reached == {m \in Nat : \E given : IsGiven(given, targets, tenths, first, m)}
<1>1. 0 \in Reached
  <2>1. IsGiven([k \in 0..0 |-> FirstCounts(targets, first)], targets, tenths, first, 0)
    BY DEF IsGiven
  <2>2. QED
    BY <2>1
<1>2. ASSUME NEW m \in Nat, m \in Reached
      PROVE  m + 1 \in Reached
  <2>1. PICK given : IsGiven(given, targets, tenths, first, m)
    BY <1>2
  <2> DEFINE longer == [k \in 0..(m + 1) |-> IF k \in 0..m THEN given[k] ELSE Next1(given[m])]
  <2>2. \A k \in 0..m : given[k] = IF k = 0 THEN FirstCounts(targets, first) ELSE Next1(given[k - 1])
    BY <2>1 DEF IsGiven
  <2> HIDE DEF Next1
  <2>3. ASSUME NEW k \in 0..(m + 1)
        PROVE  longer[k] = IF k = 0 THEN FirstCounts(targets, first) ELSE Next1(longer[k - 1])
    <3>1. CASE k \in 0..m
      <4>1. longer[k] = given[k] /\ (k # 0 => longer[k - 1] = given[k - 1])
        BY <3>1
      <4>2. QED
        BY <2>2, <3>1, <4>1
    <3>2. CASE k \notin 0..m
      <4>1. k = m + 1 /\ k # 0 /\ k - 1 = m
        BY <3>2
      <4>2. longer[k] = Next1(given[m]) /\ longer[m] = given[m]
        BY <3>2, <4>1
      <4>3. QED
        BY <4>1, <4>2
    <3>3. QED
      BY <3>1, <3>2
  <2>4. longer = [k \in 0..(m + 1) |-> longer[k]]
    OBVIOUS
  <2> HIDE DEF longer
  <2>5. longer = [k \in 0..(m + 1) |-> IF k = 0 THEN FirstCounts(targets, first) ELSE Next1(longer[k - 1])]
    BY <2>3, <2>4, Zenon
  <2>6. IsGiven(longer, targets, tenths, first, m + 1)
    BY <2>5 DEF IsGiven, Next1
  <2>7. QED
    BY <2>6
<1> HIDE DEF Reached
<1>3. more \in Reached
  BY <1>1, <1>2, Induction
<1>4. QED
  BY <1>3 DEF Reached

\* All validation rows are found a class, and none takes the last row of one.
LEMMA ApportionIs ==
  ASSUME NEW targets \in Seq(Nat), NEW tenths \in 0..9, NEW total \in Nat,
         total <= Len(targets) - Cardinality(ToSet(targets))
  PROVE  LET counts == Apportion(targets, tenths, total)
         IN  /\ LeaveOne(targets, counts)
             /\ Cardinality(LastOfClasses(targets, counts)) = total
             /\ \A c \in Covered(targets, total) : counts[c] > 0
<1> DEFINE first == Covered(targets, total)
           more == total - Cardinality(first)
<1>1. /\ first \subseteq ToSet(targets) /\ Cardinality(first) \in 0..total
      /\ LeaveOne(targets, FirstCounts(targets, first))
      /\ Cardinality(LastOfClasses(targets, FirstCounts(targets, first))) = Cardinality(first)
      /\ \A c \in first : FirstCounts(targets, first)[c] = 1
  BY FirstRows DEF FirstCounts
<1>2. more \in Nat /\ Cardinality(first) + more = total /\ Cardinality(first) \in Nat
  BY <1>1
<1> HIDE DEF first, more
<1>3. \E given : IsGiven(given, targets, tenths, first, more)
  BY <1>2, GivenExists
<1>4. PICK given : IsGiven(given, targets, tenths, first, more) /\ Apportion(targets, tenths, total) = given[more]
  BY <1>3 DEF Apportion, IsGiven, FirstCounts, first, more
<1>5. /\ given[0] = FirstCounts(targets, first)
      /\ \A k \in 1..more : given[k] = [given[k - 1] EXCEPT ![Neediest(targets, tenths, given[k - 1])] = @ + 1]
  <2>1. \A k \in 0..more : given[k] = IF k = 0 THEN FirstCounts(targets, first)
                                      ELSE [given[k - 1] EXCEPT ![Neediest(targets, tenths, given[k - 1])] = @ + 1]
    BY <1>4 DEF IsGiven
  <2>2. 0 \in 0..more /\ \A k \in 1..more : k \in 0..more /\ k # 0
    BY <1>2
  <2>3. QED
    BY <2>1, <2>2
<1> DEFINE Sound(k) == /\ LeaveOne(targets, given[k])
                       /\ Cardinality(LastOfClasses(targets, given[k])) = Cardinality(first) + k
                       /\ \A c \in first : given[k][c] > 0
           Reached == {k \in Nat : k <= more => Sound(k)}
<1>6. 0 \in Reached
  BY <1>1, <1>2, <1>5
<1>7. ASSUME NEW k \in Nat, k \in Reached, k + 1 <= more
      PROVE  Sound(k + 1)
  <2> DEFINE counts == given[k]
             c == Neediest(targets, tenths, counts)
  <2>1. Sound(k)
    BY <1>2, <1>7
  <2>2. given[k + 1] = [counts EXCEPT ![c] = @ + 1]
    <3>1. k + 1 \in 1..more /\ k + 1 - 1 = k
      BY <1>2, <1>7
    <3>2. QED
      BY <1>5, <3>1
  <2>3. Cardinality(LastOfClasses(targets, counts)) < Len(targets) - Cardinality(ToSet(targets))
    <3>1. Cardinality(LastOfClasses(targets, counts)) = Cardinality(first) + k
      BY <2>1
    <3>2. Len(targets) \in Nat /\ Cardinality(ToSet(targets)) \in Nat
      BY RowsFinite, FS_CardinalityType
    <3>3. Cardinality(first) + k < total
      BY <1>2, <1>7
    <3>4. QED
      BY <1>2, <3>1, <3>2, <3>3
  <2>4. c \in CanSpare(targets, counts)
    BY <2>1, <2>3, SomeCanSpare, NeediestIs
  <2>9. LeaveOne(targets, counts)
    BY <2>1
  <2> HIDE DEF c, counts
  <2>5. /\ LeaveOne(targets, given[k + 1])
        /\ Cardinality(LastOfClasses(targets, given[k + 1])) = Cardinality(LastOfClasses(targets, counts)) + 1
    <3>1. LET next == [counts EXCEPT ![c] = @ + 1]
          IN  /\ LeaveOne(targets, next)
              /\ Cardinality(LastOfClasses(targets, next)) = Cardinality(LastOfClasses(targets, counts)) + 1
      BY <2>4, <2>9, OneMoreRow
    <3>2. QED
      BY <2>2, <3>1
  <2>6. Cardinality(LastOfClasses(targets, given[k + 1])) = Cardinality(first) + (k + 1)
    BY <1>2, <2>1, <2>5 DEF counts
  <2>7. ASSUME NEW d \in first
        PROVE  given[k + 1][d] > 0
    <3>1. counts \in [ToSet(targets) -> Nat] /\ d \in ToSet(targets) /\ counts[d] \in Nat /\ counts[d] > 0
      BY <1>1, <2>1 DEF LeaveOne, counts
    <3>2. given[k + 1][d] = counts[d] \/ given[k + 1][d] = counts[d] + 1
      BY <2>2, <3>1
    <3>3. QED
      BY <3>1, <3>2
  <2>8. QED
    BY <2>5, <2>6, <2>7
<1> HIDE DEF Sound
<1>8. \A k \in Nat : k \in Reached => k + 1 \in Reached
  BY <1>2, <1>7
<1> HIDE DEF Reached
<1>9. Nat \subseteq Reached
  BY <1>6, <1>8, Induction
<1>10. Sound(more)
  BY <1>2, <1>9 DEF Reached
<1>11. QED
  BY <1>2, <1>4, <1>10 DEF Sound, first

\* What is asked of a split of n rows with these targets and times.
SoundSplit(p, targets, time, tenths, strategy, byTime) ==
  LET all      == p.train \o p.val
      In(part, c) == {i \in ToSet(part) : targets[i] = c}
      classes  == ToSet(targets)
      eligible == {c \in classes : Cardinality(In(all, c)) > 1}
  IN  /\ IsInjective(all) /\ ToSet(all) = DOMAIN targets
      /\ Len(p.val) = ValidationRows(Len(all), tenths)
      /\ strategy = "stratified" /\ p.val # <<>> =>
           /\ \A c \in classes : In(p.train, c) # {}
           /\ Len(p.val) >= Cardinality(eligible) => \A c \in eligible : In(p.val, c) # {}
      /\ byTime /\ p.val # <<>> => \A i \in ToSet(p.train), j \in ToSet(p.val) : time[i] < time[j]

\* A stratified split.
LEMMA StratifiedIs ==
  ASSUME NEW targets \in Seq(Nat), NEW tenths \in 0..9, NEW time,
         LET p == Stratify(targets, tenths, ValidationRows(Len(targets), tenths))
         IN  p.ok
  PROVE  LET p == Stratify(targets, tenths, ValidationRows(Len(targets), tenths))
         IN  SoundSplit(p, targets, time, tenths, "stratified", FALSE)
<1> DEFINE n == Len(targets)
           total == ValidationRows(n, tenths)
           counts == Apportion(targets, tenths, total)
           rows == DOMAIN targets
           classes == ToSet(targets)
           val == LastOfClasses(targets, counts)
           p == Stratify(targets, tenths, total)
<1>1. /\ n \in Nat /\ rows = 1..n /\ IsFiniteSet(rows) /\ Cardinality(rows) = n /\ IsFiniteSet(classes)
      /\ \A i \in rows : i \in Nat /\ targets[i] \in classes
  BY RowsFinite
<1>2. total \in Nat
  <2>1. n * tenths \in Nat
    BY <1>1
  <2>2. QED
    BY <2>1 DEF ValidationRows
<1>3. total <= n - Cardinality(classes) /\ p = Parts(Ascending(rows \ val), Ascending(val))
  <2>1. Cardinality(classes) \in Nat
    BY <1>1, FS_CardinalityType
  <2>2. ~ (total > n - Cardinality(classes))
    BY DEF Stratify, Rejected
  <2>3. p = Parts(Ascending(rows \ val), Ascending(val))
    BY <2>2 DEF Stratify
  <2>4. QED
    BY <1>1, <1>2, <2>1, <2>2, <2>3
<1> HIDE DEF total
<1>4. LeaveOne(targets, counts) /\ Cardinality(val) = total /\ \A c \in Covered(targets, total) : counts[c] > 0
  BY <1>2, <1>3, ApportionIs
<1>5. val \in SUBSET rows /\ IsFiniteSet(val) /\ rows \ val \in SUBSET rows /\ IsFiniteSet(rows \ val)
  BY <1>1, LastAre, FS_Subset
<1>6. /\ p.train \in Seq(rows) /\ IsInjective(p.train) /\ ToSet(p.train) = rows \ val
      /\ p.val \in Seq(rows) /\ IsInjective(p.val) /\ ToSet(p.val) = val /\ Len(p.val) = total
  <2>1. p.train = Ascending(rows \ val) /\ p.val = Ascending(val)
    BY <1>3 DEF Parts
  <2>2. rows \ val \in SUBSET Nat /\ val \in SUBSET Nat
    BY <1>1, <1>5
  <2> HIDE DEF p, val, rows
  <2>3. /\ Ascending(rows \ val) \in Seq(rows \ val) /\ IsInjective(Ascending(rows \ val))
        /\ ToSet(Ascending(rows \ val)) = rows \ val
    BY <1>5, <2>2, AscendingIs
  <2>4. Ascending(val) \in Seq(val) /\ IsInjective(Ascending(val)) /\ ToSet(Ascending(val)) = val /\ Len(Ascending(val)) = total
    BY <1>4, <1>5, <2>2, AscendingIs
  <2>5. Seq(val) \subseteq Seq(rows) /\ Seq(rows \ val) \subseteq Seq(rows)
    BY <1>5
  <2>6. QED
    BY <2>1, <2>3, <2>4, <2>5
<1> DEFINE all == p.train \o p.val
<1>7. IsInjective(all) /\ ToSet(all) = rows /\ Len(all) = n
  <2> HIDE DEF p, val, rows
  <2>1. ToSet(p.train) \cap ToSet(p.val) = {} /\ ToSet(p.train) \cup ToSet(p.val) = rows
    BY <1>5, <1>6
  <2>2. IsInjective(all) /\ ToSet(all) = rows
    <3>1. p.train \in Seq(rows) /\ p.val \in Seq(rows) /\ IsInjective(p.train) /\ IsInjective(p.val)
      BY <1>6
    <3>2. IsInjective(all) /\ ToSet(all) = ToSet(p.train) \cup ToSet(p.val)
      BY <2>1, <3>1, PutTogether
    <3>3. QED
      BY <2>1, <3>2
  <2>3. all \in Seq(rows)
    BY <1>6, ConcatProperties
  <2>4. Len(all) = Cardinality(ToSet(all))
    <3>1. Len(all) \in Nat /\ DOMAIN all = 1..Len(all)
      BY <2>3, LenProperties
    <3> HIDE DEF all
    <3>2. all \in Bijection(1..Len(all), ToSet(all))
      <4>1. all \in [1..Len(all) -> ToSet(all)]
        BY <2>3, <3>1 DEF ToSet
      <4>2. \A x \in ToSet(all) : \E i \in 1..Len(all) : all[i] = x
        BY <3>1 DEF ToSet
      <4>3. QED
        BY <2>2, <4>1, <4>2 DEF Bijection, Injection, Surjection
    <3>3. ExistsBijection(1..Len(all), ToSet(all))
      BY <3>2 DEF ExistsBijection
    <3>4. QED
      BY <3>1, <3>3, FS_CountingElements
  <2>5. QED
    BY <1>1, <2>2, <2>4
<1>8. \A c : {i \in ToSet(all) : targets[i] = c} = ClassRows(targets, c)
  BY <1>7 DEF ClassRows
<1>9. ASSUME NEW c \in classes
      PROVE  /\ \E i \in rows \ val : targets[i] = c
             /\ counts[c] > 0 => \E i \in val : targets[i] = c
  <2> DEFINE size == Cardinality(ClassRows(targets, c))
  <2>1. size \in Nat \ {0} /\ counts[c] \in Nat /\ counts[c] < size
    BY <1>4, LaterIs DEF LeaveOne
  <2>2. \A m \in 0..(size - 1) : \E i \in ClassRows(targets, c) : Cardinality(Later(targets, i)) = m
    BY LaterIs
  <2> HIDE DEF size
  <2>3. PICK i \in ClassRows(targets, c) : Cardinality(Later(targets, i)) = size - 1
    BY <2>1, <2>2
  <2>4. PICK j \in ClassRows(targets, c) : Cardinality(Later(targets, j)) = 0
    BY <2>1, <2>2
  <2>5. i \in rows /\ targets[i] = c /\ j \in rows /\ targets[j] = c
    BY DEF ClassRows
  <2>6. i \notin val
    BY <2>1, <2>3, <2>5, LastAre
  <2>7. counts[c] > 0 => j \in val
    BY <2>1, <2>4, <2>5, LastAre
  <2>8. QED
    BY <2>5, <2>6, <2>7
<1>10. \A c \in classes : {i \in ToSet(p.train) : targets[i] = c} # {}
  BY <1>6, <1>9
<1> DEFINE eligible == {c \in classes : Cardinality({i \in ToSet(all) : targets[i] = c}) > 1}
<1>11. ASSUME Len(p.val) >= Cardinality(eligible), NEW c \in eligible
       PROVE  {i \in ToSet(p.val) : targets[i] = c} # {}
  <2>1. eligible = {d \in classes : Cardinality(ClassRows(targets, d)) > 1}
    BY <1>8
  <2>2. total >= Cardinality({d \in classes : Cardinality(ClassRows(targets, d)) > 1})
    BY <1>6, <1>11, <2>1
  <2>3. c \in Covered(targets, total)
    BY <2>1, <2>2 DEF Covered
  <2>4. QED
    BY <1>4, <1>6, <1>9, <2>3
<1>12. Len(p.val) = ValidationRows(Len(all), tenths)
  BY <1>6, <1>7 DEF total
<1>13. SoundSplit(p, targets, time, tenths, "stratified", FALSE)
  <2> HIDE DEF p
  <2>1. QED
    BY <1>7, <1>10, <1>11, <1>12 DEF SoundSplit
<1>14. QED
  BY <1>13 DEF total

\* A split of the rows in some order: the last of them validate.
IsCut(p, s, k) ==
  /\ \A i \in ToSet(p.train) : \E a \in 1..(Len(s) - k) : i = s[a]
  /\ \A j \in ToSet(p.val) : \E b \in (Len(s) - k + 1)..Len(s) : j = s[b]
LEMMA LastRowsAre ==
  ASSUME NEW T, NEW targets \in Seq(T), NEW tenths \in 0..9, NEW strategy \in {"sequential", "random"}, NEW time,
         NEW s \in Seq(DOMAIN targets), Len(s) = Len(targets), IsInjective(s),
         NEW k \in 0..Len(s), k = ValidationRows(Len(s), tenths)
  PROVE  SoundSplit(LastRows(s, k), targets, time, tenths, strategy, FALSE) /\ IsCut(LastRows(s, k), s, k)
<1> DEFINE p == LastRows(s, k)
           n == Len(s)
           m == n - k
<1>1. n \in Nat /\ DOMAIN targets = 1..n /\ DOMAIN s = 1..n /\ k \in Nat /\ m \in Nat /\ m + k = n
  <2>1. n \in Nat /\ DOMAIN s = 1..n /\ DOMAIN targets = 1..n
    BY LenProperties
  <2>2. QED
    BY <2>1
<1>2. /\ p.train \in Seq(DOMAIN targets) /\ p.val \in Seq(DOMAIN targets) /\ Len(p.train) = m /\ Len(p.val) = k
      /\ \A i \in 1..m : p.train[i] = s[i]
      /\ \A i \in 1..k : p.val[i] = s[m + i]
      /\ p.train \o p.val = s
  <2>1. AreParts(LastRows(s, k), DOMAIN targets, s, k)
    BY CutInTwo
  <2>2. QED
    BY <2>1 DEF AreParts
<1> HIDE DEF p
<1>3. ToSet(s) = DOMAIN targets
  BY <1>1, AllRows
<1>4. SoundSplit(p, targets, time, tenths, strategy, FALSE)
  BY <1>2, <1>3 DEF SoundSplit
<1> HIDE DEF n, m
<1>5. \A i \in ToSet(p.train) : \E a \in 1..m : i = s[a]
  <2>1. DOMAIN p.train = 1..m
    BY <1>2, LenProperties
  <2>2. QED
    BY <1>2, <2>1 DEF ToSet
<1>6. \A j \in ToSet(p.val) : \E b \in (m + 1)..n : j = s[b]
  <2>1. DOMAIN p.val = 1..k
    BY <1>2, LenProperties
  <2>2. \A i \in 1..k : m + i \in (m + 1)..n
    BY <1>1
  <2>3. \A i \in 1..k : \E b \in (m + 1)..n : p.val[i] = s[b]
    BY <1>2, <2>2
  <2>4. QED
    BY <2>1, <2>3 DEF ToSet
<1>7. QED
  BY <1>4, <1>5, <1>6 DEF IsCut, p, n, m

\* Rows by time, cut where the time changes.
ByTime(s, time) == \A a, b \in DOMAIN s : a < b => time[s[a]] =< time[s[b]]
LEMMA CutByTime ==
  ASSUME NEW R, NEW s \in Seq(R), NEW time, \A r \in R : time[r] \in Int, ByTime(s, time),
         NEW k \in 0..Len(s), StrictBoundary(LastRows(s, k), time)
  PROVE  \A a \in 1..(Len(s) - k), b \in (Len(s) - k + 1)..Len(s) : time[s[a]] < time[s[b]]
<1> DEFINE p == LastRows(s, k)
           n == Len(s)
           m == n - k
<1>1. n \in Nat /\ k \in Nat /\ m \in Nat /\ m + k = n
  <2>1. n \in Nat
    BY LenProperties
  <2>2. QED
    BY <2>1
<1>2. DOMAIN s = 1..n /\ \A i \in 1..n : time[s[i]] \in Int
  BY LenProperties
<1>3. \A i, j \in 1..n : i < j => time[s[i]] =< time[s[j]]
  BY <1>2 DEF ByTime
<1>4. /\ p.train \in Seq(R) /\ p.val \in Seq(R) /\ Len(p.train) = m /\ Len(p.val) = k
      /\ \A i \in 1..m : p.train[i] = s[i]
      /\ \A i \in 1..k : p.val[i] = s[m + i]
  <2>1. AreParts(LastRows(s, k), R, s, k)
    BY CutInTwo
  <2>2. QED
    BY <2>1 DEF AreParts
<1>5. StrictBoundary(p, time)
  OBVIOUS
<1> HIDE DEF p, m, n
<1> SUFFICES ASSUME NEW a \in 1..m, NEW b \in (m + 1)..n
             PROVE  time[s[a]] < time[s[b]]
  BY DEF m, n
<1>6. m \in 1..m /\ 1 \in 1..k /\ m \in 1..n /\ m + 1 \in 1..n /\ a \in 1..n /\ b \in 1..n
  BY <1>1
<1>7. time[s[m]] < time[s[m + 1]]
  <2>1. p.train # <<>> /\ p.val # <<>>
    <3>1. Len(<<>>) = 0
      OBVIOUS
    <3>2. m # 0 /\ k # 0
      BY <1>1, <1>6
    <3>3. Len(p.train) = m /\ Len(p.val) = k
      BY <1>4
    <3>4. QED
      BY <3>1, <3>2, <3>3
  <2>2. Last(p.train) = s[m] /\ Head(p.val) = s[m + 1]
    BY <1>4, <1>6, <2>1 DEF Last
  <2>3. QED
    BY <1>5, <2>1, <2>2 DEF StrictBoundary
<1>8. a < m \/ a = m
  BY <1>1
<1>9. m + 1 < b \/ m + 1 = b
  BY <1>1
<1>10. /\ time[s[a]] \in Int /\ time[s[m]] \in Int /\ time[s[m + 1]] \in Int /\ time[s[b]] \in Int
       /\ a < m => time[s[a]] =< time[s[m]]
       /\ m + 1 < b => time[s[m + 1]] =< time[s[b]]
  BY <1>2, <1>3, <1>6
<1>11. time[s[a]] =< time[s[m]]
  <2>1. CASE a = m
    BY <1>10, <2>1
  <2>2. CASE a < m
    BY <1>10, <2>2
  <2>3. QED
    BY <1>8, <2>1, <2>2
<1>12. time[s[m + 1]] =< time[s[b]]
  <2>1. CASE m + 1 = b
    BY <1>10, <2>1
  <2>2. CASE m + 1 < b
    BY <1>10, <2>2
  <2>3. QED
    BY <1>9, <2>1, <2>2
<1>13. QED
  BY <1>7, <1>10, <1>11, <1>12

\* Without a validation split there is nothing to ask but that all rows train.
LEMMA NoValidation ==
  ASSUME NEW T, NEW targets \in Seq(T), NEW strategy, NEW byTime, NEW time,
         NEW s \in Seq(DOMAIN targets), Len(s) = Len(targets), IsInjective(s)
  PROVE  SoundSplit(Parts(s, <<>>), targets, time, 0, strategy, byTime)
<1> DEFINE p == Parts(s, <<>>)
<1>1. p.train = s /\ p.val = <<>> /\ s \o <<>> = s /\ Len(<<>>) = 0
  BY ConcatEmptySeq DEF Parts
<1>2. Len(s) \in Nat /\ DOMAIN targets = 1..Len(s)
  BY LenProperties
<1>3. ToSet(s) = DOMAIN targets
  BY <1>2, AllRows
<1>4. ValidationRows(Len(s), 0) = 0
  <2>1. Len(s) * 0 = 0 /\ 0 \div 10 = 0
    BY <1>2
  <2>2. QED
    BY <2>1 DEF ValidationRows
<1> HIDE DEF p
<1>5. SoundSplit(p, targets, time, 0, strategy, byTime)
  BY <1>1, <1>3, <1>4 DEF SoundSplit
<1>6. QED
  BY <1>5 DEF p

\* What a strategy makes of the rows in a given order.
Selected(p, order, timed, tenths, strategy, targets) ==
  LET total == ValidationRows(Len(order), tenths)
  IN  /\ tenths \in 0..9 /\ (timed => strategy = "sequential")
      /\ strategy = "stratified" => \A i \in DOMAIN targets : IsLabel(targets[i])
      /\ \/ tenths = 0 /\ p = Parts(order, <<>>)
         \/ /\ tenths # 0 /\ total # 0 /\ ~ (total >= Len(order))
            /\ \/ strategy = "sequential" /\ p = LastRows(order, total)
               \/ strategy = "random" /\ \E o \in Shuffles(order) : p = LastRows(o, total)
               \/ strategy = "stratified" /\ p = Stratify(targets, tenths, total)
LEMMA SelectedAre ==
  ASSUME NEW order, NEW timed \in BOOLEAN, NEW tenths, NEW strategy \in {"sequential", "random", "stratified"}, NEW targets,
         NEW p \in SelectSplit(order, timed, tenths, strategy, targets), p.ok
  PROVE  Selected(p, order, timed, tenths, strategy, targets)
<1> DEFINE n == Len(order)
           total == ValidationRows(n, tenths)
           refused == \/ tenths \notin 0..9
                      \/ timed /\ strategy # "sequential"
                      \/ strategy = "stratified" /\ \E i \in DOMAIN targets : ~IsLabel(targets[i])
<1>1. p # Rejected
  BY DEF Rejected
<1> DEFINE chosen == CASE strategy = "sequential" -> {LastRows(order, total)}
                       [] strategy = "random" -> {LastRows(o, total) : o \in Shuffles(order)}
                       [] strategy = "stratified" -> {Stratify(targets, tenths, total)}
<1>2. p \in IF refused THEN {Rejected}
            ELSE IF tenths = 0 THEN {Parts(order, <<>>)}
            ELSE IF total = 0 \/ total >= n THEN {Rejected}
            ELSE chosen
  BY DEF SelectSplit
<1>3. /\ strategy = "sequential" => chosen = {LastRows(order, total)}
      /\ strategy = "random" => chosen = {LastRows(o, total) : o \in Shuffles(order)}
      /\ strategy = "stratified" => chosen = {Stratify(targets, tenths, total)}
  OBVIOUS
<1> HIDE DEF chosen
<1>4. ~ refused
  BY <1>1, <1>2
<1>5. \/ tenths = 0 /\ p = Parts(order, <<>>)
      \/ tenths # 0 /\ total # 0 /\ ~ (total >= n) /\ p \in chosen
  BY <1>1, <1>2, <1>4
<1> HIDE DEF total, n
<1>6. p \in chosen => \/ strategy = "sequential" /\ p = LastRows(order, total)
                      \/ strategy = "random" /\ \E o \in Shuffles(order) : p = LastRows(o, total)
                      \/ strategy = "stratified" /\ p = Stratify(targets, tenths, total)
  BY <1>3
<1>7. QED
  BY <1>4, <1>5, <1>6 DEF Selected, total, n

\* Whatever split a training gets is sound.
LEMMA TableSplitIs ==
  ASSUME NEW cmd, TypedTraining(cmd),
         NEW p \in TableSplits(cmd.table, cmd.config.tenths, cmd.config.strategy, cmd.config.byTime), p.ok
  PROVE  SoundSplit(p, cmd.table.targets, cmd.table.time, cmd.config.tenths, cmd.config.strategy, cmd.config.byTime)
<1> DEFINE targets == cmd.table.targets
           time == cmd.table.time
           tenths == cmd.config.tenths
           strategy == cmd.config.strategy
           byTime == cmd.config.byTime
           n == Len(targets)
           timed == byTime /\ tenths > 0
           order == IF timed THEN RowsByTime(time) ELSE [i \in 1..n |-> i]
           total == ValidationRows(n, tenths)
<1>1. /\ targets \in Seq(Nat \cup {Null, Half}) /\ time \in Seq(Int \cup {Null}) /\ Len(time) = n
      /\ strategy \in {"sequential", "random", "stratified"} /\ byTime \in BOOLEAN
  BY DEF TypedTraining
<1>2. /\ byTime => strategy = "sequential"
      /\ timed => Null \notin ToSet(time) /\ StrictBoundary(p, time)
      /\ p \in SelectSplit(order, timed, tenths, strategy, targets)
  <2>1. p # Rejected
    BY DEF Rejected
  <2>2. ~ (byTime /\ strategy # "sequential") /\ ~ (timed /\ Null \in ToSet(time))
    BY <2>1 DEF TableSplits
  <2>3. p \in {IF q.ok /\ timed /\ ~StrictBoundary(q, time) THEN Rejected ELSE q :
                 q \in SelectSplit(order, timed, tenths, strategy, targets)}
    BY <2>2 DEF TableSplits
  <2> HIDE DEF order, timed, tenths, strategy, targets, time, byTime
  <2>4. PICK q \in SelectSplit(order, timed, tenths, strategy, targets) :
               p = IF q.ok /\ timed /\ ~StrictBoundary(q, time) THEN Rejected ELSE q
    BY <2>3
  <2>5. p = q /\ (timed => StrictBoundary(p, time))
    BY <2>1, <2>4
  <2>6. QED
    BY <2>2, <2>4, <2>5 DEF timed
<1> HIDE DEF targets, time, strategy, byTime, tenths
<1>3. n \in Nat /\ DOMAIN targets = 1..n
  BY <1>1, LenProperties
<1>4. timed => time \in Seq(Int) /\ DOMAIN time = 1..n
  <2> SUFFICES ASSUME timed PROVE time \in Seq(Int) /\ DOMAIN time = 1..n
    OBVIOUS
  <2>1. DOMAIN time = 1..n /\ \A i \in 1..n : time[i] \in Int \cup {Null}
    BY <1>1, <1>3, LenProperties
  <2>2. \A i \in 1..n : time[i] \in Int
    BY <1>2, <2>1 DEF ToSet
  <2>3. time = [i \in 1..n |-> time[i]]
    BY <1>1, <1>3, LenProperties
  <2>4. time \in [1..n -> Int]
    BY <2>2, <2>3
  <2>5. QED
    BY <1>3, <2>1, <2>4
<1>5. /\ order \in Seq(1..n) /\ Len(order) = n /\ IsInjective(order)
      /\ timed => ByTime(order, time)
  <2>1. CASE timed
    <3>1. order = RowsByTime(time) /\ Len(time) = n /\ time \in Seq(Int)
      BY <1>1, <1>4, <2>1
    <3>2. QED
      BY <3>1, RowsByTimeIs DEF ByTime
  <2>2. CASE ~ timed
    <3>1. order = [i \in 1..n |-> i]
      BY <2>2
    <3> HIDE DEF order
    <3>2. order \in [1..n -> 1..n] /\ DOMAIN order = 1..n /\ \A i \in 1..n : order[i] = i
      BY <3>1
    <3>3. QED
      BY <1>3, <2>2, <3>2 DEF IsInjective
  <2>3. QED
    BY <2>1, <2>2
<1> HIDE DEF order
<1>6. timed \in BOOLEAN /\ (byTime /\ tenths > 0 => timed)
  OBVIOUS
<1> HIDE DEF timed
<1>7. /\ tenths \in 0..9
      /\ strategy = "stratified" => \A i \in DOMAIN targets : IsLabel(targets[i])
      /\ \/ tenths = 0 /\ p = Parts(order, <<>>)
         \/ /\ tenths # 0 /\ total # 0 /\ ~ (total >= n)
            /\ \/ strategy = "sequential" /\ p = LastRows(order, total)
               \/ strategy = "random" /\ \E o \in Shuffles(order) : p = LastRows(o, total)
               \/ strategy = "stratified" /\ p = Stratify(targets, tenths, total)
  <2>1. Len(order) = n /\ strategy \in {"sequential", "random", "stratified"} /\ p \in SelectSplit(order, timed, tenths, strategy, targets)
    BY <1>1, <1>2, <1>5
  <2> HIDE DEF n, total
  <2>2. Selected(p, order, timed, tenths, strategy, targets)
    BY <1>6, <2>1, SelectedAre
  <2>3. ValidationRows(Len(order), tenths) = total
    BY <2>1 DEF total
  <2>4. QED
    BY <2>1, <2>2, <2>3 DEF Selected
<1>8. total \in Nat
  <2>1. n * tenths \in Nat
    BY <1>3, <1>7
  <2>2. QED
    BY <2>1 DEF ValidationRows
<1>9. CASE tenths = 0 /\ p = Parts(order, <<>>)
  BY <1>1, <1>3, <1>5, <1>9, NoValidation DEF targets, time, strategy, byTime, tenths
<1>10. ASSUME ~ (total >= n), strategy \in {"sequential", "random"}, NEW o \in Seq(1..n), Len(o) = n, IsInjective(o), p = LastRows(o, total)
       PROVE  /\ SoundSplit(p, targets, time, tenths, strategy, FALSE)
              /\ total \in 0..n
              /\ \A i \in ToSet(p.train) : \E a \in 1..(n - total) : i = o[a]
              /\ \A j \in ToSet(p.val) : \E b \in (n - total + 1)..n : j = o[b]
  <2>1. total \in 0..n /\ total = ValidationRows(Len(o), tenths)
    BY <1>3, <1>8, <1>10
  <2>2. o \in Seq(DOMAIN targets) /\ Len(o) = Len(targets)
    BY <1>3, <1>10
  <2> HIDE DEF total
  <2>3. SoundSplit(LastRows(o, total), targets, time, tenths, strategy, FALSE) /\ IsCut(LastRows(o, total), o, total)
    <3>1. total \in 0..Len(o) /\ tenths \in 0..9 /\ targets \in Seq(Nat \cup {Null, Half}) /\ IsInjective(o)
      BY <1>1, <1>7, <1>10, <2>1
    <3>2. strategy \in {"sequential", "random"} /\ total = ValidationRows(Len(o), tenths)
      BY <1>10, <2>1
    <3>3. QED
      BY <2>2, <3>1, <3>2, LastRowsAre
  <2>4. QED
    BY <1>10, <2>1, <2>3 DEF IsCut
<1> HIDE DEF total, n
<1>11. CASE tenths # 0 /\ ~ (total >= n) /\ strategy = "sequential" /\ p = LastRows(order, total)
  <2>1. /\ SoundSplit(p, targets, time, tenths, strategy, FALSE) /\ total \in 0..n
        /\ \A i \in ToSet(p.train) : \E a \in 1..(n - total) : i = order[a]
        /\ \A j \in ToSet(p.val) : \E b \in (n - total + 1)..n : j = order[b]
    BY <1>5, <1>10, <1>11
  <2>2. ASSUME byTime
        PROVE  \A i \in ToSet(p.train), j \in ToSet(p.val) : time[i] < time[j]
    <3>1. timed
      <4>1. tenths > 0
        BY <1>7, <1>11
      <4>2. QED
        BY <1>6, <2>2, <4>1
    <3>2. time \in Seq(Int) /\ Len(time) = n /\ StrictBoundary(p, time)
      BY <1>1, <1>2, <1>4, <3>1 DEF n
    <3>3. \A a \in 1..(n - total), b \in (n - total + 1)..n : time[order[a]] < time[order[b]]
      <4>1. \A r \in 1..n : time[r] \in Int
        BY <1>4, <3>1, <3>2
      <4>2. order \in Seq(1..n) /\ Len(order) = n /\ ByTime(order, time) /\ total \in 0..n
        BY <1>5, <2>1, <3>1
      <4>3. StrictBoundary(LastRows(order, total), time)
        BY <1>11, <3>2
      <4>4. QED
        BY <4>1, <4>2, <4>3, CutByTime
    <3>4. QED
      BY <2>1, <3>3
  <2>3. SoundSplit(p, targets, time, tenths, strategy, byTime)
    BY <2>1, <2>2 DEF SoundSplit
  <2>4. QED
    BY <2>3 DEF targets, time, strategy, byTime, tenths
<1>12. CASE tenths # 0 /\ ~ (total >= n) /\ strategy = "random" /\ \E o \in Shuffles(order) : p = LastRows(o, total)
  <2>1. PICK o \in Shuffles(order) : p = LastRows(o, total)
    BY <1>12
  <2>2. o \in Seq(1..n) /\ Len(o) = n /\ IsInjective(o)
    BY <1>3, <1>5, ShuffleIs DEF n
  <2>3. SoundSplit(p, targets, time, tenths, strategy, FALSE)
    BY <1>10, <1>12, <2>1, <2>2
  <2>4. byTime = FALSE
    BY <1>1, <1>2, <1>12
  <2>5. QED
    BY <2>3, <2>4 DEF targets, time, strategy, byTime, tenths
<1>13. CASE strategy = "stratified" /\ p = Stratify(targets, tenths, total)
  <2>1. targets \in Seq(Nat)
    <3>1. \A i \in 1..n : targets[i] \in Nat
      <4>1. \A i \in 1..n : targets[i] \in Nat \cup {Null, Half} /\ IsLabel(targets[i])
        BY <1>1, <1>3, <1>7, <1>13 DEF n
      <4>2. QED
        BY <4>1 DEF IsLabel
    <3>2. targets = [i \in 1..n |-> targets[i]]
      BY <1>1, <1>3, LenProperties DEF n
    <3>3. targets \in [1..n -> Nat]
      BY <3>1, <3>2
    <3>4. QED
      BY <1>3, <3>3 DEF n
  <2>2. SoundSplit(p, targets, time, tenths, "stratified", FALSE)
    BY <1>7, <1>13, <2>1, StratifiedIs DEF total, n
  <2>3. byTime = FALSE
    BY <1>1, <1>2, <1>13
  <2>4. QED
    BY <1>13, <2>2, <2>3 DEF targets, time, strategy, byTime, tenths
<1>14. QED
  BY <1>7, <1>9, <1>11, <1>12, <1>13

-----------------------------------------------------------------------------
(* The invariant.                                                            *)

LEMMA InitInv == Init => Inv
<1> SUFFICES ASSUME Init PROVE Inv
  OBVIOUS
<1>1. TypeInv
  BY InitTyped
<1>2. EpochInv /\ SplitInv
  BY DEF Init, EpochInv, SplitInv
<1>3. /\ DOMAIN models = {} /\ DOMAIN cache = {} /\ ~InFlight /\ pc = 1 /\ phase = "next" /\ writes = 0
      /\ \A f \in DOMAIN files : files[f] = NoFile
  BY DEF Init, InFlight
<1>4. \A f : ~Written(f)
  BY <1>3 DEF Written, NoFile
<1>5. Held = {}
  BY <1>3, <1>4 DEF Held
<1>6. \A b : Fits(b) = {} /\ ~FitNow(b)
  BY <1>3 DEF Fits, FitNow
<1>7. HeldInv /\ ModelInv
  BY <1>3, <1>5 DEF HeldInv, ModelInv
<1>8. CheckpointInv /\ ExportInv
  BY <1>3, <1>4, <1>6 DEF CheckpointInv, ExportInv
<1>9. StampInv
  BY <1>3 DEF StampInv, NoFile
<1>10. QED
  BY <1>1, <1>2, <1>7, <1>8, <1>9 DEF Inv, StoreInv

LEMMA StepKeepsEpochs == TypeInv /\ EpochInv /\ [Next]_vars => EpochInv'
<1> SUFFICES ASSUME TypeInv, EpochInv, [Next]_vars PROVE EpochInv'
  OBVIOUS
<1>1. CASE StartTrain
  <2>1. phase' = "epoch" => \E p : fit' = Fit(1, p)
    BY <1>1 DEF StartTrain, Fails
  <2>2. QED
    BY <2>1, FreshFit DEF EpochInv
<1>2. CASE Epoch
  BY <1>2, EpochKeeps
<1>3. CASE Compare
  <2>1. phase' = "epoch" => fit' = Fit(fit.combo + 1, fit.split)
    BY <1>3 DEF Compare
  <2>2. \A combo, split : fit' = Fit(combo, split) => EpochInv'
    BY FreshFit
  <2>3. QED
    BY <2>1, <2>2 DEF EpochInv
<1>4. CASE Evaluate
  <2>1. phase' # "epoch"
    BY <1>4 DEF Evaluate, Fails
  <2>2. QED
    BY <2>1 DEF EpochInv
<1>5. CASE \/ SaveCheckpoint \/ SaveManifest \/ ReportSweep \/ ExportTrained \/ MaterializeFails \/ Keep
           \/ PredictUnknown \/ PredictInMemory \/ PredictOnDevice \/ ExportStale \/ PredictOnnx \/ EndProgram
  <2>1. phase' # "epoch"
    BY <1>5 DEF SaveCheckpoint, SaveManifest, ReportSweep, ExportTrained, MaterializeFails, Keep, Predicts, AtCommand,
                PredictUnknown, PredictInMemory, PredictOnDevice, ExportStale, PredictOnnx, EndProgram, Fails, Proceed
  <2>2. QED
    BY <2>1 DEF EpochInv
<1>6. CASE UNCHANGED vars
  <2>1. UNCHANGED <<program, pc, phase, fit>>
    BY <1>6 DEF vars
  <2>2. Config' = Config /\ (Validates' <=> Validates) /\ \A h : Exhausted(h)' <=> Exhausted(h)
    BY <2>1 DEF Config, Command, Validates, Exhausted, FirstBest
  <2>3. QED
    BY <2>1, <2>2 DEF EpochInv
<1>7. QED
  BY <1>1, <1>2, <1>3, <1>4, <1>5, <1>6 DEF Next

LEMMA StepKeepsSplit == TypeInv /\ SplitInv /\ [Next]_vars => SplitInv'
<1> SUFFICES ASSUME TypeInv, SplitInv, [Next]_vars PROVE SplitInv'
  OBVIOUS
<1> DEFINE Splits == TableSplits(Command.table, Config.tenths, Config.strategy, Config.byTime)
<1>1. UNCHANGED <<program, pc>> => Splits' = Splits
  BY DEF Config, Command
<1>2. CASE phase' \notin {"epoch", "compare"}
  BY <1>2 DEF SplitInv
<1>3. CASE StartTrain /\ phase' \in {"epoch", "compare"}
  <2>1. UNCHANGED <<program, pc>>
    BY <1>3 DEF StartTrain, Fails
  <2>2. PICK p \in Splits : p.ok /\ fit' = Fit(1, p)
    BY <1>3 DEF StartTrain, Fails
  <2>3. fit'.split = p
    BY <2>2 DEF Fit
  <2>4. QED
    BY <1>1, <2>1, <2>2, <2>3 DEF SplitInv
<1>4. CASE (Epoch \/ Evaluate \/ Compare) /\ phase' \in {"epoch", "compare"}
  <2>1. phase \in {"epoch", "compare"} /\ UNCHANGED <<program, pc>>
    BY <1>4 DEF Epoch, Evaluate, Compare, Fails
  <2>2. fit'.split = fit.split
    <3>1. DOMAIN fit = DOMAIN NoFit
      BY DEF TypeInv
    <3>2. "split" \in DOMAIN fit
      BY <3>1 DEF NoFit, Fit
    <3>3. CASE Epoch
      BY <1>4, <3>2, <3>3 DEF Epoch, Fails
    <3>4. CASE Evaluate
      BY <1>4, <3>2, <3>4 DEF Evaluate, Fails
    <3>5. CASE Compare
      <4>1. fit' = fit \/ fit' = Fit(fit.combo + 1, fit.split)
        BY <3>5 DEF Compare
      <4>2. QED
        BY <4>1 DEF Fit
    <3>6. QED
      BY <1>4, <3>3, <3>4, <3>5
  <2>3. QED
    BY <1>1, <2>1, <2>2 DEF SplitInv
<1>5. CASE \/ SaveCheckpoint \/ SaveManifest \/ ReportSweep \/ ExportTrained \/ MaterializeFails \/ Keep
           \/ PredictUnknown \/ PredictInMemory \/ PredictOnDevice \/ ExportStale \/ PredictOnnx \/ EndProgram
  <2>1. phase' \notin {"epoch", "compare"}
    BY <1>5 DEF SaveCheckpoint, SaveManifest, ReportSweep, ExportTrained, MaterializeFails, Keep, Predicts, AtCommand,
                PredictUnknown, PredictInMemory, PredictOnDevice, ExportStale, PredictOnnx, EndProgram, Fails, Proceed
  <2>2. QED
    BY <1>2, <2>1
<1>6. CASE UNCHANGED vars
  <2>1. UNCHANGED <<program, pc, phase, fit>>
    BY <1>6 DEF vars
  <2>2. QED
    BY <1>1, <2>1 DEF SplitInv
<1>7. QED
  BY <1>2, <1>3, <1>4, <1>5, <1>6 DEF Next

LEMMA StepKeepsStore == TypeInv /\ StoreInv /\ [Next]_vars => StoreInv'
<1> SUFFICES ASSUME TypeInv, StoreInv, [Next]_vars PROVE StoreInv'
  OBVIOUS
<1>1. CASE phase' = "failed"
  BY <1>1 DEF StoreInv
<1>2. CASE phase' # "failed" /\ (StartTrain \/ Epoch \/ Evaluate \/ Compare \/ EndProgram)
  <2>1. UNCHANGED <<program, backend, pc, store>> /\ phase # "failed" /\ ~InFlight /\ ~InFlight'
    <3>1. CASE StartTrain
      BY <1>2, <3>1 DEF StartTrain, Fails, AtCommand, InFlight
    <3>2. CASE Epoch
      BY <1>2, <3>2 DEF Epoch, Fails, InFlight
    <3>3. CASE Evaluate
      BY <1>2, <3>3 DEF Evaluate, Fails, InFlight
    <3>4. CASE Compare
      BY <1>2, <3>4 DEF Compare, InFlight
    <3>5. CASE EndProgram
      BY <1>2, <3>5 DEF EndProgram, InFlight
    <3>6. QED
      BY <1>2, <3>1, <3>2, <3>3, <3>4, <3>5
  <2>2. QED
    BY <2>1, StoreStutters
<1>3. CASE ReportSweep
  BY <1>3, StoreStutters DEF ReportSweep
<1>4. CASE phase' # "failed" /\ (MaterializeFails \/ PredictUnknown)
  BY <1>4 DEF MaterializeFails, PredictUnknown, Fails
<1>5. CASE SaveCheckpoint
  BY <1>5, CheckpointSaved
<1>6. CASE SaveManifest \/ ExportTrained
  BY <1>6, FurtherSaved
<1>7. CASE Keep
  BY <1>7, ModelKept
<1>8. CASE phase' # "failed" /\ (PredictInMemory \/ PredictOnDevice \/ PredictOnnx)
  BY <1>8, PredictUses
<1>9. CASE ExportStale
  BY <1>9, ExportRefreshed
<1>10. CASE UNCHANGED vars
  <2>1. UNCHANGED <<program, backend, pc, phase, fit, grid, best, models, files, writes, cache>>
    BY <1>10 DEF vars
  <2>2. Command' = Command /\ Config' = Config /\ (InFlight' <=> InFlight) /\ Weights' = Weights
        /\ TrainedBlocks' = TrainedBlocks /\ Held' = Held
        /\ \A b : Fits(b)' = Fits(b) /\ LastFit(b)' = LastFit(b) /\ (FitNow(b)' <=> FitNow(b))
        /\ \A f : Written(f)' <=> Written(f)
    BY <2>1 DEF Command, Config, InFlight, Weights, WinnerOf, TrainedBlocks, Held, Fits, LastFit, FitNow, Written
  <2>3. QED
    BY <2>1, <2>2 DEF StoreInv, HeldInv, ModelInv, CheckpointInv, ExportInv, StampInv
<1>11. QED
  BY <1>1, <1>2, <1>3, <1>4, <1>5, <1>6, <1>7, <1>8, <1>9, <1>10 DEF Next

\* The invariant holds in every state of every program.
THEOREM Invariant == Spec => []Inv
<1>1. Init => Inv
  BY InitInv
<1>2. Inv /\ [Next]_vars => Inv'
  BY TypePreserved, StepKeepsEpochs, StepKeepsSplit, StepKeepsStore DEF Inv
<1>3. QED
  BY <1>1, <1>2, PTL DEF Spec

\* The two parts are a partition of the rows of the requested size; no class
\* is lost to training, and each that can spare a row is validated if there
\* is room; with a time column all of training precedes all of validation
\* (select_split_indices in split.rs, train_impl in dl.rs).
THEOREM SplitsSoundly == Spec => []SplitSound
<1>1. Inv => SplitSound
  <2> SUFFICES ASSUME TypeInv, SplitInv, phase = "epoch" PROVE SplitSound
    BY DEF Inv, SplitSound
  <2>1. TypedTraining(Command)
    <3>1. program \in Programs /\ pc \in DOMAIN program /\ program[pc].k = "train"
      BY DEF TypeInv, Command
    <3>2. QED
      BY <3>1, TrainingAssumption DEF TrainingAssumption, Command
  <2>2. fit.split.ok /\ fit.split \in TableSplits(Command.table, Config.tenths, Config.strategy, Config.byTime)
    BY DEF SplitInv
  <2>3. SoundSplit(fit.split, Command.table.targets, Command.table.time, Config.tenths, Config.strategy, Config.byTime)
    BY <2>1, <2>2, TableSplitIs DEF Config
  <2>4. QED
    BY <2>3 DEF SoundSplit, SplitSound, RowsOf, Validates
<1>2. QED
  BY <1>1, Invariant, PTL

-----------------------------------------------------------------------------
(* The loop of a generated program, which is given the same losses.          *)

\* The state of the emitted loop after the epochs of s, and the step to it.
Begun == [best |-> Null, idle |-> 0, at |-> 0]
LoopStep(h, p, loop, e) ==
  LET better == loop.best = Null \/ h[e] < loop.best
      idle   == IF better THEN 0 ELSE loop.idle + 1
  IN  IF loop.at > 0 THEN loop
      ELSE [best |-> IF better THEN h[e] ELSE loop.best, idle |-> idle,
            at |-> IF RunsOut(p, idle) THEN e ELSE 0]
LoopOf(it, h, p, s) ==
  IF s = {} THEN Begun
  ELSE LET x == Max(s) IN LoopStep(h, p, it[s \ {x}], [i \in DOMAIN h |-> i][x])
IsLoop(it, h, p) == it = [s \in SUBSET DOMAIN [i \in DOMAIN h |-> i] |-> LoopOf(it, h, p, s)]

LEMMA StopIsLoop ==
  ASSUME NEW h, NEW p, \E it : IsLoop(it, h, p)
  PROVE  \E it : IsLoop(it, h, p) /\ EmittedStop(h, p) = it[DOMAIN h].at
  BY DEF EmittedStop, FoldLeftDomain, FoldLeft, MapThenFoldSet, IsLoop, LoopOf, LoopStep, Begun

\* The last epoch of a set of the first n + 1, and those before it.
LEMMA LastOfSome ==
  ASSUME NEW n \in Nat, NEW s \in SUBSET (1..(n + 1))
  PROVE  \/ s \in SUBSET (1..n)
         \/ s # {} /\ Max(s) = n + 1 /\ s \ {n + 1} \in SUBSET (1..n)
<1>1. CASE n + 1 \notin s
  BY <1>1
<1>2. CASE n + 1 \in s
  <2>1. s \subseteq Int /\ \A x \in s : n + 1 >= x
    OBVIOUS
  <2>2. Max(s) = n + 1
    BY <1>2, <2>1, MaxIs
  <2>3. QED
    BY <1>2, <2>2
<1>3. QED
  BY <1>1, <1>2

LEMMA LoopExists ==
  ASSUME NEW h, NEW l \in Nat, DOMAIN h = 1..l, NEW p
  PROVE  \E it : IsLoop(it, h, p)
<1> DEFINE Up(it, n) == DOMAIN it = SUBSET (1..l) /\ \A s \in SUBSET (1..n) : it[s] = LoopOf(it, h, p, s)
           Reached == {n \in Nat : n <= l => \E it : Up(it, n)}
<1>1. 0 \in Reached
  <2> DEFINE it == [s \in SUBSET (1..l) |-> Begun]
  <2>1. \A s \in SUBSET (1..0) : s = {} /\ s \in SUBSET (1..l)
    OBVIOUS
  <2>2. Up(it, 0)
    BY <2>1 DEF LoopOf
  <2>3. QED
    BY <2>2
<1>2. ASSUME NEW n \in Nat, n + 1 <= l, NEW it, Up(it, n)
      PROVE  \E up : Up(up, n + 1)
  <2> DEFINE up == [s \in SUBSET (1..l) |-> IF s \in SUBSET (1..n) THEN it[s] ELSE LoopOf(it, h, p, s)]
  <2>1. \A s \in SUBSET (1..n) : up[s] = it[s]
    BY <1>2
  <2>2. \A s \in SUBSET (1..l) : s \notin SUBSET (1..n) => up[s] = LoopOf(it, h, p, s)
    OBVIOUS
  <2>3. DOMAIN up = SUBSET (1..l)
    OBVIOUS
  <2> HIDE DEF up
  <2>4. ASSUME NEW s \in SUBSET (1..(n + 1))
        PROVE  up[s] = LoopOf(up, h, p, s)
    <3>1. up[s] = LoopOf(it, h, p, s)
      BY <1>2, <2>1, <2>2
    <3>2. s # {} => up[s \ {Max(s)}] = it[s \ {Max(s)}]
      BY <2>1, LastOfSome
    <3>3. QED
      BY <3>1, <3>2 DEF LoopOf
  <2>5. QED
    BY <2>3, <2>4
<1> HIDE DEF Up
<1>3. ASSUME NEW n \in Nat, n \in Reached
      PROVE  n + 1 \in Reached
  BY <1>2, <1>3
<1> HIDE DEF Reached
<1>4. l \in Reached
  BY <1>1, <1>3, Induction
<1>5. PICK it : Up(it, l)
  BY <1>4 DEF Reached
<1> DEFINE whole == [s \in SUBSET (1..l) |-> it[s]]
<1>6. \A s \in SUBSET (1..l) : whole[s] = LoopOf(whole, h, p, s)
  <2> SUFFICES ASSUME NEW s \in SUBSET (1..l) PROVE whole[s] = LoopOf(whole, h, p, s)
    OBVIOUS
  <2>1. whole[s] = LoopOf(it, h, p, s)
    BY <1>5 DEF Up
  <2>2. whole[s \ {Max(s)}] = it[s \ {Max(s)}]
    OBVIOUS
  <2> HIDE DEF whole
  <2>3. QED
    BY <2>1, <2>2 DEF LoopOf
<1>7. DOMAIN [i \in DOMAIN h |-> i] = 1..l /\ whole = [s \in SUBSET (1..l) |-> whole[s]]
  OBVIOUS
<1> HIDE DEF whole
<1>8. IsLoop(whole, h, p)
  BY <1>6, <1>7 DEF IsLoop
<1>9. QED
  BY <1>8

\* The emitted loop after each number of epochs.
LEMMA LoopIs ==
  ASSUME NEW h, NEW l \in Nat, DOMAIN h = 1..l, NEW p, NEW it, IsLoop(it, h, p)
  PROVE  it[1..0] = Begun /\ \A e \in 1..l : it[1..e] = LoopStep(h, p, it[1..(e - 1)], e)
<1>1. DOMAIN [i \in DOMAIN h |-> i] = 1..l /\ \A e \in 1..l : [i \in DOMAIN h |-> i][e] = e
  OBVIOUS
<1>2. \A s \in SUBSET (1..l) : it[s] = LoopOf(it, h, p, s)
  BY <1>1 DEF IsLoop
<1>3. it[1..0] = Begun
  <2>1. 1..0 = {} /\ {} \in SUBSET (1..l)
    OBVIOUS
  <2>2. QED
    BY <1>2, <2>1 DEF LoopOf
<1>4. ASSUME NEW e \in 1..l
      PROVE  it[1..e] = LoopStep(h, p, it[1..(e - 1)], e)
  <2>1. 1..e \in SUBSET (1..l) /\ 1..e # {} /\ (1..e) \ {e} = 1..(e - 1)
    <3>1. e \in 1..e /\ \A x : x \in 1..e => x \in 1..l
      OBVIOUS
    <3>2. \A x : x \in (1..e) \ {e} <=> x \in 1..(e - 1)
      OBVIOUS
    <3>3. QED
      BY <3>1, <3>2
  <2>2. Max(1..e) = e
    <3>1. 1..e \subseteq Int /\ e \in 1..e /\ \A x \in 1..e : e >= x
      OBVIOUS
    <3>2. QED
      BY <3>1, MaxIs
  <2>3. QED
    BY <1>1, <1>2, <2>1, <2>2 DEF LoopOf
<1>5. QED
  BY <1>3, <1>4

\* The loop of the engine goes on after each prefix of h but the whole.
Spent(h, p, e) == p > 0 /\ e > 0 /\ e - FirstBest(SubSeq(h, 1, e)) >= p

\* What the emitted loop knows after e epochs, if it was not left before.
Counts(h, p, loop, e) ==
  /\ loop.at = IF Spent(h, p, e) THEN e ELSE 0
  /\ e = 0 => loop.best = Null /\ loop.idle = 0
  /\ e > 0 => LET b == FirstBest(SubSeq(h, 1, e)) IN
              LeastAt(SubSeq(h, 1, e), b) /\ loop.best = h[b] /\ loop.idle = e - b

LEMMA PrefixLeast ==
  ASSUME NEW h \in Seq(Losses), NEW e \in 1..Len(h), NEW b
  PROVE  /\ LeastAt(SubSeq(h, 1, e), b) <=> b \in 1..e /\ \A d \in 1..e : h[b] < h[d] \/ (h[b] = h[d] /\ b =< d)
         /\ LeastAt(SubSeq(h, 1, e), b) => FirstBest(SubSeq(h, 1, e)) = b
<1>1. /\ SubSeq(h, 1, e) \in Seq(Losses) /\ Len(SubSeq(h, 1, e)) = e
      /\ \A i \in 1..e : SubSeq(h, 1, e)[i] = h[i]
  <2>1. Len(h) \in Nat /\ 1 \in 1..(Len(h) + 1) /\ e \in 0..Len(h)
    BY LenProperties
  <2>2. QED
    BY <2>1, SubSeqProperties
<1>2. DOMAIN SubSeq(h, 1, e) = 1..e /\ SubSeq(h, 1, e) # <<>>
  BY <1>1, LenProperties
<1>3. QED
  BY <1>1, <1>2, FirstBestIs DEF LeastAt

LEMMA CountsKept ==
  ASSUME NEW h \in Seq(Losses), NEW p \in Nat, NEW e \in 1..Len(h), NEW loop,
         Counts(h, p, loop, e - 1), ~Spent(h, p, e - 1)
  PROVE  Counts(h, p, LoopStep(h, p, loop, e), e)
<1> DEFINE better == loop.best = Null \/ h[e] < loop.best
           idle   == IF better THEN 0 ELSE loop.idle + 1
           b      == FirstBest(SubSeq(h, 1, e - 1))
           c      == IF better THEN e ELSE b
           next   == LoopStep(h, p, loop, e)
<1>1. Len(h) \in Nat /\ e \in Nat \ {0} /\ Null \notin Int /\ \A i \in 1..e : h[i] \in Int
  <2>1. Len(h) \in Nat /\ \A i \in 1..Len(h) : h[i] \in Losses
    BY LenProperties
  <2>2. Null \notin Int /\ Losses \subseteq Int
    BY TrainingAssumption DEF TrainingAssumption
  <2>3. \A i \in 1..e : i \in 1..Len(h)
    BY <2>1
  <2>4. \A i \in 1..e : h[i] \in Int
    BY <2>1, <2>2, <2>3
  <2>5. e \in Nat \ {0}
    BY <2>1
  <2>6. QED
    BY <2>1, <2>2, <2>4, <2>5
<1>2. next = [best |-> IF better THEN h[e] ELSE loop.best, idle |-> idle, at |-> IF RunsOut(p, idle) THEN e ELSE 0]
  BY DEF Counts, LoopStep
<1>3. e # 1 => /\ b \in 1..(e - 1) /\ \A d \in 1..(e - 1) : h[b] < h[d] \/ (h[b] = h[d] /\ b =< d)
               /\ loop.best = h[b] /\ loop.idle = (e - 1) - b
  BY <1>1, PrefixLeast DEF Counts
<1>4. e = 1 => better
  BY DEF Counts
<1> HIDE DEF b
<1>5. c \in 1..e /\ \A d \in 1..e : h[c] < h[d] \/ (h[c] = h[d] /\ c =< d)
  <2>1. CASE better /\ e = 1
    BY <1>1, <2>1
  <2>2. CASE better /\ e # 1
    <3>1. h[e] < h[b]
      BY <1>1, <1>3, <2>2
    <3>2. ASSUME NEW d \in 1..(e - 1)
          PROVE  h[e] < h[d]
      <4>1. d \in 1..e /\ e \in 1..e /\ b \in 1..e
        BY <1>1, <1>3, <2>2
      <4>2. h[d] \in Int /\ h[e] \in Int /\ h[b] \in Int
        BY <1>1, <4>1
      <4>3. h[b] < h[d] \/ h[b] = h[d]
        BY <1>3, <2>2
      <4>4. QED
        BY <3>1, <4>2, <4>3
    <3>3. \A d \in 1..e : d \in 1..(e - 1) \/ d = e
      BY <1>1
    <3>4. QED
      BY <1>1, <2>2, <3>2, <3>3
  <2>3. CASE ~better
    <3>1. e # 1 /\ c = b /\ ~(h[e] < h[b])
      BY <1>3, <1>4, <2>3
    <3>2. \A d \in 1..e : d \in 1..(e - 1) \/ d = e
      BY <1>1
    <3>3. h[b] < h[e] \/ (h[b] = h[e] /\ b =< e)
      BY <1>1, <1>3, <3>1
    <3>4. QED
      BY <1>1, <1>3, <3>1, <3>2, <3>3
  <2>4. QED
    BY <2>1, <2>2, <2>3
<1>6. LeastAt(SubSeq(h, 1, e), c) /\ FirstBest(SubSeq(h, 1, e)) = c
  BY <1>5, PrefixLeast
<1>7. (IF better THEN h[e] ELSE loop.best) = h[c] /\ idle = e - c
  BY <1>1, <1>3, <1>4
<1> HIDE DEF c, better, idle
<1>8. next.best = h[c] /\ next.idle = e - c /\ next.at = IF p > 0 /\ e - c >= p THEN e ELSE 0
  BY <1>2, <1>7 DEF RunsOut
<1> HIDE DEF next
<1>9. Counts(h, p, next, e)
  BY <1>1, <1>6, <1>8 DEF Counts, Spent
<1>10. QED
  BY <1>9 DEF next

\* So it is left after the epoch at which the engine stops.
LEMMA LeftAlike ==
  ASSUME NEW h \in Seq(Losses), NEW p \in Nat, \A e \in 0..(Len(h) - 1) : ~Spent(h, p, e)
  PROVE  EmittedStop(h, p) = IF Spent(h, p, Len(h)) THEN Len(h) ELSE 0
<1> DEFINE l == Len(h)
<1>1. l \in Nat /\ DOMAIN h = 1..l
  BY LenProperties
<1> HIDE DEF l
<1>2. PICK it : IsLoop(it, h, p) /\ EmittedStop(h, p) = it[1..l].at
  BY <1>1, StopIsLoop, LoopExists
<1>3. it[1..0] = Begun /\ \A e \in 1..l : it[1..e] = LoopStep(h, p, it[1..(e - 1)], e)
  BY <1>1, <1>2, LoopIs
<1> DEFINE Reached == {e \in Nat : e <= l => Counts(h, p, it[1..e], e)}
<1>4. 0 \in Reached
  <2>1. ~Spent(h, p, 0)
    BY DEF Spent
  <2>2. QED
    BY <1>3, <2>1 DEF Counts, Begun
<1>5. ASSUME NEW n \in Nat, n \in Reached
      PROVE  n + 1 \in Reached
  <2>1. CASE n + 1 <= l
    <3>1. n + 1 \in 1..Len(h) /\ (n + 1) - 1 = n /\ n \in 0..(Len(h) - 1)
      BY <1>1, <2>1 DEF l
    <3>2. Counts(h, p, it[1..n], n) /\ it[1..(n + 1)] = LoopStep(h, p, it[1..n], n + 1)
      BY <1>1, <1>3, <1>5, <2>1
    <3>3. Counts(h, p, it[1..(n + 1)], n + 1)
      BY <3>1, <3>2, CountsKept
    <3>4. QED
      BY <3>3
  <2>2. QED
    BY <2>1
<1> HIDE DEF Reached
<1>6. l \in Reached
  BY <1>1, <1>4, <1>5, Induction
<1>7. Counts(h, p, it[1..l], l)
  BY <1>1, <1>6 DEF Reached
<1>8. QED
  BY <1>2, <1>7 DEF Counts, l

\* The engine's loop is spent when the property says that it is exhausted.
LEMMA SpentIs ==
  ASSUME NEW h \in Seq(Losses), NEW e \in 0..Len(h), Config.patience \in Nat
  PROVE  Exhausted(SubSeq(h, 1, e)) <=> Spent(h, Config.patience, e)
<1>1. CASE e = 0
  <2>1. SubSeq(h, 1, e) = <<>>
    BY <1>1, SubSeqProperties
  <2>2. QED
    BY <1>1, <2>1 DEF Exhausted, Spent
<1>2. CASE e # 0
  <2>1. /\ SubSeq(h, 1, e) \in Seq(Losses) /\ Len(SubSeq(h, 1, e)) = e /\ SubSeq(h, 1, e) # <<>>
    BY <1>2, SubSeqProperties, LenProperties
  <2>2. Null \notin ToSet(SubSeq(h, 1, e))
    <3>1. \A i \in DOMAIN SubSeq(h, 1, e) : SubSeq(h, 1, e)[i] \in Losses
      BY <2>1, LenProperties
    <3>2. QED
      BY <3>1, TrainingAssumption DEF TrainingAssumption, ToSet
  <2>3. QED
    BY <1>2, <2>1, <2>2, LenProperties DEF Exhausted, Spent
<1>3. QED
  BY <1>1, <1>2

LEMMA EmittedAlike ==
  ASSUME TypeInv, EpochInv, phase = "epoch", Validates
  PROVE  EmittedStop(fit.history, Config.patience) = IF fit.stopped THEN Len(fit.history) ELSE 0
<1> DEFINE h == fit.history
           p == Config.patience
<1>1. h \in Seq(Losses) /\ p \in Nat
  <2>1. program \in Programs /\ pc \in DOMAIN program /\ program[pc].k = "train"
    BY DEF TypeInv, Command
  <2>2. QED
    BY <2>1, TrainingAssumption DEF TrainingAssumption, TypedTraining, Config, Command, EpochInv
<1>2. fit.stopped = Exhausted(h) /\ \A e \in 0..(Len(h) - 1) : ~Exhausted(SubSeq(h, 1, e))
  BY CountersAreSound
<1> HIDE DEF h, p
<1>3. Len(h) \in Nat /\ SubSeq(h, 1, Len(h)) = h
  <2>1. Len(h) \in Nat
    BY <1>1, LenProperties
  <2>2. /\ SubSeq(h, 1, Len(h)) \in Seq(Losses) /\ Len(SubSeq(h, 1, Len(h))) = Len(h)
        /\ \A i \in 1..Len(h) : SubSeq(h, 1, Len(h))[i] = h[i]
    BY <1>1, <2>1, SubSeqProperties
  <2>3. QED
    BY <1>1, <2>1, <2>2, SeqEqual
<1>4. \A e \in 0..Len(h) : Exhausted(SubSeq(h, 1, e)) <=> Spent(h, p, e)
  BY <1>1, SpentIs DEF p
<1>5. fit.stopped <=> Spent(h, p, Len(h))
  <2>1. Len(h) \in 0..Len(h)
    BY <1>3
  <2>2. Exhausted(SubSeq(h, 1, Len(h))) <=> Spent(h, p, Len(h))
    BY <1>4, <2>1
  <2>3. Exhausted(h) <=> Spent(h, p, Len(h))
    BY <1>3, <2>2
  <2>4. QED
    BY <1>2, <2>3, Zenon
<1>6. \A e \in 0..(Len(h) - 1) : ~Spent(h, p, e)
  BY <1>2, <1>3, <1>4
<1>7. EmittedStop(h, p) = IF Spent(h, p, Len(h)) THEN Len(h) ELSE 0
  BY <1>1, <1>6, LeftAlike
<1>8. QED
  BY <1>5, <1>7 DEF h, p

\* Training stops at the first epoch that is `patience' epochs past the best
\* one so far, never without validation rows, what it reports as the best
\* epoch is the first with the least loss, and a generated program stops alike
\* (the loop of train_impl in dl.rs, emit_dl_sweep_call in emitter.rs).
THEOREM StopsInTime == Spec => []EarlyStopSound
<1>1. Inv => EarlyStopSound
  <2> SUFFICES ASSUME TypeInv, EpochInv, phase = "epoch" PROVE EarlyStopSound
    BY DEF Inv, EarlyStopSound
  <2>1. Validates =>
          EmittedStop(fit.history, Config.patience) = IF fit.stopped THEN Len(fit.history) ELSE 0
    BY EmittedAlike
  <2>2. QED
    BY <2>1, CountersAreSound DEF EarlyStopSound
<1>2. QED
  BY <1>1, Invariant, PTL

\* What a prediction may use, from what the store says of it.
LEMMA PredictionOwn ==
  ASSUME Inv, Next, Predicts, pc' = pc + 1
  PROVE  LET own   == models[Command.var].weights
             block == models[Command.var].block
             used  == predicted'.weights
         IN  \/ used = own
             \/ backend # "cpu" /\ own[1] # LastFit(block) /\ used[1] = LastFit(block)
             \/ /\ backend = "onnx" /\ program[LastFit(block)].config.sweep
                /\ used[1] \in Fits(block) \ {LastFit(block)}
<1> DEFINE own == models[Command.var].weights
<1> DEFINE used == predicted'.weights
<1>0. TypeInv /\ HeldInv /\ ModelInv /\ CheckpointInv /\ ExportInv /\ StampInv /\ ~InFlight
  BY DEF Inv, StoreInv, Predicts, AtCommand, InFlight
<1>1. PICK b \in TrainedBlocks : models[Command.var].block = b /\ own[1] \in Fits(b)
  BY <1>0 DEF ModelInv, Predicts
<1>2. \/ backend = "cpu" /\ used = own
      \/ backend = "gpu" /\ used = files["checkpoint", b].weights
      \/ backend = "onnx" /\ Fresh(b) /\ used = files["export", b].weights
  <2>1. phase = "next" /\ pc \in Nat /\ Command.k = "predict"
    BY <1>0 DEF Predicts, AtCommand, TypeInv
  <2>2. pc' # pc
    BY <2>1
  <2>3. /\ ~StartTrain /\ ~Epoch /\ ~Evaluate /\ ~Compare /\ ~SaveCheckpoint /\ ~SaveManifest /\ ~ReportSweep
        /\ ~ExportTrained /\ ~MaterializeFails /\ ~Keep /\ ~PredictUnknown /\ ~ExportStale /\ ~EndProgram
        /\ phase' # "failed" \/ ~(PredictInMemory \/ PredictOnDevice \/ PredictOnnx)
    BY <2>1, <2>2 DEF StartTrain, Epoch, Evaluate, Compare, SaveCheckpoint, SaveManifest, ReportSweep, ExportTrained,
         MaterializeFails, Keep, PredictUnknown, ExportStale, EndProgram, AtCommand, Predicts, Fails,
         PredictInMemory, PredictOnDevice, PredictOnnx, Proceed
  <2>4. PredictInMemory \/ PredictOnDevice \/ PredictOnnx
    BY <2>3 DEF Next
  <2>5. QED
    BY <1>1, <2>3, <2>4, PredictUses DEF Inv
<1>3. Fits(b) # {} /\ own \in Held /\ ~FitNow(b)
  BY <1>0, <1>1 DEF Held, Predicts, FitNow
<1>4. CASE backend = "gpu" /\ used = files["checkpoint", b].weights
  <2>1. Written(<<"checkpoint", b>>) /\ used[1] = LastFit(b) /\ <<"checkpoint", b>> \in DOMAIN files
    BY <1>0, <1>3, <1>4, FilesOf DEF CheckpointInv
  <2>2. used \in Held
    BY <1>4, <2>1 DEF Held
  <2>3. own[1] = LastFit(b) => used = own
    BY <1>0, <1>3, <2>1, <2>2 DEF HeldInv
  <2>4. QED
    BY <1>1, <1>4, <2>1, <2>3
<1>5. CASE backend = "onnx" /\ Fresh(b) /\ used = files["export", b].weights
  <2>1. Written(<<"export", b>>) /\ <<"export", b>> \in DOMAIN files
    <3>1. /\ <<"export", b>> \in DOMAIN files /\ files["export", b] # NoFile
          /\ files["export", b].stamp \in 0..writes /\ writes \in Nat
          /\ files["export", b].stamp = 0 => files["export", b] = NoFile
      BY <1>0, <1>5, FilesOf DEF Fresh, StampInv, TypeInv
    <3>2. \A e \in 0..writes : e # 0 => e > 0
      <4>1. writes \in Nat
        BY <1>0 DEF TypeInv
      <4>2. QED
        BY <4>1
    <3>3. files["export", b].stamp > 0
      BY <3>1, <3>2
    <3>4. QED
      BY <3>1, <3>3 DEF Written
  <2>2. used \in Held
    BY <1>5, <2>1 DEF Held
  <2>3. used[1] \in Fits(b)
    BY <1>0, <1>3, <1>5, <2>1 DEF ExportInv
  <2>4. used[1] = LastFit(b) /\ own[1] = LastFit(b) => used = own
    BY <1>0, <1>3, <2>2 DEF HeldInv
  <2>5. used[1] # LastFit(b) => program[LastFit(b)].config.sweep
    BY <1>0, <1>3, <1>5 DEF ExportInv
  <2>6. QED
    BY <1>1, <1>5, <2>3, <2>4, <2>5
<1>6. QED
  BY <1>1, <1>2, <1>4, <1>5

\* A prediction uses the weights of the variable it names, unless another
\* variable of the block wrote the file it reads them from (predict_cached of
\* the backends, ensure_export, and the cache of modules by time stamp).
THEOREM PredictsOwn == Spec => PredictionsUseOwnModel
<1> DEFINE Own ==
      Predicts /\ pc' = pc + 1 =>
          LET own   == models[Command.var].weights
              block == models[Command.var].block
              used  == predicted'.weights
          IN  \/ used = own
              \/ backend # "cpu" /\ own[1] # LastFit(block) /\ used[1] = LastFit(block)
              \/ /\ backend = "onnx" /\ program[LastFit(block)].config.sweep
                 /\ used[1] \in Fits(block) \ {LastFit(block)}
<1>1. Inv /\ [Next]_vars => [Own]_vars
  <2>1. SUFFICES ASSUME Inv, Next PROVE Own
    OBVIOUS
  <2>2. QED
    BY <2>1, PredictionOwn
<1>2. QED
  BY <1>1, Invariant, PTL DEF Spec, PredictionsUseOwnModel
=============================================================================
