------------------------------ MODULE Network -------------------------------
(* The network of a model block is made three times: by build_mlp and        *)
(* Mlp::forward of dl.rs, as the Burn module that emitter.rs writes, and as  *)
(* the graph of dl/onnx_export.rs.  What a layer with trained weights gives  *)
(* is a term that names the layer and what it was applied to, so that two    *)
(* networks agree when they give the same terms.                             *)
EXTENDS Integers, SequencesExt

Structural == {"Dense", "Conv1d", "Embedding"}

(* Widen: the width after a layer of build_mlp, 0 if it does not fit.        *)
Widen(width, l) ==
    CASE l.l = "Dense" -> l.n
      [] l.l = "Conv1d" -> IF l.kernel > 0 THEN width * l.n ELSE 0
      [] l.l = "Embedding" ->
           IF (l.shared \/ Len(l.vocab) = width) /\ \A i \in DOMAIN l.vocab : l.vocab[i] > 0 THEN width * l.n ELSE 0
      [] OTHER -> width
OutDim(layers, width) ==
    FoldLeft(LAMBDA w, l : IF w = 0 THEN 0 ELSE Widen(w, l),
             IF \A i \in DOMAIN layers : layers[i].l \notin Structural THEN 0 ELSE width, layers)

-----------------------------------------------------------------------------
(* Burn: a fully connected layer, a convolution over the features as one     *)
(* channel with `Same' padding, and an embedding table.                      *)
Padding == <<"zero">>
Window(row, at, kernel, before) ==
    [i \in 1..kernel |-> LET p == at - before + i - 1 IN IF p \in DOMAIN row THEN row[p] ELSE Padding]
Linear(k, units, row) == [u \in 1..units |-> <<"dense", k, u, row>>]
Convolution(k, channels, kernel, before, row) ==
    FlattenSeq([c \in 1..channels |-> [p \in DOMAIN row |-> <<"conv", k, c, Window(row, p, kernel, before)>>]])
Lookup(k, dim, indices) == FlattenSeq([j \in DOMAIN indices |-> [d \in 1..dim |-> <<"embed", k, indices[j], d>>]])
SamePadding(kernel) == (kernel - 1) \div 2
Activate(name, row) == [i \in DOMAIN row |-> IF name = "Softmax" THEN <<name, row, i>> ELSE <<name, row[i]>>]
Clamp(v, high) == IF v < 0 THEN 0 ELSE IF v > high THEN high ELSE v

-----------------------------------------------------------------------------
(* dl.rs.  An activation belongs to the last layer before it, and the last   *)
(* one in a row is the one that counts; dropout is applied in training only. *)
Vocabs(l, width) == IF l.shared THEN [j \in 1..width |-> l.vocab[1]] ELSE l.vocab
OneTable(sizes) == [j \in DOMAIN sizes |-> 0]  \* mutant: all columns share the first rows
Offsets(sizes) == [j \in DOMAIN sizes |-> FoldLeft(+, 0, SubSeq(sizes, 1, j - 1))]
SetActivation(ops, act) == IF ops = <<>> THEN ops ELSE [ops EXCEPT ![Len(ops)].act = act]
BuildMlp(layers) ==
    FoldLeft(LAMBDA ops, l : IF l.l \in Structural THEN Append(ops, [layer |-> l, act |-> "None"])
                             ELSE IF l.l = "BatchNorm" THEN ops ELSE SetActivation(ops, l.l),
             <<>>, layers)

ApplyActivation(act, row) == IF act \in {"None", "Dropout"} THEN row ELSE Activate(act, row)
ApplyOp(k, l, row) ==
    CASE l.l = "Dense" -> Linear(k, l.n, row)
      [] l.l = "Conv1d" -> Convolution(k, l.n, l.kernel, SamePadding(l.kernel), row)
      [] l.l = "Embedding" ->
           LET sizes == Vocabs(l, Len(row))
           IN  Lookup(k, l.n, [j \in DOMAIN row |-> Clamp(row[j], sizes[j] - 1) + Offsets(sizes)[j]])
Forward(layers, row) ==
    LET ops == BuildMlp(layers)
    IN  FoldLeftDomain(LAMBDA x, k : ApplyActivation(ops[k].act, ApplyOp(k, ops[k].layer, x)), row, ops)

-----------------------------------------------------------------------------
(* emitter.rs.  Dropout is left out of the generated module.                 *)
SetDlAct(specs, act) == SetActivation(specs, act)
DlLayerSpecs(layers) ==
    FoldLeft(LAMBDA specs, l : IF l.l \in Structural THEN Append(specs, [layer |-> l, act |-> "None"])
                               ELSE IF l.l \in {"Dropout", "BatchNorm"} THEN specs ELSE SetDlAct(specs, l.l),
             <<>>, layers)
EmittedEmbedding(k, l, row) ==
    LET Column(cols, j) == Append(cols, Clamp(row[j], Vocabs(l, Len(row))[j] - 1)
                                        + FoldLeft(+, 0, SubSeq(Vocabs(l, Len(row)), 1, j - 1)))
    IN  Lookup(k, l.n, FoldLeftDomain(Column, <<>>, row))
EmittedLayer(k, spec, row) ==
    LET l == spec.layer
        x == CASE l.l = "Dense" -> Linear(k, l.n, row)
               [] l.l = "Conv1d" -> Convolution(k, l.n, l.kernel, SamePadding(l.kernel), row)
               [] l.l = "Embedding" -> EmittedEmbedding(k, l, row)
    IN  IF spec.act = "None" THEN x ELSE Activate(spec.act, x)
EmittedForward(layers, row) ==
    LET specs == DlLayerSpecs(layers)
    IN  FoldLeftDomain(LAMBDA x, k : EmittedLayer(k, specs[k], x), row, specs)

-----------------------------------------------------------------------------
(* onnx_export.rs: the nodes of each op, with the weights they hold.         *)
GemmNodes(k, l) == <<[n |-> "Gemm", k |-> k, units |-> l.n]>>
ConvNodes(k, l, width) ==
    LET total == l.kernel - 1
    IN  <<[n |-> "Reshape", dims |-> <<1, width>>],
          [n |-> "Conv", k |-> k, channels |-> l.n, kernel |-> l.kernel, pads |-> <<total \div 2, total - total \div 2>>],
          [n |-> "Reshape", dims |-> <<l.n * width>>]>>
EmbeddingNodes(k, l, width) ==
    LET sizes   == Vocabs(l, width)
        offsets == Offsets(sizes)
        Index(j) == <<[n |-> "Clip", col |-> j, high |-> sizes[j] - 1]>>
                    \o (IF offsets[j] # 0 THEN <<[n |-> "Add", col |-> j, by |-> offsets[j]]>> ELSE <<>>)
    IN  (IF width = 1 THEN <<>> ELSE <<[n |-> "Split", into |-> width]>>)
        \o FlattenSeq([j \in 1..width |-> Index(j)])
        \o (IF width = 1 THEN <<>> ELSE <<[n |-> "Concat"]>>)
        \o <<[n |-> "Cast"], [n |-> "Gather", k |-> k, dim |-> l.n], [n |-> "Reshape", dims |-> <<width * l.n>>]>>
ActivationNodes(act) == IF act \in {"None", "Dropout"} THEN <<>> ELSE <<[n |-> act]>>
BuildModel(layers, width) ==
    LET ops == BuildMlp(layers)
        Nodes(g, k) ==
            LET l == ops[k].layer
                own == CASE l.l = "Dense" -> GemmNodes(k, l)
                         [] l.l = "Conv1d" -> ConvNodes(k, l, g.width)
                         [] l.l = "Embedding" -> EmbeddingNodes(k, l, g.width)
            IN  [nodes |-> g.nodes \o own \o ActivationNodes(ops[k].act), width |-> Widen(g.width, l)]
        graph == FoldLeftDomain(Nodes, [nodes |-> <<>>, width |-> width], ops)
    IN  [graph EXCEPT !.nodes = @ \o <<[n |-> "Identity"]>>]

(* ONNX Runtime.  A reshape keeps the order of the elements, and fails when  *)
(* their number changes.                                                     *)
RunNode(row, node) ==
    CASE node.n = "Gemm" -> Linear(node.k, node.units, row)
      [] node.n = "Conv" -> Convolution(node.k, node.channels, node.kernel, node.pads[1], row)
      [] node.n = "Clip" -> [row EXCEPT ![node.col] = Clamp(@, node.high)]
      [] node.n = "Add" -> [row EXCEPT ![node.col] = @ + node.by]
      [] node.n = "Gather" -> Lookup(node.k, node.dim, row)
      [] node.n = "Reshape" -> IF FoldLeft(LAMBDA a, b : a * b, 1, node.dims) = Len(row) THEN row ELSE <<>>
      [] node.n \in {"ReLU", "Sigmoid", "Tanh", "Softmax"} -> Activate(node.n, row)
      [] OTHER -> row
RunGraph(graph, row) == FoldLeft(RunNode, row, graph.nodes)
=============================================================================
