---------------------------- MODULE MCTraining ----------------------------
(* Programs for Training: splits of small tables, early stopping,       *)
(* sweeps with ties, and two variables that share a model block.             *)
EXTENDS Training

Layer(n) == <<[l |-> "Dense", n |-> n]>>
Table(targets, time) == [width |-> 2, targets |-> targets, time |-> time]
Plain == [epochs |-> <<1>>, lr |-> <<1>>, batch |-> <<1>>, sweep |-> FALSE, tenths |-> 0,
          strategy |-> "sequential", byTime |-> FALSE, patience |-> 0, metric |-> "mse",
          explicit |-> FALSE, sort |-> "metric", tiebreak |-> <<>>, top |-> Null]
Train(var, block, layers, table, config) ==
    [k |-> "train", var |-> var, block |-> block, layers |-> layers, table |-> table, config |-> config]
Predict(var) == [k |-> "predict", var |-> var]
Alone(layers, table, config) == <<Train(Null, "M", layers, table, config)>>

Three == Table(<<0, 2, 1>>, <<1, 2, 3>>)
Short == Table(<<0, 1>>, <<1, 2>>)

(* Splits: no epochs, so that only the split and the evaluation vary.        *)
SplitConfigs == {[Plain EXCEPT !.epochs = <<0>>, !.tenths = t, !.strategy = s, !.byTime = b] :
                   t \in {0, 3, 5, 8}, s \in {"sequential", "random", "stratified"}, b \in BOOLEAN}
SplitTables == {Table(<<0, 1, 0, 1, 1>>, <<3, 1, 2, 2, 4>>), Table(<<0, 1, 1, 1>>, <<1, 1, 2, 2>>),
                Table(<<2, 0, 2, 1>>, <<4, 3, 2, 1>>), Table(<<0, 0, 1, 1, 1, 1>>, <<1, 2, 3, 4, Null, 5>>)}
SplitRuns == {Alone(Layer(1), tc[1], tc[2]) : tc \in
    {x \in SplitTables \X SplitConfigs : x[2].strategy = "random" => Len(x[1].targets) = 4 /\ x[2].tenths = 5 /\ x[1].time[1] = 1}}

(* Models that do not fit their data.                                        *)
Misfits == {Alone(Layer(2), Table(<<0, Half>>, <<1, 2>>), Plain), Alone(Layer(3), Short, Plain),
            Alone(Layer(1), Table(<<0, Half, 1, 1>>, <<1, 2, 3, 4>>), [Plain EXCEPT !.tenths = 5, !.strategy = "stratified"]),
            Alone(Layer(2) \o <<[l |-> "ReLU"]>>, Short, Plain), Alone(<<[l |-> "ReLU"]>>, Short, Plain),
            Alone(Layer(1), [Short EXCEPT !.width = 0], Plain), Alone(Layer(1), Short, [Plain EXCEPT !.metric = "auc"]),
            Alone(Layer(2), Short, [Plain EXCEPT !.explicit = TRUE]),
            Alone(<<[l |-> "Embedding", vocab |-> <<2>>, shared |-> FALSE, n |-> 1]>> \o Layer(1), Short, Plain),
            Alone(<<[l |-> "Embedding", vocab |-> <<2>>, shared |-> TRUE, n |-> 1], [l |-> "Conv1d", n |-> 1, kernel |-> 1]>> \o Layer(1), Short, Plain)}

Stops == {Alone(Layer(1), Short, [Plain EXCEPT !.epochs = <<4>>, !.tenths = t, !.patience = p]) : t \in {0, 5}, p \in 0..2}

Classifiers == {Alone(Layer(2), Table(<<3, 5, 5, 3>>, <<1, 2, 3, 4>>), [Plain EXCEPT !.epochs = <<0>>, !.tenths = t, !.metric = m, !.explicit = m # "mse"]) :
                  t \in {0, 3}, m \in {"mse", "auc"}}
               \cup {Alone(Layer(3), Table(<<0, 1, 2>>, <<1, 2, 3>>), [Plain EXCEPT !.epochs = <<0>>])}
               \cup {Alone(Layer(1), Table(<<0, Null, 2>>, <<1, 2, 3>>), [Plain EXCEPT !.epochs = <<0>>])}

(* Sweeps of two or three combinations.                                      *)
Grid == [Plain EXCEPT !.epochs = <<0>>, !.sweep = TRUE, !.lr = <<2, 1>>]
Sweeps == {Alone(Layer(1), Three, [Grid EXCEPT !.metric = m, !.tenths = t, !.sort = s, !.top = n]) :
             m \in {"mse", "mae", "r2"}, t \in {0, 4}, s \in {"metric", "lr"}, n \in {Null, 1}}
          \cup {Alone(Layer(1), Short, [Grid EXCEPT !.epochs = <<1, 0>>, !.lr = <<1>>, !.batch = <<2, 1>>, !.sort = s, !.tiebreak = t, !.top = n]) :
             s \in {"metric", "epochs"}, t \in {<<>>, <<"batch">>}, n \in {3, 9}}
          \cup {Alone(Layer(2), Short, [Grid EXCEPT !.metric = m, !.explicit = m # "mse"]) : m \in {"mse", "auc", "f1"}}

(* Networks: an optional embedding, an optional layer, activations, Dense(1).*)
Act(names) == [i \in DOMAIN names |-> [l |-> names[i]]]
Activations == {Act(a) : a \in {<<>>, <<"ReLU">>, <<"Softmax">>, <<"Dropout">>, <<"ReLU", "Dropout">>, <<"Dropout", "Tanh">>, <<"Sigmoid", "BatchNorm">>}}
Embeddings == {<<>>, <<[l |-> "Embedding", vocab |-> <<3>>, shared |-> TRUE, n |-> 1]>>,
               <<[l |-> "Embedding", vocab |-> <<2, 3>>, shared |-> FALSE, n |-> 2]>>}
Inner == {Layer(2), <<[l |-> "Conv1d", n |-> 2, kernel |-> 2]>>, <<[l |-> "Conv1d", n |-> 1, kernel |-> 3]>>}
Networks == {Alone(e \o a \o i \o b \o Layer(1), [Short EXCEPT !.width = w], [Plain EXCEPT !.epochs = <<0>>]) :
               e \in Embeddings, a \in {<<>>, Act(<<"ReLU">>)}, i \in Inner, b \in Activations, w \in 1..2}

(* Two variables, one block or two.                                          *)
Once == [Plain EXCEPT !.epochs = <<0>>]
Shared(block, config, uses) ==
    <<Train("a", "M", Layer(1), Short, Once), Predict("a"), Train("b", block, Layer(1), Short, config)>> \o uses
Uses == {Shared(b, c, u) : b \in {"M", "N"}, c \in {Once, [Once EXCEPT !.sweep = TRUE]},
                           u \in {<<Predict("a"), Predict("b")>>, <<Predict("b"), Predict("a")>>}}
Untrained == {<<Predict("a")>>}
MCPrograms == Untrained \cup SplitRuns \cup Misfits \cup Stops \cup Classifiers \cup Sweeps \cup Networks \cup Uses
=============================================================================
