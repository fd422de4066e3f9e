------------------------------ MODULE Emitter -------------------------------
(* xazz-compiler/src/emitter.rs: `xazz emit rust' translates a program as it *)
(* was parsed, without resolving imports and without the checker, into a     *)
(* Rust program that calls Polars and Burn.  The generated program is a      *)
(* sequence of statements:                                                   *)
(*   [g |-> "let", var, from, calls]           a chain of calls, collected   *)
(*   [g |-> "train", var, block, target]       train, write the checkpoint   *)
(*   [g |-> "predict", var, block, target, as] read it, add the prediction   *)
EXTENDS Lowering, Checker

Statements(program, kind) == SelectSeq(program, LAMBDA s : s.s = kind)

(* find_model_layers: of the first model of that name.                       *)
LayersOf(program, model) ==
    LET named == SelectSeq(Statements(program, "model"), LAMBDA s : s.name = model)
    IN  IF named = <<>> THEN <<>> ELSE named[1].layers

(* Classification and every split but the sequential tail are refused.       *)
TrainConfigs(program) ==
    {[model |-> s.model, config |-> s.config] : s \in ToSet(Statements(program, "train"))}
    \cup UNION {{[model |-> op.model, config |-> op.config] : op \in {o \in ToSet(s.ops) : o.k = "train"}} :
                  s \in ToSet(Statements(program, "var"))}
Classifies(program, t) ==
    \/ t.config.metric \in {"cross_entropy", "accuracy", "precision", "recall", "f1", "auc"}
    \/ LET layers == LayersOf(program, t.model) IN layers # <<>> /\ Last(layers).l = "Dense" /\ Last(layers).n > 1
UnsupportedTraining(program) ==
    \E t \in TrainConfigs(program) :
        Classifies(program, t) \/ t.config.strategy # "sequential" \/ t.config.timeColumn # Null

(* The types of the columns of a source, as its schema declares them; what   *)
(* the operations in between do to them is not tracked.                      *)
Schemas(program) ==
    FoldLeft(LAMBDA m, s : (s.name :> s.fields) @@ m, <<>>, Statements(program, "type"))
ColTypes(schemas, types, from) ==
    IF from.from = "var" THEN IF from.var \in DOMAIN types THEN types[from.var] ELSE <<>>
    ELSE IF from.schema \notin DOMAIN schemas THEN <<>>
    ELSE FoldLeft(LAMBDA m, f : (f.name :> f.t) @@ m, <<>>, schemas[from.schema])

(* validate_expr_columns: a nested right operand is not looked into.         *)
RECURSIVE ExprAsks(_)
ExprAsks(e) ==
    CASE e.e = "col" -> {e.name}
      [] e.e = "bin" -> ExprAsks(e.l) \cup (IF e.r.e = "col" THEN {e.r.name} ELSE {})
      [] OTHER -> {}

(* validate_op_columns: both keys of a join are looked up on the left.       *)
Asks(op) ==
    CASE op.k \in {"filter", "withColumn"} -> ExprAsks(op.expr)
      [] op.k = "select" -> ToSet(op.cols)
      [] op.k = "join" -> ToSet(op.leftOn) \cup ToSet(op.rightOn)
      [] op.k = "rename" -> {op.old}
      [] op.k = "corr" -> {op.a, op.b}
      [] op.k = "aggList" -> {op.specs[i].col : i \in DOMAIN op.specs}
      [] op.k \in {"groupBy", "quantile", "histogram", "outlierIqr", "orderBy", "dropNull", "fillNull", "replace"} -> {op.col}
      [] op.k = "agg" -> IF op.kind = "len" THEN {} ELSE {op.col}
      [] OTHER -> {}
SchemaError(op, cols, types) ==
    ~(Asks(op) \subseteq DOMAIN cols) \/ (op.k = "join" /\ op.other \notin DOMAIN types)

(* An integer literal compared or combined with a float column is a float.   *)
RECURSIVE PolarsExpr(_, _)
PolarsExpr(e, cols) ==
    IF e.e # "bin" THEN e
    ELSE LET float == e.l.e = "col" /\ e.l.name \in DOMAIN cols /\ cols[e.l.name] = "float"
         IN  [e EXCEPT !.l = PolarsExpr(@, cols),
                       !.r = IF float /\ @.e = "lit" THEN [@ EXCEPT !.t = IF @ = "int" THEN "float" ELSE @]
                             ELSE PolarsExpr(@, cols)]

-----------------------------------------------------------------------------
(* The chain of calls being written for a variable.  predict() ends it, and  *)
(* the next operation starts another from the variable itself.               *)
Chain(from) == [code |-> <<>>, from |-> from, calls |-> <<>>, group |-> Null, open |-> TRUE]
Collect(c, var) ==
    IF ~c.open THEN c
    ELSE [c EXCEPT !.code = Append(@, [g |-> "let", var |-> var, from |-> c.from, calls |-> c.calls]), !.open = FALSE]
Reopen(c, var) ==
    IF c.open THEN c ELSE [c EXCEPT !.from = [from |-> "var", var |-> var], !.calls = <<>>, !.open = TRUE]
Call(c, call) == [c EXCEPT !.calls = Append(@, call)]

(* filter and select; count() leaves only a flag, groupBy its column.        *)
EmitSimple(c, op, cols) ==
    CASE op.k = "filter" -> Call(c, [op EXCEPT !.expr = PolarsExpr(@, cols)])
      [] op.k = "select" -> Call(c, op)
      [] op.k = "groupBy" -> [c EXCEPT !.group = op.col]
      [] op.k = "agg" -> c

(* Sort, limit, nulls, join, withColumn, cast, rename, replace and sample    *)
(* are calls of the operation's own name; a chart is a comment.              *)
Direct == {"orderBy", "take", "dropNull", "fillNull", "join", "withColumn", "cast", "rename", "replace", "sample"}
EmitDirect(c, op, cols) ==
    IF op.k = "withColumn" THEN Call(c, [op EXCEPT !.expr = PolarsExpr(@, cols)]) ELSE Call(c, op)

(* An aggregate takes the group that is waiting.                             *)
KeepsGroup(c, outs) == Call(c, [k |-> "aggregate", key |-> c.group, outs |-> outs])  \* mutant
EmitAggregate(c, outs) == [Call(c, [k |-> "aggregate", key |-> c.group, outs |-> outs]) EXCEPT !.group = Null]

(* A correlation is not given a name, so it has that of its first column.    *)
StatisticOuts(op) ==
    CASE op.k = "corr" -> <<[name |-> op.a, kind |-> "corr", cols |-> <<op.a, op.b>>]>>
      [] op.k = "quantile" -> <<[name |-> op.col, kind |-> "quantile", cols |-> <<op.col>>]>>
      [] op.k = "agg" -> <<[name |-> op.col, kind |-> op.kind, cols |-> <<op.col>>]>>
AggListOuts(op) ==
    [i \in DOMAIN op.specs |-> [name |-> AggSuffix(op.specs[i].col, op.specs[i].kind),
                                kind |-> op.specs[i].kind, cols |-> <<op.specs[i].col>>]]

(* find_model_binding: the first train of the first variable of that name.   *)
Binding(program, var) ==
    LET trains == FlattenSeq([i \in DOMAIN program |->
                    IF program[i].s = "var" /\ program[i].name = var
                    THEN SelectSeq(program[i].ops, LAMBDA op : op.k = "train") ELSE <<>>])
    IN  IF trains = <<>> THEN Null ELSE trains[1]

(* A sweep's model, or one nobody trained, is not predicted with.            *)
EmitPredict(program, c, var, op) ==
    LET closed == Collect(c, var)
        train  == Binding(program, op.var)
    IN  IF train = Null \/ train.config.sweep # {} THEN closed
        ELSE [closed EXCEPT !.code = Append(@,
                [g |-> "predict", var |-> var, block |-> train.model, target |-> train.config.target, as |-> op.as])]

(* What the runtime alone does: a comment in the generated program.          *)
RuntimeOnly == {"chart", "histogram", "outlierIqr", "withDp", "save"}

EmitOp(program, var, cols, c0, op) ==
    LET c == Reopen(c0, var) IN
    CASE op.k \in {"filter", "select", "groupBy"} \/ (op.k = "agg" /\ op.kind = "len") -> EmitSimple(c, op, cols)
      [] op.k \in Direct -> EmitDirect(c, op, cols)
      [] op.k \in {"quantile", "corr"} \/ (op.k = "agg" /\ op.kind # "len") -> EmitAggregate(c, StatisticOuts(op))
      [] op.k = "aggList" -> EmitAggregate(c, AggListOuts(op))
      [] op.k = "predict" -> EmitPredict(program, c, var, op)
      [] op.k \in RuntimeOnly -> c

-----------------------------------------------------------------------------
(* A list of vocabularies must have one entry for each numeric feature.      *)
EmbeddingError(layers, target, cols) ==
    /\ layers # <<>> /\ layers[1].l = "Embedding" /\ ~layers[1].shared /\ cols # <<>>
    /\ Len(layers[1].vocab) # Cardinality({c \in DOMAIN cols \ {target} : cols[c] \in Numeric})
EmitTrain(var, op) == [g |-> "train", var |-> var, block |-> op.model, target |-> op.config.target]

(* A train ends its pipeline.  Its variable gets no column types.            *)
EmitVar(program, st, s) ==
    LET cols   == ColTypes(Schemas(program), st.types, s.from)
        trains == {i \in DOMAIN s.ops : s.ops[i].k = "train"}
        before == IF trains = {} THEN s.ops ELSE SubSeq(s.ops, 1, Min(trains) - 1)
        code   == Collect(FoldLeft(LAMBDA c, op : EmitOp(program, s.name, cols, c, op), Chain(s.from), before), s.name).code
        train  == s.ops[Min(trains)]
    IN  IF \/ cols # <<>> /\ \E i \in DOMAIN s.ops : SchemaError(s.ops[i], cols, st.types)
           \/ trains # {} /\ EmbeddingError(LayersOf(program, train.model), train.config.target, cols)
        THEN [st EXCEPT !.ok = FALSE]
        ELSE IF trains # {} THEN [st EXCEPT !.code = @ \o code \o <<EmitTrain(s.name, train)>>]
        ELSE [st EXCEPT !.code = @ \o code, !.types = IF cols = <<>> THEN @ ELSE (s.name :> cols) @@ @]

(* Training statements come after all the pipelines.                         *)
EmitRun(program, st, s) ==
    IF s.var \in DOMAIN st.types /\ EmbeddingError(LayersOf(program, s.model), s.config.target, st.types[s.var])
    THEN [st EXCEPT !.ok = FALSE]
    ELSE [st EXCEPT !.code = Append(@, EmitTrain(s.var, s))]

(* Statements that are only an expression are left out.                      *)
GenerateRust(program) ==
    IF UnsupportedTraining(program) THEN [ok |-> FALSE, code |-> <<>>, types |-> <<>>]
    ELSE LET vars == FoldLeft(LAMBDA st, s : EmitVar(program, st, s), [ok |-> TRUE, code |-> <<>>, types |-> <<>>],
                              Statements(program, "var"))
         IN  FoldLeft(LAMBDA st, s : EmitRun(program, st, s), vars, Statements(program, "train"))
=============================================================================
