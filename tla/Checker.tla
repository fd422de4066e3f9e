------------------------------ MODULE Checker -------------------------------
(* xazz-compiler/src/checker.rs: one pass over the merged program that       *)
(* collects the diagnostics that block execution and emits the typed IR.     *)
(* Columns are tracked as name -> [t: type, opt: may be null].  The IR       *)
(* operations are the AST operations; warnings block nothing and are left    *)
(* out.                                                                      *)
EXTENDS Expressions

ColType(t, opt) == [t |-> t, opt |-> opt]
NoCols == <<>>

EmptyAnalysis ==
    [schemas |-> <<>>, models |-> <<>>, vars |-> <<>>, trained |-> {}, errors |-> {}, pipelines |-> <<>>]
Report(a, es) == [a EXCEPT !.errors = @ \cup es]
When(condition, error) == IF condition THEN {error} ELSE {}

(* An embedding vocabulary is one size for all columns or a list of sizes.   *)
VocabSizes(l) == IF l.shared THEN {l.vocab[1]} ELSE ToSet(l.vocab)
LayerErrors(i, l) ==
    CASE l.l = "Conv1d" -> When(0 \in {l.n, l.kernel}, "conv parameters")
      [] l.l = "Embedding" ->
           When(l.vocab = <<>> \/ 0 \in VocabSizes(l) \cup {l.n}, "embedding parameters")
           \cup When(i # 1, "embedding not first")
      [] OTHER -> {}
ModelErrors(layers) ==
    UNION {LayerErrors(i, layers[i]) : i \in DOMAIN layers}
    \cup When(~ \E i \in DOMAIN layers : \/ layers[i].l = "Dense" /\ layers[i].n > 0
                                         \/ layers[i].l = "Conv1d" /\ layers[i].n > 0 /\ layers[i].kernel > 0,
              "no dense layer")

(* train: a time column needs the sequential split, sweep values are         *)
(* positive, and a list of vocabularies has one entry for every feature.     *)
Features(cols, target) == {c \in DOMAIN cols \ {target} : cols[c].t \in Numeric}
SweepErrors(config) ==
    When(config.timeColumn # Null /\ config.strategy # "sequential", "time column needs sequential")
    \cup When(\E v \in config.sweep : v =< 0, "sweep value")
VocabErrors(layers, config, cols) ==
    When(/\ config.target \in DOMAIN cols /\ cols[config.target].t \in Numeric
         /\ layers # <<>> /\ layers[1].l = "Embedding" /\ ~layers[1].shared
         /\ Len(layers[1].vocab) # Cardinality(Features(cols, config.target)),
         "vocab length")
TrainErrors(a, op, cols) ==
    SweepErrors(op.config)
    \cup (IF op.model \in DOMAIN a.models THEN VocabErrors(a.models[op.model], op.config, cols)
          ELSE {"undeclared model"})

(* The columns each operation requires of the frame.                         *)
Needs(op) ==
    CASE op.k \in {"filter", "withColumn"} -> ExprColumns(op.expr)
      [] op.k = "select" -> ToSet(op.cols)
      [] op.k \in {"groupBy", "quantile", "histogram", "outlierIqr", "orderBy", "dropNull",
                   "fillNull", "cast", "replace"} -> {op.col}
      [] op.k = "agg" -> IF op.kind = "count" THEN {op.col} ELSE {}
      [] op.k = "rename" -> {op.old}
      [] op.k = "join" -> ToSet(op.leftOn)
      [] op.k = "chart" -> op.cols
      [] OTHER -> {}
(* An aggregate over an unknown column is diagnosed like any other.          *)
AggColumns(op) ==
    CASE op.k = "agg" -> IF op.kind \in {"count", "len"} THEN {} ELSE {op.col}
      [] op.k = "aggList" -> {op.specs[i].col : i \in DOMAIN op.specs}
      [] op.k = "corr" -> {op.a, op.b}
      [] OTHER -> {}

CheckColumns(names, cols) == When(~(names \subseteq DOMAIN cols), "missing column")
JoinErrors(a, op) ==
    CASE op.k # "join" -> {}
      [] op.other \in a.trained -> {"join with a model"}
      [] op.other \notin DOMAIN a.vars -> {"undeclared variable"}
      [] OTHER -> CheckColumns(ToSet(op.rightOn), a.vars[op.other])

PredictErrors(a, op) == When(op.var \notin a.trained, "not a trained model")
OpErrors(a, op, cols) ==
    CheckColumns(Needs(op) \cup AggColumns(op), cols)
    \cup JoinErrors(a, op)
    \cup (CASE op.k = "train" -> TrainErrors(a, op, cols)
            [] op.k = "predict" -> PredictErrors(a, op)
            [] op.k = "fillNull" -> When(op.col \in DOMAIN cols /\ ~cols[op.col].opt, "fillNull on non-nullable")
            [] op.k = "cast" -> When(op.to \notin {"float", "int", "str", "bool"}, "unknown cast type")
            [] OTHER -> {})

(* type_expr: arithmetic is float whatever its operands are.                 *)
InferredType(e, cols) ==
    CASE e.e = "col" -> IF e.name \in DOMAIN cols THEN cols[e.name] ELSE ColType("unknown", TRUE)
      [] e.e = "lit" -> ColType(e.t, FALSE)
      [] e.e = "bin" -> ColType(IF e.op \in {"+", "-", "*", "/"} THEN "float" ELSE "bool", FALSE)

KeepsOldName(op, cols) == (op.new :> cols[op.old]) @@ cols  \* mutant
Renamed(op, cols) == (op.new :> cols[op.old]) @@ Restrict(cols, DOMAIN cols \ {op.old})

(* The columns tracked after an operation.  Aggregates other than histogram  *)
(* leave them as they were, and a join adds none.                            *)
Tracked(op, cols) ==
    CASE op.k = "select" -> Restrict(cols, ToSet(op.cols) \cap DOMAIN cols)
      [] op.k = "histogram" -> [bin |-> ColType("str", FALSE), n |-> ColType("int", FALSE)]
      [] op.k = "withColumn" -> (op.name :> InferredType(op.expr, cols)) @@ cols
      [] op.k = "predict" -> IF op.as = Null THEN cols ELSE (op.as :> ColType("float", TRUE)) @@ cols
      [] op.k = "cast" -> IF op.col \in DOMAIN cols
                          THEN (op.col :> ColType(op.to, cols[op.col].opt)) @@ cols ELSE cols
      [] op.k = "rename" -> IF op.old \in DOMAIN cols THEN Renamed(op, cols) ELSE cols
      [] op.k = "withDp" -> [c \in DOMAIN cols |->
                               IF cols[c].t \in Numeric THEN ColType("float", cols[c].opt) ELSE cols[c]]
      [] OTHER -> cols

Grouping(op, group) ==
    CASE op.k = "groupBy" -> op.col
      [] op.k \in {"agg", "aggList", "quantile", "corr", "histogram"} -> Null
      [] OTHER -> group

(* The state of checking one pipeline; train ends it.                        *)
CheckOp(a, st, op) ==
    IF st.model THEN st
    ELSE [cols   |-> Tracked(op, st.cols), group |-> Grouping(op, st.group),
          errors |-> st.errors \cup OpErrors(a, op, st.cols),
          steps  |-> Append(st.steps, op), model |-> op.k = "train"]

SourceColumns(a, from) ==
    IF from.from = "load"
    THEN IF from.schema \in DOMAIN a.schemas
         THEN LET fs == a.schemas[from.schema] IN
              [n \in {fs[i].name : i \in DOMAIN fs} |->
                 LET f == fs[CHOOSE i \in DOMAIN fs : fs[i].name = n] IN ColType(f.t, f.opt)]
         ELSE NoCols
    ELSE IF from.var \in DOMAIN a.vars \ a.trained THEN a.vars[from.var] ELSE NoCols
SourceErrors(a, from) ==
    IF from.from = "load"
    THEN When(from.schema \notin DOMAIN a.schemas, "undeclared type")
    ELSE When(from.var \in a.trained, "model as a source")
         \cup When(from.var \notin DOMAIN a.vars \cup a.trained, "undeclared variable")
(* The IR source carries the declared schema with it.                        *)
IrSource(a, from) ==
    IF from.from = "load"
    THEN [from |-> "load", file |-> from.file,
          schema |-> IF from.schema \in DOMAIN a.schemas THEN a.schemas[from.schema] ELSE <<>>]
    ELSE from

CheckPipeline(a, name, from, ops) ==
    LET st == FoldLeft(LAMBDA s, op : CheckOp(a, s, op),
                       [cols |-> SourceColumns(a, from), group |-> Null, errors |-> {}, steps |-> <<>>, model |-> FALSE],
                       ops)
        es == SourceErrors(a, from) \cup st.errors \cup When(st.group # Null, "groupBy without aggregate")
        node == [name |-> name, from |-> IrSource(a, from), steps |-> st.steps, model |-> st.model]
    IN  [Report(a, es) EXCEPT
           !.pipelines = Append(@, node),
           !.vars = IF name = Null THEN @ ELSE (name :> st.cols) @@ @,
           !.trained = IF name # Null /\ st.model THEN @ \cup {name} ELSE @]

CheckTrainStmt(a, s) ==
    LET op == [k |-> "train", model |-> s.model, config |-> s.config] IN
    IF s.var \notin DOMAIN a.vars THEN Report(a, SweepErrors(s.config) \cup {"undeclared variable"})
    ELSE IF s.model \notin DOMAIN a.models THEN Report(a, SweepErrors(s.config) \cup {"undeclared model"})
    ELSE [Report(a, TrainErrors(a, op, a.vars[s.var])
                    \cup When(s.config.target \notin DOMAIN a.vars[s.var], "missing target"))
          EXCEPT !.pipelines = Append(@, [name |-> Null, from |-> [from |-> "var", var |-> s.var],
                                          steps |-> <<op>>, model |-> FALSE])]

CheckVarDecl(a, s) ==
    IF s.name \in DOMAIN a.vars \cup a.trained THEN Report(a, {"duplicate variable"})
    ELSE CheckPipeline(a, s.name, s.from, s.ops)

(* Imports are expanded before; a redeclared name is reported and skipped.   *)
CheckStmt(a, s) ==
    CASE s.s = "import" -> Report(a, {"unresolved import"})
      [] s.s = "type" -> IF s.name \in DOMAIN a.schemas THEN Report(a, {"duplicate schema"})
                         ELSE [a EXCEPT !.schemas = (s.name :> s.fields) @@ @]
      [] s.s = "model" -> IF s.name \in DOMAIN a.models THEN Report(a, {"duplicate model"})
                          ELSE [Report(a, ModelErrors(s.layers)) EXCEPT !.models = (s.name :> s.layers) @@ @]
      [] s.s = "var" -> CheckVarDecl(a, s)
      [] s.s = "expr" -> CheckPipeline(a, Null, s.from, s.ops)
      [] s.s = "train" -> CheckTrainStmt(a, s)

AnalyzeProgram(stmts) == FoldLeft(CheckStmt, EmptyAnalysis, stmts)
=============================================================================
