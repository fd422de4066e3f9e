------------------------------ MODULE Codegen -------------------------------
(* xazz-compiler/src/codegen.rs: the Polars flow that the compiler shows for *)
(* a program, one statement after the other and one call per operation.  It  *)
(* is written from the same operations as the emitter's (Emitter), through   *)
(* the same expressions (polars_text.rs), by another mapping.                *)
EXTENDS Emitter

(* Filters, projections, the group and a count of the rows, a comment.       *)
FlowOfRows(op) ==
    CASE op.k \in {"filter", "select", "groupBy"} -> <<op>>
      [] op.k = "agg" -> <<>>

(* An aggregate is the method of one column, unnamed.                        *)
FlowOfAggregate(op) ==
    <<[k |-> "agg", outs |-> <<[name |-> op.col, kind |-> op.kind, cols |-> <<op.col>>]>>]>>

FlowOfStatistic(op) ==
    <<[k |-> "agg", outs |->
        CASE op.k = "quantile" -> <<[name |-> op.col, kind |-> "quantile", cols |-> <<op.col>>]>>
          [] op.k = "corr" -> <<[name |-> op.a, kind |-> "corr", cols |-> <<op.a, op.b>>]>>
          [] op.k = "aggList" -> AggListOuts(op)]>>

(* Sorting, nulls, joins, new columns, casts, names and samples: the call    *)
(* has the operation's own arguments, with literals as they are written.     *)
FlowOfCells(op) == <<op>>

(* Charts, models and histograms are comments; noise and files are shown.    *)
FlowOfRuntime(op) ==
    IF op.k \in {"withDp", "save"} THEN <<op>> ELSE <<>>

FlowOf(op) ==
    CASE op.k \in {"filter", "select", "groupBy"} \/ (op.k = "agg" /\ op.kind = "len") -> FlowOfRows(op)
      [] op.k = "agg" /\ op.kind # "len" -> FlowOfAggregate(op)
      [] op.k \in {"quantile", "corr", "aggList"} -> FlowOfStatistic(op)
      [] op.k \in Direct -> FlowOfCells(op)
      [] OTHER -> FlowOfRuntime(op)

(* A variable is the source, the calls and one collect at the end; so is an  *)
(* expression, under a name no program can use.                              *)
Flow(ops) == FlattenSeq([i \in DOMAIN ops |-> FlowOf(ops[i])])
FlowOfVar(s) == <<[var |-> s.name, from |-> s.from, calls |-> Flow(s.ops)]>>
FlowOfExpr(s) == <<[var |-> Null, from |-> s.from, calls |-> Flow(s.ops)]>>

(* Declarations, imports and trainings are comments.                         *)
FlowOfStmt(s) ==
    CASE s.s = "var" -> FlowOfVar(s)
      [] s.s = "expr" -> FlowOfExpr(s)
      [] OTHER -> <<>>
ShownFlow(program) == FlattenSeq([i \in DOMAIN program |-> FlowOfStmt(program[i])])

-----------------------------------------------------------------------------
(* Polars only has agg() on a group_by() and the reverse; the emitter writes *)
(* the two as one call.  An aggregate without a group is a select there.     *)
Paired(calls) ==
    \A i \in DOMAIN calls : calls[i].k = "groupBy" => i < Len(calls) /\ calls[i + 1].k = "agg"
Merged(calls) ==
    FlattenSeq([i \in DOMAIN calls |->
        CASE calls[i].k = "groupBy" -> <<>>
          [] calls[i].k = "agg" ->
               <<[k |-> "aggregate", key |-> IF i > 1 /\ calls[i - 1].k = "groupBy" THEN calls[i - 1].col ELSE Null,
                  outs |-> calls[i].outs]>>
          [] OTHER -> <<calls[i]>>])

(* The emitter knows the columns of a source and writes float literals.      *)
Promoted(calls, cols) ==
    [i \in DOMAIN calls |-> IF calls[i].k \in {"filter", "withColumn"} THEN [calls[i] EXCEPT !.expr = PolarsExpr(@, cols)]
                            ELSE calls[i]]

(* What is shown for a variable without a model is what is emitted for it.   *)
ShowsWhatItEmits(program) ==
    LET g == GenerateRust(program)
        Plain(s) == s.s = "var" /\ \A op \in ToSet(s.ops) : op.k \notin {"train", "predict", "withDp", "save"}
    IN  \A s \in ToSet(program) :
            g.ok /\ Plain(s) /\ Paired(Flow(s.ops)) =>
                \E shown \in ToSet(FlowOfStmt(s)) :
                    [g |-> "let", var |-> shown.var, from |-> shown.from,
                     calls |-> Promoted(Merged(shown.calls), ColTypes(Schemas(program), g.types, s.from))] \in ToSet(g.code)
=============================================================================
