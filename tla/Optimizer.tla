----------------------------- MODULE Optimizer ------------------------------
(* xazz-compiler/src/opt.rs: the passes of `--opt` over the steps of one     *)
(* pipeline, in the order they run.                                          *)
EXTENDS Expressions

(* Constant folding.  Equal kinds fold exactly and mixed literals do not     *)
(* fold unless both are numbers; a division is left alone here (see the      *)
(* README), as is arithmetic that would overflow.                            *)
RECURSIVE FoldExpr(_)
FoldExpr(e) ==
    IF e.e # "bin" THEN e
    ELSE LET l == FoldExpr(e.l)
             r == FoldExpr(e.r)
             numbers  == l.t \in Numeric /\ r.t \in Numeric
             foldable == CASE e.op \in {"==", "!="} -> numbers \/ l.t = r.t
                           [] e.op = "/" -> FALSE
                           [] OTHER -> numbers
             type == IF e.op \notin {"+", "-", "*"} THEN "bool"
                     ELSE IF "float" \in {l.t, r.t} THEN "float" ELSE "int"
         IN  IF l.e = "lit" /\ r.e = "lit" /\ foldable
             THEN [e |-> "lit", v |-> Compute(e.op, l.v, r.v), t |-> type]
             ELSE [e EXCEPT !.l = l, !.r = r]

FoldConstants(steps) ==
    [i \in DOMAIN steps |-> IF steps[i].k \in {"filter", "withColumn"}
                            THEN [steps[i] EXCEPT !.expr = FoldExpr(@)] ELSE steps[i]]

(* Of consecutive selects only the last is kept.                             *)
MergeSelects(steps) ==
    LET Superseded(i) == steps[i].k = "select" /\ i < Len(steps) /\ steps[i + 1].k = "select"
        kept == {i \in DOMAIN steps : ~Superseded(i)}
    IN  [j \in 1..Cardinality(kept) |->
           steps[CHOOSE i \in kept : Cardinality({h \in kept : h =< i}) = j]]

(* A filter moves before a select that keeps all of its columns, and before  *)
(* a withColumn it does not read.                                            *)
MovesOverAny(before, step) ==  \* mutant: whatever withColumn defines
    step.k = "filter" /\ (before.k = "select" => ExprColumns(step.expr) \subseteq ToSet(before.cols))
                      /\ before.k \in {"select", "withColumn"}
CanMove(before, step) ==
    /\ step.k = "filter"
    /\ \/ before.k = "select" /\ ExprColumns(step.expr) \subseteq ToSet(before.cols)
       \/ before.k = "withColumn" /\ before.name \notin ExprColumns(step.expr)
(* One pass from left to right.                                              *)
PushdownFilters(steps) ==
    FoldLeft(LAMBDA s, i : IF CanMove(s[i - 1], s[i]) THEN [s EXCEPT ![i - 1] = s[i], ![i] = s[i - 1]] ELSE s,
             steps, [j \in 1..(Len(steps) - 1) |-> j + 1])

OptimizeSteps(steps) == PushdownFilters(MergeSelects(FoldConstants(steps)))
OptimizeProgram(pipelines) ==
    [n \in DOMAIN pipelines |-> [pipelines[n] EXCEPT !.steps = OptimizeSteps(@)]]
=============================================================================
