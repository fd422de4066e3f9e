----------------------------- MODULE Remediation ----------------------------
(* xazz-compiler/src/policy/remediate.rs: the deterministic repair.  The     *)
(* program is rewritten, printed and analysed again.                         *)
EXTENDS Policy

Fixable == {"XZP001", "XZP002", "XZP003", "XZP004", "XZP005"}

DroppedLate(policy, shape) ==  \* mutant: one quasi-identifier too many is kept
    LET exposed == Exposed(shape)
        Class(i) == Classify(policy, exposed[i].name)
        Rank(i) == Cardinality({j \in 1..i : Class(j) = "quasi"})
    IN  {exposed[i].name : i \in {j \in DOMAIN exposed :
          \/ Class(j) = "direct"
          \/ Class(j) = "sensitive" /\ ~shape.agg
          \/ Class(j) = "quasi" /\ ~shape.agg /\ Rank(j) > policy.threshold}}
(* The columns an output may not have: direct identifiers, row-wise          *)
(* sensitive columns, and row-wise quasi-identifiers from the threshold on.  *)
Dropped(policy, shape) ==
    LET exposed == Exposed(shape)
        Class(i) == Classify(policy, exposed[i].name)
        Rank(i) == Cardinality({j \in 1..i : Class(j) = "quasi"})
    IN  {exposed[i].name : i \in {j \in DOMAIN exposed :
          \/ Class(j) = "direct"
          \/ Class(j) = "sensitive" /\ ~shape.agg
          \/ Class(j) = "quasi" /\ ~shape.agg /\ Rank(j) >= policy.threshold}}

ChartColumns(op) == UNION {ToSet(op.args[1][k]) : k \in {"x", "y", "label", "value"}}
Kept(shape, drop) ==
    LET kept == SelectSeq(shape.cols, LAMBDA c : c.name \notin drop) IN [i \in DOMAIN kept |-> kept[i].name]

NoiseAdded(policy) ==
    Op("withDp", <<[epsilon |-> policy.remediationEpsilon, mechanism |-> "laplace", sensitivity |-> 100,
                    delta |-> <<>>, seed |-> <<>>]>>)
Clamp(policy, op) ==
    IF op.op = "withDp" /\ OverBudget(policy, op.args[1]) THEN [op EXCEPT !.args[1].epsilon = policy.maxEpsilon] ELSE op

NoiseAgain(policy, shape) ==  \* mutant: noise that is already there is not seen
    shape.agg /\ policy.requireDp /\ ColumnsOf(policy, shape.cols, "sensitive") # <<>>
NeedsNoise(policy, shape) ==
    /\ shape.agg /\ shape.dp = None /\ policy.requireDp
    /\ ColumnsOf(policy, shape.cols, "sensitive") # <<>>

(* Everything is inserted before the first chart, which stays last.  A final *)
(* select is replaced by the new projection.                                 *)
RewriteOps(policy, ops, shape) ==
    LET charts    == {i \in DOMAIN ops : ops[i].op = "chart"}
        split     == IF charts = {} THEN Len(ops) ELSE Min(charts) - 1
        drop      == Dropped(policy, shape)
        keep      == Kept(shape, drop)
        project   == drop # {} /\ keep # <<>> /\ \A i \in charts : ChartColumns(ops[i]) \cap drop = {}
        head      == [i \in 1..split |-> Clamp(policy, ops[i])]
        shortened == IF project /\ head # <<>> /\ Last(head).op = "select" THEN Front(head) ELSE head
    IN  IF ~shape.known THEN ops
        ELSE shortened \o (IF project THEN <<Op("select", <<keep>>)>> ELSE <<>>)
             \o (IF NeedsNoise(policy, shape) THEN <<NoiseAdded(policy)>> ELSE <<>>) \o SubSeq(ops, split + 1, Len(ops))

(* A later pipeline is repaired knowing what the earlier ones have become.   *)
Rewritten(schemas, st, s, ops) ==
    [vars |-> IF s.s = "var" THEN (s.name :> InferShape(s.source, ops, schemas, st.vars)) @@ st.vars ELSE st.vars,
     out  |-> Append(st.out, [s EXCEPT !.ops = ops])]
RewriteProgram(policy, program) ==
    LET schemas == Schemas(program)
        NewOps(st, s) == RewriteOps(policy, s.ops, InferShape(s.source, s.ops, schemas, st.vars))
    IN  FoldLeft(LAMBDA st, s : IF s.s \in {"var", "expr"} THEN Rewritten(schemas, st, s, NewOps(st, s))
                                ELSE [st EXCEPT !.out = Append(@, s)],
                 [vars |-> <<>>, out |-> <<>>], program).out

Answer(code, residual, verified) == [code |-> code, residual |-> residual, verified |-> verified]

(* The repaired text has no comments.  It is called verified when it passes  *)
(* and nothing that only a human can repair was found in the original.       *)
Recheck(policy, fixed, left) == Answer(fixed, left, left = {} /\ Analyze(fixed, policy).safe)
AnswerFor(code, policy, before) ==
    IF before.safe THEN Answer(code, {}, TRUE)
    ELSE IF ~code.parsed.ok THEN Answer(code, before.violations, FALSE)
    ELSE Recheck(policy, Code(PrintProgram(RewriteProgram(policy, code.parsed.program)), {}),
                 before.violations \ Fixable)
Remediate(code, policy) == AnswerFor(code, policy, Analyze(code, policy))

(* What the deterministic repair promises, and for which programs.           *)

(* ----------------------------------------------------- printed exactly    *)
Reprinted(program) == Parse(PrintProgram(program)) = [ok |-> TRUE, program |-> program]

OneName(name) == Bare(name) = <<[t |-> "ident", v |-> name]>>
Level(e) == IF e.e # "bin" THEN 3 ELSE IF e.op \in Comparisons THEN 0 ELSE IF e.op \in LevelOps[1] THEN 1 ELSE 2

(* Neither operand of an operator needs parentheses.                         *)
RECURSIVE PrintableExpr(_)
PrintableExpr(e) ==
    CASE e.e = "ident" -> OneName(e.name)
      [] e.e = "lit" -> TRUE
      [] e.e = "bin" -> /\ PrintableExpr(e.l) /\ PrintableExpr(e.r)
                        /\ Level(e.l) >= Level(e) /\ Level(e.r) > Level(e)
                        /\ Level(e) = 0 => Level(e.l) > 0

ChartName(name) == \/ OneName(name)
                   \/ Bare(name) = <<[t |-> "keyword", v |-> name]>> /\ name \in ColumnName.ws
PrintableConfig(c) ==
    /\ c.patience = <<>> /\ c.time_column = <<>> /\ c.split = "sequential"
    /\ \A k \in Sweepable : c.sweep[k] # <<>> => c[k] = TrainDefaults[k]
PrintableOp(op) ==
    CASE op.op = "filter" -> PrintableExpr(op.args[1])
      [] op.op = "withColumn" -> PrintableExpr(op.args[2])
      [] op.op = "select" -> \A i \in DOMAIN op.args[1] : OneName(op.args[1][i])
      [] op.op = "chart" -> \A name \in ChartColumns(op) : ChartName(name)
      [] op.op = "train" -> PrintableConfig(op.args[2])
      [] OTHER -> TRUE
PrintableSource(source) == source.from = "load" => source.sep # <<"\"">>
PrintableStmt(s) ==
    CASE s.s \in {"var", "expr"} -> PrintableSource(s.source) /\ \A i \in DOMAIN s.ops : PrintableOp(s.ops[i])
      [] s.s = "train" -> PrintableConfig(s.config)
      [] OTHER -> TRUE
Printable(program) == \A i \in DOMAIN program : PrintableStmt(program[i])

(* ------------------------------------------------------------- repaired   *)
VarShapes(program) ==
    FoldLeft(LAMBDA vars, s :
               IF s.s = "var" THEN (s.name :> InferShape(s.source, s.ops, Schemas(program), vars)) @@ vars ELSE vars,
             <<>>, program)

(* Something is left to output, no chart shows a column that has to go,      *)
(* nothing computes after a chart, and the rules block an aggregate only     *)
(* where the repair would act.                                               *)
Reachable(policy, ops, shape) ==
    LET drop   == Dropped(policy, shape)
        charts == {i \in DOMAIN ops : ops[i].op = "chart"}
        Blocks(rule, default) == SeverityFor(policy, rule, default) = "block"
    IN  /\ shape.known
        /\ drop # {} => Kept(shape, drop) # <<>> /\ \A i \in charts : ChartColumns(ops[i]) \cap drop = {}
        /\ \A i \in charts : \A j \in i..Len(ops) : j \in charts
        /\ shape.agg => ~Blocks("XZP003", "warn") /\ (Blocks("XZP004", "warn") => policy.requireDp)

AllReachable(policy, old, new) ==
    \A k \in DOMAIN old : old[k].s \in {"var", "expr"} =>
        Reachable(policy, old[k].ops,
                  InferShape(old[k].source, old[k].ops, Schemas(old), VarShapes(SubSeq(new, 1, k - 1))))

AllFixable(policy, old, new) == Printable(new) /\ AllReachable(policy, old, new)
FixedWhenFixable(policy, code, analysis, answer) ==
    /\ code.parsed.ok
    /\ analysis.violations \subseteq Fixable
    /\ AllFixable(policy, code.parsed.program, RewriteProgram(policy, code.parsed.program))
    => answer.verified

ChartsLast(program) ==
    \A k \in DOMAIN program : program[k].s \in {"var", "expr"} =>
        \A i, j \in DOMAIN program[k].ops :
            program[k].ops[i].op = "chart" /\ i < j => program[k].ops[j].op = "chart"
Unmoved(policy, program) == RewriteProgram(policy, program) = program
Settles(policy, program) == ChartsLast(program) => Unmoved(policy, RewriteProgram(policy, program))
=============================================================================
