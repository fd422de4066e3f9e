------------------------------- MODULE Policy -------------------------------
(* xazz-compiler/src/policy (mod.rs, rules.rs): the static judgement of a    *)
(* source text.  The output columns of every pipeline are inferred and       *)
(* judged, the text is searched for literals that must not be there.         *)
(*                                                                           *)
(* A code has the tokens of a text, the rules its comments break and what    *)
(* parsing it gives.  A policy has the column classes allowed, direct, sensitive and quasi, the   *)
(* bounds, and severity, which overrides the default severity of a rule.     *)
EXTENDS Printer

CONSTANTS Normal,      \* names that are not their own normal form -> that form
          PathFacts,   \* paths a rule looks at -> [fragments, traversal, absolute, model]
          LiteralRules \* strings the literal scan recognises -> the rules they break

Code(toks, comment) == [toks |-> toks, comment |-> comment, parsed |-> Parse(toks)]

None == <<>>
Some(x) == <<x>>

(* -------------------------------------------------------- classification  *)
NormalizeColumn(name) == IF name \in DOMAIN Normal THEN Normal[name] ELSE name
Matches(list, name) == \E c \in list : NormalizeColumn(c) = NormalizeColumn(name)
(* The allowlist comes first.                                                *)
Classify(policy, name) ==
    IF Matches(policy.allowed, name) THEN "none"
    ELSE IF Matches(policy.direct, name) THEN "direct"
    ELSE IF Matches(policy.sensitive, name) THEN "sensitive"
    ELSE IF Matches(policy.quasi, name) THEN "quasi"
    ELSE "none"

(* A policy that loads is consistent.                                        *)
Valid(policy) ==
    /\ policy.maxEpsilon > 0
    /\ policy.remediationEpsilon \in 1..policy.maxEpsilon
    /\ policy.threshold >= 1

SeverityFor(policy, rule, default) ==
    IF rule \in DOMAIN policy.severity THEN policy.severity[rule] ELSE default

(* --------------------------------------------------------- output columns *)
Raw(name) == [name |-> name, agg |-> FALSE]
Agg(name) == [name |-> name, agg |-> TRUE]
Shape(cols, known) == [cols |-> cols, agg |-> FALSE, dp |-> None, known |-> known]

PushUnique(cols, c) == IF \E i \in DOMAIN cols : cols[i].name = c.name THEN cols ELSE Append(cols, c)
RenameCol(c, old, new) == IF c.name = old THEN [c EXCEPT !.name = new] ELSE c
Picked(cols, name) ==
    LET same == SelectSeq(cols, LAMBDA c : c.name = name) IN
    IF same = <<>> THEN Raw(name) ELSE same[1]

SingleStatistics == (ColumnOps \ {"groupBy", "dropNull"}) \cup {"quantile"}
StatisticNames(op) ==
    CASE op.op \in SingleStatistics -> <<op.args[1]>>
      [] op.op = "count" -> IF op.args = <<>> THEN <<"count">> ELSE op.args
      [] op.op = "corr" -> <<op.args[1] \o "_" \o op.args[2] \o "_corr">>
      [] op.op = "agg" -> [i \in DOMAIN op.args[1] |-> op.args[1][i][2]]
Statistics == SingleStatistics \cup {"count", "corr", "agg"}

(* One operation on the shape; keys are the group keys so far.               *)
ShapeStep(st, op, vars) ==
    LET sh == st.shape
        Columns(cols) == [st EXCEPT !.shape.cols = cols, !.shape.known = TRUE]
    IN  CASE op.op = "select" -> Columns([i \in DOMAIN op.args[1] |-> Picked(sh.cols, op.args[1][i])])
          [] op.op = "groupBy" -> IF op.args[1] \in ToSet(st.keys) THEN st ELSE [st EXCEPT !.keys = Append(@, op.args[1])]
          [] op.op \in Statistics ->
               [Columns([i \in DOMAIN st.keys |-> Raw(st.keys[i])]
                        \o [i \in DOMAIN StatisticNames(op) |-> Agg(StatisticNames(op)[i])]) EXCEPT !.shape.agg = TRUE]
          [] op.op = "histogram" -> [Columns(<<Agg("bin"), Agg("n")>>) EXCEPT !.shape.agg = TRUE]
          [] op.op = "withColumn" -> [st EXCEPT !.shape.cols = PushUnique(@, Raw(op.args[1]))]
          [] op.op = "predict" -> [st EXCEPT !.shape.cols = PushUnique(@, Raw(Else(op.args[2], "prediction")))]
          [] op.op = "rename" ->
               [st EXCEPT !.shape.cols = [i \in DOMAIN @ |-> RenameCol(@[i], op.args[1], op.args[2])],
                          !.keys = [i \in DOMAIN @ |-> IF @[i] = op.args[1] THEN op.args[2] ELSE @[i]]]
          [] op.op = "join" ->
               IF op.args[1] \in DOMAIN vars
               THEN [st EXCEPT !.shape.cols = FoldLeft(PushUnique, @, vars[op.args[1]].cols),
                               !.shape.known = @ /\ vars[op.args[1]].known]
               ELSE [st EXCEPT !.shape.known = FALSE]
          [] op.op = "withDp" -> [st EXCEPT !.shape.dp = Some(op.args[1])]
          [] OTHER -> st

SourceShape(source, schemas, vars) ==
    CASE source.from = "load" /\ source.schema \in DOMAIN schemas ->
           LET fs == schemas[source.schema] IN Shape([i \in DOMAIN fs |-> Raw(fs[i][1])], TRUE)
      [] source.from = "var" /\ source.name \in DOMAIN vars -> vars[source.name]
      [] OTHER -> Shape(<<>>, FALSE)

InferShape(source, ops, schemas, vars) ==
    FoldLeft(LAMBDA st, op : ShapeStep(st, op, vars),
             [shape |-> SourceShape(source, schemas, vars), keys |-> <<>>], ops).shape

(* ---------------------------------------------------------------- judging *)
(* Each rule is <<rule, default severity>> when it applies.                  *)
When(condition, rule, default) == IF condition THEN {<<rule, default>>} ELSE {}
ColumnsOf(policy, cols, class) == SelectSeq(cols, LAMBDA c : Classify(policy, c.name) = class)
Exposed(shape) == SelectSeq(shape.cols, LAMBDA c : ~c.agg)
OverBudget(policy, dp) == dp.epsilon =< 0 \/ dp.epsilon > policy.maxEpsilon

ShapeRules(policy, shape) ==
    LET Shown(class) == ColumnsOf(policy, Exposed(shape), class) IN
    When(~shape.known, "XZP014", "warn")
    \cup When(Shown("direct") # <<>>, "XZP001", "block")
    \cup When(~shape.agg /\ Shown("sensitive") # <<>>, "XZP002", "block")
    \cup When(Len(Shown("quasi")) >= policy.threshold, "XZP003", IF shape.agg THEN "warn" ELSE "block")
    \cup When(shape.agg /\ shape.dp = None /\ ColumnsOf(policy, shape.cols, "sensitive") # <<>>, "XZP004",
              IF policy.requireDp THEN "block" ELSE "warn")
    \cup When(shape.dp # None /\ OverBudget(policy, shape.dp[1]), "XZP005", "block")

(* Where the data and the models come from.  A path outside the authorised   *)
(* directories is blocked whatever the severities say.                       *)
PlainPath == [fragments |-> {}, traversal |-> FALSE, absolute |-> FALSE, model |-> None]
FactsOf(path) == IF path \in DOMAIN PathFacts THEN PathFacts[path] ELSE PlainPath
PathRules(policy, facts) ==
    When(facts.fragments \cap (policy.deniedPaths \cup {".env"}) # {}, "XZP012", "block")
    \cup When(facts.traversal, "XZP013", "warn")
OutsideAuthorised(policy, facts) == facts.absolute /\ facts.fragments \cap policy.authorisedPaths = {}
ModelRules(policy, facts) ==
    IF facts.model = None THEN {}
    ELSE IF facts.model[1] \in DOMAIN policy.models
    THEN When(policy.models[facts.model[1]] \in policy.deniedLicenses, "XZP030", "block")
    ELSE When(policy.requireProvenance, "XZP031", "block")

Severities(policy, rules) == {<<r[1], SeverityFor(policy, r[1], r[2])>> : r \in rules}
JudgePipeline(policy, source, shape) ==
    LET facts == FactsOf(source.path)
        paths == IF source.from = "load" THEN PathRules(policy, facts) \cup ModelRules(policy, facts) ELSE {}
    IN  Severities(policy, ShapeRules(policy, shape) \cup paths)
        \cup When(source.from = "load" /\ OutsideAuthorised(policy, facts), "XZP012", "block")

(* The schemas of the whole program are known before its pipelines; the      *)
(* variables as they are declared.                                           *)
Schemas(program) ==
    FoldLeft(LAMBDA m, s : IF s.s = "type" THEN (s.name :> s.fields) @@ m ELSE m, <<>>, program)
Noted(policy, st, s, shape) ==
    [vars  |-> IF s.s = "var" THEN (s.name :> shape) @@ st.vars ELSE st.vars,
     found |-> st.found \cup JudgePipeline(policy, s.source, shape)]
ApplyAstRules(policy, program) ==
    FoldLeft(LAMBDA st, s :
               IF s.s \notin {"var", "expr"} THEN st
               ELSE Noted(policy, st, s, InferShape(s.source, s.ops, Schemas(program), st.vars)),
             [vars |-> <<>>, found |-> {}], program).found

(* PII, secrets and risky prompts in strings and comments.                   *)
TextOf(tok) == IF tok.t = "str" /\ tok.v \in DOMAIN LiteralRules THEN LiteralRules[tok.v] ELSE {}
ApplyLiteralRules(policy, code) ==
    Severities(policy, {<<r, "block">> : r \in code.comment \cup UNION {TextOf(code.toks[i]) : i \in DOMAIN code.toks}})

(* A text that does not parse is never safe, and its literals are reported   *)
(* all the same.                                                             *)
Result(violations) == [violations |-> violations, safe |-> violations = {}]
Blocking(found) == {r[1] : r \in {f \in found : f[2] = "block"}}
Analyze(code, policy) ==
    Result(Blocking(ApplyLiteralRules(policy, code)
                    \cup (IF code.parsed.ok THEN ApplyAstRules(policy, code.parsed.program) ELSE {<<"XZP000", "block">>})))
=============================================================================
