----------------------------- MODULE MCGuardrail ----------------------------
(* The guardrail over the policy engine: what is judged and repaired are     *)
(* source texts, read by the parser, written by the printer.                 *)
EXTENDS Remediation, Guardrail

CONSTANTS t1, t2, repair, gate, other   \* tenants and requests

(* -------------------------------------------------------------- the names *)
MCSpaced == [k \in {"full name"} |-> <<"full", "name">>]
MCNormal == [k \in {"E-Mail"} |-> "email"]
MCFormatOf == [k \in {"out.csv"} |-> "csv"]
MCPathFacts ==
    [k \in {"../secret", "/etc/x", "models/m"} |->
       CASE k = "../secret" -> [fragments |-> {".env"}, traversal |-> TRUE, absolute |-> FALSE, model |-> None]
         [] k = "/etc/x"    -> [fragments |-> {"etc"}, traversal |-> FALSE, absolute |-> TRUE, model |-> None]
         [] k = "models/m"  -> [fragments |-> {}, traversal |-> FALSE, absolute |-> FALSE, model |-> Some("m")]]
MCLiteralRules == [k \in {"123-45-6789"} |-> {"XZP010"}]

(* ----------------------------------------------------------- the policies *)
Strict ==
    [allowed |-> {}, direct |-> {"email", "full name"}, sensitive |-> {"salary"}, quasi |-> {"zip", "age"},
     threshold |-> 2, maxEpsilon |-> 500, remediationEpsilon |-> 100, requireDp |-> TRUE, severity |-> <<>>,
     deniedPaths |-> {"etc"}, authorisedPaths |-> {"data"}, models |-> <<>>, deniedLicenses |-> {"gpl"},
     requireProvenance |-> TRUE]
Lenient ==
    [Strict EXCEPT !.allowed = {"E-Mail"}, !.requireDp = FALSE,
                   !.severity = "XZP002" :> "warn" @@ [k \in {"XZP003", "XZP004", "XZP014"} |-> "block"], !.models = "m" :> "gpl"]

(* -------------------------------------------------------------- the texts *)
Names(ns) == Each(ns, LAMBDA n : <<Word(n)>>)
Pipe(op, args) == <<Sym("|>"), Word(op)>> \o Parens(args)
Schema == <<Word("type"), Word("T"), Sym("="), Sym("{")>>
          \o Concat(Each(<<"email", "salary", "zip", "age", "city">>,
                         LAMBDA c : <<Word(c), Sym(":"), Word("Str"), Sym(",")>>))
          \o <<Sym("}"), Sym(";")>>
From(path, options, schema) ==
    <<Word("load")>> \o Parens(<<Quoted(path)>> \o options) \o <<Sym("::"), Word(schema)>>
Var(name, source, ops) == <<Word("v"), Word(name), Sym("=")>> \o source \o ops \o <<Sym(";")>>
On(ops) == Schema \o Var("a", From("p.csv", <<>>, "T"), ops)

City == Pipe("select", <<Brackets(Names(<<"city">>))>>)
Mean(key) == Pipe("groupBy", <<Quoted(key)>>) \o Pipe("mean", <<Quoted("salary")>>)
Filter(toks) == Pipe("filter", <<toks>>)
Paren(toks) == <<Sym("(")>> \o toks \o <<Sym(")")>>
Infix(l, op, r) == l \o <<Sym(op)>> \o r
Id(n) == <<Word(n)>>
Num(n) == <<IntLit(n)>>
Noise(eps) == Pipe("withDp", <<Key("epsilon", <<FloatLit(eps)>>)>>)
Bar(x, y) == <<Sym("|>"), Word("chart"), Sym("{")>> \o Key("type", Id("bar")) \o Key("x", x) \o Key("y", y) \o <<Sym("}")>>
Net == <<Word("model"), Word("M"), Sym("{"), Word("Dense"), Sym("("), IntLit(8), Sym(")"), Sym("->"),
         Word("Embedding"), Sym("(")>> \o Brackets(<<Num(3), Num(4)>>) \o <<Sym(","), IntLit(2), Sym(")"), Sym("}")>>

Columns ==
    <<On(Pipe("select", <<Brackets(Names(<<"email", "city">>))>>)),
      On(Pipe("select", <<Brackets(<<Quoted("city"), Quoted("full name")>>)>>)),
      On(Pipe("select", <<Brackets(<<Quoted("count"), Id("zip")>>)>>)),
      On(Pipe("rename", <<Quoted("email"), Quoted("E-Mail")>>)
         \o Pipe("withColumn", <<Quoted("age"), Infix(Id("zip"), "*", Num(2))>>)),
      On(Mean("zip")), On(Mean("email")), On(Pipe("groupBy", <<Quoted("age")>>) \o Mean("zip")),
      On(Mean("city") \o Noise(900)),
      On(Mean("city") \o Noise(100) \o <<Sym("|>"), Word("count")>>),
      Schema \o Var("a", From("p.csv", <<>>, "U"), <<>>),
      On(City) \o Id("a") \o Pipe("orderBy", <<Quoted("city"), Key("desc", BoolLit(TRUE))>>),
      On(<<>>) \o Id("a") \o Pipe("select", <<Brackets(Names(<<"email", "city">>))>>)>>
Expressions ==
    <<On(Filter(Infix(Id("salary"), ">", Infix(Paren(Infix(Id("age"), "+", Num(1))), "*", Num(2)))) \o City),
      On(Filter(Infix(Infix(Id("age"), "-", Paren(Infix(Id("zip"), "-", Num(1)))), ">", Num(0))) \o City),
      On(Filter(Infix(Infix(Infix(Id("age"), "-", Id("zip")), "-", Infix(Num(1), "*", Num(2))), ">", Num(0))) \o City),
      On(Filter(Infix(Paren(Infix(Id("age"), ">", Num(1))), "==", BoolLit(TRUE))) \o City),
      On(Filter(Infix(<<Word("col")>> \o Paren(Quoted("full name")), "==", Quoted("123-45-6789"))) \o City)>>
Charts ==
    <<On(Mean("city") \o Bar(Id("city"), Id("salary"))),
      On(Bar(Id("email"), Id("salary"))),
      On(Mean("city") \o Bar(Id("city"), Quoted("full name"))),
      On(Pipe("select", <<Brackets(Names(<<"email", "city">>))>>) \o Bar(Id("city"), Id("count"))),
      On(Mean("city") \o Bar(Id("city"), Id("salary")) \o Noise(900)),
      On(Bar(Id("city"), Id("age")) \o Mean("email"))>>
Fit(config) == <<Word("run"), Word("a"), Sym("|>"), Word("train")>> \o Parens(<<Id("M"), Key("target", Quoted("age"))>> \o config)
Models ==
    <<On(Mean("zip")) \o Net \o Fit(<<Key("epochs", Brackets(<<Num(1), Num(2)>>)), Key("lr", <<FloatLit(5)>>)>>),
      On(Mean("zip")) \o Net \o Fit(<<Key("patience", Num(3)), Key("split", Id("random"))>>),
      On(Mean("zip")) \o Net \o Fit(<<Key("epochs", Brackets(<<Num(1), Num(2)>>)), Key("epochs", Num(3))>>),
      Schema \o Var("a", From("models/m", <<>>, "T"), City)>>
Sources ==
    <<Schema \o Var("a", From("p.csv", <<Key("sep", Quoted("\""))>>, "T"), Pipe("select", <<Brackets(Names(<<"email", "city">>))>>)),
      Schema \o Var("a", From("/etc/x", <<Key("separator", Quoted(";")), Key("header", BoolLit(FALSE))>>, "T"), City),
      Schema \o Var("a", From("../secret", <<>>, "T"), City),
      On(Pipe("select", <<Brackets(Names(<<"city", "age">>))>>))
        \o Var("b", From("p.csv", <<>>, "T"),
               Pipe("join", <<Id("a"), Key("left_on", Quoted("zip")), Key("right_on", Quoted("city"))>>)),
      Schema \o Id("a")>>
(* Everything else the printer writes.                                       *)
Rest ==
    On(Pipe("cast", <<Quoted("age"), Quoted("int")>>) \o Pipe("replace", <<Quoted("city"), Quoted("x"), Quoted("y")>>)
       \o Pipe("fillNull", <<Quoted("age"), Key("strategy", Quoted("mean"))>>)
       \o Pipe("fillNull", <<Quoted("zip"), Num(0)>>) \o Pipe("dropNull", <<Quoted("city")>>)
       \o Pipe("sample", <<Num(5), Key("seed", Num(7))>>) \o Pipe("take", <<Num(3)>>)
       \o Pipe("outlierIqr", <<Quoted("age"), Key("factor", Num(2))>>)
       \o Pipe("predict", <<Id("M"), Key("as", Quoted("guess"))>>)
       \o Pipe("agg", <<Brackets(<<Id("mean") \o Parens(<<Quoted("salary")>>), Id("count") \o Parens(<<Quoted("zip")>>)>>)>>)
       \o Pipe("save", <<Quoted("out.csv")>>))
    \o <<Word("import"), StringLit("lib")>>
    \o Var("b", Id("a"), Pipe("corr", <<Quoted("age"), Quoted("zip")>>) \o Pipe("quantile", <<Quoted("age"), <<FloatLit(50)>> >>)
                         \o Pipe("histogram", <<Quoted("age")>>))
Plain == Columns \o Expressions \o Charts \o Models \o Sources \o <<Rest>>
Draft(ts, newline, comment) == [toks |-> Tokenize(ts, newline), comment |-> comment]
Drafts == Each(Plain, LAMBDA ts : Draft(ts, TRUE, {}))
          \o <<Draft(On(City), TRUE, {"XZP010"}), Draft(On(City), FALSE, {"XZP010"}),
               Draft(On(City), TRUE, {}), Draft(On(<<>>), TRUE, {})>>
Sent == 1..Len(Drafts)
Clean == Len(Drafts) - 1
Leaky == Len(Drafts)

(* ------------------------------------------------------- the instance     *)
Headers(bearer, tenant, actor) == [bearer |-> bearer, tenant |-> tenant, actor |-> actor]
MCServer == [token |-> Absent, tenants |-> t1 :> "k1" @@ t2 :> "k2", admins |-> {"ka"}, actors |-> "kb" :> "auditor"]
Own == t1 :> Headers("k1", t1, Absent) @@ t2 :> Headers("k2", t2, Absent)
Delegated(t) == Headers("ka", t, Absent)
MCHeadersOf == repair :> {Own[t1]} @@ gate :> {Own[t1], Delegated(t1)}
               @@ other :> {Own[t2], Headers("k2", t1, Absent), Headers(Absent, t2, Absent)}
MCChangers == {Own[t1], Headers("kb", t1, "somebody"), Delegated(Absent), Headers("k1", t2, Absent)}
MCTenantOf == repair :> t1 @@ gate :> t1 @@ other :> t2
MCKindOf == repair :> "remediate" @@ gate :> "gate" @@ other :> "gate"
(* Texts and policies are numbered, to keep the states small: those sent,    *)
(* then those the repair under each policy makes of them.                    *)
Policies == <<Strict, Lenient>>
MCPacks  == DOMAIN Policies
MCGlobal == 2
MCTexts == repair :> Sent @@ gate :> {} @@ other :> {Clean}
MCProposals == {Clean, Leaky}

(* What the engine makes of every text under every policy, worked out once.  *)
Judgement(policy, code, verdict, answer) ==
    [verdict   |-> verdict,
     repair    |-> answer,
     exact     |-> code.parsed.ok => Reprinted(code.parsed.program),
     printable |-> code.parsed.ok => Printable(code.parsed.program),
     fixed     |-> FixedWhenFixable(policy, code, verdict, answer),
     settled   |-> code.parsed.ok => Settles(policy, code.parsed.program)]
JudgementOf(code, policy, verdict) == Judgement(policy, code, verdict, AnswerFor(code, policy, verdict))
JudgementsOf(codes) ==
    [n \in DOMAIN codes |-> [p \in MCPacks |-> JudgementOf(codes[n], Policies[p], Analyze(codes[n], Policies[p]))]]
RepairsOf(known) == Concat([p \in MCPacks |-> Each(known, LAMBDA k : k[p].repair.code)])
Round[k \in 1..2] ==
    JudgementsOf(IF k = 1 THEN Each(Drafts, LAMBDA d : Code(d.toks, d.comment)) ELSE RepairsOf(Round[1]))
Known == Concat([k \in 1..2 |-> Round[k]])
MCVerdict(n, p) == Known[n][p].verdict
(* A text that is already repaired keeps its number.                         *)
MCRepair(n, p) == [Known[n][p].repair EXCEPT !.code = IF n \in Sent THEN n + p * Len(Drafts) ELSE n]

-----------------------------------------------------------------------------
Judged == {r \in Requests : req[r].pc \notin {"idle", "arrived"} /\ req[r].policy \in Packs}

(* The text the printer writes is read back as the same program exactly when *)
(* no expression needs parentheses, names written without quotes are words   *)
(* that are not keywords, and training options the printer does not know are *)
(* at their defaults (printer.rs; parser.rs).                                *)
RoundTripExact == \A r \in Judged : Known[req[r].code][req[r].policy].exact = Known[req[r].code][req[r].policy].printable

(* When every violation is one the engine says it repairs, and nothing       *)
(* stands in the way that Remediation names, the repaired code is         *)
(* verified (remediate.rs).                                                  *)
FixableIsFixed == \A r \in Judged : Known[req[r].code][req[r].policy].fixed

(* Repairing a repaired program changes nothing, when no pipeline computes    *)
(* after a chart (remediate.rs rewrite_program).                             *)
RepairSettles == \A r \in Judged : Known[req[r].code][req[r].policy].settled

(* printer.rs:7-10: what the printer writes parses back to the same program. *)
PrinterGuarantee == \A r \in Judged : Known[req[r].code][req[r].policy].exact
=============================================================================
