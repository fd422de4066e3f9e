------------------------------ MODULE Printer -------------------------------
(* xazz-compiler/src/policy/printer.rs: a program written back as source,    *)
(* already as the lexemes the lexer will make of the text.  Strings are      *)
(* quoted and escaped and come back as they were; what is written without    *)
(* quotes is read as its words; a number keeps its value.                    *)
EXTENDS Parser

Concat(ss) == FoldLeft(LAMBDA a, b : a \o b, <<>>, ss)
Separated(ss, sep) == Concat([i \in DOMAIN ss |-> IF i = 1 THEN ss[i] ELSE <<Sym(sep)>> \o ss[i]])
Parens(ss)   == <<Sym("(")>> \o Separated(ss, ",") \o <<Sym(")")>>
Brackets(ss) == <<Sym("[")>> \o Separated(ss, ",") \o <<Sym("]")>>
Quoted(s)    == <<StringLit(s)>>
(* load's separator is the one string that is not escaped.                   *)
RawQuoted(s) == IF s = "\"" THEN <<Garbled>> ELSE Quoted(s)
BoolLit(b)   == <<Word(IF b THEN "true" ELSE "false")>>
Key(k, text) == <<Word(k), Sym(":")>> \o text
OptKey(k, option, Text1(_)) == IF option = <<>> THEN <<>> ELSE <<Key(k, Text1(option[1]))>>
Each(s, Text1(_)) == [i \in DOMAIN s |-> Text1(s[i])]

(* Expressions: operands and operator one after the other, no parentheses.   *)
RECURSIVE PrintExpr(_)
PrintExpr(e) ==
    CASE e.e = "ident" -> Bare(e.name)
      [] e.e = "lit" -> <<e.tok>>
      [] e.e = "bin" -> PrintExpr(e.l) \o <<Sym(e.op)>> \o PrintExpr(e.r)

PrintWithDp(args) ==
    Parens(<<Key("epsilon", <<FloatLit(args.epsilon)>>), Key("mechanism", Bare(args.mechanism)),
             Key("sensitivity", <<FloatLit(args.sensitivity)>>)>>
           \o OptKey("delta", args.delta, LAMBDA x : <<FloatLit(x)>>)
           \o OptKey("seed", args.seed, LAMBDA n : <<IntLit(n)>>))

(* patience, split and time_column are not written.                          *)
PrintTrainArgs(model, c) ==
    LET Ints(ns) == Each(ns, LAMBDA n : <<IntLit(n)>>)
        epochs == IF c.sweep["epochs"] = <<>> THEN <<IntLit(c.epochs)>> ELSE Brackets(Ints(c.sweep["epochs"]))
        lr     == IF c.sweep["lr"] = <<>> THEN <<FloatLit(c.lr)>>
                  ELSE Brackets(Each(c.sweep["lr"], LAMBDA x : <<FloatLit(x)>>))
        batch  == IF c.sweep["batch_size"] # <<>> THEN <<Key("batch_size", Brackets(Ints(c.sweep["batch_size"])))>>
                  ELSE OptKey("batch_size", c.batch_size, LAMBDA n : <<IntLit(n)>>)
    IN  Parens(<<Bare(model), Key("target", Quoted(c.target)), Key("epochs", epochs), Key("lr", lr)>> \o batch
               \o OptKey("validation_split", c.validation_split, LAMBDA x : <<FloatLit(x)>>)
               \o OptKey("metric", c.metric, Quoted) \o OptKey("sort", c.sort, Quoted)
               \o (IF c.tiebreak = <<>> THEN <<>> ELSE <<Key("tiebreak", Brackets(Each(c.tiebreak, Quoted)))>>)
               \o OptKey("top", c.top, LAMBDA n : <<IntLit(n)>>))

JoinOnAlways(args) ==  \* mutant: the short form on: whatever the right keys are
    LET KeyList(ks) == IF Len(ks) = 1 THEN Quoted(ks[1]) ELSE Brackets(Each(ks, Quoted)) IN
    Parens(<<Bare(args[1])>> \o <<Key("on", KeyList(args[2]))>> \o <<Key("how", Quoted(args[4]))>>)

(* One key stands alone, several are a list; the short form on: for equal    *)
(* sides.                                                                    *)
PrintJoin(args) ==
    LET KeyList(ks) == IF Len(ks) = 1 THEN Quoted(ks[1]) ELSE Brackets(Each(ks, Quoted))
        sides == IF args[2] = args[3] /\ args[2] # <<>> THEN <<Key("on", KeyList(args[2]))>>
                 ELSE <<Key("left_on", KeyList(args[2])), Key("right_on", KeyList(args[3]))>>
    IN  Parens(<<Bare(args[1])>> \o sides \o <<Key("how", Quoted(args[4]))>>)

(* Column names of a chart are written without quotes.                       *)
PrintChart(c) ==
    <<Sym("{")>> \o Key("type", Bare(c.type[1]))
    \o Concat(OptKey("x", c.x, Bare) \o OptKey("y", c.y, Bare) \o OptKey("label", c.label, Bare)
              \o OptKey("value", c.value, Bare) \o OptKey("title", c.title, Quoted))
    \o <<Sym("}")>>

PrintFill(value) == IF value.t = "strategy" THEN Key("strategy", Quoted(value.v)) ELSE <<value>>

PrintArgs(op, args) ==
    CASE op = "filter" -> Parens(<<PrintExpr(args[1])>>)
      [] op = "select" -> Parens(<<Brackets(Each(args[1], Bare))>>)
      [] op \in ColumnOps \cup {"corr", "cast", "rename", "replace", "count"} -> Parens(Each(args, Quoted))
      [] op = "quantile" -> Parens(<<Quoted(args[1]), <<FloatLit(args[2])>> >>)
      [] op = "histogram" -> Parens(<<Quoted(args[1]), Key("bins", <<IntLit(args[2])>>)>>)
      [] op = "outlierIqr" -> Parens(<<Quoted(args[1]), Key("factor", <<FloatLit(args[2])>>)>>)
      [] op = "agg" -> Parens(<<Brackets(Each(args[1], LAMBDA a : <<Word(a[1])>> \o Parens(<<Quoted(a[2])>>)))>>)
      [] op = "orderBy" -> Parens(<<Quoted(args[1]), Key("desc", BoolLit(args[2]))>>)
      [] op = "take" -> Parens(<< <<IntLit(args[1])>> >>)
      [] op = "sample" -> Parens(<< <<IntLit(args[1])>> >> \o OptKey("seed", args[2], LAMBDA n : <<IntLit(n)>>))
      [] op = "fillNull" -> Parens(<<Quoted(args[1]), PrintFill(args[2])>>)
      [] op = "withColumn" -> Parens(<<Quoted(args[1]), PrintExpr(args[2])>>)
      [] op = "join" -> PrintJoin(args)
      [] op = "chart" -> PrintChart(args[1])
      [] op = "train" -> PrintTrainArgs(args[1], args[2])
      [] op = "predict" -> Parens(<<Bare(args[1])>> \o OptKey("as", args[2], Quoted))
      [] op = "withDp" -> PrintWithDp(args[1])
      [] op = "save" -> Parens(<<Quoted(args[1]), Key("format", Quoted(args[2]))>>)
PrintOps(ops) == Concat([i \in DOMAIN ops |-> <<Sym("|>"), Word(ops[i].op)>> \o PrintArgs(ops[i].op, ops[i].args)])

PrintSource(s) ==
    IF s.from = "var" THEN Bare(s.name)
    ELSE <<Word("load")>> \o Parens(<<Quoted(s.path)>> \o OptKey("sep", s.sep, RawQuoted) \o OptKey("header", s.header, BoolLit))
         \o <<Sym("::")>> \o Bare(s.schema)

PrintField(f) ==
    Bare(f[1]) \o <<Sym(":")>>
    \o (IF Len(f) = 3 THEN <<Word("Option"), Sym("<")>> \o Bare(f[3]) \o <<Sym(">")>> ELSE Bare(f[2])) \o <<Sym(",")>>
PrintTypeDecl(s) ==
    <<Word("type")>> \o Bare(s.name) \o <<Sym("="), Sym("{")>> \o Concat(Each(s.fields, PrintField)) \o <<Sym("}"), Sym(";")>>

PrintVocab(shared, sizes) ==
    IF shared # <<>> THEN <<IntLit(shared[1])>> ELSE Brackets(Each(sizes, LAMBDA n : <<IntLit(n)>>))
PrintLayer(l) ==
    LET Ints(ns) == Each(ns, LAMBDA n : <<IntLit(n)>>) IN
    <<Word(l[1])>> \o
    (CASE l[1] = "Dense" -> Parens(Ints(Tail(l)))
       [] l[1] = "Conv1d" -> Parens(Ints(Tail(l)))
       [] l[1] = "Dropout" -> Parens(<< <<FloatLit(l[2])>> >>)
       [] l[1] = "Embedding" -> Parens(<<PrintVocab(l[2], l[3]), <<IntLit(l[4])>> >>)
       [] OTHER -> Parens(<<>>))
PrintModelDecl(s) ==
    <<Word("model")>> \o Bare(s.name) \o <<Sym("{")>> \o Separated(Each(s.layers, PrintLayer), "->") \o <<Sym("}")>>

PrintPipeline(head, s) == head \o PrintSource(s.source) \o PrintOps(s.ops) \o <<Sym(";")>>
VarHeadOf(s) == (IF s.mut THEN <<Word("mut")>> ELSE <<>>) \o <<Word("v")>> \o Bare(s.name) \o <<Sym("=")>>
PrintStmt(s) ==
    CASE s.s = "type" -> PrintTypeDecl(s)
      [] s.s = "model" -> PrintModelDecl(s)
      [] s.s \in {"var", "expr"} -> PrintPipeline(IF s.s = "var" THEN VarHeadOf(s) ELSE <<>>, s)
      [] s.s = "train" -> <<Word("run")>> \o Bare(s.var) \o <<Sym("|>"), Word("train")>> \o PrintTrainArgs(s.model, s.config)
      [] s.s = "import" -> <<Word("import")>> \o Quoted(s.path)

(* A statement ends with a newline, so the text never ends in a token.       *)
PrintProgram(stmts) == Tokenize(Concat(Each(stmts, PrintStmt)), TRUE)
=============================================================================
