------------------------------- MODULE Parser -------------------------------
(* xazz-compiler/src/lexer.rs and parser.rs: from a source text to its AST.  *)
(* The parser is recursive descent over the tokens ts.  The productions that *)
(* only list what they expect are patterns, and Match walks a pattern the way*)
(* the code calls expect, eat and advance one after the other.  Where the    *)
(* code looks at the current token to choose, a pattern lists the            *)
(* alternatives; they never begin with the same token.                       *)
(*                                                                           *)
(* A parse has the position i after what was read (0 when it failed) and the *)
(* sequence v of the values read.  An optional value is a sequence of at     *)
(* most one element.                                                         *)
EXTENDS Integers, SequencesExt

CONSTANTS
    Spaced,     \* the names that are not one word: name -> its words
    FormatOf    \* the format a path's extension stands for

-----------------------------------------------------------------------------
(* lexer.rs: the tokens of a source text.  A text is a sequence of lexemes,  *)
(* each already a word, a quoted string, a number or a symbol; characters,   *)
(* spans and comments are left out.  Two things remain of the state machine: *)
(* which words are keywords, and that the end-of-file token is missing when  *)
(* nothing follows the last lexeme.  A number with a decimal point is kept in*)
(* hundredths.                                                               *)
Keywords ==
    {"type", "import", "load", "filter", "select", "count", "v", "mut", "Option",
     "groupBy", "sum", "mean", "min", "max", "orderBy", "take", "dropNull", "fillNull",
     "join", "withColumn", "on", "how", "true", "false", "desc", "chart", "cast",
     "rename", "replace", "left_on", "right_on", "sample", "median", "variance", "std",
     "skew", "kurtosis", "quantile", "corr", "histogram", "outlierIqr", "agg", "seed",
     "bins", "factor", "model", "run", "train", "epochs", "lr", "target", "strategy", "save"}

Word(w) == [t |-> IF w \in Keywords THEN "keyword" ELSE "ident", v |-> w]
Sym(s) == [t |-> "sym", v |-> s]
StringLit(s) == [t |-> "str", v |-> s]
IntLit(n) == [t |-> "int", n |-> n]
FloatLit(n) == [t |-> "float", n |-> n]
Eof == [t |-> "eof"]
(* What follows a quote that closes too late: no rule accepts it.            *)
Garbled == [t |-> "garbled"]

(* A name written without quotes is read as its words.                       *)
Bare(name) == IF name \in DOMAIN Spaced THEN [i \in DOMAIN Spaced[name] |-> Word(Spaced[name][i])]
              ELSE <<Word(name)>>

Tokenize(lexemes, newline) == IF newline \/ lexemes = <<>> THEN Append(lexemes, Eof) ELSE lexemes

-----------------------------------------------------------------------------
Got(i, v) == [i |-> i, v |-> v]
Bad == Got(0, <<>>)
Failed(r) == r.i = 0
Then(r, More(_)) == IF Failed(r) THEN Bad ELSE More(r)
AsOne(r) == Then(r, LAMBDA x : Got(x.i, <<x.v>>))
FirstOf(rs) == IF rs = <<>> THEN Bad ELSE rs[1]

(* advance() never moves past the last token, and the last token counts as   *)
(* the end whatever it is.                                                   *)
After(ts, i) == IF i < Len(ts) THEN i + 1 ELSE i
AtEnd(ts, i) == i >= Len(ts) \/ ts[i] = Eof

(* ---------------------------------------------------------- the patterns  *)
Tok(tok)      == [m |-> "tok", tok |-> tok]
S(s)          == Tok(Sym(s))
W(w)          == Tok(Word(w))
Text(ts, ws)  == [m |-> "text", of |-> ts, ws |-> ws]  \* a token of these kinds or one of these words; its text
Flag          == [m |-> "flag"]                  \* true or false
Integer       == [m |-> "int", positive |-> FALSE]
Positive      == [m |-> "int", positive |-> TRUE]
Real          == [m |-> "real"]                  \* expect_float: integers are widened
Literal       == [m |-> "literal"]               \* a number or string token, kept as it is
Expression    == [m |-> "expr"]
Maybe(ps)     == [m |-> "maybe", ps |-> ps]      \* optional, decided by its first token
Group(ps)     == [m |-> "group", ps |-> ps]      \* its values as one sequence
Either(alts)  == [m |-> "either", alts |-> alts]
Named(lead, keys) == [m |-> "named", lead |-> lead, keys |-> keys]
(* Items between open and close; trailing allows a separator before close    *)
(* and none at all.                                                          *)
List(open, item, sep, close, trailing) ==
    [m |-> "list", open |-> open, item |-> item, sep |-> sep, close |-> close, trailing |-> trailing]

Ident      == Text({"ident"}, {})
String     == Text({"str"}, {})
NameOrStr  == Text({"ident", "str"}, {})
AxisName   == Text({"ident", "str"}, {"lr", "epochs"})
ColumnName == Text({"ident", "str"},
                   {"count", "sum", "mean", "min", "max", "filter", "select", "groupBy", "orderBy", "take",
                    "dropNull", "fillNull", "join", "withColumn", "chart", "sample", "median", "variance", "std"})
Strings    == Either(<< <<List("[", <<String>>, ",", "]", TRUE)>>, <<Group(<<String>>)>> >>)
OneOrList(item) == Either(<< <<List("[", <<item>>, ",", "]", FALSE)>>, <<Group(<<item>>)>> >>)

(* ------------------------------------------------- expressions and Match  *)
Bin(l, op, r) == [e |-> "bin", l |-> l, op |-> op, r |-> r]
IdentExpr(name) == [e |-> "ident", name |-> name]
LitExpr(tok) == [e |-> "lit", tok |-> tok]
Comparisons == {"==", "!=", "<", ">", "<=", ">="}
LevelOps == << {"+", "-"}, {"*", "/"} >>
IsSym(tok, ss) == tok.t = "sym" /\ tok.v \in ss
IsWord(tok) == tok.t \in {"ident", "keyword"}

RECURSIVE ParseExpr(_, _), ParseLevel(_, _, _), ParseChain(_, _, _), ParseRightChain(_, _, _),
          ParsePrimary(_, _), Match(_, _, _), MatchOne(_, _, _), MatchItems(_, _, _),
          MatchNamed(_, _, _)

(* One comparison at most.                                                   *)
ParseExpr(ts, i) ==
    Then(ParseLevel(ts, i, 1), LAMBDA l :
        IF ~IsSym(ts[l.i], Comparisons) THEN l
        ELSE Then(ParseLevel(ts, After(ts, l.i), 1), LAMBDA r : Got(r.i, Bin(l.v, ts[l.i].v, r.v))))

ParseLevel(ts, i, level) ==
    IF level = 3 THEN ParsePrimary(ts, i)
    ELSE Then(ParseLevel(ts, i, level + 1), LAMBDA l : ParseChain(ts, l, level))

ParseRightChain(ts, l, level) ==  \* mutant: the operators of a level group to the right
    IF ~IsSym(ts[l.i], LevelOps[level]) THEN l
    ELSE Then(ParseLevel(ts, After(ts, l.i), level), LAMBDA r : Got(r.i, Bin(l.v, ts[l.i].v, r.v)))

(* Operators of one level group to the left.                                 *)
ParseChain(ts, l, level) ==
    IF ~IsSym(ts[l.i], LevelOps[level]) THEN l
    ELSE Then(ParseLevel(ts, After(ts, l.i), level + 1),
              LAMBDA r : ParseChain(ts, Got(r.i, Bin(l.v, ts[l.i].v, r.v)), level))

ParsePrimary(ts, i) ==
    CASE ts[i] = Word("col") /\ ts[After(ts, i)] = Sym("(") ->
           Then(Match(ts, After(ts, After(ts, i)), <<String, S(")")>>), LAMBDA r : Got(r.i, IdentExpr(r.v[1])))
      [] ts[i].t = "ident" /\ ~(ts[i].v = "col" /\ ts[After(ts, i)] = Sym("(")) -> Got(After(ts, i), IdentExpr(ts[i].v))
      [] ts[i].t \in {"int", "float", "str"} \/ ts[i] \in {Word("true"), Word("false")} -> Got(After(ts, i), LitExpr(ts[i]))
      [] ts[i] = Sym("(") -> Then(Match(ts, After(ts, i), <<Expression, S(")")>>), LAMBDA r : Got(r.i, r.v[1]))
      [] OTHER -> Bad

Match(ts, i, ps) ==
    FoldLeft(LAMBDA r, p : Then(r, LAMBDA x : Then(MatchOne(ts, x.i, p), LAMBDA q : Got(q.i, x.v \o q.v))),
             Got(i, <<>>), ps)

MatchOne(ts, i, p) ==
    LET tok  == ts[i]
        next == After(ts, i)
        If(cond, v) == IF cond THEN Got(next, v) ELSE Bad
    IN  CASE p.m = "tok"     -> If(tok = p.tok, <<>>)
          [] p.m = "text"    -> IF tok.t \in p.of \/ (IsWord(tok) /\ tok.v \in p.ws)
                                THEN Got(next, <<tok.v>>) ELSE Bad
          [] p.m = "flag"    -> If(tok \in {Word("true"), Word("false")}, <<tok = Word("true")>>)
          [] p.m = "int"     -> IF tok.t = "int" THEN If(p.positive => tok.n > 0, <<tok.n>>) ELSE Bad
          [] p.m = "real"    -> IF tok.t = "int" THEN Got(next, <<100 * tok.n>>)
                                ELSE IF tok.t = "float" THEN Got(next, <<tok.n>>) ELSE Bad
          [] p.m = "literal" -> If(tok.t \in {"int", "float", "str"}, <<tok>>)
          [] p.m = "expr"    -> AsOne(ParseExpr(ts, i))
          [] p.m = "maybe"   -> IF Failed(MatchOne(ts, i, p.ps[1])) THEN Got(i, << <<>> >>) ELSE AsOne(Match(ts, i, p.ps))
          [] p.m = "group"   -> AsOne(Match(ts, i, p.ps))
          [] p.m = "either"  -> FirstOf(SelectSeq([a \in DOMAIN p.alts |-> Match(ts, i, p.alts[a])],
                                                  LAMBDA r : ~Failed(r)))
          [] p.m = "list"    -> IF tok # Sym(p.open) THEN Bad
                                ELSE IF p.trailing /\ ts[next] = Sym(p.close) THEN Got(After(ts, next), << <<>> >>)
                                ELSE AsOne(MatchItems(ts, next, p))
          [] p.m = "named"   -> AsOne(MatchNamed(ts, i, p))

(* The items of a list up to and with its closing token.                     *)
MatchItems(ts, i, p) ==
    Then(Match(ts, i, p.item), LAMBDA item :
        LET more == After(ts, item.i) IN
        IF ts[item.i] = Sym(p.close) THEN Got(more, item.v)
        ELSE IF ts[item.i] # Sym(p.sep) THEN Bad
        ELSE IF p.trailing /\ ts[more] = Sym(p.close) THEN Got(After(ts, more), item.v)
        ELSE Then(MatchItems(ts, more, p), LAMBDA rest : Got(rest.i, item.v \o rest.v)))

(* key: value arguments, each as <<key, value>>.  lead says where commas go: *)
(* before every argument, between them, wherever one likes before one        *)
(* (chart) or after one (join).                                              *)
MatchNamed(ts, i, p) ==
    LET Skip(j) == IF ts[j] = Sym(",") THEN After(ts, j) ELSE j
        at    == IF p.lead \in {"before", "loose"} THEN Skip(i) ELSE i
        key   == ts[at]
        known == IsWord(key) /\ key.v \in DOMAIN p.keys
        again == [p EXCEPT !.lead = IF @ = "between" THEN "before" ELSE @]
        stop  == \/ p.lead = "before" /\ at = i
                 \/ p.lead = "between" /\ key = Sym(")")
                 \/ p.lead \in {"loose", "after"} /\ ~known
    IN  IF stop THEN Got(at, <<>>)
        ELSE IF ~known THEN Bad
        ELSE Then(Match(ts, After(ts, at), <<S(":"), p.keys[key.v]>>), LAMBDA arg :
             Then(MatchNamed(ts, IF p.lead = "after" THEN Skip(arg.i) ELSE arg.i, again), LAMBDA rest :
                  Got(rest.i, << <<key.v, arg.v[1]>> >> \o rest.v)))

(* ------------------------------------------------------ named arguments  *)
(* The last value given for a key, or none.                                  *)
Given(args, k) == LET vs == SelectSeq(args, LAMBDA a : a[1] = k) IN
                  IF vs = <<>> THEN <<>> ELSE <<Last(vs)[2]>>
GivenOr(args, k, default) == IF Given(args, k) = <<>> THEN default ELSE Given(args, k)[1]

(* load(...) options; both spellings of a key set the same option.           *)
LoadKeys == [k \in {"sep", "separator", "header", "hasHeader"} |->
               IF k \in {"sep", "separator"} THEN String ELSE Flag]
Spelled(args, a, b) == Given([i \in DOMAIN args |-> <<IF args[i][1] = b THEN a ELSE args[i][1], args[i][2]>>], a)

(* withDp: epsilon is required, epsilon and sensitivity are positive.        *)
DpKeys == [epsilon |-> Real, mechanism |-> NameOrStr, sensitivity |-> Real, delta |-> Real, seed |-> Integer]
DpArgs(args) ==
    [epsilon |-> GivenOr(args, "epsilon", 100), mechanism |-> GivenOr(args, "mechanism", "laplace"),
     sensitivity |-> GivenOr(args, "sensitivity", 100), delta |-> Given(args, "delta"), seed |-> Given(args, "seed")]
DpAccepted(args) ==
    /\ Given(args, "epsilon") # <<>>
    /\ \A i \in DOMAIN args : args[i][1] \in {"epsilon", "sensitivity"} => args[i][2] > 0
    /\ \A i \in DOMAIN args : args[i][1] = "mechanism" => args[i][2] \in {"laplace", "gaussian"}

(* train: one value of a sweepable option sets it, several make a sweep.     *)
TrainKeys ==
    [target |-> String, epochs |-> OneOrList(Integer), lr |-> OneOrList(Real),
     batch_size |-> OneOrList(Integer), validation_split |-> Real, patience |-> Integer,
     metric |-> AxisName, sort |-> AxisName, tiebreak |-> OneOrList(AxisName), top |-> Positive,
     split |-> AxisName, time_column |-> String]
Sweepable == {"epochs", "lr", "batch_size"}
TrainDefaults ==
    [target |-> "", epochs |-> 10, lr |-> 1, batch_size |-> <<>>, sweep |-> [k \in Sweepable |-> <<>>],
     validation_split |-> <<>>, patience |-> <<>>, metric |-> <<>>, sort |-> <<>>, tiebreak |-> <<>>,
     top |-> <<>>, split |-> "sequential", time_column |-> <<>>]
SetTrain(c, k, v) ==
    CASE k \in Sweepable /\ Len(v) > 1 -> [c EXCEPT !.sweep[k] = v]
      [] k = "batch_size" /\ Len(v) = 1 -> [c EXCEPT !.batch_size = v]
      [] k \in {"epochs", "lr"} /\ Len(v) = 1 -> [c EXCEPT ![k] = v[1]]
      [] k \in {"target", "tiebreak", "split"} -> [c EXCEPT ![k] = v]
      [] OTHER -> [c EXCEPT ![k] = <<v>>]
TrainConfig(args) == FoldLeft(LAMBDA c, a : SetTrain(c, a[1], a[2]), TrainDefaults, args)
Axes    == {"epochs", "lr", "batch"}
Metrics == {"mse", "mae", "r2", "cross_entropy", "accuracy", "precision", "recall", "f1", "auc"}
TrainAccepted(args) ==
    \A i \in DOMAIN args : LET v == args[i][2] IN
      CASE args[i][1] = "metric" -> v \in Metrics
        [] args[i][1] = "sort" -> v \in Axes \cup {"metric"}
        [] args[i][1] = "tiebreak" -> ToSet(v) \subseteq Axes /\ IsInjective(v)
        [] args[i][1] = "split" -> v \in {"sequential", "stratified", "random"}
        [] OTHER -> TRUE

(* join: either on or both of left_on and right_on.                          *)
JoinKeys == [on |-> Strings, left_on |-> Strings, right_on |-> Strings, how |-> String]
JoinSides(args) ==
    LET on    == GivenOr(args, "on", <<>>)
        left  == GivenOr(args, "left_on", <<>>)
        right == GivenOr(args, "right_on", <<>>)
    IN  [both |-> on # <<>> /\ (left # <<>> \/ right # <<>>), uneven |-> left # <<>> /\ Len(left) # Len(right),
         left |-> IF left # <<>> THEN left ELSE on, right |-> IF left # <<>> THEN right ELSE on]
JoinAccepted(args) ==
    /\ ~JoinSides(args).both /\ ~JoinSides(args).uneven
    /\ GivenOr(args, "how", "inner") \in {"inner", "left", "outer", "cross"}

(* chart: bar, line and scatter need x and y, pie label and value.           *)
ChartKeys == [type |-> NameOrStr, x |-> ColumnName, y |-> ColumnName, label |-> ColumnName,
              value |-> ColumnName, title |-> String]
ChartConfig(args) == [k \in DOMAIN ChartKeys |-> Given(args, k)]
ChartAccepted(args) ==
    LET c == ChartConfig(args) IN
    /\ c.type # <<>>
    /\ \/ c.type[1] \in {"bar", "line", "scatter"} /\ c.x # <<>> /\ c.y # <<>>
       \/ c.type[1] = "pie" /\ c.label # <<>> /\ c.value # <<>>

(* ------------------------------------------------------------ operations  *)
(* What follows the name of a pipeline operation.  An operation has          *)
(* alternatives: count and count(), train with and without arguments, ...    *)
Call(ps) == << <<S("(")>> \o ps \o <<S(")")>> >>
Comma(p) == <<S(","), p>>
AfterComma(ps) == Maybe(<<S(",")>> \o ps)

ColumnOps == {"groupBy", "sum", "mean", "min", "max", "median", "variance", "std", "skew", "kurtosis", "dropNull"}
AggNames  == {"sum", "mean", "min", "max", "count", "median", "variance", "std", "skew", "kurtosis"}
RowOps ==
    [filter |-> Call(<<Expression>>),
     select |-> Call(<<List("[", <<NameOrStr>>, ",", "]", TRUE)>>),
     orderBy |-> Call(<<String, AfterComma(<<W("desc"), S(":"), Flag>>)>>),
     take |-> Call(<<Positive>>),
     sample |-> Call(<<Positive, AfterComma(<<W("seed"), S(":"), Integer>>)>>)]
CellOps ==
    [fillNull |-> <<Call(<<String, S(","), Text({"ident"}, {"strategy"}), S(":"), String>>)[1],
                    Call(<<String, S(","), Literal>>)[1]>>,
     withColumn |-> Call(<<String, S(","), Expression>>),
     cast |-> Call(<<String, S(","), String>>),
     rename |-> Call(<<String, S(","), String>>),
     replace |-> Call(<<String, S(","), String, S(","), String>>)]
StatisticOps ==
    [count |-> <<Call(<<String>>)[1], Call(<<>>)[1], <<>> >>,
     quantile |-> Call(<<String, S(","), Real>>),
     corr |-> Call(<<String, S(","), String>>),
     histogram |-> Call(<<String, AfterComma(<<W("bins"), S(":"), Positive>>)>>),
     outlierIqr |-> Call(<<String, AfterComma(<<W("factor"), S(":"), Real>>)>>),
     agg |-> Call(<<List("[", <<Group(<<Text({}, AggNames), S("("), String, S(")")>>)>>, ",", "]", TRUE)>>)]
JoinOp == [join |-> Call(<<Ident, S(","), Named("after", JoinKeys)>>)]
ChartBlock == <<S("{"), Named("loose", ChartKeys), S("}")>>
ChartOp == [chart |-> Call(ChartBlock) \o <<ChartBlock>>]
ModelOps ==
    [train |-> Call(<<Ident, Named("before", TrainKeys)>>),
     predict |-> Call(<<Ident, AfterComma(<<W("as"), S(":"), String>>)>>)]
DpOp == [withDp |-> Call(<<Named("between", DpKeys)>>)]
SaveOp == [save |-> Call(<<String, AfterComma(<<W("format"), S(":"), NameOrStr>>)>>)]
OpPatterns ==
    [c \in ColumnOps |-> Call(<<String>>)] @@ RowOps @@ CellOps @@ StatisticOps @@ JoinOp @@ ChartOp
    @@ ModelOps @@ DpOp @@ SaveOp

Else(option, default) == IF option = <<>> THEN default ELSE option[1]
(* The format follows the path when none is given.                           *)
SaveFormat(path, given) == Else(given, IF path \in DOMAIN FormatOf THEN FormatOf[path] ELSE "unknown")
Strategies == {"mean", "median", "zero"}

(* The arguments of an operation with its defaults filled in.                *)
OpArgs(op, v) ==
    CASE op = "orderBy" -> <<v[1], Else(v[2], FALSE)>>
      [] op = "histogram" -> <<v[1], Else(v[2], 10)>>
      [] op = "outlierIqr" -> <<v[1], Else(v[2], 150)>>
      [] op = "fillNull" -> IF Len(v) = 3 THEN <<v[1], [t |-> "strategy", v |-> v[3]]>> ELSE v
      [] op = "join" -> <<v[1], JoinSides(v[2]).left, JoinSides(v[2]).right, GivenOr(v[2], "how", "inner")>>
      [] op = "chart" -> <<ChartConfig(v[1])>>
      [] op = "train" -> <<v[1], TrainConfig(v[2])>>
      [] op = "withDp" -> <<DpArgs(v[1])>>
      [] op = "save" -> <<v[1], SaveFormat(v[1], v[2])>>
      [] OTHER -> v
OpAccepted(op, v) ==
    CASE op = "quantile" -> v[2] \in 0..100
      [] op = "outlierIqr" -> Else(v[2], 150) >= 0
      [] op = "agg" -> v[1] # <<>>
      [] op = "fillNull" -> Len(v) = 3 => v[3] \in Strategies
      [] op = "join" -> JoinAccepted(v[2])
      [] op = "chart" -> ChartAccepted(v[1])
      [] op = "train" -> TrainAccepted(v[2])
      [] op = "withDp" -> DpAccepted(v[1])
      [] op = "save" -> SaveFormat(v[1], v[2]) \in {"csv", "parquet", "arrow"}
      [] OTHER -> TRUE

Op(op, args) == [op |-> op, args |-> args]
ParseOpOf(patterns, ts, i, op) ==
    IF ~(IsWord(ts[i]) /\ op \in DOMAIN patterns) THEN Bad
    ELSE Then(MatchOne(ts, After(ts, i), Either(patterns[op])), LAMBDA r :
              IF OpAccepted(op, r.v) THEN Got(r.i, <<Op(op, OpArgs(op, r.v))>>) ELSE Bad)
ParseOp(ts, i) == ParseOpOf(OpPatterns, ts, i, ts[i].v)

RECURSIVE ParseOps(_, _)
ParseOps(ts, i) ==
    IF ts[i] # Sym("|>") THEN Got(i, <<>>)
    ELSE Then(ParseOp(ts, After(ts, i)), LAMBDA op :
         Then(ParseOps(ts, op.i), LAMBDA rest : Got(rest.i, op.v \o rest.v)))

(* ------------------------------------------------------------- statements *)
Load(path, schema, sep, header) ==
    [from |-> "load", path |-> path, schema |-> schema, sep |-> sep, header |-> header]
VarRef(name) == [from |-> "var", name |-> name]
(* A separator is one byte: the strings of the model that are.               *)
OneByte == {",", ";", "\""}

ParseLoad(ts, i) ==
    Then(Match(ts, i, <<W("load"), S("("), String, Named("before", LoadKeys), S(")"), S("::"), Ident>>), LAMBDA r :
        LET sep == Spelled(r.v[2], "sep", "separator") IN
        IF ~(ToSet(sep) \subseteq OneByte) THEN Bad
        ELSE Got(r.i, Load(r.v[1], r.v[3], sep, Spelled(r.v[2], "header", "hasHeader"))))
ParseSource(ts, i) ==
    IF ts[i].t = "ident" THEN Got(After(ts, i), VarRef(ts[i].v)) ELSE ParseLoad(ts, i)

(* source |> op ... with the optional semicolon.                             *)
ParsePipeline(ts, i) ==
    Then(ParseSource(ts, i), LAMBDA source :
    Then(ParseOps(ts, source.i), LAMBDA ops :
         Got(IF ts[ops.i] = Sym(";") THEN After(ts, ops.i) ELSE ops.i, [source |-> source.v, ops |-> ops.v])))

Import(path)            == [s |-> "import", path |-> path]
TypeDecl(name, fields)  == [s |-> "type", name |-> name, fields |-> fields]
ModelDecl(name, layers) == [s |-> "model", name |-> name, layers |-> layers]
VarDecl(name, mut, source, ops) == [s |-> "var", name |-> name, mut |-> mut, source |-> source, ops |-> ops]
ExprStmt(source, ops)   == [s |-> "expr", source |-> source, ops |-> ops]
TrainStmt(var, model, config) == [s |-> "train", var |-> var, model |-> model, config |-> config]

Semicolon == Maybe(<<S(";")>>)
TypeName == Either(<< <<Text({}, {"Option"}), S("<"), Ident, S(">")>>, <<Ident>> >>)
Field == Group(<<Ident, S(":"), TypeName>>)
(* An embedding's vocabulary is one size shared by all columns or a list of  *)
(* sizes: an option and a sequence.                                          *)
Vocab == Either(<< <<Group(<<>>), List("[", <<Integer>>, ",", "]", FALSE)>>, <<Group(<<Integer>>), Group(<<>>)>> >>)
LayerArgs(name) ==
    CASE name = "Dense" -> <<Integer>>
      [] name = "Dropout" -> <<Real>>
      [] name = "Conv1d" -> <<Integer, S(","), Integer>>
      [] name = "Embedding" -> <<Vocab, S(","), Integer>>
      [] OTHER -> <<>>
LayerNames == <<"Dense", "ReLU", "Sigmoid", "Tanh", "Softmax", "Dropout", "BatchNorm", "Conv1d", "Embedding">>
Layer == Either([k \in DOMAIN LayerNames |->
    <<Group(<<Text({}, {LayerNames[k]}), S("(")>> \o LayerArgs(LayerNames[k]) \o <<S(")")>>)>>])

ImportRule == <<W("import"), String, Semicolon>>
TypeRule   == <<W("type"), Ident, S("="), List("{", <<Field>>, ",", "}", TRUE), Semicolon>>
ModelRule  == <<W("model"), Ident, List("{", <<Layer>>, "->", "}", TRUE), Semicolon>>
TrainRule  == <<W("run"), Ident, S("|>"), W("train")>> \o Call(<<Ident, Named("before", TrainKeys)>>)[1] \o <<Semicolon>>
VarHead    == <<Maybe(<<W("mut")>>), W("v"), Ident, S("=")>>

RuleOf(word) ==
    CASE word = "import" -> ImportRule
      [] word = "type" -> TypeRule
      [] word = "model" -> ModelRule
      [] word = "run" -> TrainRule
StmtOf(word, v) ==
    CASE word = "import" -> Import(v[1])
      [] word = "type" -> TypeDecl(v[1], v[2])
      [] word = "model" -> ModelDecl(v[1], v[2])
      [] word = "run" -> TrainStmt(v[1], v[2], TrainConfig(v[3]))

(* A statement is chosen by its first token; a pipeline without a variable   *)
(* starts with a name and |>.                                                *)
ParseRule(ts, i, word) ==
    Then(Match(ts, i, RuleOf(word)), LAMBDA r :
         IF word = "run" /\ ~TrainAccepted(r.v[3]) THEN Bad ELSE Got(r.i, <<StmtOf(word, r.v)>>))
ParseVarOrExpr(ts, i, isVar) ==
    Then(IF isVar THEN Match(ts, i, VarHead) ELSE Got(i, <<>>), LAMBDA head :
    Then(ParsePipeline(ts, head.i), LAMBDA p :
         Got(p.i, <<IF isVar THEN VarDecl(head.v[2], head.v[1] # <<>>, p.v.source, p.v.ops)
                    ELSE ExprStmt(p.v.source, p.v.ops)>>)))
ParseStmt(ts, i) ==
    IF IsWord(ts[i]) /\ ts[i].v \in {"import", "type", "model", "run"} THEN ParseRule(ts, i, ts[i].v)
    ELSE IF ts[i] \in {Word("v"), Word("mut")} \/ (ts[i].t = "ident" /\ ts[After(ts, i)] = Sym("|>"))
    THEN ParseVarOrExpr(ts, i, ts[i].t # "ident")
    ELSE Bad

RECURSIVE ParseFrom(_, _)
ParseFrom(ts, i) ==
    IF AtEnd(ts, i) THEN Got(i, <<>>)
    ELSE Then(ParseStmt(ts, i), LAMBDA stmt :
         Then(ParseFrom(ts, stmt.i), LAMBDA rest : Got(rest.i, stmt.v \o rest.v)))

Parsed(r) == [ok |-> ~Failed(r), program |-> r.v]
Parse(ts) == Parsed(ParseFrom(ts, 1))
=============================================================================
