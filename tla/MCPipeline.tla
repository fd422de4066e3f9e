----------------------------- MODULE MCPipeline -----------------------------
(* Jobs for Meaning: every pair of operations of a small alphabet, every     *)
(* triple of those the optimizer moves, programs of several pipelines, and   *)
(* the ways imports, the policy and the files can go wrong.                  *)
EXTENDS Meaning, Optimizer

CONSTANTS x, y  \* two strings

Col(n) == [e |-> "col", name |-> n]
Lit(v) == [e |-> "lit", v |-> v, t |-> "int"]
Bin(op, l, r) == [e |-> "bin", op |-> op, l |-> l, r |-> r]

Data == ("d" :> Frame(<<"a", "b", "s">>,
           [a |-> [t |-> "int", dp |-> {}], b |-> [t |-> "int", dp |-> {}], s |-> [t |-> "str", dp |-> {}]],
           <<[a |-> 1, b |-> 2, s |-> x], [a |-> Null, b |-> 1, s |-> y], [a |-> 2, b |-> 2, s |-> x]>>))
     @@ ("e" :> Frame(<<"b", "z">>, [b |-> [t |-> "int", dp |-> {}], z |-> [t |-> "int", dp |-> {}]],
           <<[b |-> 2, z |-> 7], [b |-> 3, z |-> 8]>>))

Field(n, t, opt) == [name |-> n, t |-> t, opt |-> opt]
TypeT == [s |-> "type", name |-> "T", fields |-> <<Field("a", "int", TRUE), Field("b", "int", FALSE), Field("s", "str", FALSE)>>]
TypeU == [s |-> "type", name |-> "U", fields |-> <<Field("b", "int", FALSE), Field("z", "int", FALSE)>>]
TypeWide == [s |-> "type", name |-> "U", fields |-> <<Field("b", "int", FALSE), Field("z", "int", FALSE), Field("w", "int", FALSE)>>]
ModelM == [s |-> "model", name |-> "M", layers |-> <<[l |-> "Dense", n |-> 1, kernel |-> 0]>>]
Load_(file, schema) == [from |-> "load", file |-> file, schema |-> schema]
Of(v) == [from |-> "var", var |-> v]
Var(name, from, ops) == [s |-> "var", name |-> name, from |-> from, ops |-> ops]
Expr(from, ops) == [s |-> "expr", from |-> from, ops |-> ops]
Config(target) == [target |-> target, metric |-> "mse", strategy |-> "random", timeColumn |-> Null, sweep |-> {}]
Sequential(target) == [Config(target) EXCEPT !.strategy = "sequential"]
Run(v, config) == [s |-> "train", var |-> v, model |-> "M", config |-> config]
Imp(n) == [s |-> "import", std |-> FALSE, name |-> n]

Filter(e) == [k |-> "filter", expr |-> e]
WithCol(n, e) == [k |-> "withColumn", name |-> n, expr |-> e]
Select(cs) == [k |-> "select", cols |-> cs]
Agg(kind, c) == [k |-> "agg", kind |-> kind, col |-> c]
GroupBy(c) == [k |-> "groupBy", col |-> c]
Dp(m, eps) == [k |-> "withDp", mechanism |-> m, epsilon |-> eps, delta |-> 1]
Save(p) == [k |-> "save", path |-> p]
Train(config) == [k |-> "train", model |-> "M", config |-> config]
Predict(v, as) == [k |-> "predict", var |-> v, as |-> as]
Chart(cs) == [k |-> "chart", cols |-> cs]
Rename(old, new) == [k |-> "rename", old |-> old, new |-> new]
Cast(c, to) == [k |-> "cast", col |-> c, to |-> to]
Fill(c, v) == [k |-> "fillNull", col |-> c, value |-> v]
Join(how, l, r) == [k |-> "join", other |-> "u", leftOn |-> <<l>>, rightOn |-> <<r>>, how |-> how]
Take(n) == [k |-> "take", n |-> n]
Drop(c) == [k |-> "dropNull", col |-> c]

(* The operations the optimizer touches.                                     *)
Moved == {Filter(Bin(">", Col("a"), Lit(1))), Filter(Bin("==", Col("b"), Bin("+", Lit(1), Lit(1)))),
          Filter(Bin("<", Col("c"), Lit(4))), WithCol("c", Bin("+", Col("a"), Col("b"))),
          WithCol("a", Bin("*", Col("b"), Lit(2))), Select(<<"a", "b">>), Select(<<"b">>),
          Select(<<"b", "a", "s">>)}
Others == {GroupBy("s"), Agg("sum", "a"), Agg("len", Null), Agg("count", "a"),
           [k |-> "aggList", specs |-> <<[col |-> "a", kind |-> "sum"], [col |-> "b", kind |-> "max"]>>],
           [k |-> "histogram", col |-> "a", bins |-> 2], [k |-> "outlierIqr", col |-> "a", factor |-> 1],
           [k |-> "orderBy", col |-> "a", desc |-> TRUE], [k |-> "orderBy", col |-> "b", desc |-> FALSE],
           Take(2), Take(0), [k |-> "sample", n |-> 2], Drop("a"), Fill("a", "zero"), Fill("b", "zero"),
           Cast("s", "int"), Cast("a", "date"), Rename("a", "c"), Rename("a", "b"),
           [k |-> "replace", col |-> "s", from |-> x, to |-> y], [k |-> "replace", col |-> "a", from |-> x, to |-> y],
           Chart({"a", "b"}), Dp("laplace", 1), Dp("gaussian", 2), Dp("laplace", 9), Save("out")}

(* Their results are uninterpreted, so no expression reads them.             *)
Statistics == {Agg("mean", "b"), [k |-> "quantile", col |-> "b"], [k |-> "corr", a |-> "a", b |-> "b"]}

Job(stmts, opt) ==
    [stmts |-> stmts, files |-> <<>>, tainted |-> {}, crossFile |-> FALSE, policy |-> "ok",
     opt |-> opt, output |-> Null, broken |-> {}, data |-> Data]
OnePipeline(ops) == <<TypeT, Var("v", Load_("d", "T"), ops)>>
Pairs == {Job(OnePipeline(pq), TRUE) : pq \in (Moved \cup Others) \X (Moved \cup Others \cup Statistics)
                                           \cup Statistics \X Others}
Triples == {Job(OnePipeline(<<p, q, r>>), TRUE) : p \in Moved, q \in Moved, r \in {m \in Moved : m.k = "filter"}}

U == Var("u", Load_("e", "U"), <<>>)
D(ops) == Var("v", Load_("d", "T"), ops)
Programs == {
    <<TypeT, TypeU, U, D(<<Join("inner", "b", "b"), Join("left", "b", "b")>>)>>,
    <<TypeT, TypeU, U, D(<<Join("outer", "b", "b")>>)>>,
    <<TypeT, TypeU, Var("u", Load_("e", "U"), <<Take(1)>>), D(<<Join("cross", "b", "b"), Take(2)>>)>>,
    <<TypeT, TypeU, U, D(<<Join("left", "q", "b")>>)>>,
    <<TypeT, D(<<Join("left", "b", "b")>>)>>,
    <<TypeT, TypeU, ModelM, U, D(<<Dp("laplace", 1)>>), Var("m", Of("v"), <<Train(Config("a"))>>),
      Var("w", Of("v"), <<Predict("m", "p")>>), Var("n", Of("v"), <<Predict("m", Null), Save("out")>>)>>,
    <<TypeT, ModelM, D(<<>>), Run("v", Config("b")), Expr(Of("v"), <<Save("out")>>)>>,
    <<TypeT, ModelM, D(<<>>), Run("v", [Config("b") EXCEPT !.timeColumn = "a"])>>,
    <<TypeT, ModelM, D(<<>>), Run("v", [Config("b") EXCEPT !.timeColumn = "a", !.strategy = "sequential", !.sweep = {1, 2}])>>,
    <<TypeT, ModelM, D(<<>>), Run("v", [Config("b") EXCEPT !.sweep = {0}])>>,
    <<TypeT, ModelM, D(<<>>), Run("v", Config("s"))>>, <<TypeT, ModelM, D(<<>>), Run("v", Config("q"))>>,
    <<TypeT, ModelM, Var("m", Load_("d", "T"), <<Train(Config("a"))>>), Run("m", Config("a"))>>,
    <<TypeT, ModelM, Var("m", Load_("d", "T"), <<Train(Config("a"))>>), Expr(Load_("d", "T"), <<Select(<<"s">>), Predict("m", "p")>>)>>,
    <<TypeT, ModelM, Var("m", Load_("d", "T"), <<Train(Config("a")), Take(1)>>), Var("w", Of("m"), <<>>)>>,
    <<TypeT, D(<<Predict("v", "p")>>)>>, <<TypeT, D(<<Train(Config("a"))>>)>>,
    <<TypeT, [ModelM EXCEPT !.layers = <<[l |-> "Embedding", vocab |-> <<2, 3>>, shared |-> FALSE, n |-> 1], @[1]>>],
      D(<<>>), Run("v", Config("a"))>>,
    <<TypeT, [ModelM EXCEPT !.layers = <<[l |-> "Embedding", vocab |-> <<2>>, shared |-> TRUE, n |-> 1], @[1]>>],
      D(<<>>), Run("v", Config("a"))>>,
    <<[ModelM EXCEPT !.layers = <<[l |-> "Conv1d", n |-> 0, kernel |-> 1]>>]>>, <<TypeT, TypeT>>, <<ModelM, ModelM>>,
    <<TypeT, TypeWide, Var("u", Load_("e", "U"), <<>>)>>, <<TypeT, Var("u", Load_("f", "T"), <<>>)>>,
    <<TypeT, D(<<>>), D(<<>>)>>, <<D(<<>>)>>, <<TypeT, Expr(Of("v"), <<>>)>>, <<TypeT, Expr(Load_("d", "T"), <<Chart({"a"})>>)>>,
    <<TypeT, D(<<Save("d")>>), Var("w", Load_("d", "T"), <<Select(<<"a">>)>>)>>,
    <<TypeT, TypeU, U, Var("w", Of("u"), <<Take(1), Save("e")>>), Var("t", Load_("e", "U"), <<>>)>>,
    <<TypeT, D(<<GroupBy("s"), Agg("sum", "a")>>), Var("w", Of("v"), <<Select(<<"b">>)>>)>>,
    <<TypeT, D(<<GroupBy("s"), Agg("len", Null), Save("out")>>), Expr(Of("v"), <<Chart({"len"})>>)>>,
    <<TypeT, D(<<Dp("laplace", 1), Dp("laplace", 1)>>), Expr(Of("v"), <<Dp("gaussian", 1)>>)>>,
    <<TypeT, D(<<Select(<<"b">>), Dp("gaussian", 2), Dp("gaussian", 2)>>), Expr(Of("v"), <<Dp("gaussian", 2)>>)>>,
    <<TypeT, D(<<Rename("a", "c"), WithCol("f", Bin(">=", Col("c"), Lit(2))), Cast("f", "int"), Cast("b", "str"), Cast("b", "float"),
       Fill("c", "mean")>>)>>,
    <<TypeT, ModelM, D(<<>>), Var("m", Of("v"), <<Train(Sequential("a"))>>),
      Var("w", Load_("d", "T"), <<Filter(Bin("==", Col("b"), Lit(2))), GroupBy("s"), Predict("m", "p"), Agg("sum", "a")>>),
      Var("t", Of("v"), <<Predict("m", Null), Take(2), Predict("m", "p")>>), Run("v", Sequential("b"))>>,
    <<TypeT, D(<<GroupBy("s"), Agg("sum", "a"), Agg("max", "a")>>)>>,
    <<TypeT, ModelM, D(<<>>), Run("v", [Sequential("a") EXCEPT !.metric = "f1"]), Var("w", Of("v"), <<Drop("a")>>)>>,
    <<TypeT, ModelM, Var("m", Load_("d", "T"), <<Take(2), Train([Sequential("a") EXCEPT !.sweep = {1, 2}])>>), D(<<Predict("m", "p")>>)>>,
    <<TypeT, D(<<Cast("b", "bool"), WithCol("f", Bin("==", Col("b"), Col("b"))), Filter(Col("f"))>>)>>,
    <<TypeT, D(<<WithCol("c", Col("b")), Select(<<"c", "a">>), Filter(Bin("<", Bin("-", Lit(5), Lit(2)), Col("c"))),
       Select(<<"c">>), Filter(Bin(">", Col("c"), Lit(0)))>>)>>}

(* Modules: trees, diamonds, cycles, and files that cannot be used.          *)
Mod(stmts) == [readable |-> TRUE, parses |-> TRUE, stmts |-> stmts]
Decl(n) == [s |-> "type", name |-> n, fields |-> <<Field("a", "int", FALSE)>>]
File(n) == <<"file", n>>
ModuleSets == {
    File("p") :> Mod(<<Decl("P"), Imp("q")>>) @@ File("q") :> Mod(<<Imp("r"), Decl("Q")>>) @@ File("r") :> Mod(<<Decl("R")>>),
    File("p") :> Mod(<<Decl("P"), Imp("r")>>) @@ File("q") :> Mod(<<Imp("r"), Decl("P")>>) @@ File("r") :> Mod(<<Decl("R")>>),
    File("p") :> Mod(<<Imp("q"), Decl("P")>>) @@ File("q") :> Mod(<<Imp("p"), Decl("Q")>>),
    File("p") :> Mod(<<Imp("p"), Decl("P")>>) @@ File("q") :> Mod(<<>>),
    File("p") :> Mod(<<Imp("q"), Decl("P")>>) @@ File("q") :> [Mod(<<>>) EXCEPT !.readable = FALSE],
    File("p") :> [Mod(<<>>) EXCEPT !.parses = FALSE],
    File("p") :> Mod(<<[s |-> "import", std |-> TRUE, name |-> "lib"]>>) @@ File("q") :> Mod(<<Decl("P")>>)
      @@ <<"std", "lib">> :> Mod(<<Imp("base"), Decl("L")>>) @@ <<"std", "base">> :> Mod(<<Decl("B")>>)}
Importing == {[Job(<<Imp("p"), TypeT, Imp("q"), D(<<>>)>>, FALSE) EXCEPT !.files = fs, !.tainted = t] :
                fs \in ModuleSets, t \in {{}, {File("q")}}}

Environments == {[[[[[Job(<<TypeT, D(<<Chart({"a"}), Save("out")>>)>>, FALSE)
                    EXCEPT !.output = o] EXCEPT !.broken = b] EXCEPT !.policy = p] EXCEPT !.tainted = t] EXCEPT !.crossFile = c] :
                    o \in {Null, "res"}, b \in {{}, {"res"}, {"out"}, {"v_chart.html"}},
                    p \in {"ok", "unloadable"}, t \in {{}, {Root}}, c \in BOOLEAN}

MCJobs == Pairs \cup Triples \cup Importing \cup Environments \cup {Job(p, o) : p \in Programs, o \in BOOLEAN}
=============================================================================
