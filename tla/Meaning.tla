------------------------------ MODULE Meaning -------------------------------
(* What a program means, what a run of it may do, and what the program that  *)
(* `xazz emit rust' generates from it computes.  The meaning is the set of   *)
(* environments its pipelines can leave when they are evaluated as written,  *)
(* one after the other; an environment has the tables, the trained models,   *)
(* the source cache and the files.                                           *)
EXTENDS Launch, Codegen

Env == [table |-> <<>>, models |-> <<>>, cache |-> <<>>, disk |-> job.data]

Sources(env, from) ==
    IF from.from = "var" THEN {[env |-> env, frame |-> env.table[from.var], group |-> Null] : x \in {from.var} \cap DOMAIN env.table}
    ELSE LET raw == IF from.file \in DOMAIN env.cache THEN env.cache[from.file] ELSE env.disk[from.file]
             kept == IF from.file \in LargeFiles THEN env ELSE [env EXCEPT !.cache = Bind(@, from.file, raw)]
         IN  {[env |-> kept, frame |-> Bridge(raw, from.schema), group |-> Null] :
                x \in {from.file} \cap (DOMAIN env.cache \cup DOMAIN env.disk)}

PageOf(n, i) == (IF n.name # Null THEN n.name ELSE IF n.from.from = "var" THEN n.from.var
                 ELSE "chart_" \o ToString(i)) \o "_chart.html"
AsFloat(f) == [f EXCEPT !.cols = [c \in Names(f) |->
                 IF f.cols[c].t \in Numeric THEN [f.cols[c] EXCEPT !.t = "float"] ELSE f.cols[c]]]

Effect(s, op, n, i) ==
    CASE op.k \notin SideKinds -> {[s EXCEPT !.frame = o[1], !.group = o[2]] : o \in LowerData(op, s.frame, s.group, s.env.table)}
      [] op.k = "train" -> {IF n.model /\ n.name # Null THEN [s EXCEPT !.env.models = Bind(@, n.name, Trained(s.frame, op))] ELSE s}
      [] op.k = "predict" -> {[s EXCEPT !.frame = Predicted(@, s.env.models[op.var], op.as)]}
      [] op.k = "chart" -> {IF PageOf(n, i) \in job.broken THEN s ELSE [s EXCEPT !.env.disk = Bind(@, PageOf(n, i), s.frame)]}
      [] op.k = "withDp" -> {[s EXCEPT !.frame = AsFloat(@)]}
      [] op.k = "save" -> {[s EXCEPT !.env.disk = Bind(@, op.path, s.frame)]}

NodeMeaning(env, n, i) ==
    LET states == FoldLeft(LAMBDA ss, op : UNION {Effect(s, op, n, i) : s \in {x \in ss : ~Failed(x.frame)}},
                           Sources(env, n.from), n.steps)
        ends   == {s \in states : ~Failed(s.frame)}
    IN  {IF n.name = Null \/ n.model THEN s.env ELSE [s.env EXCEPT !.table = Bind(@, n.name, s.frame)] : s \in ends}

ProgramMeaning(pipelines) ==
    FoldLeft(LAMBDA envs, i : UNION {NodeMeaning(env, pipelines[i], i) : env \in envs},
             {Env}, [i \in DOMAIN pipelines |-> i])

Plain(f) == [f EXCEPT !.cols = [c \in DOMAIN @ |-> @[c].t]]
PlainAll(fs) == [k \in DOMAIN fs |-> Plain(fs[k])]
Written == [p \in DOMAIN disk \ {job.output} |-> disk[p]]

(* What a successful run computes and saves is what the program means as     *)
(* written, whatever the checker and `--opt` made of it and wherever the     *)
(* optimizer moved, merged or folded its operations.                         *)
ResultIsMeaning ==
    phase = "done" =>
    LET meanings == ProgramMeaning(Analyze(loader.program).pipelines)
        runs(m)  == PlainAll(m.table) = PlainAll(table)
                    /\ PlainAll(Restrict(m.disk, DOMAIN m.disk \ {job.output})) = PlainAll(Written)
    IN  meanings # {} => \E m \in meanings : runs(m)

-----------------------------------------------------------------------------
(* Narrows: the operations whose result the checker does not track.  Taint   *)
(* follows a variable to the pipeline that made it.                          *)
Narrows(op) == op.k \in Aggregating
RECURSIVE NarrowedBefore(_, _)
NarrowedBefore(i, j) ==
    \/ \E h \in 1..(j - 1) : Narrows(ir[i].steps[h])
    \/ /\ ir[i].from.from = "var"
       /\ \E p \in 1..(i - 1) : ir[p].name = ir[i].from.var /\ NarrowedBefore(p, Len(ir[p].steps) + 1)

(* A program the checker accepted never asks for a column that does not      *)
(* exist, nor joins with a variable that does not, except downstream of an   *)
(* aggregate, whose output columns the checker does not track.               *)
CheckedColumnsExist ==
    why \in {"missing column", "not in the symbol table"} =>
        \/ NarrowedBefore(node, step)
        \/ Node.steps[step].k = "join" /\ \E p \in 1..(node - 1) :
              ir[p].name = Node.steps[step].other /\ NarrowedBefore(p, Len(ir[p].steps) + 1)

-----------------------------------------------------------------------------
(* The generated program, run beside the data files.                         *)
RunCall(call, f, tables) ==
    IF Failed(f) THEN {f}
    ELSE IF call.k = "aggregate" THEN AggregateBy(f, call.key, call.outs)
    ELSE Transformed(call, f, tables)

(* A world has the tables of the variables and the statistics files written  *)
(* beside the checkpoints: block -> features.                                *)
StartFrame(w, from) ==
    IF from.from = "var" THEN w.table[from.var]
    ELSE IF from.file \in DOMAIN job.data THEN job.data[from.file] ELSE Fail("cannot read")
Ended(w) == [w EXCEPT !.ok = FALSE]
RunStmt(w, s) ==
    CASE s.g = "let" ->
           {IF Failed(f) THEN Ended(w) ELSE [w EXCEPT !.table = Bind(@, s.var, f)] :
              f \in FoldLeft(LAMBDA fs, call : UNION {RunCall(call, f, w.table) : f \in fs}, {StartFrame(w, s.from)}, s.calls)}
      [] s.g = "train" ->
           {[w EXCEPT !.stats = Bind(@, s.block, NumericNames(w.table[s.var]) \ {s.target})]}
      [] s.g = "predict" ->
           {IF s.block \in DOMAIN w.stats /\ w.stats[s.block] \subseteq Names(w.table[s.var])
            THEN [w EXCEPT !.table = Bind(@, s.var,
                    Predicted(@[s.var], [model |-> s.block, target |-> s.target, features |-> w.stats[s.block]], s.as))]
            ELSE Ended(w)}
RunGenerated(code) ==
    FoldLeft(LAMBDA ws, s : UNION {IF w.ok THEN RunStmt(w, s) ELSE {w} : w \in ws},
             {[ok |-> TRUE, table |-> <<>>, stats |-> <<>>]}, code)

(* What the emitter leaves to the runtime or names otherwise, and models that*)
(* share the files of a block.                                               *)
LeftOut(op) == \/ op.k \in {"histogram", "outlierIqr", "withDp", "save", "corr"}
               \/ op.k = "agg" /\ op.kind = "len"
OpsOf(program) == FlattenSeq([i \in DOMAIN program |-> IF program[i].s \in {"var", "expr"} THEN program[i].ops ELSE <<>>])
Translated(program) ==
    /\ \A op \in ToSet(OpsOf(program)) : ~LeftOut(op)
    /\ IsInjective(LET trains == SelectSeq(OpsOf(program), LAMBDA op : op.k = "train")
                   IN  [i \in DOMAIN trains |-> trains[i].model])
    /\ \A op \in ToSet(OpsOf(program)) : op.k = "predict" => Binding(program, op.var).config.sweep = {}

(* A generated program computes for every variable the tables that the       *)
(* program means: chains broken for a prediction, groups that wait for an    *)
(* aggregate and trainings moved to the end change nothing (emitter.rs       *)
(* generate_rust_src).  The flow that the compiler shows is the one emitted  *)
(* (codegen.rs emit_op), although each of the two has its own mapping.       *)
EmittedIsMeaning ==
    phase = "done" /\ loader.program = job.stmts /\ Translated(job.stmts) =>
    LET g        == GenerateRust(job.stmts)
        meanings == ProgramMeaning(Analyze(job.stmts).pipelines)
        Tables(w) == PlainAll(Restrict(w.table, DOMAIN w.table \ Analyze(job.stmts).trained))
    IN  g.ok => /\ ShowsWhatItEmits(job.stmts)
                /\ {Tables(w) : w \in {v \in RunGenerated(g.code) : v.ok}} = {PlainAll(m.table) : m \in meanings}
=============================================================================
