---------------------------- MODULE ModuleLoader ----------------------------
(* xazz-compiler/src/modules.rs: resolve_imports, the depth-first expansion  *)
(* of import statements.  The recursion of load_program and load_module is   *)
(* the sequence of open programs, the root at the bottom: each has the       *)
(* module it expands, the statements still to visit and what it has inlined. *)
(*                                                                           *)
(* A module is identified by its canonical key <<"file", name>> or           *)
(* <<"std", name>>.  files maps the keys that exist to [readable, parses,    *)
(* stmts].                                                                   *)
EXTENDS Sequences, SequencesExt

Root == <<"root", "main">>
Open(key, stmts) == [key |-> key, rest |-> stmts, out |-> <<>>]

StartLoading(stmts) ==
    [open |-> <<Open(Root, stmts)>>, loaded |-> {}, modules |-> <<>>, errors |-> {}, program |-> <<>>]

Top(ld) == Last(ld.open)
Loading(ld) == ld.open # <<>>
Visiting(ld) == Loading(ld) /\ Top(ld).rest # <<>>
AtImport(ld) == Visiting(ld) /\ Head(Top(ld).rest).s = "import"

(* std/... names an embedded module from anywhere; inside an embedded module *)
(* every import does.                                                        *)
Target(ld) ==
    LET i == Head(Top(ld).rest) IN
    IF i.std \/ Top(ld).key[1] = "std" THEN <<"std", i.name>> ELSE <<"file", i.name>>

Advance(ld) == [ld EXCEPT !.open[Len(ld.open)].rest = Tail(@)]
Complain(ld, error) == [Advance(ld) EXCEPT !.errors = @ \cup {error}]
InProgress(ld) == {ld.open[i].key : i \in 2..Len(ld.open)}

(* Any other statement is kept.                                              *)
KeepStmt(ld) == [Advance(ld) EXCEPT !.open[Len(ld.open)].out = Append(@, Head(Top(ld).rest))]

(* An import: not found, already inlined, already being expanded, unusable,  *)
(* or opened.                                                                *)
ImportModule(ld, files) ==
    LET m == Target(ld) IN
    IF m \notin DOMAIN files THEN Complain(ld, "not found")
    ELSE IF m \in ld.loaded THEN Advance(ld)
    ELSE IF m \in InProgress(ld) THEN Complain(ld, "cyclic import")
    ELSE IF ~files[m].readable THEN Complain(ld, "unreadable")
    ELSE IF ~files[m].parses THEN Complain(ld, "does not parse")
    ELSE [Advance(ld) EXCEPT !.open = Append(@, Open(m, files[m].stmts))]

(* The end of a module: it is loaded from now on and its statements go to    *)
(* the importing program; the end of the root is the merged program.         *)
CloseUnmarked(ld) ==  \* mutant: the module is not remembered as loaded
    LET done == Top(ld) IN
    IF done.key = Root THEN [ld EXCEPT !.open = <<>>, !.program = done.out]
    ELSE [ld EXCEPT !.modules = Append(@, done.key),
                    !.open = [Front(ld.open) EXCEPT ![Len(ld.open) - 1].out = @ \o done.out]]
CloseProgram(ld) ==
    LET done == Top(ld) IN
    IF done.key = Root THEN [ld EXCEPT !.open = <<>>, !.program = done.out]
    ELSE [ld EXCEPT !.loaded = @ \cup {done.key}, !.modules = Append(@, done.key),
                    !.open = [Front(ld.open) EXCEPT ![Len(ld.open) - 1].out = @ \o done.out]]
=============================================================================
