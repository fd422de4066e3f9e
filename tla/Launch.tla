------------------------------- MODULE Launch -------------------------------
(* `xazz run`: the command line gates the program, starts xazz-runner, which *)
(* starts the engine (xazz-exec) and watches it: it polls whether the engine *)
(* has ended, kills it once the time limit has passed, and answers with an   *)
(* exit code.  The three are processes; every step of the engine can fall    *)
(* between any two of the runner's.                                          *)
EXTENDS Engine

CONSTANT Timeout  \* XAZZ_EXEC_TIMEOUT_SECS, in ticks
ASSUME TimeoutAssumption == Timeout \in Nat \ {0} /\ Null \notin {0, 1}

VARIABLES
    runner,   \* "gate", "refused", "polling", "asleep", "killing", "ended", "lost"
    elapsed,  \* ticks since the engine was started, up to Timeout
    exit      \* the exit code, Null before it is known
launchVars == <<runner, elapsed, exit>>
vars == <<engineVars, launchVars>>

Init == EngineInit /\ runner = "gate" /\ elapsed = 0 /\ exit = Null

Answer(code, r) == exit' = code /\ runner' = r /\ UNCHANGED elapsed
Started == runner \notin {"gate", "refused"}

(* gate_before_run judges the text of the main file only.                    *)
GateRefuses == ~PolicyLoads \/ Root \in job.tainted
Gate ==
    /\ runner = "gate"
    /\ IF GateRefuses THEN Answer(1, "refused") ELSE runner' = "polling" /\ UNCHANGED <<elapsed, exit>>
    /\ UNCHANGED engineVars

EngineStep == Started /\ EngineNext /\ UNCHANGED launchVars
(* A panic, a signal from outside, the end of memory.                        *)
EngineCrash ==
    /\ Started /\ ~EngineEnded /\ phase' = "killed"
    /\ UNCHANGED <<job, why, node, step, cur, compiled, memory, privacy, outside, launchVars>>

Tick ==
    /\ Started /\ exit = Null /\ elapsed < Timeout /\ elapsed' = elapsed + 1
    /\ UNCHANGED <<engineVars, runner, exit>>

(* One turn of the loop: try_wait, then the clock.                           *)
SignalIsSuccess ==  \* mutant: no exit status counts as 0
    /\ runner = "polling" /\ EngineEnded /\ Answer(IF phase = "failed" THEN 1 ELSE 0, "ended")
    /\ UNCHANGED engineVars
PollEnded ==
    /\ runner = "polling" /\ EngineEnded /\ Answer(IF phase = "done" THEN 0 ELSE 1, "ended")
    /\ UNCHANGED engineVars
PollWithoutLimit ==  \* mutant
    runner = "polling" /\ ~EngineEnded /\ runner' = "asleep" /\ UNCHANGED <<engineVars, elapsed, exit>>
PollRunning ==
    /\ runner = "polling" /\ ~EngineEnded
    /\ runner' = IF elapsed >= Timeout THEN "killing" ELSE "asleep"
    /\ UNCHANGED <<engineVars, elapsed, exit>>
Wake == runner = "asleep" /\ runner' = "polling" /\ UNCHANGED <<engineVars, elapsed, exit>>
(* try_wait itself fails: the runner leaves, and the engine runs on.         *)
PollFails == runner = "polling" /\ Answer(1, "lost") /\ UNCHANGED engineVars

(* kill and wait.  The engine may have ended since try_wait.                 *)
Kill ==
    /\ runner = "killing" /\ Answer(1, "ended")
    /\ phase' = IF EngineEnded THEN phase ELSE "killed"
    /\ UNCHANGED <<job, why, node, step, cur, compiled, memory, privacy, outside>>

Watch == Gate \/ PollEnded \/ PollRunning \/ Wake \/ PollFails \/ Kill
Next == EngineStep \/ EngineCrash \/ Tick \/ Watch

(* The clock and the runner go on; nothing is assumed of the engine.         *)
Fairness == WF_vars(Tick) /\ WF_vars(Watch)
Spec == Init /\ [][Next]_vars /\ Fairness

-----------------------------------------------------------------------------
(* What the caller makes of the markers: `xazz run --json` (parse_run_markers)*)
(* and the server (parse_stdout_markers) keep the last one of a kind, the    *)
(* command line every [xazz:dp]; the server bills what the last of those     *)
(* says (dp_spend_from_marker).                                              *)
OfKind(kind) ==
    LET upTo[n \in 0..Len(markers)] ==
          IF n = 0 THEN <<>>
          ELSE IF markers[n].k = kind THEN Append(upTo[n - 1], markers[n]) ELSE upTo[n - 1]
    IN  upTo[Len(markers)]
Places(kind) == {i \in DOMAIN markers : markers[i].k = kind}
FirstOf(kind) == IF Places(kind) = {} THEN Null ELSE markers[Min(Places(kind))].v  \* mutant
LastOf(kind) == IF Places(kind) = {} THEN Null ELSE markers[Max(Places(kind))].v
RunMarkers == [rows |-> LastOf("result"),
               dp   |-> [i \in DOMAIN OfKind("dp") |-> [remaining |-> Max({0, TotalEps - OfKind("dp")[i].v.spent})]]]
StdoutMarkers == [rows |-> IF exit = 0 THEN LastOf("result") ELSE Null, dp |-> LastOf("dp")]
Billed == IF Places("dp") = {} THEN 0 ELSE StdoutMarkers.dp.spent

(* The noise that has left the process, and what it costs.                   *)
Released == UNION ({Draws(disk[p]) : p \in DOMAIN disk} \cup {Draws(markers[i].v) : i \in Places("result")})
Cost(draws) ==
    ComposedEps(FoldSet(LAMBDA d, b : LET op == ir[d[1]].steps[d[2]] IN
                            Compose(b, Mechanism(op.mechanism, op.epsilon, op.delta), paid[d]), Fresh, draws))

(* The answer given by `xazz run` is true.  Code 0 is given only when the    *)
(* engine reported success, with no file left half written and the output    *)
(* file holding the reported result; unless the runner lost the engine,      *)
(* nothing of the run goes on after any answer; and whatever the code, the   *)
(* markers read until then bill all the noise that is in a file or was       *)
(* reported, and show a budget that is left accordingly.                     *)
ExitIsTrue ==
    /\ exit = 0 => /\ phase = "done" /\ \A p \in DOMAIN disk : disk[p] # Torn
                   /\ RunMarkers.rows = StdoutMarkers.rows
                   /\ RunMarkers.rows # Null /\ job.output # Null => disk[job.output] = RunMarkers.rows
    /\ runner = "ended" => EngineEnded
BillIsComplete == Billed = ComposedEps(budget) /\ Released \subseteq DOMAIN paid
AnswerIsTrue ==
    /\ ExitIsTrue /\ BillIsComplete
    /\ runner = "ended" => /\ Cost(Released) =< Billed
                           /\ RunMarkers.dp # <<>> => Last(RunMarkers.dp).remaining = TotalEps - Billed

(* Whatever the engine does, hangs included, `xazz run` answers.             *)
Answers == <>(exit # Null)
=============================================================================
