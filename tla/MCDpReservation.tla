-------------------------- MODULE MCDpReservation --------------------------
(***************************************************************************)
(* Instances of DpReservation for TLC.                                     *)
(***************************************************************************)
EXTENDS DpReservation

CONSTANTS r1, r2, r3, a, i1, i2

\* Two instances race for tenant a; the third run is a's second on i1.
MCRuns2 == {r1, r2}
MCRuns3 == {r1, r2, r3}
MCTenantOf2 == [r \in MCRuns2 |-> a]
MCInstOf2 == [r \in MCRuns2 |-> IF r = r1 THEN i1 ELSE i2]
MCTenantOf3 == [r \in MCRuns3 |-> a]
MCInstOf3 == [r \in MCRuns3 |-> IF r = r2 THEN i2 ELSE i1]

\* No run at all: only the budget endpoints.
MCRuns0 == {}
MCNoRun == [r \in MCRuns0 |-> None]

-----------------------------------------------------------------------------

\* Liveness.  The clock advances, handlers and tasks take their steps, runners
\* end (the runner kills them), refused clients retry.  Nothing makes a step
\* fail, a runner spend or an instance crash.  With no window and no live
\* reservation the passing of time changes nothing, so the clock is bounded by
\* letting it advance only while a reservation is live.  The clock needs strong
\* fairness: Tick's guards bound how long code can take, they do not stop time.
TimeMatters == \E t \in Tenants : reservation[t].expires > now

LiveNext ==
  \/ \E r \in Runs : RunStep(r)
  \/ \E i \in Instances : Crash(i)
  \/ TimeMatters /\ Tick

Progress(r) ==
  \/ ReadWindow(r) \/ ReserveRoll(r) \/ ReserveInsert(r) \/ ReserveBlocked(r)
  \/ ReserveReadBack(r) \/ Spawn(r) \/ RunnerExits(r)
  \/ Settle(r) \/ Retry(r)

LiveSpec ==
  /\ Init /\ [][LiveNext]_vars
  /\ SF_vars(TimeMatters /\ Tick)
  /\ \A r \in Runs : WF_vars(Progress(r))
=============================================================================
