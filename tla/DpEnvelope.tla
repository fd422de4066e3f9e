----------------------------- MODULE DpEnvelope -----------------------------
(***************************************************************************)
(* What the tenant DP ledger promises, with no store, no clock and no      *)
(* server in it: a tenant owns an envelope of TotalEps; one run at a time  *)
(* may be granted what is left of it; whatever that run reports is billed  *)
(* when the grant ends, and never more than was granted.  DpReservation    *)
(* is shown to implement this module.                                      *)
(***************************************************************************)
EXTENDS Naturals

CONSTANTS
  Tenants,  \* owners of an envelope
  Runs,     \* who may be granted it
  None,     \* nobody; not a run
  TotalEps  \* size of an envelope, a natural number

VARIABLES
  spent,    \* [Tenants -> 0..TotalEps]: billed in the current window
  holder,   \* [Tenants -> Runs \cup {None}]: the run the envelope is granted to
  grant     \* [Tenants -> 0..TotalEps]: how much of it was granted

envVars == <<spent, holder, grant>>

Init ==
  /\ spent \in [Tenants -> 0..TotalEps]
  /\ holder = [t \in Tenants |-> None]
  /\ grant = [t \in Tenants |-> 0]

\* Everything that is left goes to one run, and only while nobody holds it.
Grant(t, r) ==
  /\ holder[t] = None
  /\ holder' = [holder EXCEPT ![t] = r]
  /\ grant' = [grant EXCEPT ![t] = TotalEps - spent[t]]
  /\ UNCHANGED spent

\* The grant ends and its spend e is billed, to the current window or to the
\* one that starts at this very moment.
Bill(t, e) ==
  /\ holder[t] # None
  /\ e <= grant[t]
  /\ \/ spent' = [spent EXCEPT ![t] = @ + e]
     \/ spent' = [spent EXCEPT ![t] = e]
  /\ holder' = [holder EXCEPT ![t] = None]
  /\ grant' = [grant EXCEPT ![t] = 0]

\* Grants end without a bill: refused set-up, failed settle, crashed server.
Abandon(S) ==
  /\ holder' = [t \in Tenants |-> IF t \in S THEN None ELSE holder[t]]
  /\ grant' = [t \in Tenants |-> IF t \in S THEN 0 ELSE grant[t]]
  /\ UNCHANGED spent

\* The window elapses or an operator resets the ledger.
Forget(t) ==
  /\ spent' = [spent EXCEPT ![t] = 0]
  /\ UNCHANGED <<holder, grant>>

Next ==
  \/ \E t \in Tenants, r \in Runs : Grant(t, r)
  \/ \E t \in Tenants, e \in 0..TotalEps : Bill(t, e)
  \/ \E S \in SUBSET Tenants : Abandon(S)
  \/ \E t \in Tenants : Forget(t)

Spec == Init /\ [][Next]_envVars
=============================================================================
