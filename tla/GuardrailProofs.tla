--------------------------- MODULE GuardrailProofs ---------------------------
(* Proofs about the guardrail, for every policy engine, every set of tenants *)
(* and every configuration of tokens that keeps tenants apart.               *)
EXTENDS Guardrail, TLAPS

(* Whoever is served is served as the tenant that its client belongs to: a   *)
(* tenant's token opens no other tenant, whatever header comes with it       *)
(* (main.rs optional_bearer_auth).                                           *)
LEMMA ServedAsItself ==
  ASSUME NEW r \in Requests, NEW h \in HeadersOf[r], Authenticate(Server, h).ok
  PROVE  Authenticate(Server, h).tenant = TenantOf[r]
<1>1. ~ NoAuth(Server)
  BY TokenAssumption DEF NoAuth
<1>2. Unauthorized.ok = FALSE
  BY DEF Unauthorized
<1>3. \A t, a : Served(t, a).tenant = t
  BY DEF Served
<1>4. CASE IsAdmin(Server, h)
  <2>1. h.tenant = TenantOf[r]
    BY <1>4, TokenAssumption DEF IsAdmin
  <2>2. QED
    BY <1>1, <1>3, <1>4, <2>1 DEF Authenticate
<1>5. CASE ~ IsAdmin(Server, h)
  <2>1. /\ TenantToken(Server, h)
        /\ Authenticate(Server, h) = Served(h.tenant, Self)
    BY <1>1, <1>2, <1>5, TokenAssumption DEF Authenticate
  <2>2. h.tenant = TenantOf[r]
    BY <2>1, TokenAssumption DEF TenantToken
  <2>3. QED
    BY <1>3, <2>1, <2>2
<1>6. QED
  BY <1>4, <1>5
-----------------------------------------------------------------------------
(* What the second theorem asks of the policy engine: what it calls verified *)
(* it also finds safe (remediate.rs).                                        *)
RepairIsVerified == \A code, policy : Repair(code, policy).verified => Verdict(Repair(code, policy).code, policy).safe

(* The inductive invariant.                                                  *)
Entry(pc, code, tenant, policy, seen, answer) ==
  [pc |-> pc, code |-> code, tenant |-> tenant, policy |-> policy, seen |-> seen, answer |-> answer]
Shape ==
  req = [r \in Requests |-> Entry(req[r].pc, req[r].code, req[r].tenant, req[r].policy, req[r].seen, req[r].answer)]

(* A request in hand is served as its own tenant, and has seen the pack that *)
(* tenant has now.                                                           *)
OwnPackSeen(r) ==
  req[r].pc \in {"arrived", "loaded", "asking", "reading"} =>
    /\ req[r].tenant = TenantOf[r]
    /\ stored[TenantOf[r]] \in req[r].seen
(* A loaded policy is one it has seen, and no policy is loaded before that.  *)
LoadedWasSeen(r) ==
  /\ req[r].pc = "arrived" => req[r].policy = NoPack
  /\ req[r].pc \in {"loaded", "asking", "reading"} =>
       /\ req[r].policy \in Packs
       /\ \E pack \in req[r].seen : Effective(pack) = req[r].policy
  /\ req[r].pc \in {"asking", "reading"} => KindOf[r] = "remediate"
(* What a request was answered follows from the policy it was loaded with.   *)
AdmittedUnderSeen(r) ==
  IsDone(r, "allowed") =>
    \E pack \in req[r].seen : Effective(pack) \in Packs /\ Verdict(req[r].code, Effective(pack)).safe
AnsweredByPolicy(r) ==
  req[r].pc = "done" =>
    /\ KindOf[r] = "gate" /\ req[r].policy # NoPack =>
         req[r].answer = IF Verdict(req[r].code, req[r].policy).safe THEN Allowed ELSE Rejected
    /\ RepairIsVerified /\ IsDone(r, "remediated") /\ req[r].answer.verified =>
         req[r].policy \in Packs /\ Verdict(req[r].answer.code, req[r].policy).safe

RequestInv(r) ==
  OwnPackSeen(r) /\ LoadedWasSeen(r) /\ AdmittedUnderSeen(r) /\ AnsweredByPolicy(r)
IInv ==
  /\ stored \in [Tenants -> Stored]
  /\ Shape
  /\ \A r \in Requests : RequestInv(r)

-----------------------------------------------------------------------------
(* A stored pack that loads, loads to a policy.                              *)
LEMMA LoadsToPack ==
  ASSUME NEW pack \in Stored, Effective(pack) # Broken
  PROVE  Effective(pack) \in Packs
BY GuardrailAssumption DEF Effective, Stored

(* What an update of one request leaves of the others and makes of it.       *)
LEMMA OneChanges ==
  ASSUME Shape, NEW r \in Requests, NEW new, req' = [req EXCEPT ![r] = new]
  PROVE  req'[r] = new /\ \A q \in Requests \ {r} : req'[q] = req[q]
<1>1. req = [q \in Requests |-> req[q]]
  BY DEF Shape
<1>2. QED
  BY <1>1

(* Requests stay records.                                                    *)
LEMMA ShapeStays ==
  ASSUME Shape, NEW r \in Requests, NEW pc, NEW code, NEW tenant, NEW policy, NEW seen, NEW answer,
         req' = [req EXCEPT ![r] = Entry(pc, code, tenant, policy, seen, answer)]
  PROVE  Shape'
<1>1. req'[r] = Entry(pc, code, tenant, policy, seen, answer)
  BY OneChanges
<1>2. req'[r] = Entry(req'[r].pc, req'[r].code, req'[r].tenant, req'[r].policy, req'[r].seen, req'[r].answer)
  BY <1>1 DEF Entry
<1>3. \A q \in Requests \ {r} :
        req'[q] = Entry(req'[q].pc, req'[q].code, req'[q].tenant, req'[q].policy, req'[q].seen, req'[q].answer)
  <2>1. \A q \in Requests : req[q] = Entry(req[q].pc, req[q].code, req[q].tenant, req[q].policy, req[q].seen, req[q].answer)
    BY DEF Shape
  <2>2. QED
    BY <2>1, OneChanges
<1>4. req' = [q \in Requests |-> req'[q]]
  BY DEF Shape
<1>5. QED
  BY <1>2, <1>3, <1>4 DEF Shape

(* A step of one request keeps the invariant if it keeps that request's.     *)
LEMMA OneStep ==
  ASSUME IInv, NEW r \in Requests, NEW pc, NEW code, NEW tenant, NEW policy, NEW seen, NEW answer,
         req' = [req EXCEPT ![r] = Entry(pc, code, tenant, policy, seen, answer)],
         UNCHANGED stored,
         req'[r] = Entry(pc, code, tenant, policy, seen, answer) => RequestInv(r)'
  PROVE  IInv'
<1>1. Shape'
  BY ShapeStays DEF IInv
<1>2. /\ req'[r] = Entry(pc, code, tenant, policy, seen, answer)
      /\ \A q \in Requests \ {r} : req'[q] = req[q]
  BY OneChanges DEF IInv
<1>3. ASSUME NEW q \in Requests \ {r} PROVE RequestInv(q)'
  <2>1. RequestInv(q) /\ req'[q] = req[q] /\ stored' = stored
    BY <1>2 DEF IInv
  <2>2. QED
    BY <2>1 DEF RequestInv, OwnPackSeen, LoadedWasSeen, AdmittedUnderSeen, AnsweredByPolicy, IsDone
<1>4. QED
  BY <1>1, <1>2, <1>3 DEF IInv

(* What Done makes of a request.                                             *)
Finished(e, answer) == [e EXCEPT !.pc = "done", !.answer = answer]
LEMMA FinishedEntry ==
  ASSUME NEW e, NEW pc, NEW code, NEW tenant, NEW policy, NEW seen, NEW old, NEW answer,
         e = Entry(pc, code, tenant, policy, seen, old)
  PROVE  Finished(e, answer) = Entry("done", code, tenant, policy, seen, answer)
<1>1. Finished(e, answer) = [[e EXCEPT !.pc = "done"] EXCEPT !.answer = answer]
  BY DEF Finished
<1>2. [e EXCEPT !.pc = "done"] = Entry("done", code, tenant, policy, seen, old)
  BY DEF Entry
<1>3. [Entry("done", code, tenant, policy, seen, old) EXCEPT !.answer = answer]
      = Entry("done", code, tenant, policy, seen, answer)
  BY DEF Entry
<1>4. QED
  BY <1>1, <1>2, <1>3

(* Done answers one request and changes nothing else of it.                  *)
LEMMA DoneEntry ==
  ASSUME Shape, NEW r \in Requests, NEW answer, Done(r, answer)
  PROVE  req' = [req EXCEPT ![r] =
           Entry("done", req[r].code, req[r].tenant, req[r].policy, req[r].seen, answer)]
<1>1. req[r] = Entry(req[r].pc, req[r].code, req[r].tenant, req[r].policy, req[r].seen, req[r].answer)
  BY DEF Shape
<1>2. Finished(req[r], answer) = Entry("done", req[r].code, req[r].tenant, req[r].policy, req[r].seen, answer)
  BY <1>1, FinishedEntry
<1>3. req' = [req EXCEPT ![r] = Finished(req[r], answer)]
  BY DEF Done, Finished
<1>4. QED
  BY <1>2, <1>3

(* A request that moves on keeps all else.                                   *)
LEMMA MovesEntry ==
  ASSUME Shape, NEW r \in Requests, NEW pc, req' = [req EXCEPT ![r].pc = pc]
  PROVE  req' = [req EXCEPT ![r] =
           Entry(pc, req[r].code, req[r].tenant, req[r].policy, req[r].seen, req[r].answer)]
<1>1. req[r] = Entry(req[r].pc, req[r].code, req[r].tenant, req[r].policy, req[r].seen, req[r].answer)
  BY DEF Shape
<1>2. [req[r] EXCEPT !.pc = pc]
        = Entry(pc, req[r].code, req[r].tenant, req[r].policy, req[r].seen, req[r].answer)
  BY <1>1 DEF Entry
<1>3. QED
  BY <1>2

(* An answer keeps the invariant if it follows from the loaded policy.       *)
LEMMA DoneStep ==
  ASSUME IInv, NEW r \in Requests, NEW answer, Done(r, answer), UNCHANGED stored,
         answer.outcome = "allowed" =>
           \E pack \in req[r].seen : Effective(pack) \in Packs /\ Verdict(req[r].code, Effective(pack)).safe,
         KindOf[r] = "gate" /\ req[r].policy # NoPack =>
           answer = IF Verdict(req[r].code, req[r].policy).safe THEN Allowed ELSE Rejected,
         RepairIsVerified /\ answer.outcome = "remediated" /\ answer.verified =>
           req[r].policy \in Packs /\ Verdict(answer.code, req[r].policy).safe
  PROVE  IInv'
<1>1. req' = [req EXCEPT ![r] =
        Entry("done", req[r].code, req[r].tenant, req[r].policy, req[r].seen, answer)]
  BY DoneEntry DEF IInv
<1>2. ASSUME req'[r] = Entry("done", req[r].code, req[r].tenant, req[r].policy, req[r].seen, answer)
      PROVE  RequestInv(r)'
  <2>1. /\ req'[r].pc = "done" /\ req'[r].code = req[r].code /\ req'[r].policy = req[r].policy
        /\ req'[r].seen = req[r].seen /\ req'[r].answer = answer
    BY <1>2 DEF Entry
  <2>2. QED
    BY <2>1 DEF RequestInv, OwnPackSeen, LoadedWasSeen, AdmittedUnderSeen, AnsweredByPolicy, IsDone
<1>3. QED
  BY <1>1, <1>2, OneStep

(* A request that arrives has seen the pack of its own tenant.               *)
LEMMA ArriveStep ==
  ASSUME IInv, NEW r \in Requests, Arrive(r)
  PROVE  IInv'
<1>1. PICK code \in Texts[r] \cup Suggested(TenantOf[r]), h \in HeadersOf[r] :
        req' = [req EXCEPT ![r] =
          IF Authenticate(Server, h).ok
          THEN Request("arrived", code, Authenticate(Server, h).tenant, {stored[TenantOf[r]]}, Pending)
          ELSE Request("done", code, Absent, {stored[TenantOf[r]]}, Refused)]
  BY DEF Arrive
<1>2. UNCHANGED stored
  BY DEF Arrive
<1>3. CASE Authenticate(Server, h).ok
  <2> DEFINE new == Entry("arrived", code, TenantOf[r], NoPack, {stored[TenantOf[r]]}, Pending)
  <2>1. req' = [req EXCEPT ![r] = new]
    BY <1>1, <1>3, ServedAsItself DEF Request, Entry
  <2>2. ASSUME req'[r] = new PROVE RequestInv(r)'
    BY <1>2, <2>2 DEF Entry, RequestInv, OwnPackSeen, LoadedWasSeen, AdmittedUnderSeen, AnsweredByPolicy, IsDone
  <2>3. QED
    BY <1>2, <2>1, <2>2, OneStep
<1>4. CASE ~ Authenticate(Server, h).ok
  <2> DEFINE new == Entry("done", code, Absent, NoPack, {stored[TenantOf[r]]}, Refused)
  <2>1. req' = [req EXCEPT ![r] = new]
    BY <1>1, <1>4 DEF Request, Entry
  <2>2. ASSUME req'[r] = new PROVE RequestInv(r)'
    BY <1>2, <2>2 DEF Entry, RequestInv, OwnPackSeen, LoadedWasSeen, AdmittedUnderSeen, AnsweredByPolicy, IsDone, Refused
  <2>3. QED
    BY <1>2, <2>1, <2>2, OneStep
<1>5. QED
  BY <1>3, <1>4

(* A step that only moves a loaded remediation on.                           *)
LEMMA AskingStep ==
  ASSUME IInv, NEW r \in Requests, NEW from \in {"loaded", "asking"}, NEW pc \in {"asking", "reading"},
         Moves(r, from, pc), UNCHANGED stored, KindOf[r] = "remediate"
  PROVE  IInv'
<1> DEFINE new == Entry(pc, req[r].code, req[r].tenant, req[r].policy, req[r].seen, req[r].answer)
<1>0. req[r].pc \in {"loaded", "asking"}
  BY DEF Moves
<1>1. req' = [req EXCEPT ![r] = new]
  BY MovesEntry DEF IInv, Moves
<1>2. ASSUME req'[r] = new PROVE RequestInv(r)'
  <2>1. /\ req'[r].pc = pc /\ req'[r].code = req[r].code /\ req'[r].policy = req[r].policy
        /\ req'[r].tenant = req[r].tenant /\ req'[r].seen = req[r].seen
    BY <1>2 DEF Entry
  <2>2. RequestInv(r)
    BY DEF IInv
  <2>3. QED
    BY <1>0, <2>1, <2>2 DEF RequestInv, OwnPackSeen, LoadedWasSeen, AdmittedUnderSeen, AnsweredByPolicy, IsDone
<1>3. QED
  BY <1>1, <1>2, OneStep, Zenon

(* What load_policy_for makes of a request.                                  *)
LoadedWith(e, policy) == [e EXCEPT !.pc = "loaded", !.policy = policy]
LEMMA LoadedEntry ==
  ASSUME NEW e, NEW pc, NEW code, NEW tenant, NEW old, NEW policy, NEW seen, NEW answer,
         e = Entry(pc, code, tenant, old, seen, answer)
  PROVE  LoadedWith(e, policy) = Entry("loaded", code, tenant, policy, seen, answer)
<1>1. LoadedWith(e, policy) = [[e EXCEPT !.pc = "loaded"] EXCEPT !.policy = policy]
  BY DEF LoadedWith
<1>2. [e EXCEPT !.pc = "loaded"] = Entry("loaded", code, tenant, old, seen, answer)
  BY DEF Entry
<1>3. [Entry("loaded", code, tenant, old, seen, answer) EXCEPT !.policy = policy]
      = Entry("loaded", code, tenant, policy, seen, answer)
  BY DEF Entry
<1>4. QED
  BY <1>1, <1>2, <1>3

(* A refusal needs no policy.                                                *)
LEMMA RefusedStep ==
  ASSUME IInv, NEW r \in Requests, req[r].pc = "arrived", Done(r, Refused), UNCHANGED stored
  PROVE  IInv'
<1>1. req[r].policy = NoPack
  BY DEF IInv, RequestInv, LoadedWasSeen
<1>2. Refused.outcome \notin {"allowed", "remediated"}
  BY DEF Refused
<1>3. QED
  BY <1>1, <1>2, DoneStep

(* The policy that is loaded is that of the request's own tenant.            *)
LEMMA LoadStep ==
  ASSUME IInv, NEW r \in Requests, LoadPolicyFor(r)
  PROVE  IInv'
<1> DEFINE policy == Effective(stored[TenantOf[r]])
<1>1. /\ req[r].pc = "arrived" /\ UNCHANGED stored
      /\ req[r].tenant = TenantOf[r] /\ stored[TenantOf[r]] \in req[r].seen
  BY DEF LoadPolicyFor, IInv, RequestInv, OwnPackSeen
<1>2. CASE policy = Broken
  BY <1>1, <1>2, RefusedStep DEF LoadPolicyFor
<1>3. CASE policy # Broken
  <2> DEFINE new == Entry("loaded", req[r].code, req[r].tenant, policy, req[r].seen, req[r].answer)
  <2>1. req' = [req EXCEPT ![r] = LoadedWith(req[r], policy)]
    BY <1>1, <1>3 DEF LoadPolicyFor, LoadedWith
  <2>2. req[r] = Entry(req[r].pc, req[r].code, req[r].tenant, req[r].policy, req[r].seen, req[r].answer)
    BY DEF IInv, Shape
  <2>3. LoadedWith(req[r], policy) = new
    BY <2>2, LoadedEntry
  <2>4. policy \in Packs
    BY <1>3, LoadsToPack, GuardrailAssumption DEF IInv
  <2>5. ASSUME req'[r] = new PROVE RequestInv(r)'
    <3>1. /\ req'[r].pc = "loaded" /\ req'[r].policy = policy
          /\ req'[r].tenant = req[r].tenant /\ req'[r].seen = req[r].seen
      BY <2>5 DEF Entry
    <3>2. QED
      BY <1>1, <2>4, <3>1 DEF RequestInv, OwnPackSeen, LoadedWasSeen, AdmittedUnderSeen, AnsweredByPolicy, IsDone
  <2>6. req' = [req EXCEPT ![r] = new]
    BY <2>1, <2>3
  <2>7. QED
    BY <1>1, <2>5, <2>6, OneStep, Zenon
<1>4. QED
  BY <1>2, <1>3

(* A text is let through only if the loaded policy finds it safe.            *)
LEMMA JudgeStep ==
  ASSUME IInv, NEW r \in Requests, Judge(r)
  PROVE  IInv'
<1> DEFINE answer == IF Verdict(req[r].code, req[r].policy).safe THEN Allowed ELSE Rejected
<1>1. Done(r, answer) /\ UNCHANGED stored /\ req[r].pc = "loaded"
  BY DEF Judge
<1>2. req[r].policy \in Packs /\ \E pack \in req[r].seen : Effective(pack) = req[r].policy
  BY <1>1 DEF IInv, RequestInv, LoadedWasSeen
<1>3. /\ answer.outcome = "allowed" => Verdict(req[r].code, req[r].policy).safe
      /\ answer.outcome # "remediated"
  BY DEF Allowed, Rejected
<1>4. answer.outcome = "allowed" =>
        \E pack \in req[r].seen : Effective(pack) \in Packs /\ Verdict(req[r].code, Effective(pack)).safe
  BY <1>2, <1>3
<1>5. QED
  BY <1>1, <1>3, <1>4, DoneStep

(* The answer of a remediation, the model's proposal included.               *)
LEMMA RemediatedStep ==
  ASSUME IInv, NEW r \in Requests, KindOf[r] = "remediate", req[r].policy \in Packs, UNCHANGED stored,
         \/ Done(r, Deterministic(req[r]))
         \/ \E proposal \in Proposals : Done(r, Adopt(req[r], proposal))
  PROVE  IInv'
<1> DEFINE Kept(answer) == /\ answer.outcome = "remediated"
                           /\ RepairIsVerified /\ answer.verified => Verdict(answer.code, req[r].policy).safe
<1>1. Kept(Deterministic(req[r]))
  BY DEF Deterministic, AsAnswer, Remediated, RepairIsVerified
<1>2. \A proposal \in Proposals : Kept(Adopt(req[r], proposal))
  <2>1. TAKE proposal \in Proposals
  <2>2. CASE Verdict(proposal, req[r].policy).safe
    BY <2>2 DEF Adopt, Remediated
  <2>3. CASE ~ Verdict(proposal, req[r].policy).safe
    BY <1>1, <2>3 DEF Adopt
  <2>4. QED
    BY <2>2, <2>3
<1>3. PICK answer : Done(r, answer) /\ Kept(answer)
  BY <1>1, <1>2
<1>4. QED
  BY <1>3, DoneStep

(* A pack that is replaced has been seen by the tenant's requests in hand.   *)
SeenWith(e, pack) == [e EXCEPT !.seen = @ \cup {pack}]
LEMMA SeenEntry ==
  ASSUME NEW e, NEW pc, NEW code, NEW tenant, NEW policy, NEW seen, NEW answer, NEW pack,
         e = Entry(pc, code, tenant, policy, seen, answer)
  PROVE  SeenWith(e, pack) = Entry(pc, code, tenant, policy, seen \cup {pack}, answer)
BY DEF SeenWith, Entry

LEMMA ReplaceStep ==
  ASSUME IInv, NEW t, NEW pack \in Stored, Replace(t, pack)
  PROVE  IInv'
<1> DEFINE Sees(r) == TenantOf[r] = t /\ req[r].pc \notin {"idle", "done"}
<1>1. /\ stored' = [stored EXCEPT ![t] = pack]
      /\ req' = [r \in Requests |-> IF Sees(r) THEN SeenWith(req[r], pack) ELSE req[r]]
  BY DEF Replace, SeenWith
<1>2. stored' \in [Tenants -> Stored]
  BY <1>1 DEF IInv
<1>3. \A r \in Requests :
        req[r] = Entry(req[r].pc, req[r].code, req[r].tenant, req[r].policy, req[r].seen, req[r].answer)
  BY DEF IInv, Shape
<1>4. ASSUME NEW r \in Requests
      PROVE  \E seen :
               /\ req'[r] = Entry(req[r].pc, req[r].code, req[r].tenant, req[r].policy, seen, req[r].answer)
               /\ seen = IF Sees(r) THEN req[r].seen \cup {pack} ELSE req[r].seen
  <2>1. CASE Sees(r)
    <3>1. req'[r] = SeenWith(req[r], pack)
      BY <1>1, <2>1
    <3>2. SeenWith(req[r], pack)
          = Entry(req[r].pc, req[r].code, req[r].tenant, req[r].policy, req[r].seen \cup {pack}, req[r].answer)
      BY <1>3, SeenEntry
    <3>3. QED
      BY <2>1, <3>1, <3>2
  <2>2. CASE ~ Sees(r)
    BY <1>1, <1>3, <2>2
  <2>3. QED
    BY <2>1, <2>2
<1>5. Shape'
  <2>1. ASSUME NEW r \in Requests
        PROVE  req'[r] = Entry(req'[r].pc, req'[r].code, req'[r].tenant, req'[r].policy, req'[r].seen, req'[r].answer)
    <3>1. PICK seen :
            req'[r] = Entry(req[r].pc, req[r].code, req[r].tenant, req[r].policy, seen, req[r].answer)
      BY <1>4
    <3>2. /\ req'[r].pc = req[r].pc /\ req'[r].code = req[r].code /\ req'[r].tenant = req[r].tenant
          /\ req'[r].policy = req[r].policy /\ req'[r].seen = seen /\ req'[r].answer = req[r].answer
      BY <3>1 DEF Entry
    <3>3. QED
      BY <3>1, <3>2
  <2>2. req' = [r \in Requests |-> req'[r]]
    BY <1>1
  <2>3. QED
    BY <2>1, <2>2 DEF Shape
<1>6. ASSUME NEW r \in Requests PROVE RequestInv(r)'
  <2>1. /\ req'[r].pc = req[r].pc /\ req'[r].code = req[r].code /\ req'[r].policy = req[r].policy
        /\ req'[r].tenant = req[r].tenant /\ req'[r].answer = req[r].answer
        /\ req'[r].seen = IF Sees(r) THEN req[r].seen \cup {pack} ELSE req[r].seen
    <3>1. PICK seen :
            /\ req'[r] = Entry(req[r].pc, req[r].code, req[r].tenant, req[r].policy, seen, req[r].answer)
            /\ seen = IF Sees(r) THEN req[r].seen \cup {pack} ELSE req[r].seen
      BY <1>4
    <3>2. /\ req'[r].pc = req[r].pc /\ req'[r].code = req[r].code /\ req'[r].tenant = req[r].tenant
          /\ req'[r].policy = req[r].policy /\ req'[r].seen = seen /\ req'[r].answer = req[r].answer
      BY <3>1 DEF Entry
    <3>3. QED
      BY <3>1, <3>2
  <2>2. RequestInv(r) /\ stored \in [Tenants -> Stored] /\ TenantOf[r] \in Tenants
    BY GuardrailAssumption DEF IInv
  <2>3. OwnPackSeen(r)'
    <3>1. CASE Sees(r)
      BY <1>1, <2>1, <2>2, <3>1 DEF RequestInv, OwnPackSeen
    <3>2. CASE ~ Sees(r)
      BY <1>1, <2>1, <2>2, <3>2 DEF RequestInv, OwnPackSeen
    <3>3. QED
      BY <3>1, <3>2
  <2>4. LoadedWasSeen(r)'
    BY <2>1, <2>2 DEF RequestInv, LoadedWasSeen
  <2>5. AdmittedUnderSeen(r)' /\ AnsweredByPolicy(r)'
    BY <2>1, <2>2 DEF RequestInv, AdmittedUnderSeen, AnsweredByPolicy, IsDone
  <2>6. QED
    BY <2>3, <2>4, <2>5 DEF RequestInv
<1>7. QED
  BY <1>2, <1>5, <1>6 DEF IInv

-----------------------------------------------------------------------------
(* The invariant holds at the start.                                         *)
LEMMA Initially == Init => IInv
<1> SUFFICES ASSUME Init PROVE IInv
  OBVIOUS
<1>1. stored \in [Tenants -> Stored]
  BY DEF Init, Stored
<1>2. \A r \in Requests : req[r] = Entry("idle", NoPack, Absent, NoPack, {}, Pending)
  BY DEF Init, Idle, Request, Entry
<1>3. Shape
  <2>1. \A r \in Requests :
          req[r] = Entry(req[r].pc, req[r].code, req[r].tenant, req[r].policy, req[r].seen, req[r].answer)
    BY <1>2 DEF Entry
  <2>2. req = [r \in Requests |-> req[r]]
    BY DEF Init
  <2>3. QED
    BY <2>1, <2>2 DEF Shape
<1>4. ASSUME NEW r \in Requests PROVE RequestInv(r)
  <2>1. req[r].pc = "idle"
    BY <1>2 DEF Entry
  <2>2. QED
    BY <2>1 DEF RequestInv, OwnPackSeen, LoadedWasSeen, AdmittedUnderSeen, AnsweredByPolicy, IsDone
<1>5. QED
  BY <1>1, <1>3, <1>4 DEF IInv

(* Every step keeps the invariant.                                           *)
LEMMA Inductive == IInv /\ [Next]_vars => IInv'
<1> SUFFICES ASSUME IInv, [Next]_vars PROVE IInv'
  OBVIOUS
<1>1. ASSUME NEW r \in Requests, Arrive(r) PROVE IInv'
  BY <1>1, ArriveStep
<1>2. ASSUME NEW r \in Requests, StoreFails(r) PROVE IInv'
  BY <1>2, RefusedStep DEF StoreFails
<1>3. ASSUME NEW r \in Requests, LoadPolicyFor(r) PROVE IInv'
  BY <1>3, LoadStep
<1>4. ASSUME NEW r \in Requests, Judge(r) PROVE IInv'
  BY <1>4, JudgeStep
<1>5. ASSUME NEW r \in Requests, RemediateNow(r) PROVE IInv'
  <2>1. req[r].pc = "loaded" /\ KindOf[r] = "remediate" /\ UNCHANGED stored /\ req[r].policy \in Packs
    BY <1>5 DEF RemediateNow, IInv, RequestInv, LoadedWasSeen
  <2>2. CASE Moves(r, "loaded", "asking")
    BY <2>1, <2>2, AskingStep
  <2>3. CASE Done(r, Deterministic(req[r]))
    BY <2>1, <2>3, RemediatedStep
  <2>4. QED
    BY <1>5, <2>1, <2>2, <2>3 DEF RemediateNow, Moves
<1>6. ASSUME NEW r \in Requests, SlmResponds(r) PROVE IInv'
  <2>1. Moves(r, "asking", "reading") /\ UNCHANGED stored /\ KindOf[r] = "remediate"
    BY <1>6 DEF SlmResponds, Moves, IInv, RequestInv, LoadedWasSeen
  <2>2. QED
    BY <2>1, AskingStep
<1>7. ASSUME NEW r \in Requests, SlmFails(r) \/ SlmProposes(r) PROVE IInv'
  <2>1. /\ KindOf[r] = "remediate" /\ req[r].policy \in Packs /\ UNCHANGED stored
    BY <1>7 DEF SlmFails, SlmProposes, IInv, RequestInv, LoadedWasSeen
  <2>2. \/ Done(r, Deterministic(req[r]))
        \/ \E proposal \in Proposals : Done(r, Adopt(req[r], proposal))
    BY <1>7 DEF SlmFails, SlmProposes
  <2>3. QED
    BY <2>1, <2>2, RemediatedStep
<1>8. ASSUME NEW h \in Changers, ChangePack(h) PROVE IInv'
  BY <1>8, ReplaceStep DEF ChangePack, Stored
<1>9. ASSUME NEW t \in Tenants, StoreElsewhere(t) PROVE IInv'
  BY <1>9, ReplaceStep DEF StoreElsewhere, Stored
<1>10. CASE UNCHANGED vars
  BY <1>10 DEF vars, IInv, Shape, RequestInv, OwnPackSeen, LoadedWasSeen, AdmittedUnderSeen, AnsweredByPolicy, IsDone
<1>11. QED
  BY <1>1, <1>2, <1>3, <1>4, <1>5, <1>6, <1>7, <1>8, <1>9, <1>10 DEF Next, Step

(* The invariant holds always.                                               *)
LEMMA Invariant == Spec => []IInv
  BY Initially, Inductive, PTL DEF Spec

-----------------------------------------------------------------------------
(* Whatever the policy engine finds, no text is let through under a policy   *)
(* that was not in force for its sender's own tenant (guardrail.rs gate_for).*)
THEOREM AdmittedHolds == Spec => []AdmittedByItsPack
<1>1. IInv => AdmittedByItsPack
  BY DEF IInv, RequestInv, AdmittedUnderSeen, AdmittedByItsPack, Effective, IsDone
<1>2. QED
  BY <1>1, Invariant, PTL

(* If the engine finds safe what it calls verified, then verified remediated *)
(* code is let through under the same policy, whatever the model proposes    *)
(* (guardrail.rs remediate_with_slm).                                        *)
THEOREM VerifiedHolds == ASSUME RepairIsVerified PROVE Spec => []VerifiedIsAllowed
<1>1. IInv => VerifiedIsAllowed
  <2> SUFFICES ASSUME IInv, NEW r \in Requests, NEW e \in Requests,
                      IsDone(r, "remediated"), req[r].answer.verified,
                      req[e].pc = "done", KindOf[e] = "gate",
                      req[e].code = req[r].answer.code, req[e].policy = req[r].policy
               PROVE  req[e].answer = Allowed
    BY DEF VerifiedIsAllowed
  <2>1. req[r].policy \in Packs /\ Verdict(req[r].answer.code, req[r].policy).safe
    BY DEF IInv, RequestInv, AnsweredByPolicy, IsDone
  <2>2. req[e].policy # NoPack
    BY <2>1, GuardrailAssumption
  <2>3. QED
    BY <2>1, <2>2 DEF IInv, RequestInv, AnsweredByPolicy
<1>2. QED
  BY <1>1, Invariant, PTL
=============================================================================
