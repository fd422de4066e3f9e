------------------------------ MODULE Guardrail -----------------------------
(* xazz-server: the policy gate of /execute and the remediation endpoint     *)
(* (guardrail.rs, slm.rs and their handlers in main.rs), several requests at *)
(* a time, while the tenants' policy packs are replaced.                     *)
(*                                                                           *)
(* What the policy engine finds in a text and how it repairs it are          *)
(* parameters: whatever they are, the guardrail is to keep its promises.     *)
EXTENDS Naturals, FiniteSets, Access

CONSTANTS Tenants, Requests,
          Server,        \* its tokens, see Access
          TenantOf,      \* the tenant whose client sends a request
          HeadersOf,     \* the headers that client may send
          Changers,      \* the headers of requests that change a pack
          KindOf,        \* "gate" (/execute) or "remediate"
          Packs,         \* the policies that load
          Broken,        \* a pack or policy file that does not
          NoPack,        \* a tenant without a pack
          Global,        \* what the server's own policy loads to
          Texts,         \* what the client of a request may send
          Proposals,     \* what the model may propose
          SlmEnabled,
          MaxPuts,       \* bound on the packs stored
          Verdict(_, _), \* analyze: [safe, violations] of a code under a policy
          Repair(_, _)   \* remediate: [code, residual, verified]

ASSUME GuardrailAssumption ==
    /\ TenantOf \in [Requests -> Tenants]
    /\ KindOf \in [Requests -> {"gate", "remediate"}]
    /\ DOMAIN Texts = Requests /\ DOMAIN HeadersOf = Requests
    /\ Global \in Packs \cup {Broken}
    /\ Broken \notin Packs /\ NoPack \notin Packs \cup {Broken}
    /\ SlmEnabled \in BOOLEAN /\ MaxPuts \in Nat

(* Every tenant has a token of its own, which is no administrator's.  The    *)
(* client of a request has the token of its tenant or none, or else, an      *)
(* administrator, names that tenant.                                         *)
ASSUME TokenAssumption ==
    /\ Server.tenants # <<>>
    /\ \A t, u \in DOMAIN Server.tenants : Server.tenants[t] = Server.tenants[u] => t = u
    /\ \A t \in DOMAIN Server.tenants :
          Server.tenants[t] \notin Server.admins \cup DOMAIN Server.actors \cup {Absent}
    /\ Absent \notin Server.admins \cup DOMAIN Server.actors
    /\ \A r \in Requests : \A h \in HeadersOf[r] :
          \/ h.bearer = Absent
          \/ h.tenant = TenantOf[r]
          \/ TenantOf[r] \in DOMAIN Server.tenants /\ h.bearer = Server.tenants[TenantOf[r]]

VARIABLES stored,  \* tenant -> its stored pack
          req,     \* the requests
          puts
vars == <<stored, req, puts>>

Stored == Packs \cup {Broken, NoPack}

Pending == [outcome |-> "pending"]
Refused == [outcome |-> "refused"]
Allowed == [outcome |-> "allowed"]
Rejected == [outcome |-> "rejected"]
Remediated(code, residual, verified) ==
    [outcome |-> "remediated", code |-> code, residual |-> residual, verified |-> verified]
AsAnswer(d) == Remediated(d.code, d.residual, d.verified)
Deterministic(q) == AsAnswer(Repair(q.code, q.policy))

Request(pc, code, tenant, seen, answer) ==
    [pc |-> pc, code |-> code, tenant |-> tenant, policy |-> NoPack, seen |-> seen, answer |-> answer]
Idle == Request("idle", NoPack, Absent, {}, Pending)

Init ==
    /\ stored = [t \in Tenants |-> NoPack]
    /\ req = [r \in Requests |-> Idle]
    /\ puts = 0

Done(r, answer) == req' = [req EXCEPT ![r] = [@ EXCEPT !.pc = "done", !.answer = answer]]
Moves(r, from, to) == req[r].pc = from /\ req' = [req EXCEPT ![r].pc = to]

(* A client sends a text: its own, or one it got as remediated code.  It is  *)
(* refused, or served as the tenant it authenticates as.  seen are the packs *)
(* its own tenant has had since (a history variable).                        *)
Suggested(tenant) ==
    {req[q].answer.code : q \in {p \in Requests :
        TenantOf[p] = tenant /\ req[p].pc = "done" /\ req[p].answer.outcome = "remediated"}}
Arrive(r) ==
    /\ req[r].pc = "idle"
    /\ \E code \in Texts[r] \cup Suggested(TenantOf[r]), h \in HeadersOf[r] :
         LET who  == Authenticate(Server, h)
             seen == {stored[TenantOf[r]]}
         IN  req' = [req EXCEPT ![r] =
                 IF who.ok THEN Request("arrived", code, who.tenant, seen, Pending)
                           ELSE Request("done", code, Absent, seen, Refused)]
    /\ UNCHANGED <<stored, puts>>

(* load_policy_for: the tenant's own pack or, only when there is none, the   *)
(* server's policy.  A pack that does not load, like a store that does not   *)
(* answer, refuses the request.                                              *)
FallsBack(pack) == IF pack \in {NoPack, Broken} THEN Global ELSE pack  \* mutant
Effective(pack) == IF pack = NoPack THEN Global ELSE pack
LoadPolicyFor(r) ==
    LET policy == Effective(stored[req[r].tenant]) IN
    /\ req[r].pc = "arrived"
    /\ IF policy = Broken THEN Done(r, Refused)
       ELSE req' = [req EXCEPT ![r] = [@ EXCEPT !.pc = "loaded", !.policy = policy]]
    /\ UNCHANGED <<stored, puts>>
StoreFails(r) == req[r].pc = "arrived" /\ Done(r, Refused) /\ UNCHANGED <<stored, puts>>

(* gate_for: judged under the policy that was loaded.                        *)
Judge(r) ==
    /\ req[r].pc = "loaded" /\ KindOf[r] = "gate"
    /\ Done(r, IF Verdict(req[r].code, req[r].policy).safe THEN Allowed ELSE Rejected)
    /\ UNCHANGED <<stored, puts>>

(* remediate_with_slm: the deterministic answer unless the model is to be    *)
(* asked.                                                                    *)
RemediateNow(r) ==
    /\ req[r].pc = "loaded" /\ KindOf[r] = "remediate"
    /\ IF SlmEnabled /\ ~Verdict(req[r].code, req[r].policy).safe
       THEN req' = [req EXCEPT ![r].pc = "asking"]
       ELSE Done(r, Deterministic(req[r]))
    /\ UNCHANGED <<stored, puts>>

(* propose: only the response headers are awaited under the timeout.         *)
SlmResponds(r) == Moves(r, "asking", "reading") /\ UNCHANGED <<stored, puts>>
WaitForever(r) == FALSE /\ UNCHANGED vars  \* mutant: the model is awaited without a timeout
SlmFails(r) ==
    /\ req[r].pc = "asking"
    /\ Done(r, Deterministic(req[r]))
    /\ UNCHANGED <<stored, puts>>

(* The response is read: an unusable one leaves the deterministic answer; a  *)
(* proposal is adopted when it passes the policy the request was loaded with.*)
AdoptAlways(q, proposal) == Remediated(proposal, Deterministic(q).residual, TRUE)  \* mutant
Adopt(q, proposal) ==
    IF Verdict(proposal, q.policy).safe
    THEN Remediated(proposal, Deterministic(q).residual, TRUE)
    ELSE Deterministic(q)
SlmProposes(r) ==
    /\ req[r].pc = "reading"
    /\ \/ Done(r, Deterministic(req[r]))
       \/ \E proposal \in Proposals : Done(r, Adopt(req[r], proposal))
    /\ UNCHANGED <<stored, puts>>

(* handle_policy_set, handle_policy_delete: a pack is stored only if it      *)
(* loads; one that a server of another version stored need not load here.    *)
Replace(t, pack) ==
    /\ puts < MaxPuts /\ puts' = puts + 1
    /\ pack # stored[t] /\ stored' = [stored EXCEPT ![t] = pack]
    /\ req' = [r \in Requests |->
                 IF TenantOf[r] = t /\ req[r].pc \notin {"idle", "done"}
                 THEN [req[r] EXCEPT !.seen = @ \cup {pack}] ELSE req[r]]
ChangePack(h) ==
    LET who == Authenticate(Server, h) IN
    MayChange(who) /\ \E pack \in Packs \cup {NoPack} : Replace(who.tenant, pack)
StoreElsewhere(t) == Replace(t, Broken)

Step(r) == LoadPolicyFor(r) \/ Judge(r) \/ RemediateNow(r) \/ SlmFails(r) \/ SlmProposes(r)
Next ==
    \/ \E r \in Requests : Arrive(r) \/ StoreFails(r) \/ SlmResponds(r) \/ Step(r)
    \/ \E h \in Changers : ChangePack(h)
    \/ \E t \in Tenants : StoreElsewhere(t)

(* The server's tasks keep running, the timeout fires, and a response that   *)
(* has begun ends.                                                           *)
Spec == Init /\ [][Next]_vars /\ \A r \in Requests : WF_vars(Step(r))

-----------------------------------------------------------------------------
IsDone(r, outcome) == req[r].pc = "done" /\ req[r].answer.outcome = outcome

(* A text that /execute lets through was safe under a policy that was in     *)
(* force for its sender's tenant while the request was handled: never under  *)
(* a weaker one because the tenant's pack could not be read, and never under *)
(* another tenant's, whatever headers came with it (guardrail.rs             *)
(* load_policy_for, gate_for; main.rs optional_bearer_auth).                 *)
AdmittedByItsPack ==
    \A r \in Requests : IsDone(r, "allowed") =>
        \E pack \in req[r].seen :
            LET policy == IF pack = NoPack THEN Global ELSE pack IN policy \in Packs /\ Verdict(req[r].code, policy).safe

(* What was answered as verified remediated code is let through by /execute  *)
(* when it is judged under the policy it was verified with (main.rs          *)
(* handle_remediate, guardrail.rs remediate_with_slm).                       *)
VerifiedIsAllowed ==
    \A r, e \in Requests :
        /\ IsDone(r, "remediated") /\ req[r].answer.verified
        /\ req[e].pc = "done" /\ KindOf[e] = "gate"
        /\ req[e].code = req[r].answer.code /\ req[e].policy = req[r].policy
        => req[e].answer = Allowed

(* Every request is answered, whatever the model does (slm.rs: a timeout or  *)
(* failure falls back to the deterministic answer).                          *)
Answered == \A r \in Requests : req[r].pc = "arrived" ~> req[r].pc = "done"
=============================================================================
