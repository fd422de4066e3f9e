----------------------------- MODULE AuditTrail -----------------------------
(***************************************************************************)
(* What the audit log promises: one hash chain, which every append extends *)
(* by one record, and of which a power failure can take only records that  *)
(* no append has confirmed.  AuditLog is shown to implement this module.   *)
(***************************************************************************)
EXTENDS Naturals, Sequences

CONSTANTS
  Payloads,         \* what is recorded: code hash, outcome, call evidence
  Digest(_, _, _),  \* record_hash: of an index, a payload and the previous hash
  Genesis           \* prev_hash of the first record

VARIABLES
  trail,      \* the records
  confirmed   \* how many of them no failure can take

NextRecord(log, payload) ==
  [index |-> Len(log),
   payload |-> payload,
   prev |-> IF log = <<>> THEN Genesis
            ELSE Digest(Len(log) - 1, log[Len(log)].payload, log[Len(log)].prev)]

\* records_form_valid_chain, and the index is the position.
ValidChain(log) ==
  \A i \in DOMAIN log :
    log[i] = NextRecord(SubSeq(log, 1, i - 1), log[i].payload)

Init == trail = <<>> /\ confirmed = 0

Extend(payload) ==
  /\ trail' = Append(trail, NextRecord(trail, payload))
  /\ UNCHANGED confirmed

Confirm == confirmed' = Len(trail) /\ UNCHANGED trail

Lose ==
  /\ \E n \in confirmed..Len(trail) : trail' = SubSeq(trail, 1, n)
  /\ UNCHANGED confirmed

Next == (\E p \in Payloads : Extend(p)) \/ Confirm \/ Lose

Spec == Init /\ [][Next]_<<trail, confirmed>>
=============================================================================
