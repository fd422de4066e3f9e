---------------------------- MODULE MCAuditLog ----------------------------
(***************************************************************************)
(* Instances of AuditLog for TLC.                                          *)
(***************************************************************************)
EXTENDS AuditLog

CONSTANTS w1, w2, w3, p1, p2, q1

\* Two threads of one process, one of another.
MCThreads == {w1, w2, w3}
MCProcesses == {p1, p2}
MCProcessOf == [w \in MCThreads |-> IF w = w3 THEN p2 ELSE p1]

\* The threads that share a process append in turn; one of each process does so twice.
MCMaxAppends == [w \in MCThreads |-> IF w = w2 THEN 1 ELSE 2]
MCOnce == [w \in MCThreads |-> 1]

\* A digest that has no collisions: its arguments.
MCDigest(index, payload, prev) == <<index, payload, prev>>
=============================================================================
