----------------------------- MODULE MCExecute -----------------------------
(***************************************************************************)
(* Instances of Execute for TLC.                                           *)
(***************************************************************************)
EXTENDS Execute

CONSTANTS r1, r2, r3, a, b

\* Three requests of tenant a, or two of a and one of b.
MCRequests == {r1, r2, r3}
MCTenants == {a, b}
MCOneTenantSet == {a}
MCOneTenant == [r \in MCRequests |-> a]
MCTwoTenants == [r \in MCRequests |-> IF r = r3 THEN b ELSE a]

\* Requests of one tenant are interchangeable (safety runs only).
MCSymmetry == Permutations(MCRequests)
=============================================================================
