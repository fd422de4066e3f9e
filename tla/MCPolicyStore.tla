--------------------------- MODULE MCPolicyStore ---------------------------
(***************************************************************************)
(* Instances of PolicyStore for TLC.                                       *)
(***************************************************************************)
EXTENDS PolicyStore

CONSTANTS a, b

MCTenants == {a, b}

\* Two rows of each history are kept, and one more change than that is made of
\* the packs and of the retention windows.
MCHistoryMax == [policy |-> 2, policyTtl |-> 2, dpWindow |-> 2]
MCMaxChanges == [policy |-> 3, policyTtl |-> 3, dpWindow |-> 1]

\* Tenant a changes everything, b its packs.  A client lists a's packs.
MCChanged == {<<"policy", a>>, <<"policy", b>>, <<"policyTtl", a>>, <<"dpWindow", a>>}
MCListed == {<<"policy", a>>}
=============================================================================
