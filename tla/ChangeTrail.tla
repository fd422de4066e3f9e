---------------------------- MODULE ChangeTrail ----------------------------
(***************************************************************************)
(* What a change history of the store promises, for one kind of tenant     *)
(* setting: every change leaves one row, which links the value before it   *)
(* to the value after it under an id that no other row ever has.  Rows may *)
(* be forgotten, by a change only those of the same tenant, and are never  *)
(* altered.  PolicyStore is shown to implement it three times.             *)
(***************************************************************************)
EXTENDS Naturals

CONSTANTS
  Tenants,  \* tenants of the store
  Settings, \* values of the setting
  None      \* no value: the global default applies

VARIABLES
  current, \* the setting of each tenant
  count,   \* changes so far, of all tenants
  trail    \* the rows that are left

Init ==
  /\ current = [t \in Tenants |-> None]
  /\ count = 0
  /\ trail = {}

Change(t, value) ==
  /\ current[t] # None \/ value # None
  /\ current' = [current EXCEPT ![t] = value]
  /\ count' = count + 1
  /\ \E gone \in SUBSET {r \in trail : r.tenant = t} :
       trail' = (trail \ gone)
                  \cup {[id |-> count', tenant |-> t, old |-> current[t], new |-> value]}

Forget ==
  /\ trail' \in SUBSET trail
  /\ UNCHANGED <<current, count>>

Next == (\E t \in Tenants, value \in Settings \cup {None} : Change(t, value)) \/ Forget

Spec == Init /\ [][Next]_<<current, count, trail>>
=============================================================================
