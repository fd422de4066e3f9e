---------------------------- MODULE PolicyStore ----------------------------
(***************************************************************************)
(* Tenant settings with change histories (xazz-server/src/store.rs): the   *)
(* policy pack, the retention window of its history, and the DP window.    *)
(* Each kind of setting has a table of current values and a table of       *)
(* changes, trimmed by the change itself and by a periodic sweep, and      *)
(* listed page by page.  Server instances share the tables.                *)
(*                                                                         *)
(* A change or a sweep is one SQLite transaction, hence one step here; one *)
(* that fails is rolled back and is no step at all.  Its clock, however,   *)
(* is read before its first statement takes a lock (the transaction is     *)
(* begun lazily), so its time stamp may be older than what other instances *)
(* have committed meanwhile: by up to StampLag seconds.                    *)
(***************************************************************************)
EXTENDS Integers, FiniteSetsExt, SequencesExt

CONSTANTS
  Tenants,    \* tenants of the store
  Packs,      \* policy packs
  Ttls,       \* retention windows a tenant may choose, 0 for no expiry
  Windows,    \* DP windows a tenant may choose
  None,       \* no stored value
  GlobalTtl,  \* history_ttl_secs, 0 for no expiry
  HistoryMax, \* the row limit of each history
  Changed,    \* the settings that clients change, as <<kind, tenant>>
  Listed,     \* the histories that they list, as <<kind, tenant>>
  PageSize,   \* rows of a page
  StampLag,   \* seconds a transaction may take to its first lock
  MaxTime,    \* bound: the last second
  MaxChanges  \* bound: recorded changes of each kind

Kinds == {"policy", "policyTtl", "dpWindow"}

\* The values of each kind of setting.
Settings == [policy |-> Packs, policyTtl |-> Ttls, dpWindow |-> Windows]

ASSUME PolicyStoreAssumption ==
  /\ Ttls \subseteq Nat /\ GlobalTtl \in Nat
  /\ HistoryMax \in [Kinds -> Nat \ {0}]
  /\ Changed \cup Listed \subseteq Kinds \X Tenants
  /\ PageSize \in Nat \ {0}
  /\ StampLag \in Nat /\ MaxTime \in Nat
  /\ MaxChanges \in [Kinds -> Nat]
  /\ None \notin Packs \cup Ttls \cup Windows

VARIABLES
  now,     \* now_epoch()
  setting, \* tenant_policies, tenant_policy_history_config, tenant_dp_config
  rows,    \* the history table of each kind
  lastId,  \* AUTOINCREMENT: the largest id a history table ever gave
  walk,    \* a client that follows next_cursor through one history
  owed     \* ids of the rows that were listable ever since its first page

vars == <<now, setting, rows, lastId, walk, owed>>

-----------------------------------------------------------------------------

NoWalk == [stage |-> "idle"]

\* The tables of the store ...
StoreOK ==
  /\ now \in 0..MaxTime
  /\ DOMAIN setting = Kinds /\ DOMAIN rows = Kinds /\ DOMAIN lastId = Kinds
  /\ \A k \in Kinds :
       /\ setting[k] \in [Tenants -> Settings[k] \cup {None}]
       /\ lastId[k] \in Nat
       /\ \A r \in rows[k] : /\ r.id \in 1..lastId[k]
                             /\ r.tenant \in Tenants
                             /\ {r.old, r.new} \subseteq Settings[k] \cup {None}
                             /\ {r.old, r.new} # {None}
                             /\ r.at \in 0..now

\* ... and the client's place in its walk.
TypeOK ==
  /\ StoreOK
  /\ walk.stage \in {"idle", "reading", "between"}
  /\ owed \subseteq Nat

Init ==
  /\ now = 0
  /\ setting = [k \in Kinds |-> [t \in Tenants |-> None]]
  /\ rows = [k \in Kinds |-> {}]
  /\ lastId = [k \in Kinds |-> 0]
  /\ walk = NoWalk
  /\ owed = {}

-----------------------------------------------------------------------------
(* Retention. *)

\* effective_history_ttl: the tenant's own window, else the global one.
EffectiveTtl(t) ==
  IF setting["policyTtl"][t] = None THEN GlobalTtl ELSE setting["policyTtl"][t]

\* history_cutoff: the oldest second that is still retained.
Cutoff(ttl, time) == IF ttl > 0 THEN time - ttl ELSE 0

\* Only the history of the packs expires: the others are trimmed by count.
Expired(k, r, ttl, time) == k = "policy" /\ r.at < Cutoff(ttl, time)

\* Slip: ORDER BY id ASC.
AmongOldest(k, table, r) ==
  Cardinality({q \in table : q.tenant = r.tenant /\ q.id < r.id}) < HistoryMax[k]

\* ORDER BY id DESC LIMIT max, of one tenant.
AmongNewest(k, table, r) ==
  Cardinality({q \in table : q.tenant = r.tenant /\ q.id > r.id}) < HistoryMax[k]

\* Slip: the window is the global one, whatever the tenant has chosen.
PruneByGlobal(k, t, table, time) ==
  LET live == {r \in table : r.tenant = t => ~ Expired(k, r, GlobalTtl, time)}
  IN  {r \in live : r.tenant = t => AmongNewest(k, live, r)}

\* prune_policy_history, prune_policy_history_ttl_history and
\* prune_dp_window_history: first what has expired, then what exceeds the limit.
Prune(k, t, table, time) ==
  LET live == {r \in table : r.tenant = t => ~ Expired(k, r, EffectiveTtl(t), time)}
  IN  {r \in live : r.tenant = t => AmongNewest(k, live, r)}

\* What the read filter shows of a tenant's history.
Shown(k, t, ttl, time) == {r \in rows[k] : r.tenant = t /\ ~ Expired(k, r, ttl, time)}

\* The rows of the walk's list that no retention window excludes, neither the
\* one in force nor the one the page being read has got.
Listable ==
  LET inForce == Shown(walk.kind, walk.tenant, EffectiveTtl(walk.tenant), now)
  IN  {r.id : r \in IF walk.stage = "reading"
                    THEN inForce \cap Shown(walk.kind, walk.tenant, walk.ttl, now)
                    ELSE inForce}

\* History variable: what has been listable at every moment of the walk.
KeepOwed ==
  owed' = IF walk'.stage = "idle" THEN {}
          ELSE IF walk.stage = "idle" THEN Listable' ELSE owed \cap Listable'

-----------------------------------------------------------------------------
(* Changes and sweeps, by any instance. *)

Stamps == {at \in 0..now : now - at <= StampLag}

\* Slip: without AUTOINCREMENT, SQLite gives the largest id in the table plus one.
MaxRowId(k) == 1 + Max({r.id : r \in rows[k]} \cup {0})

NextId(k) == lastId[k] + 1

\* Slip: a DELETE is recorded whether or not there was something to delete.
EveryCall(k, t, value) == TRUE

\* A DELETE that removes nothing records nothing.
IsChange(k, t, value) == value # None \/ setting[k][t] # None

\* changed_at is kept of the policy history alone: nothing here reads the others'.
NewRow(k, t, value, at) ==
  [id |-> NextId(k), tenant |-> t, old |-> setting[k][t], new |-> value,
   at |-> IF k = "policy" THEN at ELSE 0]

\* The row goes in, and the tenant's history is trimmed.  (A change of the
\* window does not trim the history it governs.)
Amended(k, t, value, at) == Prune(k, t, rows[k] \cup {NewRow(k, t, value, at)}, at)

\* set_tenant_policy and delete_tenant_policy, set_policy_history_ttl and
\* clear_policy_history_ttl, set_dp_window and clear_dp_window: PUT of a value,
\* DELETE of it (None).
Change(k, t, value, at) ==
  /\ lastId[k] < MaxChanges[k]
  /\ IsChange(k, t, value)
  /\ rows' = [rows EXCEPT ![k] = Amended(k, t, value, at)]
  /\ lastId' = [lastId EXCEPT ![k] = NextId(k)]
  /\ setting' = [setting EXCEPT ![k][t] = value]
  /\ UNCHANGED <<now, walk>> /\ KeepOwed

\* Slip: only tenants that have a pack are swept.
HasPack(t) == setting["policy"][t] # None

\* The sweep finds its tenants in the history tables themselves.
IsSwept(t) == \E k \in Kinds : \E r \in rows[k] : r.tenant = t

\* sweep_expired_policy_history: every tenant's three histories at once.
Sweep(at) ==
  /\ rows' = [k \in Kinds |->
                {r \in rows[k] : IsSwept(r.tenant) => r \in Prune(k, r.tenant, rows[k], at)}]
  /\ UNCHANGED <<now, setting, lastId, walk>> /\ KeepOwed

-----------------------------------------------------------------------------
(* A client lists a history by id cursor. *)

\* The retention window of the list is read first, by a statement of its own.
StartWalk(k, t) ==
  /\ walk.stage = "idle"
  /\ walk' = [stage |-> "reading", kind |-> k, tenant |-> t, ttl |-> EffectiveTtl(t),
              cursor |-> 0, seen |-> <<>>]
  /\ UNCHANGED <<now, setting, rows, lastId>> /\ KeepOwed

NextPage ==
  /\ walk.stage = "between"
  /\ walk' = [walk EXCEPT !.stage = "reading", !.ttl = EffectiveTtl(walk.tenant)]
  /\ UNCHANGED <<now, setting, rows, lastId>> /\ KeepOwed

\* Slip: the client's place is an offset, which moves as rows come and go.
PageByOffset(table) ==
  {r \in table : Cardinality({q \in table : q.id > r.id}) \in
                   Len(walk.seen) .. Len(walk.seen) + PageSize - 1}

\* id < cursor, newest first, at most a page of them.
Page(table) ==
  LET older == {r \in table : walk.cursor > 0 => r.id < walk.cursor}
  IN  {r \in older : Cardinality({q \in older : q.id > r.id}) < PageSize}

\* ORDER BY id DESC: the n-th row has n - 1 newer ones before it.
NewestFirst(page) ==
  [n \in 1..Cardinality(page) |->
     (CHOOSE r \in page : Cardinality({q \in page : q.id > r.id}) = n - 1).id]

\* The page itself; next_cursor is its last id.  An empty page ends the walk.
ListPage ==
  /\ walk.stage = "reading"
  /\ LET page == Page(Shown(walk.kind, walk.tenant, walk.ttl, now))
     IN  walk' = IF page = {} THEN NoWalk
                 ELSE [walk EXCEPT !.stage = "between", !.cursor = Min({r.id : r \in page}),
                                   !.seen = @ \o NewestFirst(page)]
  /\ UNCHANGED <<now, setting, rows, lastId>> /\ KeepOwed

Tick ==
  /\ now < MaxTime
  /\ now' = now + 1
  /\ UNCHANGED <<setting, rows, lastId, walk>> /\ KeepOwed

-----------------------------------------------------------------------------

Next ==
  \/ \E c \in Changed, at \in Stamps :
       \E value \in Settings[c[1]] \cup {None} : Change(c[1], c[2], value, at)
  \/ \E at \in Stamps : Sweep(at)
  \/ \E l \in Listed : StartWalk(l[1], l[2])
  \/ NextPage \/ ListPage
  \/ Tick

Spec == Init /\ [][Next]_vars

\* Sweeps are taken again and again, and do not fail, or lag, for ever.
LiveSpec == Spec /\ WF_vars(Sweep(now))

-----------------------------------------------------------------------------
(* Properties. *)

\* The histories of the two overrides, which "must not expire the audit trail
\* of who set them", are the newest changes without a gap, up to the value in
\* force; one that is below its limit goes back to the first change.
Newest(own) == CHOOSE r \in own : \A q \in own : q.id <= r.id

OverrideTrails ==
  \A k \in {"policyTtl", "dpWindow"}, t \in Tenants :
    LET own == {r \in rows[k] : r.tenant = t}
    IN  /\ Cardinality(own) <= HistoryMax[k]
        /\ setting[k][t] = IF own = {} THEN None ELSE Newest(own).new
        /\ \A r \in own :
             LET older == {q \in own : q.id < r.id}
             IN  IF older # {} THEN r.old = Newest(older).new
                 ELSE Cardinality(own) < HistoryMax[k] => r.old = None

\* A row that the history endpoint would show goes only when the tenant has as
\* many newer ones as the limit allows: no sweep or change of any instance
\* takes a row under a window that is not in force, nor another tenant's.
ShownRowsStay ==
  [][\A k \in Kinds, t \in Tenants :
       \A r \in Shown(k, t, EffectiveTtl(t), now) :
         r \notin rows'[k] =>
           Cardinality({q \in rows'[k] : q.tenant = t /\ q.id > r.id}) = HistoryMax[k]]_vars

\* A client that follows next_cursor to the end has got, newest first and none
\* twice, every row that was listable throughout, whatever was set, pruned and
\* swept between its pages and by whichever instance.
CursorWalkComplete ==
  [][walk.stage = "reading" /\ walk'.stage = "idle" =>
       /\ \A m, n \in DOMAIN walk.seen : m < n => walk.seen[m] > walk.seen[n]
       /\ owed \subseteq ToSet(walk.seen)]_vars

\* Each history is a change trail: a change commits with its row, which has
\* the value it replaced and an id of its own, and rows are never altered.
Links(k) == {[id |-> r.id, tenant |-> r.tenant, old |-> r.old, new |-> r.new] : r \in rows[k]}

PolicyTrail == INSTANCE ChangeTrail WITH
  Settings <- Packs, current <- setting["policy"], count <- lastId["policy"],
  trail <- Links("policy")
TtlTrail == INSTANCE ChangeTrail WITH
  Settings <- Ttls, current <- setting["policyTtl"], count <- lastId["policyTtl"],
  trail <- Links("policyTtl")
WindowTrail == INSTANCE ChangeTrail WITH
  Settings <- Windows, current <- setting["dpWindow"], count <- lastId["dpWindow"],
  trail <- Links("dpWindow")

ImplementsTrails == PolicyTrail!Spec /\ TtlTrail!Spec /\ WindowTrail!Spec

\* Expired rows do not stay on disk, even those of a tenant that changes
\* nothing any more: again and again there is none.
ExpiredAreSwept ==
  []<>(\A r \in rows["policy"] : ~ Expired("policy", r, EffectiveTtl(r.tenant), now))
=============================================================================
