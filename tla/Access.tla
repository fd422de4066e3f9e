------------------------------- MODULE Access -------------------------------
(* xazz-server: who a request is served as (optional_bearer_auth), and who   *)
(* may change a tenant's policy (policy_change_actor).                       *)
(*                                                                           *)
(* A server is configured by its tokens: server.token (XAZZ_SERVER_TOKEN, or *)
(* Absent), server.tenants (XAZZ_TENANT_TOKENS, tenant -> token),            *)
(* server.admins (XAZZ_ADMIN_TOKEN, a set) and server.actors                 *)
(* (XAZZ_ADMIN_ACTORS, token -> actor).  A request carries the headers       *)
(* bearer, tenant and actor, each of them a value or Absent.                 *)
EXTENDS TLC

CONSTANTS Absent, Self, Admin   \* Self: no administrator; Admin: the actor of an unnamed one

Served(tenant, actor) == [ok |-> TRUE, tenant |-> tenant, actor |-> actor]
Unauthorized == [ok |-> FALSE]

NoAuth(server) ==
    server.token = Absent /\ server.tenants = <<>> /\ server.admins = {} /\ server.actors = <<>>
IsAdmin(server, h) == h.bearer \in server.admins \cup DOMAIN server.actors
(* A token bound to an actor speaks for that actor alone.                    *)
ActorFor(server, h) ==
    IF h.bearer \in DOMAIN server.actors THEN server.actors[h.bearer]
    ELSE IF h.actor = Absent THEN Admin ELSE h.actor

AnyTenant(server, h) ==  \* mutant: the token is not that of the tenant
    \E t \in DOMAIN server.tenants : h.bearer = server.tenants[t]
TenantToken(server, h) ==
    h.tenant \in DOMAIN server.tenants /\ h.bearer = server.tenants[h.tenant]

Authenticate(server, h) ==
    IF NoAuth(server) THEN Served(Absent, Self)
    ELSE IF IsAdmin(server, h) THEN Served(h.tenant, ActorFor(server, h))
    ELSE IF server.tenants # <<>>
    THEN IF TenantToken(server, h) THEN Served(h.tenant, Self) ELSE Unauthorized
    ELSE IF h.bearer # Absent /\ h.bearer = server.token THEN Served(Absent, Self) ELSE Unauthorized

(* An administrator has to name the tenant; anybody else is served as one.   *)
MayChange(who) == who.ok /\ (who.actor = Self \/ who.tenant # Absent)
=============================================================================
