----------------------------- MODULE GatewayHub -----------------------------
(***************************************************************************)
(* The connection registry of the WebSocket gateway (GatewayHub and the    *)
(* connection tasks of crates/frick-server/src/gateway.rs): upgrade,       *)
(* Hello, disconnect, the connection counts per principal and per tenant,  *)
(* and the tenant filter handed to the cluster bus.  Each connection is a  *)
(* task that handles its frames one after the other; the tasks run on      *)
(* several threads and meet in HubInner.  A step is one stretch under the  *)
(* HubInner lock, so every two acquisitions may have other tasks between   *)
(* them.  A cluster bus is attached before the first connection.           *)
(***************************************************************************)
EXTENDS Integers, FiniteSets

CONSTANTS
    Conns,            \* connection tasks
    Sessions,         \* authenticated principals: a device of a user
    Nobody,           \* no principal, no token
    Keys,             \* connection keys: tenant and user
    keyOf,            \* keyOf[s]: Principal::connection_key
    Tenants,
    tenantOf,         \* tenantOf[k]: the tenant of a key
    MaxConnections,   \* max_web_socket_connections
    MaxPerPrincipal,  \* max_connections_per_principal
    MaxHellos         \* bound: Hello frames ever sent

ASSUME ConnsAssumption == IsFiniteSet(Conns)
ASSUME NobodyAssumption == Nobody \notin Sessions
ASSUME KeyAssumption == keyOf \in [Sessions -> Keys] /\ tenantOf \in [Keys -> Tenants]
ASSUME LimitAssumption == /\ MaxConnections \in Nat /\ MaxPerPrincipal \in Nat
                          /\ MaxHellos \in Nat

VARIABLES
    conn,          \* conn[c]: the connection task and its locals
    perPrincipal,  \* per_principal; an absent key is 0
    tenantCount,   \* tenant_subscriber_counts; an absent tenant is 0
    filter,        \* the bus's subscribed_tenants
    hellos,        \* Hello frames so far
    refused        \* history: Hellos of k refused after their slot was reserved

vars == <<conn, perPrincipal, tenantCount, filter, hellos, refused>>

(* `live`: the connection is in the map, with `principal`.  `presented` is  *)
(* who the bearer or the Hello in progress authenticated, `snapshot` the    *)
(* tenants push_subscribed_tenants has read, `then` where it returns to.    *)
Out == [pc |-> "out", live |-> FALSE, principal |-> Nobody, presented |-> Nobody,
        snapshot |-> {}, then |-> "out"]

Task == [pc : {"out", "principalCap", "register", "open", "reserve", "checks", "count",
               "leave", "pushRead", "pushSet"},
         live : BOOLEAN, principal : Sessions \cup {Nobody},
         presented : Sessions \cup {Nobody}, snapshot : SUBSET Tenants,
         then : {"open", "out"}]

TypeOK ==
    /\ conn \in [Conns -> Task]
    /\ perPrincipal \in [Keys -> Nat]
    /\ tenantCount \in [Tenants -> Nat]
    /\ filter \in SUBSET Tenants
    /\ hellos \in 0..MaxHellos
    /\ refused \in [Keys -> Nat]

Init ==
    /\ conn = [c \in Conns |-> Out]
    /\ perPrincipal = [k \in Keys |-> 0]
    /\ tenantCount = [t \in Tenants |-> 0]
    /\ filter = {}
    /\ hellos = 0
    /\ refused = [k \in Keys |-> 0]

-----------------------------------------------------------------------------
(* Helpers.                                                                *)

Live == {c \in Conns : conn[c].live}
SubscribedTenants == {t \in Tenants : tenantCount[t] > 0}
TenantOfSession(s) == tenantOf[keyOf[s]]
AtCap(s) == perPrincipal[keyOf[s]] >= MaxPerPrincipal

Goes(c, pc) == conn' = [conn EXCEPT ![c].pc = pc]

(* Mutant of BumpTenantCount: a disconnect does not count. *)
BumpsUpOnly(s, delta) ==
    tenantCount' = [tenantCount EXCEPT ![TenantOfSession(s)] =
                      IF delta > 0 THEN @ + 1 ELSE @]

(* bump_tenant_count: a count that falls to zero is removed. *)
BumpTenantCount(s, delta) ==
    tenantCount' = [tenantCount EXCEPT ![TenantOfSession(s)] =
                      IF @ + delta <= 0 THEN 0 ELSE @ + delta]

(* ... and whether the tenant came or went. *)
Transitions(s, delta) ==
    (tenantCount[TenantOfSession(s)] = 0) # (tenantCount[TenantOfSession(s)] + delta <= 0)

(* release_principal_slot: saturating. *)
ReleaseSlot(s) ==
    perPrincipal' = [perPrincipal EXCEPT ![keyOf[s]] = IF @ > 0 THEN @ - 1 ELSE 0]

TakeSlot(s) == perPrincipal' = [perPrincipal EXCEPT ![keyOf[s]] = @ + 1]

-----------------------------------------------------------------------------
(* run_connection up to the registration.                                  *)

(* The bearer is authenticated, if there is one, and the global cap read.   *)
(* At the cap the socket is closed and nothing changes.                     *)
Upgrade(c, s) ==
    /\ conn[c].pc = "out"
    /\ Cardinality(Live) < MaxConnections
    /\ conn' = [conn EXCEPT ![c].pc = IF s = Nobody THEN "register" ELSE "principalCap",
                            ![c].presented = s]
    /\ UNCHANGED <<perPrincipal, tenantCount, filter, hellos, refused>>

(* The per-principal cap, under a lock of its own. *)
CheckPrincipalCap(c) ==
    /\ conn[c].pc = "principalCap"
    /\ conn' = [conn EXCEPT ![c] = IF AtCap(@.presented) THEN Out
                                   ELSE [@ EXCEPT !.pc = "register"]]
    /\ UNCHANGED <<perPrincipal, tenantCount, filter, hellos, refused>>

(* register: whatever was checked before, it counts and inserts. *)
Register(c) ==
    /\ conn[c].pc = "register"
    /\ LET s == conn[c].presented IN
       \/ /\ s = Nobody
          /\ conn' = [conn EXCEPT ![c] = [Out EXCEPT !.pc = "open", !.live = TRUE,
                                                     !.then = "open"]]
          /\ UNCHANGED <<perPrincipal, tenantCount>>
       \/ /\ s # Nobody
          /\ TakeSlot(s)
          /\ BumpTenantCount(s, 1)
          /\ conn' = [conn EXCEPT ![c] =
                        [Out EXCEPT !.pc = IF Transitions(s, 1) THEN "pushRead" ELSE "open",
                                    !.live = TRUE, !.principal = s, !.then = "open"]]
    /\ UNCHANGED <<filter, hellos, refused>>

-----------------------------------------------------------------------------
(* push_subscribed_tenants: the set is read under the lock and handed to    *)
(* the bus after it.                                                        *)

PushRead(c) ==
    /\ conn[c].pc = "pushRead"
    /\ conn' = [conn EXCEPT ![c].pc = "pushSet", ![c].snapshot = SubscribedTenants]
    /\ UNCHANGED <<perPrincipal, tenantCount, filter, hellos, refused>>

PushSet(c) ==
    /\ conn[c].pc = "pushSet"
    /\ filter' = conn[c].snapshot
    /\ conn' = [conn EXCEPT ![c] = IF @.then = "out" THEN Out
                                   ELSE [@ EXCEPT !.pc = "open", !.snapshot = {}]]
    /\ UNCHANGED <<perPrincipal, tenantCount, hellos, refused>>

-----------------------------------------------------------------------------
(* handle_hello.                                                           *)

(* The session token is looked up, across an await.  No token is fine, an   *)
(* invalid one or one of another principal closes the connection.           *)
Hello(c, s, valid) ==
    /\ conn[c].pc = "open"
    /\ hellos < MaxHellos
    /\ hellos' = hellos + 1
    /\ LET mismatch == conn[c].principal \notin {s, Nobody} IN
       conn' = [conn EXCEPT ![c].pc = IF s = Nobody THEN "checks"
                                      ELSE IF mismatch \/ ~valid THEN "leave"
                                      ELSE "reserve",
                            ![c].presented = IF mismatch \/ ~valid THEN Nobody ELSE s]
    /\ UNCHANGED <<perPrincipal, tenantCount, filter, refused>>

(* Does the connection already count for this key? *)
Counted(c) ==
    /\ conn[c].principal # Nobody
    /\ keyOf[conn[c].principal] = keyOf[conn[c].presented]

(* Mutant of ReserveHelloPrincipal: a repeated Hello counts again. *)
ReservesAgain(c) ==
    /\ conn[c].pc = "reserve"
    /\ \/ /\ AtCap(conn[c].presented)
          /\ conn' = [conn EXCEPT ![c].pc = "leave", ![c].presented = Nobody]
          /\ UNCHANGED perPrincipal
       \/ /\ ~AtCap(conn[c].presented)
          /\ TakeSlot(conn[c].presented)
          /\ Goes(c, "checks")
    /\ UNCHANGED <<tenantCount, filter, hellos, refused>>

(* reserve_hello_principal.  A connection with a principal of another key   *)
(* does not get here: its Hello was a mismatch.                             *)
ReserveHelloPrincipal(c) ==
    /\ conn[c].pc = "reserve"
    /\ \/ /\ Counted(c)
          /\ Goes(c, "checks")
          /\ UNCHANGED perPrincipal
       \/ /\ ~Counted(c) /\ AtCap(conn[c].presented)
          /\ conn' = [conn EXCEPT ![c].pc = "leave", ![c].presented = Nobody]
          /\ UNCHANGED perPrincipal
       \/ /\ ~Counted(c) /\ ~AtCap(conn[c].presented)
          /\ TakeSlot(conn[c].presented)
          /\ Goes(c, "checks")
    /\ UNCHANGED <<tenantCount, filter, hellos, refused>>

(* An unknown app, an incompatible schema or an unsupported capability: a   *)
(* Nack.  The connection stays open and the reserved slot stays taken.      *)
HelloRefused(c) ==
    /\ conn[c].pc = "checks"
    /\ refused' = IF conn[c].presented # Nobody /\ conn[c].principal = Nobody
                  THEN [refused EXCEPT ![keyOf[conn[c].presented]] = @ + 1] ELSE refused
    /\ conn' = [conn EXCEPT ![c].pc = "open", ![c].presented = Nobody]
    /\ UNCHANGED <<perPrincipal, tenantCount, filter, hellos>>

(* Success: the principal is set under one lock ... *)
HelloAccepted(c) ==
    /\ conn[c].pc = "checks"
    /\ \/ /\ conn[c].presented \in {Nobody, conn[c].principal}
          /\ conn' = [conn EXCEPT ![c].pc = "open", ![c].presented = Nobody]
       \/ /\ conn[c].presented \notin {Nobody, conn[c].principal}
          /\ conn' = [conn EXCEPT ![c].pc = "count", ![c].principal = conn[c].presented,
                                  ![c].presented = Nobody]
    /\ UNCHANGED <<perPrincipal, tenantCount, filter, hellos, refused>>

(* ... and the tenant counted under another (apply_tenant_transitions). *)
ApplyTenantTransitions(c) ==
    /\ conn[c].pc = "count"
    /\ BumpTenantCount(conn[c].principal, 1)
    /\ Goes(c, IF Transitions(conn[c].principal, 1) THEN "pushRead" ELSE "open")
    /\ UNCHANGED <<perPrincipal, filter, hellos, refused>>

-----------------------------------------------------------------------------
(* The inbound loop ends: the client went away, the heartbeat timed out, or *)
(* the server queued a close (close_session, a protocol violation).         *)
InboundEnds(c) ==
    /\ conn[c].pc = "open"
    /\ Goes(c, "leave")
    /\ UNCHANGED <<perPrincipal, tenantCount, filter, hellos, refused>>

(* unregister. *)
Unregister(c) ==
    /\ conn[c].pc = "leave"
    /\ LET s == conn[c].principal IN
       \/ /\ s = Nobody
          /\ conn' = [conn EXCEPT ![c] = Out]
          /\ UNCHANGED <<perPrincipal, tenantCount>>
       \/ /\ s # Nobody
          /\ ReleaseSlot(s)
          /\ BumpTenantCount(s, -1)
          /\ conn' = [conn EXCEPT ![c] =
                        [Out EXCEPT !.pc = IF Transitions(s, -1) THEN "pushRead" ELSE "out"]]
    /\ UNCHANGED <<filter, hellos, refused>>

-----------------------------------------------------------------------------

(* The steps a connection's task takes by itself. *)
TaskStep(c) == \/ CheckPrincipalCap(c) \/ Register(c) \/ PushRead(c) \/ PushSet(c)
               \/ ReserveHelloPrincipal(c) \/ HelloRefused(c) \/ HelloAccepted(c)
               \/ ApplyTenantTransitions(c) \/ Unregister(c)

Next == \E c \in Conns :
           \/ \E s \in Sessions \cup {Nobody} : Upgrade(c, s)
           \/ \E s \in Sessions \cup {Nobody}, valid \in BOOLEAN : Hello(c, s, valid)
           \/ InboundEnds(c)
           \/ TaskStep(c)

Spec == Init /\ [][Next]_vars

-----------------------------------------------------------------------------
(* Properties.                                                             *)

ConnectionsOf(k) ==
    {c \in Live : conn[c].principal # Nobody /\ keyOf[conn[c].principal] = k}
Reservations(k) ==
    {c \in Conns : /\ conn[c].pc = "checks" /\ conn[c].principal = Nobody
                   /\ conn[c].presented # Nobody /\ keyOf[conn[c].presented] = k}

(* per_principal counts the connections of a key, the Hellos under way, and *)
(* - since a Hello refused after its reservation gives nothing back - the   *)
(* Hellos refused so far; nothing else is ever counted or forgotten,        *)
(* whatever upgrades, Hellos and disconnects interleave between the locks.  *)
SlotsAccounted ==
    \A k \in Keys :
        perPrincipal[k] = Cardinality(ConnectionsOf(k)) + Cardinality(Reservations(k))
                          + refused[k]

(* tenant_subscriber_counts counts exactly the connections of a tenant,     *)
(* although a Hello sets the principal under one lock and counts under      *)
(* another: no disconnect takes away what was not yet counted.              *)
TenantsAccounted ==
    \A t \in Tenants :
        tenantCount[t] = Cardinality({c \in Live : /\ conn[c].principal # Nobody
                                                   /\ conn[c].pc # "count"
                                                   /\ TenantOfSession(conn[c].principal) = t})
=============================================================================
