--------------------------- MODULE GatewayHubProofs ---------------------------
(***************************************************************************)
(* Proofs about GatewayHub, for any number of connections, principals,     *)
(* tenants and Hellos: the counts of HubInner are exact.                   *)
(*                                                                         *)
(* TaskShape says what a connection task's locals are at each lock it is   *)
(* waiting for.  Each step changes one task, and a count by the difference *)
(* between what that task holds after the step and what it held before;    *)
(* the lemmas about cardinalities turn that into a difference between the  *)
(* sizes of the sets the counts are compared with.                         *)
(***************************************************************************)
EXTENDS GatewayHub, TLAPS, FiniteSetTheorems

(* A task is in the map from register to unregister, `then` says the same   *)
(* for the two locks of push_subscribed_tenants; a Hello in progress is of  *)
(* the connection's own principal, if it has one.                           *)
TaskShape(t) ==
    /\ t.live <=> t.then = "open"
    /\ ~t.live => t.principal = Nobody
    /\ t.pc \in {"out", "principalCap", "register"} => ~t.live
    /\ t.pc \in {"open", "reserve", "checks", "count", "leave"} => t.live
    /\ t.pc \in {"principalCap", "reserve"} => t.presented # Nobody
    /\ t.pc = "count" => t.principal # Nobody
    /\ t.pc \in {"reserve", "checks"} => t.presented = Nobody \/ t.principal \in {Nobody, t.presented}

Shape == TypeOK /\ \A c \in Conns : TaskShape(conn[c])

(* What the count of a key holds for a task at p, with l, x and y its live, *)
(* principal and presented: its place in the map, or the slot its Hello has *)
(* reserved.                                                                *)
IsConnectionOf(l, x, k) == l /\ x # Nobody /\ keyOf[x] = k
IsReservation(p, x, y, k) == p = "checks" /\ x = Nobody /\ y # Nobody /\ keyOf[y] = k

(* What the count of a tenant holds for a task. *)
IsOfTenant(p, l, x, t) == l /\ x # Nobody /\ p # "count" /\ TenantOfSession(x) = t

One(b) == IF b THEN 1 ELSE 0

-----------------------------------------------------------------------------
(* Cardinalities.                                                           *)

(* Two sets of connections that differ in c only.                           *)
LEMMA OneApart ==
    ASSUME NEW S \in SUBSET Conns, NEW T \in SUBSET Conns, NEW c \in Conns,
           \A e \in Conns : e # c => (e \in S <=> e \in T)
    PROVE  /\ Cardinality(S) \in Nat /\ Cardinality(T) \in Nat
           /\ Cardinality(T) = Cardinality(S) + One(c \in T) - One(c \in S)
           /\ c \in S => Cardinality(S) > 0
<1>1. IsFiniteSet(S) /\ IsFiniteSet(T) BY ConnsAssumption, FS_Subset
<1>2. Cardinality(S) \in Nat /\ Cardinality(T) \in Nat BY <1>1, FS_CardinalityType
<1>3. Cardinality(T) = Cardinality(S) + One(c \in T) - One(c \in S)
  <2>1. CASE c \in S <=> c \in T
    <3>1. S = T BY <2>1
    <3>2. One(c \in S) \in Nat BY DEF One
    <3> QED BY <1>2, <3>1, <3>2
  <2>2. CASE c \in T /\ c \notin S
    <3>1. T = S \cup {c} BY <2>2
    <3>2. Cardinality(T) = Cardinality(S) + 1 BY <1>1, <2>2, <3>1, FS_AddElement
    <3> QED BY <1>2, <2>2, <3>2 DEF One
  <2>3. CASE c \in S /\ c \notin T
    <3>1. S = T \cup {c} BY <2>3
    <3>2. Cardinality(S) = Cardinality(T) + 1 BY <1>1, <2>3, <3>1, FS_AddElement
    <3> QED BY <1>2, <2>3, <3>2 DEF One
  <2> QED BY <2>1, <2>2, <2>3
<1>4. ASSUME c \in S PROVE Cardinality(S) # 0
  BY <1>1, <1>4, FS_EmptySet
<1> QED BY <1>2, <1>3, <1>4

-----------------------------------------------------------------------------
(* The step of a task.                                                      *)

(* Task c goes on with these locals, and no other task changes. *)
Turns(c, p, l, x, y) ==
    /\ conn' \in [Conns -> Task] /\ \A e \in Conns : e # c => conn'[e] = conn[e]
    /\ conn'[c].pc = p /\ conn'[c].live = l /\ conn'[c].principal = x /\ conn'[c].presented = y
    /\ conn'[c].then = "open" <=> l

(* The sizes of the sets a count is compared with move with the task.       *)
LEMMA SizesMove ==
    ASSUME Shape, NEW c \in Conns, NEW p, NEW l, NEW x, NEW y, Turns(c, p, l, x, y), NEW k
    PROVE  /\ Cardinality(ConnectionsOf(k)) \in Nat /\ Cardinality(Reservations(k)) \in Nat
           /\ Cardinality(ConnectionsOf(k))' = Cardinality(ConnectionsOf(k))
                 + One(IsConnectionOf(l, x, k)) - One(IsConnectionOf(conn[c].live, conn[c].principal, k))
           /\ Cardinality(Reservations(k))' = Cardinality(Reservations(k))
                 + One(IsReservation(p, x, y, k))
                 - One(IsReservation(conn[c].pc, conn[c].principal, conn[c].presented, k))
           /\ IsConnectionOf(conn[c].live, conn[c].principal, k) => Cardinality(ConnectionsOf(k)) > 0
<1>1. \A e \in Conns : e # c => conn'[e] = conn[e] BY DEF Turns
<1>2. ConnectionsOf(k) \in SUBSET Conns /\ ConnectionsOf(k)' \in SUBSET Conns
  BY DEF ConnectionsOf, Live
<1>3. Reservations(k) \in SUBSET Conns /\ Reservations(k)' \in SUBSET Conns
  BY DEF Reservations
<1>4. /\ Cardinality(ConnectionsOf(k)) \in Nat
      /\ Cardinality(ConnectionsOf(k)') = Cardinality(ConnectionsOf(k))
            + One(c \in ConnectionsOf(k)') - One(c \in ConnectionsOf(k))
      /\ c \in ConnectionsOf(k) => Cardinality(ConnectionsOf(k)) > 0
  <2>1. \A e \in Conns : e # c => (e \in ConnectionsOf(k) <=> e \in ConnectionsOf(k)')
    BY <1>1 DEF ConnectionsOf, Live
  <2> QED BY <1>2, <2>1, OneApart
<1>5. /\ Cardinality(Reservations(k)) \in Nat
      /\ Cardinality(Reservations(k)') = Cardinality(Reservations(k))
            + One(c \in Reservations(k)') - One(c \in Reservations(k))
  <2>1. \A e \in Conns : e # c => (e \in Reservations(k) <=> e \in Reservations(k)')
    BY <1>1 DEF Reservations
  <2> QED BY <1>3, <2>1, OneApart
<1>6. /\ c \in ConnectionsOf(k) <=> IsConnectionOf(conn[c].live, conn[c].principal, k)
      /\ c \in ConnectionsOf(k)' <=> IsConnectionOf(l, x, k)
  BY DEF ConnectionsOf, Live, IsConnectionOf, Turns
<1>7. /\ c \in Reservations(k) <=> IsReservation(conn[c].pc, conn[c].principal, conn[c].presented, k)
      /\ c \in Reservations(k)' <=> IsReservation(p, x, y, k)
  BY DEF Reservations, IsReservation, Turns
<1>8. /\ One(c \in ConnectionsOf(k)) = One(IsConnectionOf(conn[c].live, conn[c].principal, k))
      /\ One(c \in ConnectionsOf(k)') = One(IsConnectionOf(l, x, k))
      /\ One(c \in Reservations(k)) = One(IsReservation(conn[c].pc, conn[c].principal, conn[c].presented, k))
      /\ One(c \in Reservations(k)') = One(IsReservation(p, x, y, k))
  BY <1>6, <1>7 DEF One
<1> QED BY <1>4, <1>5, <1>6, <1>8

OfTenant(t) == {c \in Live : /\ conn[c].principal # Nobody
                             /\ conn[c].pc # "count"
                             /\ TenantOfSession(conn[c].principal) = t}

LEMMA TenantSizeMoves ==
    ASSUME Shape, NEW c \in Conns, NEW p, NEW l, NEW x, NEW y, Turns(c, p, l, x, y), NEW t
    PROVE  /\ Cardinality(OfTenant(t)) \in Nat
           /\ Cardinality(OfTenant(t))' = Cardinality(OfTenant(t))
                 + One(IsOfTenant(p, l, x, t)) - One(IsOfTenant(conn[c].pc, conn[c].live, conn[c].principal, t))
           /\ IsOfTenant(conn[c].pc, conn[c].live, conn[c].principal, t) => Cardinality(OfTenant(t)) > 0
<1>1. \A e \in Conns : e # c => conn'[e] = conn[e] BY DEF Turns
<1>2. OfTenant(t) \in SUBSET Conns /\ OfTenant(t)' \in SUBSET Conns BY DEF OfTenant, Live
<1>3. \A e \in Conns : e # c => (e \in OfTenant(t) <=> e \in OfTenant(t)')
  BY <1>1 DEF OfTenant, Live, TenantOfSession
<1>4. /\ Cardinality(OfTenant(t)) \in Nat
      /\ Cardinality(OfTenant(t)') = Cardinality(OfTenant(t)) + One(c \in OfTenant(t)') - One(c \in OfTenant(t))
      /\ c \in OfTenant(t) => Cardinality(OfTenant(t)) > 0
  BY <1>2, <1>3, OneApart
<1>5. /\ c \in OfTenant(t) <=> IsOfTenant(conn[c].pc, conn[c].live, conn[c].principal, t)
      /\ c \in OfTenant(t)' <=> IsOfTenant(p, l, x, t)
  BY DEF OfTenant, Live, IsOfTenant, Turns, TenantOfSession
<1>6. /\ One(c \in OfTenant(t)) = One(IsOfTenant(conn[c].pc, conn[c].live, conn[c].principal, t))
      /\ One(c \in OfTenant(t)') = One(IsOfTenant(p, l, x, t))
  BY <1>5 DEF One
<1> QED BY <1>4, <1>5, <1>6

-----------------------------------------------------------------------------
(* What each action makes of its task.                                      *)

(* The fields of a task.                                                    *)
LEMMA TaskFields ==
    ASSUME Shape, NEW c \in Conns
    PROVE  /\ conn[c].principal \in Sessions \cup {Nobody} /\ conn[c].presented \in Sessions \cup {Nobody}
           /\ conn[c].live \in BOOLEAN /\ (conn[c].then = "open" <=> conn[c].live) /\ conn[c] \in Task
           /\ TaskShape(conn[c])
BY DEF Shape, TypeOK, Task, TaskShape

(* The task is assigned as a whole. *)
LEMMA AssignTurns ==
    ASSUME Shape, NEW c \in Conns, NEW t \in Task, t.then = "open" <=> t.live, conn' = [conn EXCEPT ![c] = t]
    PROVE  Turns(c, t.pc, t.live, t.principal, t.presented)
BY DEF Shape, TypeOK, Turns

LEMMA OutFields ==
    /\ Out \in Task /\ Out.pc = "out" /\ Out.live = FALSE /\ Out.principal = Nobody
    /\ Out.presented = Nobody /\ Out.then = "out"
BY DEF Out, Task

Phases == {"out", "principalCap", "register", "open", "reserve", "checks", "count",
           "leave", "pushRead", "pushSet"}

(* The phase, and with it who is presented, changes; the rest stays. *)
LEMMA GoesTurns ==
    ASSUME Shape, NEW c \in Conns, NEW p \in Phases, Goes(c, p)
    PROVE  Turns(c, p, conn[c].live, conn[c].principal, conn[c].presented)
<1> DEFINE t == [conn[c] EXCEPT !.pc = p]
<1>1. conn[c] \in Task /\ (conn[c].then = "open" <=> conn[c].live) BY TaskFields
<1>2. /\ t \in Task /\ t.pc = p /\ t.live = conn[c].live /\ t.principal = conn[c].principal
      /\ t.presented = conn[c].presented /\ t.then = conn[c].then
  BY <1>1 DEF Task, Phases
<1>3. conn' = [conn EXCEPT ![c] = t] BY DEF Goes, Shape, TypeOK
<1> HIDE DEF t
<1> QED BY <1>1, <1>2, <1>3 DEF Turns, Shape, TypeOK

LEMMA PresentsTurns ==
    ASSUME Shape, NEW c \in Conns, NEW p \in Phases, NEW y \in Sessions \cup {Nobody},
           conn' = [conn EXCEPT ![c].pc = p, ![c].presented = y]
    PROVE  Turns(c, p, conn[c].live, conn[c].principal, y)
<1> DEFINE t == [conn[c] EXCEPT !.pc = p, !.presented = y]
<1>1. conn[c] \in Task /\ (conn[c].then = "open" <=> conn[c].live) BY TaskFields
<1>2. /\ t \in Task /\ t.pc = p /\ t.live = conn[c].live /\ t.principal = conn[c].principal
      /\ t.presented = y /\ t.then = conn[c].then
  BY <1>1 DEF Task, Phases
<1>3. conn' = [conn EXCEPT ![c] = t] BY DEF Shape, TypeOK
<1> HIDE DEF t
<1> QED BY <1>1, <1>2, <1>3 DEF Turns, Shape, TypeOK

LEMMA UpgradeTurns ==
    ASSUME Shape, NEW c \in Conns, NEW s \in Sessions \cup {Nobody}, Upgrade(c, s)
    PROVE  Turns(c, IF s = Nobody THEN "register" ELSE "principalCap", conn[c].live, conn[c].principal, s)
BY PresentsTurns DEF Upgrade, Phases

LEMMA CheckPrincipalCapTurns ==
    ASSUME Shape, NEW c \in Conns, CheckPrincipalCap(c)
    PROVE  \/ Turns(c, "register", conn[c].live, conn[c].principal, conn[c].presented)
           \/ Turns(c, "out", FALSE, Nobody, Nobody)
<1>1. CASE AtCap(conn[c].presented)
  <2>1. conn' = [conn EXCEPT ![c] = Out] BY <1>1 DEF CheckPrincipalCap, Shape, TypeOK
  <2> QED BY <2>1, OutFields, AssignTurns
<1>2. CASE ~AtCap(conn[c].presented)
  <2>1. Goes(c, "register") BY <1>2 DEF CheckPrincipalCap, Shape, TypeOK, Goes
  <2> QED BY <2>1, GoesTurns DEF Phases
<1> QED BY <1>1, <1>2

LEMMA RegisterTurns ==
    ASSUME Shape, NEW c \in Conns, Register(c)
    PROVE  LET s == conn[c].presented IN
           \/ /\ s = Nobody /\ Turns(c, "open", TRUE, Nobody, Nobody)
              /\ UNCHANGED <<perPrincipal, tenantCount>>
           \/ /\ s \in Sessions /\ TakeSlot(s) /\ BumpTenantCount(s, 1)
              /\ \E p \in {"pushRead", "open"} : Turns(c, p, TRUE, s, Nobody)
<1>1. conn[c].presented \in Sessions \cup {Nobody} BY TaskFields
<1>2. CASE conn[c].presented = Nobody
  <2> DEFINE t == [Out EXCEPT !.pc = "open", !.live = TRUE, !.then = "open"]
  <2>1. /\ t \in Task /\ t.pc = "open" /\ t.live = TRUE /\ t.principal = Nobody
        /\ t.presented = Nobody /\ t.then = "open"
    BY DEF Out, Task
  <2>2. conn' = [conn EXCEPT ![c] = t] /\ UNCHANGED <<perPrincipal, tenantCount>> BY <1>2 DEF Register
  <2> HIDE DEF t
  <2> QED BY <1>2, <2>1, <2>2, AssignTurns
<1>3. CASE conn[c].presented # Nobody
  <2> DEFINE p == IF Transitions(conn[c].presented, 1) THEN "pushRead" ELSE "open"
             t == [Out EXCEPT !.pc = p, !.live = TRUE, !.principal = conn[c].presented, !.then = "open"]
  <2>1. p \in {"pushRead", "open"} OBVIOUS
  <2>2. /\ TakeSlot(conn[c].presented) /\ BumpTenantCount(conn[c].presented, 1)
        /\ conn' = [conn EXCEPT ![c] = t]
    BY <1>3 DEF Register
  <2> HIDE DEF p
  <2>3. /\ t \in Task /\ t.pc = p /\ t.live = TRUE /\ t.principal = conn[c].presented
        /\ t.presented = Nobody /\ t.then = "open"
    BY <1>1, <2>1 DEF Out, Task
  <2> HIDE DEF t
  <2>4. Turns(c, p, TRUE, conn[c].presented, Nobody) BY <2>2, <2>3, AssignTurns
  <2> QED BY <1>1, <1>3, <2>1, <2>2, <2>4
<1> QED BY <1>2, <1>3

LEMMA PushTurns ==
    ASSUME Shape, NEW c \in Conns
    PROVE  /\ PushRead(c) => Turns(c, "pushSet", conn[c].live, conn[c].principal, conn[c].presented)
           /\ PushSet(c) => \/ /\ conn[c].live
                               /\ Turns(c, "open", conn[c].live, conn[c].principal, conn[c].presented)
                            \/ ~conn[c].live /\ Turns(c, "out", FALSE, Nobody, Nobody)
<1>1. conn[c] \in Task /\ (conn[c].then = "open" <=> conn[c].live) BY TaskFields
<1>2. ASSUME NEW p \in {"pushSet", "open"}, NEW z \in SUBSET Tenants,
             conn' = [conn EXCEPT ![c] = [conn[c] EXCEPT !.pc = p, !.snapshot = z]]
      PROVE  Turns(c, p, conn[c].live, conn[c].principal, conn[c].presented)
  <2> DEFINE t == [conn[c] EXCEPT !.pc = p, !.snapshot = z]
  <2>1. /\ t \in Task /\ t.pc = p /\ t.live = conn[c].live /\ t.principal = conn[c].principal
        /\ t.presented = conn[c].presented /\ t.then = conn[c].then
    BY <1>1 DEF Task
  <2>2. conn' = [conn EXCEPT ![c] = t] BY <1>2
  <2> HIDE DEF t
  <2> QED BY <1>1, <2>1, <2>2 DEF Turns, Shape, TypeOK
<1>3. ASSUME PushRead(c)
      PROVE  Turns(c, "pushSet", conn[c].live, conn[c].principal, conn[c].presented)
  <2>1. conn' = [conn EXCEPT ![c] = [conn[c] EXCEPT !.pc = "pushSet", !.snapshot = SubscribedTenants]]
    BY <1>3 DEF PushRead, Shape, TypeOK
  <2>2. SubscribedTenants \in SUBSET Tenants BY DEF SubscribedTenants
  <2> QED BY <1>2, <2>1, <2>2
<1>4. ASSUME PushSet(c)
      PROVE  \/ conn[c].live /\ Turns(c, "open", conn[c].live, conn[c].principal, conn[c].presented)
             \/ ~conn[c].live /\ Turns(c, "out", FALSE, Nobody, Nobody)
  <2>1. CASE conn[c].then = "out"
    <3>1. conn' = [conn EXCEPT ![c] = Out] BY <1>4, <2>1 DEF PushSet, Shape, TypeOK
    <3> QED BY <1>1, <2>1, <3>1, OutFields, AssignTurns
  <2>2. CASE conn[c].then # "out"
    <3>1. conn[c].then = "open" BY <1>1, <2>2 DEF Task
    <3>2. conn' = [conn EXCEPT ![c] = [conn[c] EXCEPT !.pc = "open", !.snapshot = {}]]
      BY <1>4, <2>2 DEF PushSet, Shape, TypeOK
    <3>3. {} \in SUBSET Tenants OBVIOUS
    <3> QED BY <1>1, <1>2, <3>1, <3>2, <3>3
  <2> QED BY <2>1, <2>2
<1> QED BY <1>3, <1>4

LEMMA HelloTurns ==
    ASSUME Shape, NEW c \in Conns, NEW s \in Sessions \cup {Nobody}, NEW valid \in BOOLEAN, Hello(c, s, valid)
    PROVE  \/ \E p \in {"checks", "leave"} : Turns(c, p, conn[c].live, conn[c].principal, Nobody)
           \/ /\ Turns(c, "reserve", conn[c].live, conn[c].principal, s)
              /\ s # Nobody /\ conn[c].principal \in {s, Nobody}
<1> DEFINE mismatch == conn[c].principal \notin {s, Nobody}
           p == IF s = Nobody THEN "checks" ELSE IF mismatch \/ ~valid THEN "leave" ELSE "reserve"
           y == IF mismatch \/ ~valid THEN Nobody ELSE s
<1>1. conn' = [conn EXCEPT ![c].pc = p, ![c].presented = y] BY DEF Hello
<1>2. /\ p \in Phases /\ y \in Sessions \cup {Nobody}
      /\ \/ p \in {"checks", "leave"} /\ y = Nobody
         \/ p = "reserve" /\ y = s /\ s # Nobody /\ conn[c].principal \in {s, Nobody}
  BY DEF Phases
<1> HIDE DEF p, y
<1>3. Turns(c, p, conn[c].live, conn[c].principal, y) BY <1>1, <1>2, PresentsTurns
<1> QED BY <1>2, <1>3

LEMMA ReserveTurns ==
    ASSUME Shape, NEW c \in Conns, ReserveHelloPrincipal(c)
    PROVE  \/ /\ Turns(c, "checks", conn[c].live, conn[c].principal, conn[c].presented)
              /\ \/ Counted(c) /\ perPrincipal' = perPrincipal
                 \/ ~Counted(c) /\ TakeSlot(conn[c].presented)
           \/ Turns(c, "leave", conn[c].live, conn[c].principal, Nobody) /\ perPrincipal' = perPrincipal
BY GoesTurns, PresentsTurns DEF ReserveHelloPrincipal, Phases

LEMMA HelloAcceptedTurns ==
    ASSUME Shape, NEW c \in Conns, HelloAccepted(c)
    PROVE  \/ /\ Turns(c, "open", conn[c].live, conn[c].principal, Nobody)
              /\ conn[c].presented \in {Nobody, conn[c].principal}
           \/ /\ Turns(c, "count", conn[c].live, conn[c].presented, Nobody)
              /\ conn[c].presented \notin {Nobody, conn[c].principal}
<1>1. CASE conn[c].presented \in {Nobody, conn[c].principal}
  BY <1>1, PresentsTurns DEF HelloAccepted, Phases
<1>2. CASE conn[c].presented \notin {Nobody, conn[c].principal}
  <2> DEFINE t == [conn[c] EXCEPT !.pc = "count", !.principal = conn[c].presented, !.presented = Nobody]
  <2>1. conn[c] \in Task /\ (conn[c].then = "open" <=> conn[c].live) BY TaskFields
  <2>2. /\ t \in Task /\ t.pc = "count" /\ t.live = conn[c].live /\ t.principal = conn[c].presented
        /\ t.presented = Nobody /\ t.then = conn[c].then
    BY <2>1 DEF Task
  <2>3. conn' = [conn EXCEPT ![c] = t] BY <1>2 DEF HelloAccepted, Shape, TypeOK
  <2> HIDE DEF t
  <2> QED BY <1>2, <2>1, <2>2, <2>3 DEF Turns, Shape, TypeOK
<1> QED BY <1>1, <1>2

LEMMA PlainTurns ==
    ASSUME Shape, NEW c \in Conns
    PROVE  /\ HelloRefused(c) => Turns(c, "open", conn[c].live, conn[c].principal, Nobody)
           /\ InboundEnds(c) => Turns(c, "leave", conn[c].live, conn[c].principal, conn[c].presented)
           /\ ApplyTenantTransitions(c) =>
                 \E p \in {"pushRead", "open"} : Turns(c, p, conn[c].live, conn[c].principal, conn[c].presented)
<1>1. HelloRefused(c) => Turns(c, "open", conn[c].live, conn[c].principal, Nobody)
  BY PresentsTurns DEF HelloRefused, Phases
<1>2. InboundEnds(c) => Turns(c, "leave", conn[c].live, conn[c].principal, conn[c].presented)
  BY GoesTurns DEF InboundEnds, Phases
<1>3. ASSUME ApplyTenantTransitions(c)
      PROVE  \E p \in {"pushRead", "open"} : Turns(c, p, conn[c].live, conn[c].principal, conn[c].presented)
  <2>1. PICK p \in {"pushRead", "open"} : Goes(c, p) BY <1>3 DEF ApplyTenantTransitions
  <2> QED BY <2>1, GoesTurns DEF Phases
<1> QED BY <1>1, <1>2, <1>3

LEMMA UnregisterTurns ==
    ASSUME Shape, NEW c \in Conns, Unregister(c)
    PROVE  \/ /\ conn[c].principal = Nobody /\ Turns(c, "out", FALSE, Nobody, Nobody)
              /\ UNCHANGED <<perPrincipal, tenantCount>>
           \/ /\ conn[c].principal \in Sessions
              /\ ReleaseSlot(conn[c].principal) /\ BumpTenantCount(conn[c].principal, -1)
              /\ \E p \in {"pushRead", "out"} : Turns(c, p, FALSE, Nobody, Nobody)
<1>1. conn[c].principal \in Sessions \cup {Nobody} BY TaskFields
<1>2. CASE conn[c].principal = Nobody
  <2>1. conn' = [conn EXCEPT ![c] = Out] /\ UNCHANGED <<perPrincipal, tenantCount>> BY <1>2 DEF Unregister
  <2> QED BY <1>2, <2>1, OutFields, AssignTurns
<1>3. CASE conn[c].principal # Nobody
  <2> DEFINE p == IF Transitions(conn[c].principal, -1) THEN "pushRead" ELSE "out"
             t == [Out EXCEPT !.pc = p]
  <2>1. p \in {"pushRead", "out"} OBVIOUS
  <2>2. /\ ReleaseSlot(conn[c].principal) /\ BumpTenantCount(conn[c].principal, -1)
        /\ conn' = [conn EXCEPT ![c] = t]
    BY <1>3 DEF Unregister
  <2> HIDE DEF p
  <2>3. /\ t \in Task /\ t.pc = p /\ t.live = FALSE /\ t.principal = Nobody
        /\ t.presented = Nobody /\ t.then = "out"
    BY <2>1 DEF Out, Task
  <2> HIDE DEF t
  <2>4. Turns(c, p, FALSE, Nobody, Nobody) BY <2>2, <2>3, AssignTurns
  <2> QED BY <1>1, <1>3, <2>1, <2>2, <2>4
<1> QED BY <1>2, <1>3

-----------------------------------------------------------------------------
(* Every step keeps Shape.                                                  *)

(* Locals that fit the phase. *)
SoundTurn(p, l, x, y) ==
    /\ ~l => x = Nobody
    /\ p \in {"out", "principalCap", "register"} => ~l
    /\ p \in {"open", "reserve", "checks", "count", "leave"} => l
    /\ p \in {"principalCap", "reserve"} => y # Nobody
    /\ p = "count" => x # Nobody
    /\ p \in {"reserve", "checks"} => y = Nobody \/ x \in {Nobody, y}

CountsTyped ==
    /\ perPrincipal \in [Keys -> Nat] /\ tenantCount \in [Tenants -> Nat] /\ filter \in SUBSET Tenants
    /\ hellos \in 0..MaxHellos /\ refused \in [Keys -> Nat]

LEMMA TurnKeepsShape ==
    ASSUME Shape, NEW c \in Conns, NEW p, NEW l, NEW x, NEW y, Turns(c, p, l, x, y), SoundTurn(p, l, x, y),
           CountsTyped'
    PROVE  Shape'
<1>1. TypeOK' BY DEF TypeOK, Turns, CountsTyped
<1>2. TaskShape(conn'[c]) BY DEF TaskShape, Turns, SoundTurn
<1>3. \A e \in Conns : e # c => TaskShape(conn'[e]) BY DEF Turns, Shape
<1> QED BY <1>1, <1>2, <1>3 DEF Shape

(* The counts stay numbers.                                                 *)
LEMMA CountTypes ==
    ASSUME Shape, NEW s \in Sessions
    PROVE  /\ keyOf[s] \in Keys /\ TenantOfSession(s) \in Tenants
           /\ TakeSlot(s) \/ ReleaseSlot(s) => perPrincipal' \in [Keys -> Nat]
           /\ BumpTenantCount(s, 1) \/ BumpTenantCount(s, -1) => tenantCount' \in [Tenants -> Nat]
<1>1. keyOf[s] \in Keys /\ TenantOfSession(s) \in Tenants BY KeyAssumption DEF TenantOfSession
<1>2. perPrincipal[keyOf[s]] \in Nat /\ tenantCount[TenantOfSession(s)] \in Nat BY <1>1 DEF Shape, TypeOK
<1>3. TakeSlot(s) \/ ReleaseSlot(s) => perPrincipal' \in [Keys -> Nat]
  BY <1>1, <1>2 DEF TakeSlot, ReleaseSlot, Shape, TypeOK
<1>4. BumpTenantCount(s, 1) \/ BumpTenantCount(s, -1) => tenantCount' \in [Tenants -> Nat]
  BY <1>1, <1>2 DEF BumpTenantCount, Shape, TypeOK
<1> QED BY <1>1, <1>3, <1>4

LEMMA StepCounts ==
    ASSUME Shape, NEW c \in Conns,
           \/ \E s \in Sessions \cup {Nobody} : Upgrade(c, s)
           \/ \E s \in Sessions \cup {Nobody}, valid \in BOOLEAN : Hello(c, s, valid)
           \/ InboundEnds(c) \/ TaskStep(c)
    PROVE  CountsTyped'
<1>0. /\ perPrincipal \in [Keys -> Nat] /\ tenantCount \in [Tenants -> Nat] /\ filter \in SUBSET Tenants
      /\ hellos \in 0..MaxHellos /\ refused \in [Keys -> Nat]
  BY DEF Shape, TypeOK
<1>f. TaskShape(conn[c]) /\ conn[c].principal \in Sessions \cup {Nobody} /\ conn[c].presented \in Sessions \cup {Nobody}
  BY TaskFields
<1> USE LimitAssumption
<1>1. CASE \E s \in Sessions \cup {Nobody} : Upgrade(c, s) BY <1>0, <1>1 DEF Upgrade, CountsTyped
<1>2. CASE \E s \in Sessions \cup {Nobody}, valid \in BOOLEAN : Hello(c, s, valid)
  <2>1. /\ UNCHANGED <<perPrincipal, tenantCount, filter, refused>>
        /\ hellos < MaxHellos /\ hellos' = hellos + 1
    BY <1>2 DEF Hello
  <2> QED BY <1>0, <2>1 DEF CountsTyped
<1>3. CASE InboundEnds(c) \/ CheckPrincipalCap(c) \/ PushRead(c) \/ HelloAccepted(c)
  BY <1>0, <1>3 DEF InboundEnds, CheckPrincipalCap, PushRead, HelloAccepted, CountsTyped
<1>4. CASE Register(c)
  <2>1. UNCHANGED <<filter, hellos, refused>> BY <1>4 DEF Register
  <2> QED BY <1>0, <1>4, <2>1, RegisterTurns, CountTypes DEF CountsTyped
<1>5. CASE PushSet(c)
  <2>1. conn[c].snapshot \in SUBSET Tenants BY DEF Shape, TypeOK, Task
  <2> QED BY <1>0, <1>5, <2>1 DEF PushSet, CountsTyped
<1>6. CASE ReserveHelloPrincipal(c)
  <2>1. UNCHANGED <<tenantCount, filter, hellos, refused>> /\ conn[c].presented \in Sessions
    BY <1>f, <1>6 DEF ReserveHelloPrincipal, TaskShape
  <2> QED BY <1>0, <1>6, <2>1, ReserveTurns, CountTypes DEF CountsTyped
<1>7. CASE HelloRefused(c)
  <2>1. UNCHANGED <<perPrincipal, tenantCount, filter, hellos>> BY <1>7 DEF HelloRefused
  <2>2. refused' \in [Keys -> Nat]
    <3>1. CASE conn[c].presented # Nobody /\ conn[c].principal = Nobody
      <4>1. keyOf[conn[c].presented] \in Keys BY <1>f, <3>1, KeyAssumption
      <4> QED BY <1>0, <1>7, <3>1, <4>1 DEF HelloRefused
    <3>2. CASE ~(conn[c].presented # Nobody /\ conn[c].principal = Nobody)
      BY <1>0, <1>7, <3>2 DEF HelloRefused
    <3> QED BY <3>1, <3>2
  <2> QED BY <1>0, <2>1, <2>2 DEF CountsTyped
<1>8. CASE ApplyTenantTransitions(c)
  <2>1. UNCHANGED <<perPrincipal, filter, hellos, refused>> /\ conn[c].principal \in Sessions
    BY <1>f, <1>8 DEF ApplyTenantTransitions, TaskShape
  <2>2. tenantCount' \in [Tenants -> Nat] BY <1>8, <2>1, CountTypes DEF ApplyTenantTransitions
  <2> QED BY <1>0, <2>1, <2>2 DEF CountsTyped
<1>9. CASE Unregister(c)
  <2>1. UNCHANGED <<filter, hellos, refused>> BY <1>9 DEF Unregister
  <2> QED BY <1>0, <1>9, <2>1, UnregisterTurns, CountTypes DEF CountsTyped
<1> QED BY <1>1, <1>2, <1>3, <1>4, <1>5, <1>6, <1>7, <1>8, <1>9 DEF TaskStep

LEMMA StepShape ==
    ASSUME Shape, NEW c \in Conns,
           \/ \E s \in Sessions \cup {Nobody} : Upgrade(c, s)
           \/ \E s \in Sessions \cup {Nobody}, valid \in BOOLEAN : Hello(c, s, valid)
           \/ InboundEnds(c) \/ TaskStep(c)
    PROVE  Shape'
<1>0. CountsTyped' BY StepCounts
<1>f. TaskShape(conn[c]) BY TaskFields
<1>t. ASSUME NEW p, NEW l, NEW x, NEW y, Turns(c, p, l, x, y), SoundTurn(p, l, x, y) PROVE Shape'
  BY <1>0, <1>t, TurnKeepsShape
<1>1. ASSUME NEW s \in Sessions \cup {Nobody}, Upgrade(c, s) PROVE Shape'
  <2>1. SoundTurn(IF s = Nobody THEN "register" ELSE "principalCap", conn[c].live, conn[c].principal, s)
    BY <1>f, <1>1 DEF Upgrade, TaskShape, SoundTurn
  <2> QED BY <1>t, <1>1, <2>1, UpgradeTurns
<1>2. ASSUME NEW s \in Sessions \cup {Nobody}, NEW valid \in BOOLEAN, Hello(c, s, valid) PROVE Shape'
  <2>1. conn[c].pc = "open" BY <1>2 DEF Hello
  <2>2. \A p \in {"checks", "leave"} : SoundTurn(p, conn[c].live, conn[c].principal, Nobody)
    BY <1>f, <2>1 DEF TaskShape, SoundTurn
  <2>3. s # Nobody /\ conn[c].principal \in {s, Nobody} =>
           SoundTurn("reserve", conn[c].live, conn[c].principal, s)
    BY <1>f, <2>1 DEF TaskShape, SoundTurn
  <2> QED BY <1>t, <1>2, <2>2, <2>3, HelloTurns
<1>3. CASE InboundEnds(c)
  <2>1. SoundTurn("leave", conn[c].live, conn[c].principal, conn[c].presented)
    BY <1>f, <1>3 DEF InboundEnds, TaskShape, SoundTurn
  <2> QED BY <1>t, <1>3, <2>1, PlainTurns
<1>4. CASE CheckPrincipalCap(c)
  <2>1. /\ SoundTurn("register", conn[c].live, conn[c].principal, conn[c].presented)
        /\ SoundTurn("out", FALSE, Nobody, Nobody)
    BY <1>f, <1>4 DEF CheckPrincipalCap, TaskShape, SoundTurn
  <2> QED BY <1>t, <1>4, <2>1, CheckPrincipalCapTurns
<1>5. CASE Register(c)
  <2>1. \A p \in {"pushRead", "open"}, s \in Sessions \cup {Nobody} : SoundTurn(p, TRUE, s, Nobody)
    BY DEF SoundTurn
  <2>2. \E p \in {"pushRead", "open"}, s \in Sessions \cup {Nobody} : Turns(c, p, TRUE, s, Nobody)
    BY <1>5, RegisterTurns
  <2> QED BY <1>t, <2>1, <2>2
<1>6. CASE PushRead(c)
  <2>1. SoundTurn("pushSet", conn[c].live, conn[c].principal, conn[c].presented)
    BY <1>f DEF TaskShape, SoundTurn
  <2> QED BY <1>t, <1>6, <2>1, PushTurns
<1>7. CASE PushSet(c)
  <2>1. /\ conn[c].live => SoundTurn("open", conn[c].live, conn[c].principal, conn[c].presented)
        /\ SoundTurn("out", FALSE, Nobody, Nobody)
    BY <1>f DEF TaskShape, SoundTurn
  <2> QED BY <1>t, <1>7, <2>1, PushTurns
<1>8. CASE ReserveHelloPrincipal(c)
  <2>1. /\ SoundTurn("checks", conn[c].live, conn[c].principal, conn[c].presented)
        /\ SoundTurn("leave", conn[c].live, conn[c].principal, Nobody)
    BY <1>f, <1>8 DEF ReserveHelloPrincipal, TaskShape, SoundTurn
  <2> QED BY <1>t, <1>8, <2>1, ReserveTurns
<1>9. CASE HelloRefused(c)
  <2>1. SoundTurn("open", conn[c].live, conn[c].principal, Nobody)
    BY <1>f, <1>9 DEF HelloRefused, TaskShape, SoundTurn
  <2> QED BY <1>t, <1>9, <2>1, PlainTurns
<1>10. CASE HelloAccepted(c)
  <2>1. /\ SoundTurn("open", conn[c].live, conn[c].principal, Nobody)
        /\ conn[c].presented # Nobody => SoundTurn("count", conn[c].live, conn[c].presented, Nobody)
    BY <1>f, <1>10 DEF HelloAccepted, TaskShape, SoundTurn
  <2> QED BY <1>t, <1>10, <2>1, HelloAcceptedTurns
<1>11. CASE ApplyTenantTransitions(c)
  <2>1. \A p \in {"pushRead", "open"} : SoundTurn(p, conn[c].live, conn[c].principal, conn[c].presented)
    BY <1>f, <1>11 DEF ApplyTenantTransitions, TaskShape, SoundTurn
  <2> QED BY <1>t, <1>11, <2>1, PlainTurns
<1>12. CASE Unregister(c)
  <2>1. \A p \in {"pushRead", "out"} : SoundTurn(p, FALSE, Nobody, Nobody) BY DEF SoundTurn
  <2>2. \E p \in {"pushRead", "out"} : Turns(c, p, FALSE, Nobody, Nobody) BY <1>12, UnregisterTurns
  <2> QED BY <1>t, <2>1, <2>2
<1> QED BY <1>1, <1>2, <1>3, <1>4, <1>5, <1>6, <1>7, <1>8, <1>9, <1>10, <1>11, <1>12 DEF TaskStep

LEMMA ShapeInvariant == Spec => []Shape
<1>1. Init => Shape
  <2> SUFFICES ASSUME Init PROVE Shape OBVIOUS
  <2>1. conn \in [Conns -> Task] /\ \A c \in Conns : TaskShape(conn[c]) BY OutFields DEF Init, TaskShape
  <2>2. perPrincipal \in [Keys -> Nat] /\ tenantCount \in [Tenants -> Nat] /\ refused \in [Keys -> Nat]
    BY DEF Init
  <2>3. filter \in SUBSET Tenants /\ hellos \in 0..MaxHellos BY LimitAssumption DEF Init
  <2> QED BY <2>1, <2>2, <2>3 DEF Shape, TypeOK
<1>2. Shape /\ [Next]_vars => Shape'
  <2> SUFFICES ASSUME Shape, [Next]_vars PROVE Shape' OBVIOUS
  <2>1. CASE UNCHANGED vars BY <2>1 DEF vars, Shape, TypeOK, TaskShape
  <2> QED BY <2>1, StepShape DEF Next
<1> QED BY <1>1, <1>2, PTL DEF Spec

-----------------------------------------------------------------------------
(* The count of a key.                                                      *)

(* The count, less the Hellos refused, moves as what the task holds does. *)
SlotStep(c, p, l, x, y) ==
    \A k \in Keys :
        perPrincipal'[k] - refused'[k] = perPrincipal[k] - refused[k]
            + One(IsConnectionOf(l, x, k)) - One(IsConnectionOf(conn[c].live, conn[c].principal, k))
            + One(IsReservation(p, x, y, k))
            - One(IsReservation(conn[c].pc, conn[c].principal, conn[c].presented, k))

LEMMA SlotsMove ==
    ASSUME Shape, SlotsAccounted, Shape', NEW c \in Conns, NEW p, NEW l, NEW x, NEW y, Turns(c, p, l, x, y),
           SlotStep(c, p, l, x, y)
    PROVE  SlotsAccounted'
<1> SUFFICES ASSUME NEW k \in Keys
             PROVE  perPrincipal'[k] = Cardinality(ConnectionsOf(k))' + Cardinality(Reservations(k))' + refused'[k]
  BY DEF SlotsAccounted
<1>1. perPrincipal'[k] \in Nat /\ refused'[k] \in Nat /\ perPrincipal[k] \in Nat /\ refused[k] \in Nat
  BY DEF Shape, TypeOK
<1>2. perPrincipal[k] = Cardinality(ConnectionsOf(k)) + Cardinality(Reservations(k)) + refused[k]
  BY DEF SlotsAccounted
<1>4. /\ One(IsConnectionOf(l, x, k)) \in Nat
      /\ One(IsConnectionOf(conn[c].live, conn[c].principal, k)) \in Nat
      /\ One(IsReservation(p, x, y, k)) \in Nat
      /\ One(IsReservation(conn[c].pc, conn[c].principal, conn[c].presented, k)) \in Nat
  BY DEF One
<1>5. /\ Cardinality(ConnectionsOf(k)) \in Nat /\ Cardinality(Reservations(k)) \in Nat
      /\ Cardinality(ConnectionsOf(k))' = Cardinality(ConnectionsOf(k))
            + One(IsConnectionOf(l, x, k)) - One(IsConnectionOf(conn[c].live, conn[c].principal, k))
      /\ Cardinality(Reservations(k))' = Cardinality(Reservations(k))
            + One(IsReservation(p, x, y, k))
            - One(IsReservation(conn[c].pc, conn[c].principal, conn[c].presented, k))
  BY SizesMove
<1>6. perPrincipal'[k] - refused'[k] = perPrincipal[k] - refused[k]
            + One(IsConnectionOf(l, x, k)) - One(IsConnectionOf(conn[c].live, conn[c].principal, k))
            + One(IsReservation(p, x, y, k))
            - One(IsReservation(conn[c].pc, conn[c].principal, conn[c].presented, k))
  BY DEF SlotStep
<1> QED BY <1>1, <1>2, <1>4, <1>5, <1>6

(* A step that leaves the count alone, and what the task holds with it.     *)
LEMMA SlotsKept ==
    ASSUME Shape, SlotsAccounted, Shape', NEW c \in Conns, NEW p, NEW l, NEW x, NEW y, Turns(c, p, l, x, y),
           UNCHANGED <<perPrincipal, refused>>,
           \A k \in Keys : /\ IsConnectionOf(l, x, k) <=> IsConnectionOf(conn[c].live, conn[c].principal, k)
                           /\ IsReservation(p, x, y, k) <=>
                                 IsReservation(conn[c].pc, conn[c].principal, conn[c].presented, k)
    PROVE  SlotsAccounted'
<1>1. ASSUME NEW k \in Keys PROVE SlotStep(c, p, l, x, y)!(k)
  <2>1. perPrincipal[k] \in Nat /\ refused[k] \in Nat BY DEF Shape, TypeOK
  <2> QED BY <2>1 DEF One
<1>2. SlotStep(c, p, l, x, y) BY <1>1 DEF SlotStep
<1> QED BY <1>2, SlotsMove

LEMMA StepSlots ==
    ASSUME Shape, SlotsAccounted, Shape', NEW c \in Conns,
           \/ \E s \in Sessions \cup {Nobody} : Upgrade(c, s)
           \/ \E s \in Sessions \cup {Nobody}, valid \in BOOLEAN : Hello(c, s, valid)
           \/ InboundEnds(c) \/ TaskStep(c)
    PROVE  SlotsAccounted'
<1>f. TaskShape(conn[c]) /\ conn[c].principal \in Sessions \cup {Nobody} /\ conn[c].presented \in Sessions \cup {Nobody}
  BY TaskFields
<1>n. \A k \in Keys : perPrincipal[k] \in Nat /\ refused[k] \in Nat BY DEF Shape, TypeOK
<1>1. ASSUME NEW s \in Sessions \cup {Nobody}, Upgrade(c, s) PROVE SlotsAccounted'
  <2>1. UNCHANGED <<perPrincipal, refused>> /\ conn[c].pc = "out" BY <1>1 DEF Upgrade
  <2>2. Turns(c, IF s = Nobody THEN "register" ELSE "principalCap", conn[c].live, conn[c].principal, s)
    BY <1>1, UpgradeTurns
  <2> QED BY <2>1, <2>2, SlotsKept DEF IsReservation
<1>2. ASSUME NEW s \in Sessions \cup {Nobody}, NEW valid \in BOOLEAN, Hello(c, s, valid) PROVE SlotsAccounted'
  <2>1. UNCHANGED <<perPrincipal, refused>> /\ conn[c].pc = "open" BY <1>2 DEF Hello
  <2>2. PICK p \in {"checks", "leave", "reserve"}, y \in Sessions \cup {Nobody} :
           Turns(c, p, conn[c].live, conn[c].principal, y) /\ (p = "checks" => y = Nobody)
    BY <1>2, HelloTurns
  <2> QED BY <2>1, <2>2, SlotsKept DEF IsReservation
<1>3. CASE InboundEnds(c) \/ PushRead(c)
  <2>1. UNCHANGED <<perPrincipal, refused>> /\ conn[c].pc \in {"open", "pushRead"} BY <1>3 DEF InboundEnds, PushRead
  <2>2. PICK p \in {"leave", "pushSet"} : Turns(c, p, conn[c].live, conn[c].principal, conn[c].presented)
    BY <1>3, PlainTurns, PushTurns
  <2> QED BY <2>1, <2>2, SlotsKept DEF IsReservation
<1>4. CASE CheckPrincipalCap(c)
  <2>1. UNCHANGED <<perPrincipal, refused>> /\ conn[c].pc = "principalCap" BY <1>4 DEF CheckPrincipalCap
  <2>2. conn[c].principal = Nobody BY <1>f, <2>1 DEF TaskShape
  <2>3. CASE Turns(c, "register", conn[c].live, conn[c].principal, conn[c].presented)
    BY <2>1, <2>3, SlotsKept DEF IsReservation
  <2>4. CASE Turns(c, "out", FALSE, Nobody, Nobody)
    BY <2>1, <2>2, <2>4, SlotsKept DEF IsReservation, IsConnectionOf
  <2> QED BY <1>4, <2>3, <2>4, CheckPrincipalCapTurns
<1>5. CASE PushSet(c)
  <2>1. UNCHANGED <<perPrincipal, refused>> /\ conn[c].pc = "pushSet" BY <1>5 DEF PushSet
  <2>2. ~conn[c].live => conn[c].principal = Nobody BY <1>f DEF TaskShape
  <2>3. CASE Turns(c, "open", conn[c].live, conn[c].principal, conn[c].presented)
    BY <2>1, <2>3, SlotsKept DEF IsReservation
  <2>4. CASE ~conn[c].live /\ Turns(c, "out", FALSE, Nobody, Nobody)
    BY <2>1, <2>2, <2>4, SlotsKept DEF IsReservation, IsConnectionOf
  <2> QED BY <1>5, <2>3, <2>4, PushTurns
<1>6. CASE ApplyTenantTransitions(c)
  <2>1. UNCHANGED <<perPrincipal, refused>> /\ conn[c].pc = "count" BY <1>6 DEF ApplyTenantTransitions
  <2>2. PICK p \in {"pushRead", "open"} : Turns(c, p, conn[c].live, conn[c].principal, conn[c].presented)
    BY <1>6, PlainTurns
  <2> QED BY <2>1, <2>2, SlotsKept DEF IsReservation
<1>7. CASE Register(c)
  <2>1. refused' = refused /\ conn[c].pc = "register" BY <1>7 DEF Register
  <2>2. ~conn[c].live BY <1>f, <2>1 DEF TaskShape
  <2>3. CASE perPrincipal' = perPrincipal /\ Turns(c, "open", TRUE, Nobody, Nobody)
    BY <2>1, <2>2, <2>3, SlotsKept DEF IsReservation, IsConnectionOf
  <2>4. ASSUME conn[c].presented \in Sessions, TakeSlot(conn[c].presented),
               NEW p \in {"pushRead", "open"}, Turns(c, p, TRUE, conn[c].presented, Nobody)
        PROVE  SlotsAccounted'
    <3>1. keyOf[conn[c].presented] \in Keys /\ conn[c].presented # Nobody
      BY <2>4, KeyAssumption, NobodyAssumption
    <3>2. SlotStep(c, p, TRUE, conn[c].presented, Nobody)
      BY <1>n, <2>1, <2>2, <2>4, <3>1 DEF SlotStep, One, IsConnectionOf, IsReservation, TakeSlot, Shape, TypeOK
    <3> QED BY <2>4, <3>2, SlotsMove
  <2> QED BY <1>7, <2>3, <2>4, RegisterTurns
<1>8. CASE ReserveHelloPrincipal(c)
  <2>1. refused' = refused /\ conn[c].pc = "reserve" BY <1>8 DEF ReserveHelloPrincipal
  <2>2. /\ conn[c].presented \in Sessions /\ conn[c].presented # Nobody
        /\ conn[c].principal \in {Nobody, conn[c].presented}
    BY <1>f, <2>1 DEF TaskShape
  <2>3. Counted(c) <=> conn[c].principal # Nobody BY <2>2 DEF Counted
  <2>4. CASE perPrincipal' = perPrincipal /\ Turns(c, "leave", conn[c].live, conn[c].principal, Nobody)
    BY <2>1, <2>4, SlotsKept DEF IsReservation
  <2>5. CASE /\ Turns(c, "checks", conn[c].live, conn[c].principal, conn[c].presented)
             /\ Counted(c) /\ perPrincipal' = perPrincipal
    BY <2>1, <2>3, <2>5, SlotsKept DEF IsReservation
  <2>6. CASE /\ Turns(c, "checks", conn[c].live, conn[c].principal, conn[c].presented)
             /\ ~Counted(c) /\ TakeSlot(conn[c].presented)
    <3>1. keyOf[conn[c].presented] \in Keys BY <2>2, KeyAssumption
    <3>2. SlotStep(c, "checks", conn[c].live, conn[c].principal, conn[c].presented)
      BY <1>n, <2>1, <2>2, <2>3, <2>6, <3>1
      DEF SlotStep, One, IsConnectionOf, IsReservation, TakeSlot, Shape, TypeOK
    <3> QED BY <2>6, <3>2, SlotsMove
  <2> QED BY <1>8, <2>4, <2>5, <2>6, ReserveTurns
<1>9. CASE HelloRefused(c)
  <2>1. perPrincipal' = perPrincipal /\ conn[c].pc = "checks" BY <1>9 DEF HelloRefused
  <2>2. Turns(c, "open", conn[c].live, conn[c].principal, Nobody) BY <1>9, PlainTurns
  <2>3. CASE conn[c].presented # Nobody /\ conn[c].principal = Nobody
    <3>1. keyOf[conn[c].presented] \in Keys BY <1>f, <2>3, KeyAssumption
    <3>2. refused' = [refused EXCEPT ![keyOf[conn[c].presented]] = @ + 1] BY <1>9, <2>3 DEF HelloRefused
    <3>3. SlotStep(c, "open", conn[c].live, conn[c].principal, Nobody)
      BY <1>n, <2>1, <2>3, <3>1, <3>2 DEF SlotStep, One, IsConnectionOf, IsReservation, Shape, TypeOK
    <3> QED BY <2>2, <3>3, SlotsMove
  <2>4. CASE ~(conn[c].presented # Nobody /\ conn[c].principal = Nobody)
    <3>1. refused' = refused BY <1>9, <2>4 DEF HelloRefused
    <3> QED BY <2>1, <2>2, <2>4, <3>1, SlotsKept DEF IsReservation
  <2> QED BY <2>3, <2>4
<1>10. CASE HelloAccepted(c)
  <2>1. UNCHANGED <<perPrincipal, refused>> /\ conn[c].pc = "checks" BY <1>10 DEF HelloAccepted
  <2>2. conn[c].live /\ (conn[c].presented = Nobody \/ conn[c].principal \in {Nobody, conn[c].presented})
    BY <1>f, <2>1 DEF TaskShape
  <2>3. CASE /\ Turns(c, "open", conn[c].live, conn[c].principal, Nobody)
             /\ conn[c].presented \in {Nobody, conn[c].principal}
    BY <2>1, <2>3, SlotsKept DEF IsReservation
  <2>4. CASE /\ Turns(c, "count", conn[c].live, conn[c].presented, Nobody)
             /\ conn[c].presented \notin {Nobody, conn[c].principal}
    <3>1. SlotStep(c, "count", conn[c].live, conn[c].presented, Nobody)
      BY <1>n, <2>1, <2>2, <2>4 DEF SlotStep, One, IsConnectionOf, IsReservation
    <3> QED BY <2>4, <3>1, SlotsMove
  <2> QED BY <1>10, <2>3, <2>4, HelloAcceptedTurns
<1>11. CASE Unregister(c)
  <2>1. refused' = refused /\ conn[c].pc = "leave" BY <1>11 DEF Unregister
  <2>2. conn[c].live BY <1>f, <2>1 DEF TaskShape
  <2>3. CASE /\ conn[c].principal = Nobody /\ perPrincipal' = perPrincipal
             /\ Turns(c, "out", FALSE, Nobody, Nobody)
    BY <2>1, <2>3, SlotsKept DEF IsReservation, IsConnectionOf
  <2>4. ASSUME conn[c].principal \in Sessions, ReleaseSlot(conn[c].principal),
               NEW p \in {"pushRead", "out"}, Turns(c, p, FALSE, Nobody, Nobody)
        PROVE  SlotsAccounted'
    <3>1. keyOf[conn[c].principal] \in Keys /\ conn[c].principal # Nobody
      BY <2>4, KeyAssumption, NobodyAssumption
    <3>2. perPrincipal[keyOf[conn[c].principal]] > 0
      <4>1. IsConnectionOf(conn[c].live, conn[c].principal, keyOf[conn[c].principal])
        BY <2>2, <3>1 DEF IsConnectionOf
      <4>2. /\ Cardinality(ConnectionsOf(keyOf[conn[c].principal])) > 0
            /\ Cardinality(ConnectionsOf(keyOf[conn[c].principal])) \in Nat
            /\ Cardinality(Reservations(keyOf[conn[c].principal])) \in Nat
        BY <2>4, <4>1, SizesMove
      <4> QED BY <1>n, <3>1, <4>2 DEF SlotsAccounted
    <3>3. SlotStep(c, p, FALSE, Nobody, Nobody)
      BY <1>n, <2>1, <2>2, <2>4, <3>1, <3>2
      DEF SlotStep, One, IsConnectionOf, IsReservation, ReleaseSlot, Shape, TypeOK
    <3> QED BY <2>4, <3>3, SlotsMove
  <2> QED BY <1>11, <2>3, <2>4, UnregisterTurns
<1> QED BY <1>1, <1>2, <1>3, <1>4, <1>5, <1>6, <1>7, <1>8, <1>9, <1>10, <1>11 DEF TaskStep

(* SlotsAccounted, of reserve_hello_principal, register and unregister: the *)
(* count of a principal is exact up to the Hellos refused after their       *)
(* reservation, whatever runs between the locks.                            *)
THEOREM Slots == Spec => []SlotsAccounted
<1>1. Init => SlotsAccounted
  <2> SUFFICES ASSUME Init, NEW k \in Keys
               PROVE  perPrincipal[k] = Cardinality(ConnectionsOf(k)) + Cardinality(Reservations(k)) + refused[k]
    BY DEF SlotsAccounted
  <2>1. ConnectionsOf(k) = {} /\ Reservations(k) = {}
    BY OutFields DEF Init, ConnectionsOf, Live, Reservations
  <2>2. perPrincipal[k] = 0 /\ refused[k] = 0 BY DEF Init
  <2> QED BY <2>1, <2>2, FS_EmptySet
<1>2. Shape /\ Shape' /\ SlotsAccounted /\ [Next]_vars => SlotsAccounted'
  <2> SUFFICES ASSUME Shape, Shape', SlotsAccounted, [Next]_vars PROVE SlotsAccounted' OBVIOUS
  <2>1. CASE UNCHANGED vars BY <2>1 DEF vars, SlotsAccounted, ConnectionsOf, Live, Reservations
  <2> QED BY <2>1, StepSlots DEF Next
<1> QED BY <1>1, <1>2, ShapeInvariant, PTL DEF Spec

-----------------------------------------------------------------------------
(* The count of a tenant.                                                   *)

(* The count moves as what the task holds does. *)
TenantStep(c, p, l, x) ==
    \A t \in Tenants :
        tenantCount'[t] = tenantCount[t]
            + One(IsOfTenant(p, l, x, t)) - One(IsOfTenant(conn[c].pc, conn[c].live, conn[c].principal, t))

LEMMA TenantsMove ==
    ASSUME Shape, TenantsAccounted, NEW c \in Conns, NEW p, NEW l, NEW x, NEW y, Turns(c, p, l, x, y),
           TenantStep(c, p, l, x)
    PROVE  TenantsAccounted'
<1> SUFFICES ASSUME NEW t \in Tenants PROVE tenantCount'[t] = Cardinality(OfTenant(t))'
  BY DEF TenantsAccounted, OfTenant
<1>1. tenantCount[t] = Cardinality(OfTenant(t)) BY DEF TenantsAccounted, OfTenant
<1> QED BY <1>1, TenantSizeMoves DEF TenantStep

(* A step that leaves the count alone, and what the task holds with it.     *)
LEMMA TenantsKept ==
    ASSUME Shape, TenantsAccounted, NEW c \in Conns, NEW p, NEW l, NEW x, NEW y, Turns(c, p, l, x, y),
           tenantCount' = tenantCount,
           \A t \in Tenants :
              IsOfTenant(p, l, x, t) <=> IsOfTenant(conn[c].pc, conn[c].live, conn[c].principal, t)
    PROVE  TenantsAccounted'
<1>1. \A t \in Tenants : tenantCount[t] \in Nat BY DEF Shape, TypeOK
<1>2. TenantStep(c, p, l, x) BY <1>1 DEF TenantStep, One
<1> QED BY <1>2, TenantsMove

LEMMA StepTenants ==
    ASSUME Shape, TenantsAccounted, NEW c \in Conns,
           \/ \E s \in Sessions \cup {Nobody} : Upgrade(c, s)
           \/ \E s \in Sessions \cup {Nobody}, valid \in BOOLEAN : Hello(c, s, valid)
           \/ InboundEnds(c) \/ TaskStep(c)
    PROVE  TenantsAccounted'
<1>f. TaskShape(conn[c]) /\ conn[c].principal \in Sessions \cup {Nobody} /\ conn[c].presented \in Sessions \cup {Nobody}
  BY TaskFields
<1>n. \A t \in Tenants : tenantCount[t] \in Nat BY DEF Shape, TypeOK
<1>k. ASSUME NEW p, NEW y, Turns(c, p, conn[c].live, conn[c].principal, y), p # "count", conn[c].pc # "count",
             tenantCount' = tenantCount
      PROVE  TenantsAccounted'
  BY <1>k, TenantsKept DEF IsOfTenant
<1>o. ASSUME NEW p, NEW l, NEW y, Turns(c, p, l, Nobody, y), conn[c].principal = Nobody,
             tenantCount' = tenantCount
      PROVE  TenantsAccounted'
  BY <1>o, TenantsKept DEF IsOfTenant
<1>1. ASSUME NEW s \in Sessions \cup {Nobody}, Upgrade(c, s) PROVE TenantsAccounted'
  <2>1. tenantCount' = tenantCount /\ conn[c].pc = "out" BY <1>1 DEF Upgrade
  <2> QED BY <1>k, <1>1, <2>1, UpgradeTurns
<1>2. ASSUME NEW s \in Sessions \cup {Nobody}, NEW valid \in BOOLEAN, Hello(c, s, valid) PROVE TenantsAccounted'
  <2>1. tenantCount' = tenantCount /\ conn[c].pc = "open" BY <1>2 DEF Hello
  <2> QED BY <1>k, <1>2, <2>1, HelloTurns
<1>3. CASE InboundEnds(c) \/ PushRead(c) \/ HelloRefused(c)
  <2>1. tenantCount' = tenantCount /\ conn[c].pc # "count" BY <1>3 DEF InboundEnds, PushRead, HelloRefused
  <2> QED BY <1>k, <1>3, <2>1, PlainTurns, PushTurns
<1>4. CASE CheckPrincipalCap(c)
  <2>1. tenantCount' = tenantCount /\ conn[c].pc = "principalCap" BY <1>4 DEF CheckPrincipalCap
  <2>2. conn[c].principal = Nobody BY <1>f, <2>1 DEF TaskShape
  <2> QED BY <1>k, <1>o, <1>4, <2>1, <2>2, CheckPrincipalCapTurns
<1>5. CASE PushSet(c)
  <2>1. tenantCount' = tenantCount /\ conn[c].pc = "pushSet" BY <1>5 DEF PushSet
  <2>2. ~conn[c].live => conn[c].principal = Nobody BY <1>f DEF TaskShape
  <2> QED BY <1>k, <1>o, <1>5, <2>1, <2>2, PushTurns
<1>6. CASE ReserveHelloPrincipal(c)
  <2>1. tenantCount' = tenantCount /\ conn[c].pc = "reserve" BY <1>6 DEF ReserveHelloPrincipal
  <2> QED BY <1>k, <1>6, <2>1, ReserveTurns
<1>7. CASE Register(c)
  <2>1. conn[c].pc = "register" BY <1>7 DEF Register
  <2>2. ~conn[c].live /\ conn[c].principal = Nobody BY <1>f, <2>1 DEF TaskShape
  <2>3. ASSUME conn[c].presented \in Sessions, BumpTenantCount(conn[c].presented, 1),
               NEW p \in {"pushRead", "open"}, Turns(c, p, TRUE, conn[c].presented, Nobody)
        PROVE  TenantsAccounted'
    <3>1. TenantOfSession(conn[c].presented) \in Tenants /\ conn[c].presented # Nobody
      BY <2>3, CountTypes, NobodyAssumption
    <3>2. TenantStep(c, p, TRUE, conn[c].presented)
      BY <1>n, <2>2, <2>3, <3>1 DEF TenantStep, One, IsOfTenant, BumpTenantCount, Shape, TypeOK
    <3> QED BY <2>3, <3>2, TenantsMove
  <2> QED BY <1>o, <1>7, <2>2, <2>3, RegisterTurns
<1>8. CASE HelloAccepted(c)
  <2>1. tenantCount' = tenantCount /\ conn[c].pc = "checks" BY <1>8 DEF HelloAccepted
  <2>2. conn[c].presented = Nobody \/ conn[c].principal \in {Nobody, conn[c].presented}
    BY <1>f, <2>1 DEF TaskShape
  <2>3. CASE /\ Turns(c, "count", conn[c].live, conn[c].presented, Nobody)
             /\ conn[c].presented \notin {Nobody, conn[c].principal}
    BY <2>1, <2>2, <2>3, TenantsKept DEF IsOfTenant
  <2> QED BY <1>k, <1>8, <2>1, <2>3, HelloAcceptedTurns
<1>9. CASE ApplyTenantTransitions(c)
  <2>1. /\ conn[c].pc = "count" /\ BumpTenantCount(conn[c].principal, 1)
        /\ conn[c].live /\ conn[c].principal \in Sessions /\ conn[c].principal # Nobody
    BY <1>f, <1>9 DEF ApplyTenantTransitions, TaskShape
  <2>2. PICK p \in {"pushRead", "open"} : Turns(c, p, conn[c].live, conn[c].principal, conn[c].presented)
    BY <1>9, PlainTurns
  <2>3. TenantOfSession(conn[c].principal) \in Tenants BY <2>1, CountTypes
  <2>4. TenantStep(c, p, conn[c].live, conn[c].principal)
    BY <1>n, <2>1, <2>3 DEF TenantStep, One, IsOfTenant, BumpTenantCount, Shape, TypeOK
  <2> QED BY <2>2, <2>4, TenantsMove
<1>10. CASE Unregister(c)
  <2>1. conn[c].pc = "leave" BY <1>10 DEF Unregister
  <2>2. conn[c].live BY <1>f, <2>1 DEF TaskShape
  <2>3. ASSUME conn[c].principal \in Sessions, BumpTenantCount(conn[c].principal, -1),
               NEW p \in {"pushRead", "out"}, Turns(c, p, FALSE, Nobody, Nobody)
        PROVE  TenantsAccounted'
    <3> DEFINE t == TenantOfSession(conn[c].principal)
    <3>1. t \in Tenants /\ conn[c].principal # Nobody BY <2>3, CountTypes, NobodyAssumption
    <3>2. IsOfTenant(conn[c].pc, conn[c].live, conn[c].principal, t) BY <2>1, <2>2, <3>1 DEF IsOfTenant
    <3>3. tenantCount[t] > 0
      <4>1. Cardinality(OfTenant(t)) > 0 BY <2>3, <3>2, TenantSizeMoves
      <4> QED BY <3>1, <4>1 DEF TenantsAccounted, OfTenant
    <3>4. TenantStep(c, p, FALSE, Nobody)
      BY <1>n, <2>1, <2>2, <2>3, <3>1, <3>3 DEF TenantStep, One, IsOfTenant, BumpTenantCount, Shape, TypeOK
    <3> QED BY <2>3, <3>4, TenantsMove
  <2> QED BY <1>o, <1>10, <2>3, UnregisterTurns
<1> QED BY <1>1, <1>2, <1>3, <1>4, <1>5, <1>6, <1>7, <1>8, <1>9, <1>10 DEF TaskStep

(* TenantsAccounted, of apply_tenant_transitions and unregister: the count  *)
(* of a tenant is exact, although a Hello sets the principal and counts it  *)
(* under two locks.                                                         *)
THEOREM TenantCounts == Spec => []TenantsAccounted
<1>1. Init => TenantsAccounted
  <2> SUFFICES ASSUME Init, NEW t \in Tenants PROVE tenantCount[t] = Cardinality(OfTenant(t))
    BY DEF TenantsAccounted, OfTenant
  <2>1. OfTenant(t) = {} BY OutFields DEF Init, OfTenant, Live
  <2>2. tenantCount[t] = 0 BY DEF Init
  <2> QED BY <2>1, <2>2, FS_EmptySet
<1>2. Shape /\ TenantsAccounted /\ [Next]_vars => TenantsAccounted'
  <2> SUFFICES ASSUME Shape, TenantsAccounted, [Next]_vars PROVE TenantsAccounted' OBVIOUS
  <2>1. CASE UNCHANGED vars BY <2>1 DEF vars, TenantsAccounted, Live, TenantOfSession
  <2> QED BY <2>1, StepTenants DEF Next
<1> QED BY <1>1, <1>2, ShapeInvariant, PTL DEF Spec

=============================================================================
