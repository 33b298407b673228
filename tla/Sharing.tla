------------------------------- MODULE Sharing -------------------------------
(***************************************************************************)
(* Sharing one record with users who do not own it: invitations and grants *)
(* (crates/frick-store/src/stores/invitation.rs, grant.rs; the routes of   *)
(* crates/frick-server/src/routes/share.rs), and how the gateway keeps the *)
(* record out of, or brings it into, the replicas of subscribers           *)
(* (crates/frick-server/src/gateway.rs, object_visibility.rs).             *)
(*                                                                         *)
(* The owner's writes are numbered; a version is what a frame carries.  A  *)
(* connection's queue is FIFO and its client stores each frame as it comes *)
(* (no version is compared), so `replica` is the client's copy once the    *)
(* frames queued so far have arrived.  A step is one statement or one      *)
(* stretch between two awaits.  No policy hook is registered, visibility   *)
(* is owner-scoped, and every grant lets its holder read.                  *)
(***************************************************************************)
EXTENDS Naturals, FiniteSets

CONSTANTS
    Users,       \* who is not the owner and subscribes to the type
    Owner,       \* the record's owner
    Remote,      \* the users whose connection is on another node
    Invites,     \* invitations of the record
    GrantIds,    \* grants, in order of creation
    NoUser,
    MaxWrites,   \* bound: writes and deletes of the record
    MaxFaults    \* bound: calls that die half-way, connections that end

ASSUME UserAssumption == Remote \subseteq Users /\ {Owner, NoUser} \cap Users = {} /\ Owner # NoUser
ASSUME GrantIdAssumption == GrantIds \subseteq Nat
ASSUME SharingLimitAssumption == MaxWrites \in Nat /\ MaxFaults \in Nat

VARIABLES
    row,        \* the record's version, 0 when there is no row
    written,    \* writes and deletes so far
    deleted,    \* the versions that are deletes
    due,        \* committed, not yet given to the write listener
    invite,     \* invite[i]: who redeemed it; Owner's id or a user
    grant,      \* grant[g]: its row
    accept,     \* accept[u]: the POST /share/accept of u in progress
    revoke,     \* revoke[g]: the revoke or leave of g in progress
    sub,        \* sub[u]: the object subscription of u's connection
    deferred,   \* frames waiting for the grant check of their subscriber
    replica,    \* replica[u]: the version u's client has, 0 for none
    faults,
    horizon,    \* history: the last version written while u had a grant
    since,      \* history: `written` when u last gained a grant or subscribed
    excused     \* history: users to whom frames went in a misleading order

storeVars == <<row, written, deleted, due>>
shareVars == <<invite, grant, accept>>
syncVars == <<sub, deferred, replica>>
history == <<horizon, since, excused>>
vars == <<storeVars, shareVars, revoke, syncVars, faults, history>>

NoGrant == [state |-> "none", to |-> NoUser, from |-> NoUser]
NoAccept == [pc |-> "idle", inv |-> NoUser]
NoRevoke == [pc |-> "idle", left |-> {}, at |-> NoUser]
NoSub == [pc |-> "none", seen |-> 0]

GrantRow == [state : {"none", "active", "revoked"},
             to : Users \cup {NoUser}, from : Invites \cup {NoUser}]
AcceptCall == [pc : {"idle", "update", "create"}, inv : Invites \cup {NoUser}]
RevokeCall == [pc : {"idle", "read", "collect", "check", "send"},
               left : SUBSET Users, at : Users \cup {NoUser}]
Subscription == [pc : {"none", "list", "probe", "check", "send", "live"}, seen : 0..MaxWrites]
Frame == [v : 1..MaxWrites, u : Users, pc : {"probe", "check", "send"}]

TypeOK ==
    /\ row \in 0..written /\ written \in 0..MaxWrites
    /\ deleted \subseteq 1..written /\ due \subseteq 1..written
    /\ invite \in [Invites -> Users \cup {Owner, NoUser}]
    /\ grant \in [GrantIds -> GrantRow]
    /\ accept \in [Users \cup {Owner} -> AcceptCall]
    /\ revoke \in [GrantIds -> RevokeCall]
    /\ sub \in [Users -> Subscription]
    /\ deferred \subseteq Frame
    /\ replica \in [Users -> 0..MaxWrites]
    /\ faults \in 0..MaxFaults
    /\ horizon \in [Users -> 0..MaxWrites] /\ since \in [Users -> 0..MaxWrites]
    /\ excused \subseteq Users

Init ==
    /\ row = 0 /\ written = 0 /\ deleted = {} /\ due = {}
    /\ invite = [i \in Invites |-> NoUser]
    /\ grant = [g \in GrantIds |-> NoGrant]
    /\ accept = [u \in Users \cup {Owner} |-> NoAccept]
    /\ revoke = [g \in GrantIds |-> NoRevoke]
    /\ sub = [u \in Users |-> NoSub]
    /\ deferred = {} /\ replica = [u \in Users |-> 0]
    /\ faults = 0
    /\ horizon = [u \in Users |-> 0] /\ since = [u \in Users |-> 0] /\ excused = {}

-----------------------------------------------------------------------------
(* Helpers.                                                                *)

(* Mutant of HasActiveGrantFor: revoked_at is not looked at. *)
HasGrantFor(u) == \E g \in GrantIds : grant[g].state # "none" /\ grant[g].to = u

(* has_active_grant_for, which is the whole read check of a user who is     *)
(* neither the owner nor the writer (subscriber_can_read_object_with_hooks).*)
HasActiveGrantFor(u) == \E g \in GrantIds : grant[g].state = "active" /\ grant[g].to = u

(* per_record_read_authz_active: a grant was ever issued. *)
PerRecordReadAuthzActive == \E g \in GrantIds : grant[g].state # "none"

Registered(u) == sub[u].pc # "none"

(* A frame of an older version has not been sent to u yet. *)
OlderPending(u, v) ==
    \/ \E d \in deferred : d.u = u /\ d.v < v
    \/ \E w \in due \ deleted : w < v
    \/ sub[u].pc \in {"probe", "check", "send"} /\ sub[u].seen \in 1..(v - 1)

(* A frame for u has passed the check and is not queued yet. *)
CheckedPending(u) ==
    \/ \E d \in deferred : d.u = u /\ d.pc = "send"
    \/ sub[u].pc = "send"

-----------------------------------------------------------------------------
(* The owner's writes, and the write listener.                             *)

(* upsert_object_with_policy and delete_object, up to their commit. *)
OwnerWrites(isDelete) ==
    /\ written < MaxWrites
    /\ isDelete => row # 0
    /\ written' = written + 1
    /\ row' = IF isDelete THEN 0 ELSE written + 1
    /\ deleted' = IF isDelete THEN deleted \cup {written + 1} ELSE deleted
    /\ due' = due \cup {written + 1}
    /\ horizon' = [u \in Users |-> IF \E g \in GrantIds : grant[g].state = "active" /\ grant[g].to = u
                                   THEN written + 1 ELSE horizon[u]]
    /\ UNCHANGED <<shareVars, revoke, syncVars, faults, since, excused>>

(* Mutant of FanOutObjectUpsert: a subscriber whose snapshot is not sent yet *)
(* is left to it.                                                           *)
SkipsSnapshotting(v) ==
    /\ v \in due \ deleted
    /\ due' = due \ {v}
    /\ deferred' = deferred \cup {[v |-> v, u |-> u, pc |-> "probe"] : u \in {u \in Users : sub[u].pc = "live"}}
    /\ UNCHANGED <<row, written, deleted, shareVars, revoke, sub, replica, faults, history>>

(* fan_out_object_upsert (of this node, or of a peer that got the envelope):*)
(* the owner gets the frame inline; every other subscriber waits for the    *)
(* spawned task.                                                            *)
FanOutObjectUpsert(v) ==
    /\ v \in due \ deleted
    /\ due' = due \ {v}
    /\ deferred' = deferred \cup {[v |-> v, u |-> u, pc |-> "probe"] : u \in {u \in Users : Registered(u)}}
    /\ UNCHANGED <<row, written, deleted, shareVars, revoke, sub, replica, faults, history>>

(* fan_out_object_delete: the tombstone goes to every subscriber at once.   *)
FanOutObjectDelete(v) ==
    /\ v \in due \cap deleted
    /\ due' = due \ {v}
    /\ replica' = [u \in Users |-> IF Registered(u) THEN 0 ELSE replica[u]]
    /\ excused' = excused \cup {u \in Users : ~Registered(u) \/ OlderPending(u, v) \/ row > v}
    /\ UNCHANGED <<row, written, deleted, shareVars, revoke, sub, deferred, faults, horizon, since>>

(* The spawned task: nothing to do while no grant was ever issued ... *)
TaskProbes(d) ==
    /\ d \in deferred /\ d.pc = "probe"
    /\ deferred' = (deferred \ {d}) \cup
         (IF PerRecordReadAuthzActive THEN {[d EXCEPT !.pc = "check"]} ELSE {})
    /\ UNCHANGED <<storeVars, shareVars, revoke, sub, replica, faults, history>>

(* ... else the grant of each subscriber decides ... *)
TaskChecks(d) ==
    /\ d \in deferred /\ d.pc = "check"
    /\ deferred' = (deferred \ {d}) \cup
         (IF HasActiveGrantFor(d.u) THEN {[d EXCEPT !.pc = "send"]} ELSE {})
    /\ UNCHANGED <<storeVars, shareVars, revoke, sub, replica, faults, history>>

(* ... whether the frame is queued. *)
TaskSends(d) ==
    /\ d \in deferred /\ d.pc = "send"
    /\ deferred' = deferred \ {d}
    /\ replica' = [replica EXCEPT ![d.u] = d.v]
    /\ UNCHANGED <<storeVars, shareVars, revoke, sub, faults, history>>

-----------------------------------------------------------------------------
(* handle_subscribe for an object type.                                    *)

SubGoes(u, pc) == sub' = [sub EXCEPT ![u].pc = pc]

(* add_subscription *)
Subscribe(u) ==
    /\ ~Registered(u)
    /\ SubGoes(u, "list")
    /\ since' = [since EXCEPT ![u] = written]
    /\ UNCHANGED <<storeVars, shareVars, revoke, deferred, replica, faults, horizon, excused>>

(* objects().list *)
SnapshotLists(u) ==
    /\ sub[u].pc = "list"
    /\ sub' = [sub EXCEPT ![u] = [pc |-> "probe", seen |-> row]]
    /\ UNCHANGED <<storeVars, shareVars, revoke, deferred, replica, faults, history>>

(* Without a grant the ownership baseline is final: an empty snapshot. *)
SnapshotProbes(u) ==
    /\ sub[u].pc = "probe"
    /\ SubGoes(u, IF PerRecordReadAuthzActive /\ sub[u].seen # 0 THEN "check" ELSE "live")
    /\ UNCHANGED <<storeVars, shareVars, revoke, deferred, replica, faults, history>>

SnapshotChecks(u) ==
    /\ sub[u].pc = "check"
    /\ SubGoes(u, IF HasActiveGrantFor(u) THEN "send" ELSE "live")
    /\ UNCHANGED <<storeVars, shareVars, revoke, deferred, replica, faults, history>>

(* The snapshot adds the rows it has; the client never drops one for it.    *)
SnapshotSends(u) ==
    /\ sub[u].pc = "send"
    /\ SubGoes(u, "live")
    /\ replica' = [replica EXCEPT ![u] = sub[u].seen]
    /\ UNCHANGED <<storeVars, shareVars, revoke, deferred, faults, history>>

(* The connection ends: what is sent to it from here on goes nowhere.       *)
Disconnect(u) ==
    /\ Registered(u)
    /\ faults < MaxFaults
    /\ faults' = faults + 1
    /\ sub' = [sub EXCEPT ![u] = NoSub]
    /\ deferred' = {d \in deferred : d.u # u}
    /\ revoke' = [g \in GrantIds |->
         [revoke[g] EXCEPT !.left = @ \ {u}, !.at = IF @ = u THEN NoUser ELSE @,
                           !.pc = IF @ = "send" /\ revoke[g].at = u THEN "check" ELSE @]]
    /\ excused' = excused \cup {u}
    /\ UNCHANGED <<storeVars, shareVars, replica, horizon, since>>

-----------------------------------------------------------------------------
(* Invitations and grants.                                                 *)

(* redeem refuses an invitation that is redeemed (and one that has expired, *)
(* likewise without a change).                                              *)
Redeemable(i) == invite[i] = NoUser

(* accept: the lookup of invitations().redeem ... *)
AcceptLooksUp(u, i) ==
    /\ accept[u] = NoAccept
    /\ Redeemable(i)
    /\ accept' = [accept EXCEPT ![u] = [pc |-> "update", inv |-> i]]
    /\ UNCHANGED <<storeVars, invite, grant, revoke, syncVars, faults, history>>

(* ... the guarded UPDATE, whose row count nobody looks at; the owner's own *)
(* acceptance is refused only now ...                                       *)
AcceptUpdates(u) ==
    /\ accept[u].pc = "update"
    /\ LET i == accept[u].inv IN
       invite' = [invite EXCEPT ![i] = IF @ = NoUser THEN u ELSE @]
    /\ accept' = [accept EXCEPT ![u] = IF u = Owner THEN NoAccept ELSE [@ EXCEPT !.pc = "create"]]
    /\ UNCHANGED <<storeVars, grant, revoke, syncVars, faults, history>>

(* ... and grants().create, in a statement of its own. *)
AcceptCreates(u) ==
    /\ accept[u].pc = "create"
    /\ \E g \in GrantIds :
          /\ grant[g] = NoGrant
          /\ \A h \in GrantIds : h < g => grant[h] # NoGrant
          /\ grant' = [grant EXCEPT ![g] = [state |-> "active", to |-> u, from |-> accept[u].inv]]
    /\ accept' = [accept EXCEPT ![u] = NoAccept]
    /\ horizon' = [w \in Users |-> IF w = u THEN written ELSE horizon[w]]
    /\ since' = [w \in Users |-> IF w = u THEN written ELSE since[w]]
    /\ UNCHANGED <<storeVars, invite, revoke, syncVars, faults, excused>>

(* The request is dropped, or the process ends, between two statements: the *)
(* invitation is used up without a grant.                                   *)
AcceptDies(u) ==
    /\ accept[u].pc = "create"
    /\ faults < MaxFaults
    /\ faults' = faults + 1
    /\ accept' = [accept EXCEPT ![u] = NoAccept]
    /\ UNCHANGED <<storeVars, invite, grant, revoke, syncVars, history>>

-----------------------------------------------------------------------------
(* Revoking a grant, or leaving it: revoke_and_respond.                    *)

(* The owner revokes, or the grantee leaves, a grant that exists. *)
MayRevoke(g) == grant[g].state # "none" /\ revoke[g] = NoRevoke

(* grants().revoke: idempotent, and the fan-out follows either way. *)
RevokeUpdates(g) ==
    /\ MayRevoke(g)
    /\ grant[g].state = "active" \/ faults < MaxFaults   \* a second revoke is bounded
    /\ faults' = IF grant[g].state = "active" THEN faults ELSE faults + 1
    /\ grant' = [grant EXCEPT ![g].state = "revoked"]
    /\ revoke' = [revoke EXCEPT ![g].pc = "read"]
    /\ UNCHANGED <<storeVars, invite, accept, syncVars, history>>

(* fan_out_object_visibility_revoked: the row, if there is one ... *)
RevokeReads(g) ==
    /\ revoke[g].pc = "read"
    /\ revoke' = [revoke EXCEPT ![g].pc = IF row = 0 THEN "idle" ELSE "collect"]
    /\ UNCHANGED <<storeVars, shareVars, syncVars, faults, history>>

(* ... this node's subscribers, under the lock; the bus is not told ...     *)
RevokeCollects(g) ==
    /\ revoke[g].pc = "collect"
    /\ LET here == {u \in Users \ Remote : Registered(u)} IN
       /\ revoke' = [revoke EXCEPT ![g] = [pc |-> "check", left |-> here, at |-> NoUser]]
       /\ excused' = excused \cup (Users \ here)
    /\ UNCHANGED <<storeVars, shareVars, syncVars, faults, horizon, since>>

(* Mutant of RevokeChecks: the subscribers who can read get the removal. *)
ChecksTheWrongWay(g) ==
    /\ revoke[g].pc = "check"
    /\ \/ /\ revoke[g].left = {}
          /\ revoke' = [revoke EXCEPT ![g] = NoRevoke]
       \/ \E u \in revoke[g].left :
             revoke' = [revoke EXCEPT ![g] =
               [pc |-> IF HasActiveGrantFor(u) THEN "send" ELSE "check",
                left |-> revoke[g].left \ {u}, at |-> IF HasActiveGrantFor(u) THEN u ELSE NoUser]]
    /\ UNCHANGED <<storeVars, shareVars, syncVars, faults, history>>

(* ... each checked against the grants of the moment ... *)
RevokeChecks(g) ==
    /\ revoke[g].pc = "check"
    /\ \/ /\ revoke[g].left = {}
          /\ revoke' = [revoke EXCEPT ![g] = NoRevoke]
       \/ \E u \in revoke[g].left :
             revoke' = [revoke EXCEPT ![g] =
               [pc |-> IF HasActiveGrantFor(u) THEN "check" ELSE "send",
                left |-> revoke[g].left \ {u}, at |-> IF HasActiveGrantFor(u) THEN NoUser ELSE u]]
    /\ UNCHANGED <<storeVars, shareVars, syncVars, faults, history>>

(* ... and sent the removal when it can no longer read. *)
RevokeSends(g) ==
    /\ revoke[g].pc = "send"
    /\ LET u == revoke[g].at IN
       /\ replica' = [replica EXCEPT ![u] = 0]
       /\ excused' = IF CheckedPending(u) \/ HasActiveGrantFor(u) THEN excused \cup {u} ELSE excused
    /\ revoke' = [revoke EXCEPT ![g].pc = "check", ![g].at = NoUser]
    /\ UNCHANGED <<storeVars, shareVars, sub, deferred, faults, horizon, since>>

(* The request is dropped after the UPDATE: nobody is told. *)
RevokeDies(g) ==
    /\ revoke[g].pc \in {"read", "collect", "check", "send"}
    /\ faults < MaxFaults
    /\ faults' = faults + 1
    /\ revoke' = [revoke EXCEPT ![g] = NoRevoke]
    /\ excused' = Users
    /\ UNCHANGED <<storeVars, shareVars, syncVars, horizon, since>>

-----------------------------------------------------------------------------

Next ==
    \/ \E isDelete \in BOOLEAN : OwnerWrites(isDelete)
    \/ \E v \in due : FanOutObjectUpsert(v) \/ FanOutObjectDelete(v)
    \/ \E d \in deferred : TaskProbes(d) \/ TaskChecks(d) \/ TaskSends(d)
    \/ \E u \in Users : \/ Subscribe(u) \/ SnapshotLists(u) \/ SnapshotProbes(u)
                        \/ SnapshotChecks(u) \/ SnapshotSends(u) \/ Disconnect(u)
    \/ \E u \in Users \cup {Owner} : \/ \E i \in Invites : AcceptLooksUp(u, i)
                                     \/ AcceptUpdates(u) \/ AcceptCreates(u) \/ AcceptDies(u)
    \/ \E g \in GrantIds : \/ RevokeUpdates(g) \/ RevokeReads(g) \/ RevokeCollects(g)
                           \/ RevokeChecks(g) \/ RevokeSends(g) \/ RevokeDies(g)

Spec == Init /\ [][Next]_vars

-----------------------------------------------------------------------------
(* Properties.                                                             *)

(* A subscriber never gets a version that was written after its last grant  *)
(* was revoked: however the checks of the spawned tasks and of snapshots    *)
(* interleave with writes and revokes, each looks at the grants after the   *)
(* version exists.                                                          *)
NothingAfterRevoke == \A u \in Users : replica[u] <= horizon[u]

(* Nothing is on its way to u. *)
Settled(u) ==
    /\ due = {} /\ sub[u].pc = "live"
    /\ \A d \in deferred : d.u # u
    /\ \A g \in GrantIds : revoke[g].pc = "idle"

(* gateway.rs:2413-2417: "the row disappears live" for a subscriber who can *)
(* no longer read it.  So it does, unless u was away or on another node, or *)
(* a frame for u had been checked and not sent when the removal was.        *)
RevokedRowIsDropped ==
    \A u \in Users \ excused :
        Settled(u) /\ (row = 0 \/ ~HasActiveGrantFor(u)) => replica[u] = 0

(* A subscriber with a grant has the row that was written since it got the  *)
(* grant and subscribed: the grant is visible to the check of the write's   *)
(* own task, whatever else is being revoked.                                *)
GranteeHasTheRow ==
    \A u \in Users \ excused :
        Settled(u) /\ HasActiveGrantFor(u) /\ row > since[u] => replica[u] # 0

(* invitation.rs:3-7: "a transient, single-use token", and "the routes wrap  *)
(* redeem+grant in a transaction": one invitation makes one grant.          *)
InvitationIsSingleUse ==
    \A g, h \in GrantIds :
        grant[g].state # "none" /\ grant[h].state # "none" /\ grant[g].from = grant[h].from => g = h
=============================================================================
