---------------------------- MODULE SharingProofs ----------------------------
(***************************************************************************)
(* Proofs about Sharing, for every set of users, grants and invitations:   *)
(* a subscriber never gets what was written after its last grant ended, a  *)
(* row it may no longer read leaves its replica, and a row it may read     *)
(* reaches it.                                                             *)
(***************************************************************************)
EXTENDS Sharing, TLAPS

-----------------------------------------------------------------------------
(* The invariants.                                                         *)

(* The row is the last write, unless that was a delete. *)
RowInv ==
    /\ row \in {0, written} /\ row \notin deleted
    /\ row = 0 /\ written > 0 => written \in deleted

(* What is on its way, or arrived, is a version that was written and is not *)
(* a delete; a snapshot that is checked or sent holds the row.              *)
FramesInv ==
    /\ \A d \in deferred : d.v <= written /\ d.v \notin deleted
    /\ \A u \in Users : sub[u].seen <= written /\ sub[u].seen \notin deleted
    /\ \A u \in Users : sub[u].pc \in {"check", "send"} => sub[u].seen # 0
    /\ \A u \in Users : replica[u] <= written /\ replica[u] \notin deleted

(* The owner makes no grant to itself, and a removal is for someone. *)
CallsInv ==
    /\ accept[Owner].pc # "create"
    /\ \A g \in GrantIds : revoke[g].pc = "send" => revoke[g].at \in Users

Shape == TypeOK /\ RowInv /\ FramesInv /\ CallsInv

(* What a user with a grant may have is all that was written, and what has  *)
(* been checked for u was written while it had one.                         *)
HorizonInv ==
    /\ \A u \in Users : horizon[u] <= written
    /\ \A u \in Users : HasActiveGrantFor(u) => horizon[u] = written
    /\ \A d \in deferred : d.pc = "send" => d.v <= horizon[d.u]
    /\ \A u \in Users : sub[u].pc = "send" => sub[u].seen <= horizon[u]

(* Version v is on its way to u or has arrived. *)
PendingFor(u, v) == v # 0 /\
    \/ replica[u] = v
    \/ v \in due \ deleted
    \/ \E d \in deferred : d.u = u /\ d.v = v
    \/ sub[u].pc \in {"probe", "check", "send"} /\ sub[u].seen = v

(* Version v has been checked for u, or has arrived. *)
CheckedFor(u, v) == v # 0 /\
    \/ replica[u] = v
    \/ \E d \in deferred : d.u = u /\ d.v = v /\ d.pc = "send"
    \/ sub[u].pc = "send" /\ sub[u].seen = v

(* A tombstone that ends version v is still to be sent. *)
TombstoneDue(v) == \E y \in due \cap deleted : y > v

(* A revoke in progress will look at u, or is about to tell it. *)
WillHear(u) == \E g \in GrantIds :
    \/ revoke[g].pc \in {"read", "collect"}
    \/ revoke[g].pc \in {"check", "send"} /\ u \in revoke[g].left
    \/ revoke[g].pc = "send" /\ revoke[g].at = u

(* A version that was deleted and may still reach u, or has, is followed by *)
(* a tombstone.                                                             *)
DeletedInv == \A u \in Users \ excused : \A v \in 0..MaxWrites :
    PendingFor(u, v) /\ (\E x \in deleted : x > v) => TombstoneDue(v)

(* A version u holds, or that was checked for it, and that u may no longer  *)
(* read is followed by a removal or a tombstone.                            *)
RevokedInv == \A u \in Users \ excused : \A v \in 0..MaxWrites :
    CheckedFor(u, v) => HasActiveGrantFor(u) \/ WillHear(u) \/ TombstoneDue(v)

(* The row was written since u got its grant and subscribed. *)
Owed(u) == Registered(u) /\ HasActiveGrantFor(u) /\ row > since[u]

(* u has the row, or will. *)
Served(u) ==
    \/ replica[u] # 0
    \/ row \in due
    \/ \E d \in deferred : d.u = u /\ d.v = row
    \/ sub[u].pc = "list"
    \/ sub[u].pc \in {"probe", "check", "send"} /\ sub[u].seen # 0

ServedInv == \A u \in Users \ excused : Owed(u) => Served(u)

-----------------------------------------------------------------------------
(* The shape of the state.                                                 *)

LEMMA FramePc ==
  ASSUME NEW d \in Frame, NEW p \in {"probe", "check", "send"}
  PROVE  /\ [d EXCEPT !.pc = p] \in Frame
         /\ [d EXCEPT !.pc = p].v = d.v /\ [d EXCEPT !.pc = p].u = d.u
         /\ [d EXCEPT !.pc = p].pc = p
BY DEF Frame

LEMMA SubPc ==
  ASSUME NEW s \in Subscription, NEW p \in {"none", "list", "probe", "check", "send", "live"}
  PROVE  /\ [s EXCEPT !.pc = p] \in Subscription
         /\ [s EXCEPT !.pc = p].pc = p /\ [s EXCEPT !.pc = p].seen = s.seen
BY DEF Subscription

LEMMA RevokePc ==
  ASSUME NEW r \in RevokeCall, NEW p \in {"idle", "read", "collect", "check", "send"}
  PROVE  /\ [r EXCEPT !.pc = p] \in RevokeCall
         /\ [r EXCEPT !.pc = p].pc = p /\ [r EXCEPT !.pc = p].left = r.left
         /\ [r EXCEPT !.pc = p].at = r.at
BY DEF RevokeCall

(* A subscription moves: its stage is p and the row it listed is n. *)
SubMoves(u, p, n) ==
    /\ sub' \in [Users -> Subscription]
    /\ sub'[u].pc = p /\ sub'[u].seen = n
    /\ \A w \in Users : w # u => sub'[w] = sub[w]

LEMMA SubGoesMoves ==
  ASSUME TypeOK, NEW u \in Users, NEW p \in {"none", "list", "probe", "check", "send", "live"},
         SubGoes(u, p)
  PROVE  SubMoves(u, p, sub[u].seen)
<1>1. sub \in [Users -> Subscription] /\ sub[u] \in Subscription  BY DEF TypeOK
<1> DEFINE s == [sub[u] EXCEPT !.pc = p]
<1>2. s \in Subscription /\ s.pc = p /\ s.seen = sub[u].seen  BY <1>1, SubPc
<1>3. sub' = [sub EXCEPT ![u] = s]  BY <1>1 DEF SubGoes
<1> HIDE DEF s
<1> QED  BY <1>1, <1>2, <1>3 DEF SubMoves

(* The frame d leaves the waiting ones, or stays with the stage p. *)
FrameMoves(d, p) ==
    /\ deferred' \subseteq Frame
    /\ \A e \in deferred' : e \in deferred \/ (e.u = d.u /\ e.v = d.v /\ e.pc = p)
    /\ \A e \in deferred : e = d \/ e \in deferred'

LEMMA TaskMoves ==
  ASSUME TypeOK, NEW d \in deferred, NEW p \in {"probe", "check", "send"}, NEW stays \in BOOLEAN,
         deferred' = (deferred \ {d}) \cup (IF stays THEN {[d EXCEPT !.pc = p]} ELSE {})
  PROVE  /\ FrameMoves(d, p)
         /\ stays => \E e \in deferred' : e.u = d.u /\ e.v = d.v /\ e.pc = p
<1>1. d \in Frame /\ deferred \subseteq Frame  BY DEF TypeOK
<1> DEFINE e == [d EXCEPT !.pc = p]
<1>2. e \in Frame /\ e.v = d.v /\ e.u = d.u /\ e.pc = p  BY <1>1, FramePc
<1>3. deferred' = (deferred \ {d}) \cup (IF stays THEN {e} ELSE {})  OBVIOUS
<1> HIDE DEF e
<1> QED  BY <1>1, <1>2, <1>3 DEF FrameMoves

(* The revoke of g moves: its stage is p. *)
RevokeMoves(g, p) ==
    /\ revoke' \in [GrantIds -> RevokeCall] /\ revoke'[g].pc = p
    /\ \A h \in GrantIds : h # g => revoke'[h] = revoke[h]

LEMMA RevokeGoes ==
  ASSUME TypeOK, NEW g \in GrantIds, NEW p \in {"idle", "read", "collect", "check", "send"},
         revoke' = [revoke EXCEPT ![g].pc = p]
  PROVE  /\ RevokeMoves(g, p)
         /\ revoke'[g].left = revoke[g].left /\ revoke'[g].at = revoke[g].at
<1>1. revoke \in [GrantIds -> RevokeCall] /\ revoke[g] \in RevokeCall  BY DEF TypeOK
<1> DEFINE r == [revoke[g] EXCEPT !.pc = p]
<1>2. r \in RevokeCall /\ r.pc = p /\ r.left = revoke[g].left /\ r.at = revoke[g].at
  BY <1>1, RevokePc
<1>3. revoke' = [revoke EXCEPT ![g] = r]  BY <1>1
<1> HIDE DEF r
<1> QED  BY <1>1, <1>2, <1>3 DEF RevokeMoves

LEMMA RevokeBecomes ==
  ASSUME TypeOK, NEW g \in GrantIds, NEW r \in RevokeCall, revoke' = [revoke EXCEPT ![g] = r]
  PROVE  RevokeMoves(g, r.pc) /\ revoke'[g] = r
BY DEF TypeOK, RevokeMoves

(* Disconnect: no revoke will look at u, and one that was to tell it goes   *)
(* on to the next.                                                          *)
Forgets(u) ==
    /\ revoke' \in [GrantIds -> RevokeCall]
    /\ \A g \in GrantIds :
        /\ revoke'[g].left = revoke[g].left \ {u}
        /\ \/ revoke'[g].pc = revoke[g].pc /\ (revoke[g].pc = "send" => revoke'[g].at = revoke[g].at)
           \/ revoke[g].pc = "send" /\ revoke[g].at = u /\ revoke'[g].pc = "check"

LEMMA DisconnectForgets ==
  ASSUME TypeOK, NEW u \in Users, Disconnect(u)
  PROVE  Forgets(u)
<1> DEFINE F(r) == [r EXCEPT !.left = @ \ {u}, !.at = IF @ = u THEN NoUser ELSE @,
                           !.pc = IF @ = "send" /\ r.at = u THEN "check" ELSE @]
<1>1. ASSUME NEW r \in RevokeCall
      PROVE  /\ F(r) \in RevokeCall /\ F(r).left = r.left \ {u}
             /\ F(r).at = IF r.at = u THEN NoUser ELSE r.at
             /\ F(r).pc = IF r.pc = "send" /\ r.at = u THEN "check" ELSE r.pc
  BY DEF RevokeCall
<1>2. \A g \in GrantIds : revoke[g] \in RevokeCall  BY DEF TypeOK
<1>3. revoke' = [g \in GrantIds |-> F(revoke[g])]  BY DEF Disconnect
<1> HIDE DEF F
<1> QED  BY <1>1, <1>2, <1>3 DEF Forgets

LEMMA OwnerWritesShape ==
  ASSUME Shape, NEW del \in BOOLEAN, OwnerWrites(del)
  PROVE  Shape'
<1>1. TypeOK  BY DEF Shape
<1>2. written \in Nat /\ written < MaxWrites /\ MaxWrites \in Nat /\ written' = written + 1
  BY <1>1, SharingLimitAssumption DEF TypeOK, OwnerWrites
<1>3. /\ row' \in 0..written' /\ written' \in 0..MaxWrites
      /\ deleted' \subseteq 1..written' /\ due' \subseteq 1..written'
  BY <1>1, <1>2 DEF OwnerWrites, TypeOK
<1>4. horizon' \in [Users -> 0..MaxWrites]
  BY <1>1, <1>2 DEF OwnerWrites, TypeOK
<1>5. TypeOK'
  BY <1>1, <1>3, <1>4 DEF OwnerWrites, TypeOK, shareVars, syncVars
<1>6. RowInv'
  BY <1>1, <1>2 DEF OwnerWrites, TypeOK, RowInv, Shape
<1>7. FramesInv'
  <2>1. \A d \in deferred : d.v \in Nat /\ d.v <= written /\ d.v \notin deleted
    BY <1>1 DEF Shape, FramesInv, TypeOK, Frame
  <2>2. \A u \in Users : sub[u].seen \in Nat /\ sub[u].seen <= written /\ sub[u].seen \notin deleted
    BY <1>1 DEF Shape, FramesInv, TypeOK, Subscription
  <2>3. \A u \in Users : /\ replica[u] \in Nat /\ replica[u] <= written
                         /\ replica[u] \notin deleted
    BY <1>1, <1>2 DEF Shape, FramesInv, TypeOK
  <2> QED  BY <1>2, <2>1, <2>2, <2>3 DEF OwnerWrites, Shape, FramesInv, syncVars
<1>8. CallsInv'
  BY DEF OwnerWrites, Shape, CallsInv, shareVars
<1> QED  BY <1>5, <1>6, <1>7, <1>8 DEF Shape

LEMMA FanOutShape ==
  ASSUME Shape, NEW v \in due, FanOutObjectUpsert(v) \/ FanOutObjectDelete(v)
  PROVE  Shape'
<1>1. TypeOK  BY DEF Shape
<1>2. v \in 1..MaxWrites /\ v <= written  BY <1>1, SharingLimitAssumption DEF TypeOK
<1>3. CASE FanOutObjectUpsert(v)
  <2>1. \A u \in Users : LET e == [v |-> v, u |-> u, pc |-> "probe"] IN
          e \in Frame /\ e.v = v
    BY <1>2 DEF Frame
  <2>2. deferred' \subseteq Frame /\ \A e \in deferred' : e \in deferred \/ e.v = v
    BY <1>1, <1>3, <2>1 DEF FanOutObjectUpsert, TypeOK
  <2>3. v \notin deleted /\ due' \subseteq due
        /\ UNCHANGED <<row, written, deleted, shareVars, revoke, sub, replica, faults, history>>
    BY <1>3 DEF FanOutObjectUpsert
  <2>4. TypeOK'  BY <1>1, <2>2, <2>3 DEF TypeOK, shareVars, history
  <2>5. FramesInv'  BY <1>2, <2>2, <2>3 DEF Shape, FramesInv
  <2>6. RowInv' /\ CallsInv'  BY <2>3 DEF Shape, RowInv, CallsInv, shareVars
  <2> QED  BY <2>4, <2>5, <2>6 DEF Shape
<1>4. CASE FanOutObjectDelete(v)
  <2>1. /\ due' \subseteq due /\ excused' \subseteq Users
        /\ UNCHANGED <<row, written, deleted, shareVars, revoke, sub, deferred, faults, horizon, since>>
    BY <1>1, <1>4 DEF FanOutObjectDelete, TypeOK
  <2>2. replica' = [u \in Users |-> IF Registered(u) THEN 0 ELSE replica[u]]
    BY <1>4 DEF FanOutObjectDelete
  <2>3. replica' \in [Users -> 0..MaxWrites] /\ 0 \notin deleted /\ 0 <= written
    BY <1>1, <2>2, SharingLimitAssumption DEF TypeOK
  <2>4. TypeOK'  BY <1>1, <2>1, <2>3 DEF TypeOK, shareVars
  <2>5. FramesInv'  BY <2>1, <2>2, <2>3 DEF Shape, FramesInv
  <2>6. RowInv' /\ CallsInv'  BY <2>1 DEF Shape, RowInv, CallsInv, shareVars
  <2> QED  BY <2>4, <2>5, <2>6 DEF Shape
<1> QED  BY <1>3, <1>4

(* What a task does to its frame: it goes on from stage to stage while the  *)
(* condition holds, or ends.                                                *)
LEMMA TaskSteps ==
  ASSUME TypeOK, NEW d \in deferred, TaskProbes(d) \/ TaskChecks(d)
  PROVE  /\ \/ FrameMoves(d, "check") /\ (PerRecordReadAuthzActive =>
                  \E e \in deferred' : e.u = d.u /\ e.v = d.v)
            \/ /\ FrameMoves(d, "send") /\ d.pc = "check"
               /\ \/ /\ HasActiveGrantFor(d.u)
                     /\ \E e \in deferred' : e.u = d.u /\ e.v = d.v
                  \/ ~HasActiveGrantFor(d.u) /\ deferred' \subseteq deferred
         /\ UNCHANGED <<storeVars, shareVars, revoke, sub, replica, faults, history>>
<1>1. CASE TaskProbes(d)
  <2>1. PerRecordReadAuthzActive \in BOOLEAN  BY DEF PerRecordReadAuthzActive
  <2>2. deferred' = (deferred \ {d}) \cup
         (IF PerRecordReadAuthzActive THEN {[d EXCEPT !.pc = "check"]} ELSE {})
    BY <1>1 DEF TaskProbes
  <2>3. FrameMoves(d, "check") /\ (PerRecordReadAuthzActive =>
            \E e \in deferred' : e.u = d.u /\ e.v = d.v)
    BY <2>1, <2>2, TaskMoves
  <2> QED  BY <1>1, <2>3 DEF TaskProbes
<1>2. CASE TaskChecks(d)
  <2>1. HasActiveGrantFor(d.u) \in BOOLEAN  BY DEF HasActiveGrantFor
  <2>2. deferred' = (deferred \ {d}) \cup
         (IF HasActiveGrantFor(d.u) THEN {[d EXCEPT !.pc = "send"]} ELSE {})
    BY <1>2 DEF TaskChecks
  <2>3. FrameMoves(d, "send") /\ (HasActiveGrantFor(d.u) =>
            \E e \in deferred' : e.u = d.u /\ e.v = d.v /\ e.pc = "send")
    BY <2>1, <2>2, TaskMoves
  <2>4. ~HasActiveGrantFor(d.u) => deferred' \subseteq deferred  BY <2>2
  <2> QED  BY <1>2, <2>3, <2>4 DEF TaskChecks
<1> QED  BY <1>1, <1>2

LEMMA TaskShape ==
  ASSUME Shape, NEW d \in deferred, TaskProbes(d) \/ TaskChecks(d) \/ TaskSends(d)
  PROVE  Shape'
<1>1. TypeOK /\ d \in Frame  BY DEF Shape, TypeOK
<1>2. CASE TaskProbes(d) \/ TaskChecks(d)
  <2>1. UNCHANGED <<storeVars, shareVars, revoke, sub, replica, faults, history>>
    BY <1>1, <1>2, TaskSteps
  <2>2. FrameMoves(d, "check") \/ FrameMoves(d, "send")  BY <1>1, <1>2, TaskSteps
  <2>3. deferred' \subseteq Frame /\ \A e \in deferred' : e \in deferred \/ e.v = d.v
    BY <2>2 DEF FrameMoves
  <2>4. TypeOK'  BY <1>1, <2>1, <2>3 DEF TypeOK, storeVars, shareVars, history
  <2>5. FramesInv'  BY <2>1, <2>3 DEF Shape, FramesInv, storeVars
  <2>6. RowInv' /\ CallsInv'  BY <2>1 DEF Shape, RowInv, CallsInv, storeVars, shareVars
  <2> QED  BY <2>4, <2>5, <2>6 DEF Shape
<1>3. CASE TaskSends(d)
  <2>1. /\ deferred' \subseteq deferred /\ replica' = [replica EXCEPT ![d.u] = d.v]
        /\ UNCHANGED <<storeVars, shareVars, revoke, sub, faults, history>>
    BY <1>3 DEF TaskSends
  <2>2. d.u \in Users /\ d.v \in 0..MaxWrites  BY <1>1, SharingLimitAssumption DEF Frame
  <2>3. replica' \in [Users -> 0..MaxWrites]  BY <1>1, <2>1, <2>2 DEF TypeOK
  <2>4. TypeOK'  BY <1>1, <2>1, <2>3 DEF TypeOK, storeVars, shareVars, history
  <2>5. FramesInv'  BY <1>1, <2>1, <2>2 DEF Shape, TypeOK, FramesInv, storeVars
  <2>6. RowInv' /\ CallsInv'  BY <2>1 DEF Shape, RowInv, CallsInv, storeVars, shareVars
  <2> QED  BY <2>4, <2>5, <2>6 DEF Shape
<1> QED  BY <1>2, <1>3

LEMMA SubscriptionShape ==
  ASSUME Shape, NEW u \in Users,
         \/ Subscribe(u) \/ SnapshotLists(u) \/ SnapshotProbes(u)
         \/ SnapshotChecks(u) \/ SnapshotSends(u) \/ Disconnect(u)
  PROVE  Shape'
<1>1. TypeOK /\ sub[u] \in Subscription /\ sub[u].seen \in 0..MaxWrites
  BY DEF Shape, TypeOK, Subscription
<1>2. UNCHANGED <<storeVars, shareVars>>
  BY DEF Subscribe, SnapshotLists, SnapshotProbes, SnapshotChecks, SnapshotSends, Disconnect
<1>3. RowInv'  BY <1>2 DEF Shape, RowInv, storeVars
<1>4. CASE Subscribe(u)
  <2>1. SubMoves(u, "list", sub[u].seen)  BY <1>1, <1>4, SubGoesMoves DEF Subscribe
  <2>2. UNCHANGED <<revoke, deferred, replica, faults, horizon, excused>>
    BY <1>4 DEF Subscribe
  <2>3. since' \in [Users -> 0..MaxWrites]  BY <1>1, <1>4 DEF Subscribe, TypeOK
  <2>4. TypeOK'  BY <1>1, <1>2, <2>1, <2>2, <2>3 DEF TypeOK, SubMoves, storeVars, shareVars
  <2>5. FramesInv'  BY <1>2, <2>1, <2>2 DEF Shape, FramesInv, SubMoves, storeVars
  <2>6. CallsInv'  BY <1>2, <2>2 DEF Shape, CallsInv, shareVars
  <2> QED  BY <1>3, <2>4, <2>5, <2>6 DEF Shape
<1>5. CASE SnapshotLists(u)
  <2>1. row \in 0..MaxWrites /\ row <= written /\ row \notin deleted
    BY <1>1, SharingLimitAssumption DEF TypeOK, Shape, RowInv
  <2>2. [pc |-> "probe", seen |-> row] \in Subscription  BY <2>1 DEF Subscription
  <2>3. SubMoves(u, "probe", row)
    BY <1>1, <1>5, <2>2 DEF SnapshotLists, SubMoves, TypeOK
  <2>4. UNCHANGED <<revoke, deferred, replica, faults, history>>
    BY <1>5 DEF SnapshotLists
  <2>5. TypeOK'  BY <1>1, <1>2, <2>3, <2>4 DEF TypeOK, SubMoves, storeVars, shareVars, history
  <2>6. FramesInv'  BY <1>2, <2>1, <2>3, <2>4 DEF Shape, FramesInv, SubMoves, storeVars
  <2>7. CallsInv'  BY <1>2, <2>4 DEF Shape, CallsInv, shareVars
  <2> QED  BY <1>3, <2>5, <2>6, <2>7 DEF Shape
<1>6. CASE SnapshotProbes(u) \/ SnapshotChecks(u)
  <2>1. PICK p \in {"check", "send", "live"} : SubMoves(u, p, sub[u].seen) /\ (p # "live" => sub[u].seen # 0)
    <3>1. PICK p \in {"check", "send", "live"} : SubGoes(u, p) /\ (p # "live" => sub[u].seen # 0)
      BY <1>6 DEF SnapshotProbes, SnapshotChecks, Shape, FramesInv
    <3> QED  BY <1>1, <3>1, SubGoesMoves
  <2>2. UNCHANGED <<revoke, deferred, replica, faults, history>>
    BY <1>6 DEF SnapshotProbes, SnapshotChecks
  <2>3. TypeOK'  BY <1>1, <1>2, <2>1, <2>2 DEF TypeOK, SubMoves, storeVars, shareVars, history
  <2>4. FramesInv'  BY <1>2, <2>1, <2>2 DEF Shape, FramesInv, SubMoves, storeVars
  <2>5. CallsInv'  BY <1>2, <2>2 DEF Shape, CallsInv, shareVars
  <2> QED  BY <1>3, <2>3, <2>4, <2>5 DEF Shape
<1>7. CASE SnapshotSends(u)
  <2>1. SubMoves(u, "live", sub[u].seen)  BY <1>1, <1>7, SubGoesMoves DEF SnapshotSends
  <2>2. UNCHANGED <<revoke, deferred, faults, history>> /\ replica' = [replica EXCEPT ![u] = sub[u].seen]
    BY <1>7 DEF SnapshotSends
  <2>3. replica' \in [Users -> 0..MaxWrites]  BY <1>1, <2>2 DEF TypeOK
  <2>4. TypeOK'  BY <1>1, <1>2, <2>1, <2>2, <2>3 DEF TypeOK, SubMoves, storeVars, shareVars, history
  <2>5. FramesInv'  BY <1>1, <1>2, <2>1, <2>2 DEF Shape, TypeOK, FramesInv, SubMoves, storeVars
  <2>6. CallsInv'  BY <1>2, <2>2 DEF Shape, CallsInv, shareVars
  <2> QED  BY <1>3, <2>4, <2>5, <2>6 DEF Shape
<1>8. CASE Disconnect(u)
  <2>1. Forgets(u)  BY <1>1, <1>8, DisconnectForgets
  <2>2. NoSub \in Subscription /\ NoSub.pc = "none" /\ NoSub.seen = 0
    BY SharingLimitAssumption DEF NoSub, Subscription
  <2>3. sub' = [sub EXCEPT ![u] = NoSub]  BY <1>8 DEF Disconnect
  <2>4. SubMoves(u, "none", 0)  BY <1>1, <2>2, <2>3 DEF SubMoves, TypeOK
  <2>5. /\ deferred' \subseteq deferred /\ faults' \in 0..MaxFaults /\ excused' \subseteq Users
        /\ UNCHANGED <<replica, horizon, since>>
    <3>1. deferred' \subseteq deferred /\ UNCHANGED <<replica, horizon, since>>
      BY <1>8 DEF Disconnect
    <3>2. faults' \in 0..MaxFaults
      <4>1. faults < MaxFaults /\ faults' = faults + 1  BY <1>8 DEF Disconnect
      <4> QED  BY <1>1, <4>1, SharingLimitAssumption DEF TypeOK
    <3>3. excused' \subseteq Users  BY <1>1, <1>8 DEF Disconnect, TypeOK
    <3> QED  BY <3>1, <3>2, <3>3
  <2>6. TypeOK'  BY <1>1, <1>2, <2>1, <2>4, <2>5 DEF TypeOK, SubMoves, Forgets, storeVars, shareVars
  <2>7. 0 <= written /\ 0 \notin deleted  BY <1>1 DEF TypeOK
  <2>8. FramesInv'  BY <1>2, <2>4, <2>5, <2>7 DEF Shape, FramesInv, SubMoves, storeVars
  <2>9. CallsInv'
    <3>1. \A g \in GrantIds : revoke'[g].pc = "send" => revoke'[g].at \in Users
      BY <2>1 DEF Shape, CallsInv, Forgets
    <3> QED  BY <1>2, <3>1 DEF Shape, CallsInv, shareVars
  <2> QED  BY <1>3, <2>6, <2>8, <2>9 DEF Shape
<1> QED  BY <1>4, <1>5, <1>6, <1>7, <1>8

(* AcceptCreates: u gets a grant that nobody had. *)
Granted(u) == \E g \in GrantIds :
    /\ grant[g].state = "none" /\ grant' \in [GrantIds -> GrantRow]
    /\ grant'[g].state = "active" /\ grant'[g].to = u
    /\ \A h \in GrantIds : h # g => grant'[h] = grant[h]

LEMMA CreatesGrant ==
  ASSUME Shape, NEW u \in Users \cup {Owner}, AcceptCreates(u)
  PROVE  u \in Users /\ Granted(u)
<1>1. TypeOK /\ accept[u].pc = "create" /\ accept[u] \in AcceptCall
  BY DEF Shape, TypeOK, AcceptCreates
<1>2. u \in Users  BY <1>1 DEF Shape, CallsInv
<1>3. PICK g \in GrantIds :
        /\ grant[g] = NoGrant
        /\ grant' = [grant EXCEPT ![g] = [state |-> "active", to |-> u, from |-> accept[u].inv]]
  BY DEF AcceptCreates
<1> DEFINE r == [state |-> "active", to |-> u, from |-> accept[u].inv]
<1>4. r \in GrantRow /\ r.state = "active" /\ r.to = u
  BY <1>1, <1>2 DEF GrantRow, AcceptCall
<1>5. NoGrant.state = "none"  BY DEF NoGrant
<1>6. grant' = [grant EXCEPT ![g] = r]  BY <1>3
<1> HIDE DEF r
<1> QED  BY <1>1, <1>2, <1>3, <1>4, <1>5, <1>6 DEF Granted, TypeOK

LEMMA AcceptShape ==
  ASSUME Shape, NEW u \in Users \cup {Owner},
         \/ \E i \in Invites : AcceptLooksUp(u, i)
         \/ AcceptUpdates(u) \/ AcceptCreates(u) \/ AcceptDies(u)
  PROVE  Shape'
<1>1. TypeOK /\ accept[u] \in AcceptCall  BY DEF Shape, TypeOK
<1>2. UNCHANGED <<storeVars, revoke, syncVars, excused>>
  BY DEF AcceptLooksUp, AcceptUpdates, AcceptCreates, AcceptDies, history
<1>3. NoAccept \in AcceptCall /\ NoAccept.pc = "idle"  BY DEF NoAccept, AcceptCall
<1>4. PICK a \in AcceptCall : /\ accept' = [accept EXCEPT ![u] = a]
                              /\ a.pc = "create" => u # Owner
  <2>1. CASE \E i \in Invites : AcceptLooksUp(u, i)
    <3>1. PICK i \in Invites : AcceptLooksUp(u, i)  BY <2>1
    <3>2. [pc |-> "update", inv |-> i] \in AcceptCall  BY DEF AcceptCall
    <3> QED  BY <3>1, <3>2 DEF AcceptLooksUp
  <2>2. CASE AcceptUpdates(u)
    <3> DEFINE a == [accept[u] EXCEPT !.pc = "create"]
    <3>1. a \in AcceptCall  BY <1>1 DEF AcceptCall
    <3>2. accept' = [accept EXCEPT ![u] = IF u = Owner THEN NoAccept ELSE a]
      BY <1>1, <2>2 DEF AcceptUpdates, TypeOK
    <3> HIDE DEF a
    <3> QED  BY <1>3, <3>1, <3>2
  <2>3. CASE AcceptCreates(u) \/ AcceptDies(u)
    BY <1>3, <2>3 DEF AcceptCreates, AcceptDies
  <2> QED  BY <2>1, <2>2, <2>3
<1>5. accept' \in [Users \cup {Owner} -> AcceptCall] /\ accept'[Owner].pc # "create"
  BY <1>1, <1>4 DEF TypeOK, Shape, CallsInv
<1>6. invite' \in [Invites -> Users \cup {Owner, NoUser}] /\ faults' \in 0..MaxFaults
  <2>1. CASE AcceptUpdates(u)  BY <1>1, <2>1 DEF AcceptUpdates, TypeOK
  <2>2. CASE UNCHANGED invite
    BY <1>1, <2>2, SharingLimitAssumption
       DEF AcceptLooksUp, AcceptUpdates, AcceptCreates, AcceptDies, TypeOK
  <2> QED  BY <2>1, <2>2 DEF AcceptLooksUp, AcceptCreates, AcceptDies
<1>7. /\ grant' \in [GrantIds -> GrantRow]
      /\ horizon' \in [Users -> 0..MaxWrites] /\ since' \in [Users -> 0..MaxWrites]
  <2>1. CASE AcceptCreates(u)
    <3>1. grant' \in [GrantIds -> GrantRow]  BY <2>1, CreatesGrant DEF Granted
    <3>2. written \in 0..MaxWrites  BY <1>1 DEF TypeOK
    <3> QED  BY <1>1, <2>1, <3>1, <3>2 DEF AcceptCreates, TypeOK
  <2>2. CASE UNCHANGED <<grant, horizon, since>>  BY <1>1, <2>2 DEF TypeOK
  <2> QED  BY <2>1, <2>2 DEF AcceptLooksUp, AcceptUpdates, AcceptDies, history
<1>8. TypeOK'
  BY <1>1, <1>2, <1>5, <1>6, <1>7 DEF TypeOK, storeVars, syncVars
<1>9. RowInv' /\ FramesInv' /\ CallsInv'
  BY <1>2, <1>5 DEF Shape, RowInv, FramesInv, CallsInv, storeVars, syncVars
<1> QED  BY <1>8, <1>9 DEF Shape

(* The grant of g ends. *)
Ends(g) ==
    /\ grant' \in [GrantIds -> GrantRow] /\ grant'[g].state = "revoked"
    /\ \A h \in GrantIds : h # g => grant'[h] = grant[h]

LEMMA RevokeEnds ==
  ASSUME TypeOK, NEW g \in GrantIds, RevokeUpdates(g)
  PROVE  Ends(g)
<1>1. grant[g] \in GrantRow /\ grant \in [GrantIds -> GrantRow]  BY DEF TypeOK
<1> DEFINE r == [grant[g] EXCEPT !.state = "revoked"]
<1>2. r \in GrantRow /\ r.state = "revoked"  BY <1>1 DEF GrantRow
<1>3. grant' = [grant EXCEPT ![g] = r]  BY <1>1 DEF RevokeUpdates
<1> HIDE DEF r
<1> QED  BY <1>1, <1>2, <1>3 DEF Ends

(* RevokeChecks: the next subscriber is let be, when it has a grant, or is  *)
(* to be told; with none left the revoke is over.                           *)
LEMMA RevokeChecksMoves ==
  ASSUME TypeOK, NEW g \in GrantIds, RevokeChecks(g)
  PROVE  \/ RevokeMoves(g, "idle") /\ revoke[g].left = {}
         \/ \E u \in Users :
              /\ \/ HasActiveGrantFor(u) /\ RevokeMoves(g, "check")
                 \/ RevokeMoves(g, "send") /\ revoke'[g].at = u
              /\ revoke'[g].left = revoke[g].left \ {u}
<1>1. revoke[g] \in RevokeCall /\ revoke[g].left \subseteq Users
  BY DEF TypeOK, RevokeCall
<1>2. CASE revoke[g].left = {} /\ revoke' = [revoke EXCEPT ![g] = NoRevoke]
  <2>1. NoRevoke \in RevokeCall /\ NoRevoke.pc = "idle"  BY DEF NoRevoke, RevokeCall
  <2>2. RevokeMoves(g, NoRevoke.pc)  BY <1>2, <2>1, RevokeBecomes
  <2> QED  BY <1>2, <2>1, <2>2
<1>3. ASSUME NEW u \in revoke[g].left,
             revoke' = [revoke EXCEPT ![g] =
               [pc |-> IF HasActiveGrantFor(u) THEN "check" ELSE "send",
                left |-> revoke[g].left \ {u}, at |-> IF HasActiveGrantFor(u) THEN NoUser ELSE u]]
      PROVE  /\ u \in Users
             /\ \/ HasActiveGrantFor(u) /\ RevokeMoves(g, "check")
                \/ RevokeMoves(g, "send") /\ revoke'[g].at = u
             /\ revoke'[g].left = revoke[g].left \ {u}
  <2> DEFINE r == [pc |-> IF HasActiveGrantFor(u) THEN "check" ELSE "send",
                   left |-> revoke[g].left \ {u}, at |-> IF HasActiveGrantFor(u) THEN NoUser ELSE u]
  <2>1. u \in Users  BY <1>1
  <2>2. r \in RevokeCall  BY <1>1, <2>1 DEF RevokeCall
  <2>3. /\ r.pc = IF HasActiveGrantFor(u) THEN "check" ELSE "send"
        /\ r.left = revoke[g].left \ {u} /\ r.at = IF HasActiveGrantFor(u) THEN NoUser ELSE u
    OBVIOUS
  <2>4. revoke' = [revoke EXCEPT ![g] = r]  BY <1>3
  <2> HIDE DEF r
  <2>5. RevokeMoves(g, r.pc) /\ revoke'[g] = r  BY <2>2, <2>4, RevokeBecomes
  <2>6. CASE HasActiveGrantFor(u)  BY <2>1, <2>3, <2>5, <2>6
  <2>7. CASE ~HasActiveGrantFor(u)  BY <2>1, <2>3, <2>5, <2>7
  <2> QED  BY <2>6, <2>7
<1> QED  BY <1>2, <1>3 DEF RevokeChecks

(* RevokeCollects: the subscribers of this node will be looked at. *)
LEMMA RevokeCollectsMoves ==
  ASSUME TypeOK, NEW g \in GrantIds, RevokeCollects(g)
  PROVE  /\ RevokeMoves(g, "check") /\ revoke'[g].left \subseteq Users
         /\ excused' = excused \cup (Users \ revoke'[g].left)
<1> DEFINE here == {u \in Users \ Remote : Registered(u)}
           r == [pc |-> "check", left |-> here, at |-> NoUser]
<1>1. here \subseteq Users  OBVIOUS
<1> HIDE DEF here
<1>2. r \in RevokeCall /\ r.pc = "check" /\ r.left = here  BY <1>1 DEF RevokeCall
<1>3. revoke' = [revoke EXCEPT ![g] = r] /\ excused' = excused \cup (Users \ here)
  BY DEF RevokeCollects, here
<1> HIDE DEF r
<1>4. RevokeMoves(g, r.pc) /\ revoke'[g] = r  BY <1>2, <1>3, RevokeBecomes
<1> QED  BY <1>1, <1>2, <1>3, <1>4

(* RevokeSends: u is told, and the next one is looked at. *)
LEMMA RevokeSendsMoves ==
  ASSUME TypeOK, NEW g \in GrantIds, RevokeSends(g)
  PROVE  RevokeMoves(g, "check") /\ revoke'[g].left = revoke[g].left
<1>1. revoke[g] \in RevokeCall /\ revoke \in [GrantIds -> RevokeCall]  BY DEF TypeOK
<1> DEFINE r == [revoke[g] EXCEPT !.pc = "check", !.at = NoUser]
<1>2. r \in RevokeCall /\ r.pc = "check" /\ r.left = revoke[g].left  BY <1>1 DEF RevokeCall
<1>3. revoke' = [revoke EXCEPT ![g] = r]  BY <1>1 DEF RevokeSends
<1> HIDE DEF r
<1> QED  BY <1>2, <1>3, RevokeBecomes

LEMMA RevokeShape ==
  ASSUME Shape, NEW g \in GrantIds,
         \/ RevokeUpdates(g) \/ RevokeReads(g) \/ RevokeCollects(g)
         \/ RevokeChecks(g) \/ RevokeSends(g) \/ RevokeDies(g)
  PROVE  Shape'
<1>1. TypeOK  BY DEF Shape
<1>2. UNCHANGED <<storeVars, invite, accept, sub, deferred, horizon, since>>
  BY DEF RevokeUpdates, RevokeReads, RevokeCollects, RevokeChecks, RevokeSends, RevokeDies,
         shareVars, syncVars, history
<1>3. faults' \in 0..MaxFaults
  BY <1>1, SharingLimitAssumption DEF RevokeUpdates, RevokeReads, RevokeCollects, RevokeChecks,
         RevokeSends, RevokeDies, TypeOK
<1>4. /\ \E p \in {"idle", "read", "collect", "check", "send"} : RevokeMoves(g, p)
      /\ revoke'[g].pc = "send" => revoke'[g].at \in Users
  <2>1. CASE RevokeUpdates(g)
    <3>1. RevokeMoves(g, "read")  BY <1>1, <2>1, RevokeGoes DEF RevokeUpdates
    <3> QED  BY <3>1 DEF RevokeMoves
  <2>2. CASE RevokeReads(g)
    <3>1. RevokeMoves(g, IF row = 0 THEN "idle" ELSE "collect")
      BY <1>1, <2>2, RevokeGoes DEF RevokeReads
    <3> QED  BY <3>1 DEF RevokeMoves
  <2>3. CASE RevokeCollects(g)
    <3>1. RevokeMoves(g, "check")  BY <1>1, <2>3, RevokeCollectsMoves
    <3> QED  BY <3>1 DEF RevokeMoves
  <2>4. CASE RevokeChecks(g)
    BY <1>1, <2>4, RevokeChecksMoves DEF RevokeMoves
  <2>5. CASE RevokeSends(g)
    <3>1. RevokeMoves(g, "check")  BY <1>1, <2>5, RevokeSendsMoves
    <3> QED  BY <3>1 DEF RevokeMoves
  <2>6. CASE RevokeDies(g)
    <3>1. NoRevoke \in RevokeCall /\ NoRevoke.pc = "idle"  BY DEF NoRevoke, RevokeCall
    <3>2. RevokeMoves(g, "idle")  BY <1>1, <2>6, <3>1, RevokeBecomes DEF RevokeDies
    <3> QED  BY <3>2 DEF RevokeMoves
  <2> QED  BY <2>1, <2>2, <2>3, <2>4, <2>5, <2>6
<1>5. revoke' \in [GrantIds -> RevokeCall]  BY <1>4 DEF RevokeMoves
<1>6. CallsInv'  BY <1>2, <1>4 DEF Shape, CallsInv, RevokeMoves
<1>7. grant' \in [GrantIds -> GrantRow]
  <2>1. CASE RevokeUpdates(g)  BY <1>1, <2>1, RevokeEnds DEF Ends
  <2>2. CASE UNCHANGED grant  BY <1>1, <2>2 DEF TypeOK
  <2> QED
    BY <2>1, <2>2 DEF RevokeReads, RevokeCollects, RevokeChecks, RevokeSends, RevokeDies, shareVars
<1>8. excused' \subseteq Users /\ replica' \in [Users -> 0..MaxWrites]
      /\ \A u \in Users : replica'[u] \in {0, replica[u]}
  <2>1. CASE RevokeSends(g)
    <3>1. revoke[g].at \in Users  BY <2>1 DEF RevokeSends, Shape, CallsInv
    <3>2. replica' = [replica EXCEPT ![revoke[g].at] = 0]  BY <2>1 DEF RevokeSends
    <3>3. excused' \subseteq Users  BY <1>1, <2>1, <3>1 DEF RevokeSends, TypeOK
    <3> QED  BY <1>1, <3>1, <3>2, <3>3, SharingLimitAssumption DEF TypeOK
  <2>2. CASE UNCHANGED replica /\ excused' \subseteq Users  BY <1>1, <2>2 DEF TypeOK
  <2>3. CASE RevokeCollects(g)
    BY <1>1, <2>2, <2>3, RevokeCollectsMoves DEF RevokeCollects, TypeOK, syncVars
  <2> QED
    BY <1>1, <2>1, <2>2, <2>3 DEF RevokeUpdates, RevokeReads, RevokeChecks, RevokeDies,
       syncVars, history, TypeOK
<1>9. TypeOK'
  BY <1>1, <1>2, <1>3, <1>5, <1>7, <1>8 DEF TypeOK, storeVars
<1>10. RowInv'  BY <1>2 DEF Shape, RowInv, storeVars
<1>11. FramesInv'
  <2>1. 0 <= written /\ 0 \notin deleted  BY <1>1 DEF TypeOK
  <2> QED  BY <1>2, <1>8, <2>1 DEF Shape, FramesInv, storeVars
<1> QED  BY <1>6, <1>9, <1>10, <1>11 DEF Shape

LEMMA ShapeInvariant == Spec => []Shape
<1>1. Init => Shape
  <2> SUFFICES ASSUME Init PROVE Shape
    OBVIOUS
  <2>1. /\ NoGrant \in GrantRow /\ NoAccept \in AcceptCall /\ NoRevoke \in RevokeCall
        /\ NoSub \in Subscription
    BY SharingLimitAssumption
       DEF NoGrant, GrantRow, NoAccept, AcceptCall, NoRevoke, RevokeCall, NoSub, Subscription
  <2>2. NoAccept.pc = "idle" /\ NoRevoke.pc = "idle" /\ NoSub.pc = "none" /\ NoSub.seen = 0
    BY DEF NoAccept, NoRevoke, NoSub
  <2>3. TypeOK  BY <2>1, SharingLimitAssumption DEF Init, TypeOK
  <2>4. RowInv /\ FramesInv /\ CallsInv  BY <2>2 DEF Init, RowInv, FramesInv, CallsInv
  <2> QED  BY <2>3, <2>4 DEF Shape
<1>2. Shape /\ [Next]_vars => Shape'
  <2> SUFFICES ASSUME Shape, [Next]_vars PROVE Shape'
    OBVIOUS
  <2>1. CASE UNCHANGED vars
    BY <2>1 DEF vars, storeVars, shareVars, syncVars, history, Shape, TypeOK, RowInv, FramesInv, CallsInv
  <2> QED
    BY <2>1, OwnerWritesShape, FanOutShape, TaskShape, SubscriptionShape, AcceptShape, RevokeShape
       DEF Next
<1> QED  BY <1>1, <1>2, PTL DEF Spec

-----------------------------------------------------------------------------
(* Who has a grant.                                                        *)

LEMMA SameGrants ==
  ASSUME UNCHANGED grant
  PROVE  \A u \in Users : HasActiveGrantFor(u)' <=> HasActiveGrantFor(u)
BY DEF HasActiveGrantFor

LEMMA EndingGrants ==
  ASSUME NEW g \in GrantIds, Ends(g)
  PROVE  \A u \in Users : HasActiveGrantFor(u)' => HasActiveGrantFor(u)
BY DEF Ends, HasActiveGrantFor

LEMMA NewGrants ==
  ASSUME NEW u \in Users, Granted(u)
  PROVE  /\ \A w \in Users : w # u => (HasActiveGrantFor(w)' <=> HasActiveGrantFor(w))
         /\ HasActiveGrantFor(u)'
<1>1. PICK g \in GrantIds :
        /\ grant[g].state = "none"
        /\ grant'[g].state = "active" /\ grant'[g].to = u
        /\ \A h \in GrantIds : h # g => grant'[h] = grant[h]
  BY DEF Granted
<1> QED  BY <1>1 DEF HasActiveGrantFor

-----------------------------------------------------------------------------
(* Nothing that was written after the last grant ended.                    *)

ReadInv == HorizonInv /\ NothingAfterRevoke

(* A step that writes nothing and grants nothing, and checks or delivers    *)
(* only what may be read.                                                   *)
LEMMA ReadKeeps ==
  ASSUME Shape, ReadInv, UNCHANGED <<written, horizon>>,
         \A u \in Users : HasActiveGrantFor(u)' => HasActiveGrantFor(u),
         \A e \in deferred' : e.pc = "send" => e.v <= horizon[e.u],
         \A u \in Users : sub'[u].pc = "send" => sub'[u].seen <= horizon[u],
         \A u \in Users : replica'[u] <= horizon[u]
  PROVE  ReadInv'
<1>1. \A u \in Users : HasActiveGrantFor(u)' => horizon[u] = written
  BY DEF ReadInv, HorizonInv
<1>2. HorizonInv'  BY <1>1 DEF ReadInv, HorizonInv
<1>3. NothingAfterRevoke'  BY DEF NothingAfterRevoke
<1> QED  BY <1>2, <1>3 DEF ReadInv

LEMMA ReadStep ==
  ASSUME Shape, ReadInv, [Next]_vars
  PROVE  ReadInv'
<1>1. /\ TypeOK /\ written \in Nat
      /\ \A u \in Users : horizon[u] \in Nat /\ horizon[u] <= written
      /\ \A u \in Users : HasActiveGrantFor(u) => horizon[u] = written
      /\ \A d \in deferred : d.pc = "send" => d.v <= horizon[d.u]
      /\ \A u \in Users : sub[u].pc = "send" => sub[u].seen <= horizon[u]
      /\ \A u \in Users : replica[u] <= horizon[u]
  BY DEF Shape, TypeOK, ReadInv, HorizonInv, NothingAfterRevoke
<1>2. /\ \A d \in deferred : d \in Frame /\ d.v \in Nat /\ d.u \in Users /\ d.v <= written
      /\ \A u \in Users : sub[u].seen \in Nat /\ sub[u].seen <= written /\ replica[u] \in Nat
  BY <1>1 DEF Shape, TypeOK, FramesInv, Frame, Subscription
<1>3. ASSUME NEW del \in BOOLEAN, OwnerWrites(del) PROVE ReadInv'
  <2>1. /\ written' = written + 1 /\ UNCHANGED <<grant, sub, deferred, replica>>
        /\ \A u \in Users : horizon'[u] = IF HasActiveGrantFor(u) THEN written + 1 ELSE horizon[u]
    BY <1>3 DEF OwnerWrites, shareVars, syncVars, HasActiveGrantFor
  <2>2. \A u \in Users : HasActiveGrantFor(u)' <=> HasActiveGrantFor(u)  BY <2>1, SameGrants
  <2>3. \A u \in Users : horizon[u] <= horizon'[u]  BY <1>1, <2>1
  <2>4. \A u \in Users : horizon'[u] \in Nat  BY <1>1, <2>1
  <2>5. \A d \in deferred : d.pc = "send" => d.v <= horizon'[d.u]
    BY <1>1, <1>2, <2>3, <2>4
  <2>6. \A u \in Users : /\ sub[u].pc = "send" => sub[u].seen <= horizon'[u]
                         /\ replica[u] <= horizon'[u]
    BY <1>1, <1>2, <2>3, <2>4
  <2>7. \A u \in Users : /\ horizon'[u] <= written'
                         /\ HasActiveGrantFor(u)' => horizon'[u] = written'
    BY <1>1, <2>1, <2>2
  <2>8. HorizonInv'  BY <2>1, <2>5, <2>6, <2>7 DEF HorizonInv
  <2>9. NothingAfterRevoke'  BY <2>1, <2>6 DEF NothingAfterRevoke
  <2> QED  BY <2>8, <2>9 DEF ReadInv
<1>4. ASSUME NEW v \in due, FanOutObjectUpsert(v) PROVE ReadInv'
  <2>1. /\ UNCHANGED <<written, horizon, grant, sub, replica>>
        /\ \A e \in deferred' : e \in deferred \/ e.pc = "probe"
    BY <1>4 DEF FanOutObjectUpsert, shareVars, history
  <2>2. \A u \in Users : HasActiveGrantFor(u)' => HasActiveGrantFor(u)  BY <2>1, SameGrants
  <2> QED  BY <1>1, <2>1, <2>2, ReadKeeps
<1>5. ASSUME NEW v \in due, FanOutObjectDelete(v) PROVE ReadInv'
  <2>1. /\ UNCHANGED <<written, horizon, grant, sub, deferred>>
        /\ \A u \in Users : replica'[u] \in {0, replica[u]}
    BY <1>5 DEF FanOutObjectDelete, shareVars
  <2>2. \A u \in Users : HasActiveGrantFor(u)' => HasActiveGrantFor(u)  BY <2>1, SameGrants
  <2>3. \A u \in Users : replica'[u] <= horizon[u]  BY <1>1, <2>1
  <2> QED  BY <1>1, <2>1, <2>2, <2>3, ReadKeeps
<1>6. ASSUME NEW d \in deferred, TaskProbes(d) \/ TaskChecks(d) PROVE ReadInv'
  <2>1. UNCHANGED <<written, horizon, grant, sub, replica>>
    BY <1>1, <1>6, TaskSteps DEF storeVars, shareVars, history
  <2>2. \A u \in Users : HasActiveGrantFor(u)' => HasActiveGrantFor(u)  BY <2>1, SameGrants
  <2>3. \A e \in deferred' : e.pc = "send" => e.v <= horizon[e.u]
    <3>1. CASE FrameMoves(d, "check")  BY <1>1, <3>1 DEF FrameMoves
    <3>2. CASE deferred' \subseteq deferred  BY <1>1, <3>2
    <3>3. CASE FrameMoves(d, "send") /\ HasActiveGrantFor(d.u)
      <4>1. d.v <= horizon[d.u]  BY <1>1, <1>2, <3>3
      <4> QED  BY <1>1, <3>3, <4>1 DEF FrameMoves
    <3> QED  BY <1>1, <1>6, <3>1, <3>2, <3>3, TaskSteps
  <2> QED  BY <1>1, <2>1, <2>2, <2>3, ReadKeeps
<1>7. ASSUME NEW d \in deferred, TaskSends(d) PROVE ReadInv'
  <2>1. /\ UNCHANGED <<written, horizon, grant, sub>> /\ deferred' \subseteq deferred
        /\ replica' = [replica EXCEPT ![d.u] = d.v] /\ d.pc = "send"
    BY <1>7 DEF TaskSends, storeVars, shareVars, history
  <2>2. \A u \in Users : HasActiveGrantFor(u)' => HasActiveGrantFor(u)  BY <2>1, SameGrants
  <2>3. \A u \in Users : replica'[u] <= horizon[u]  BY <1>1, <1>2, <2>1 DEF TypeOK
  <2> QED  BY <1>1, <2>1, <2>2, <2>3, ReadKeeps
<1>8. ASSUME NEW u \in Users, Subscribe(u) \/ SnapshotLists(u) \/ SnapshotProbes(u) PROVE ReadInv'
  <2>1. UNCHANGED <<written, horizon, grant, deferred, replica>>
    BY <1>8 DEF Subscribe, SnapshotLists, SnapshotProbes, storeVars, shareVars, history
  <2>2. \A w \in Users : HasActiveGrantFor(w)' => HasActiveGrantFor(w)  BY <2>1, SameGrants
  <2>3. \A w \in Users : sub'[w].pc # "send" \/ sub'[w] = sub[w]
    BY <1>1, <1>8 DEF Subscribe, SnapshotLists, SnapshotProbes, SubGoes, TypeOK, Subscription
  <2> QED  BY <1>1, <2>1, <2>2, <2>3, ReadKeeps
<1>9. ASSUME NEW u \in Users, SnapshotChecks(u) PROVE ReadInv'
  <2>1. UNCHANGED <<written, horizon, grant, deferred, replica>>
    BY <1>9 DEF SnapshotChecks, storeVars, shareVars, history
  <2>2. \A w \in Users : HasActiveGrantFor(w)' => HasActiveGrantFor(w)  BY <2>1, SameGrants
  <2>3. SubMoves(u, IF HasActiveGrantFor(u) THEN "send" ELSE "live", sub[u].seen)
    BY <1>1, <1>9, SubGoesMoves DEF SnapshotChecks
  <2>4. \A w \in Users : sub'[w].pc = "send" => sub'[w].seen <= horizon[w]
    BY <1>1, <1>2, <2>3 DEF SubMoves
  <2> QED  BY <1>1, <2>1, <2>2, <2>4, ReadKeeps
<1>10. ASSUME NEW u \in Users, SnapshotSends(u) PROVE ReadInv'
  <2>1. /\ UNCHANGED <<written, horizon, grant, deferred>> /\ sub[u].pc = "send"
        /\ replica' = [replica EXCEPT ![u] = sub[u].seen]
    BY <1>10 DEF SnapshotSends, storeVars, shareVars, history
  <2>2. \A w \in Users : HasActiveGrantFor(w)' => HasActiveGrantFor(w)  BY <2>1, SameGrants
  <2>3. SubMoves(u, "live", sub[u].seen)  BY <1>1, <1>10, SubGoesMoves DEF SnapshotSends
  <2>4. \A w \in Users : sub'[w].pc = "send" => sub'[w].seen <= horizon[w]
    BY <1>1, <2>3 DEF SubMoves
  <2>5. \A w \in Users : replica'[w] <= horizon[w]  BY <1>1, <2>1 DEF TypeOK
  <2> QED  BY <1>1, <2>1, <2>2, <2>4, <2>5, ReadKeeps
<1>11. ASSUME NEW u \in Users, Disconnect(u) PROVE ReadInv'
  <2>1. /\ UNCHANGED <<written, horizon, grant, replica>> /\ sub' = [sub EXCEPT ![u] = NoSub]
        /\ deferred' \subseteq deferred
    BY <1>11 DEF Disconnect, storeVars, shareVars
  <2>2. \A w \in Users : HasActiveGrantFor(w)' => HasActiveGrantFor(w)  BY <2>1, SameGrants
  <2>3. NoSub.pc = "none"  BY DEF NoSub
  <2>4. \A w \in Users : sub'[w].pc = "send" => sub'[w].seen <= horizon[w]
    BY <1>1, <2>1, <2>3 DEF TypeOK
  <2> QED  BY <1>1, <2>1, <2>2, <2>4, ReadKeeps
<1>12. ASSUME NEW u \in Users \cup {Owner},
              (\E i \in Invites : AcceptLooksUp(u, i)) \/ AcceptUpdates(u) \/ AcceptDies(u)
       PROVE  ReadInv'
  <2>1. UNCHANGED <<written, horizon, grant, sub, deferred, replica>>
    BY <1>12 DEF AcceptLooksUp, AcceptUpdates, AcceptDies, storeVars, syncVars, history
  <2>2. \A w \in Users : HasActiveGrantFor(w)' => HasActiveGrantFor(w)  BY <2>1, SameGrants
  <2> QED  BY <1>1, <2>1, <2>2, ReadKeeps
<1>13. ASSUME NEW u \in Users \cup {Owner}, AcceptCreates(u) PROVE ReadInv'
  <2>1. u \in Users /\ Granted(u)  BY <1>13, CreatesGrant
  <2>2. /\ UNCHANGED <<written, sub, deferred, replica>>
        /\ \A w \in Users : horizon'[w] = IF w = u THEN written ELSE horizon[w]
    BY <1>13 DEF AcceptCreates, storeVars, syncVars
  <2>3. \A w \in Users : w # u => (HasActiveGrantFor(w)' <=> HasActiveGrantFor(w))
    BY <2>1, NewGrants
  <2>4. \A w \in Users : horizon'[w] \in Nat /\ horizon[w] <= horizon'[w]  BY <1>1, <2>2
  <2>5. \A d \in deferred : d.pc = "send" => d.v <= horizon'[d.u]
    BY <1>1, <1>2, <2>4
  <2>6. \A w \in Users : /\ sub[w].pc = "send" => sub[w].seen <= horizon'[w]
                         /\ replica[w] <= horizon'[w]
    BY <1>1, <1>2, <2>4
  <2>7. \A w \in Users : /\ horizon'[w] <= written'
                         /\ HasActiveGrantFor(w)' => horizon'[w] = written'
    BY <1>1, <2>2, <2>3
  <2>8. HorizonInv'  BY <2>2, <2>5, <2>6, <2>7 DEF HorizonInv
  <2>9. NothingAfterRevoke'  BY <2>2, <2>6 DEF NothingAfterRevoke
  <2> QED  BY <2>8, <2>9 DEF ReadInv
<1>14. ASSUME NEW g \in GrantIds, RevokeUpdates(g) PROVE ReadInv'
  <2>1. UNCHANGED <<written, horizon, sub, deferred, replica>>
    BY <1>14 DEF RevokeUpdates, storeVars, syncVars, history
  <2>2. \A w \in Users : HasActiveGrantFor(w)' => HasActiveGrantFor(w)
    BY <1>1, <1>14, RevokeEnds, EndingGrants
  <2> QED  BY <1>1, <2>1, <2>2, ReadKeeps
<1>15. ASSUME NEW g \in GrantIds,
              \/ RevokeReads(g) \/ RevokeCollects(g) \/ RevokeChecks(g)
              \/ RevokeSends(g) \/ RevokeDies(g)
       PROVE  ReadInv'
  <2>1. UNCHANGED <<written, horizon, grant, sub, deferred>>
    BY <1>15 DEF RevokeReads, RevokeCollects, RevokeChecks, RevokeSends, RevokeDies,
                 storeVars, shareVars, syncVars, history
  <2>2. \A w \in Users : HasActiveGrantFor(w)' => HasActiveGrantFor(w)  BY <2>1, SameGrants
  <2>3. \A w \in Users : replica'[w] \in {0, replica[w]}
    BY <1>1, <1>15 DEF RevokeReads, RevokeCollects, RevokeChecks, RevokeSends, RevokeDies,
                       syncVars, TypeOK
  <2>4. \A w \in Users : replica'[w] <= horizon[w]  BY <1>1, <2>3
  <2> QED  BY <1>1, <2>1, <2>2, <2>4, ReadKeeps
<1>16. CASE UNCHANGED vars
  <2>1. UNCHANGED <<written, horizon, grant, sub, deferred, replica>>
    BY <1>16 DEF vars, storeVars, shareVars, syncVars, history
  <2>2. \A w \in Users : HasActiveGrantFor(w)' => HasActiveGrantFor(w)  BY <2>1, SameGrants
  <2> QED  BY <1>1, <2>1, <2>2, ReadKeeps
<1> QED
  BY <1>3, <1>4, <1>5, <1>6, <1>7, <1>8, <1>9, <1>10, <1>11, <1>12, <1>13, <1>14, <1>15, <1>16
     DEF Next

(* NothingAfterRevoke: the tasks of fan_out_object_upsert and the snapshots *)
(* of handle_subscribe look at the grants after the version they carry was  *)
(* written, so no subscriber gets one written after its last grant ended.   *)
THEOREM RevokedSeesNothingNew == Spec => []NothingAfterRevoke
<1>1. Init => ReadInv
  <2>1. NoSub.pc = "none" /\ NoGrant.state = "none"  BY DEF NoSub, NoGrant
  <2> QED  BY <2>1 DEF Init, ReadInv, HorizonInv, NothingAfterRevoke, HasActiveGrantFor
<1>2. Shape /\ ReadInv /\ [Next]_vars => ReadInv'  BY ReadStep
<1>3. ReadInv => NothingAfterRevoke  BY DEF ReadInv
<1> QED  BY <1>1, <1>2, <1>3, ShapeInvariant, PTL DEF Spec

-----------------------------------------------------------------------------
(* What was deleted, or may no longer be read, is on its way out.          *)

DropInv == DeletedInv /\ RevokedInv

(* No tombstone that is due is lost. *)
KeepsTombstones ==
    deleted' = deleted /\ due \cap deleted \subseteq due' /\ excused \subseteq excused'

(* Nothing but the row is newly on its way. *)
QuietPending == \A u \in Users \ excused' : \A v \in 0..MaxWrites :
    PendingFor(u, v)' => PendingFor(u, v) \/ v = row

(* Nothing is newly checked but for a user with a grant. *)
QuietChecked == \A u \in Users \ excused' : \A v \in 0..MaxWrites :
    CheckedFor(u, v)' => CheckedFor(u, v) \/ HasActiveGrantFor(u)'

(* Who had a grant has one still, or is told. *)
KeepsRemovals == \A u \in Users \ excused' :
    HasActiveGrantFor(u) \/ WillHear(u) => HasActiveGrantFor(u)' \/ WillHear(u)'

LEMMA TombstoneStays ==
  ASSUME KeepsTombstones, NEW v \in 0..MaxWrites, TombstoneDue(v)
  PROVE  TombstoneDue(v)'
BY DEF KeepsTombstones, TombstoneDue

LEMMA DeletedKeeps ==
  ASSUME Shape, DeletedInv, KeepsTombstones, QuietPending
  PROVE  DeletedInv'
<1> SUFFICES ASSUME NEW u \in Users \ excused', NEW v \in 0..MaxWrites,
                    PendingFor(u, v)', NEW x \in deleted', x > v
             PROVE  TombstoneDue(v)'
  BY DEF DeletedInv
<1>1. u \in Users \ excused /\ x \in deleted  BY DEF KeepsTombstones
<1>2. CASE PendingFor(u, v)
  <2>1. TombstoneDue(v)  BY <1>1, <1>2 DEF DeletedInv
  <2> QED  BY <2>1, TombstoneStays
<1>3. CASE v = row
  <2>1. v # 0  BY DEF PendingFor
  <2>2. v = written /\ x \in 1..written /\ written \in Nat
    BY <1>1, <1>3, <2>1 DEF Shape, RowInv, TypeOK
  <2> QED  BY <2>2
<1> QED  BY <1>2, <1>3 DEF QuietPending

LEMMA RevokedKeeps ==
  ASSUME RevokedInv, KeepsTombstones, QuietChecked, KeepsRemovals
  PROVE  RevokedInv'
<1> SUFFICES ASSUME NEW u \in Users \ excused', NEW v \in 0..MaxWrites, CheckedFor(u, v)',
                    ~HasActiveGrantFor(u)', ~WillHear(u)'
             PROVE  TombstoneDue(v)'
  BY DEF RevokedInv
<1>1. u \in Users \ excused  BY DEF KeepsTombstones
<1>2. CheckedFor(u, v)  BY DEF QuietChecked
<1>3. TombstoneDue(v)  BY <1>1, <1>2 DEF RevokedInv, KeepsRemovals
<1> QED  BY <1>3, TombstoneStays

(* A step that leaves the replicas and what is on its way alone. *)
LEMMA NothingMoves ==
  ASSUME UNCHANGED <<storeVars, sub, deferred, replica>>, excused \subseteq excused'
  PROVE  KeepsTombstones /\ QuietPending /\ QuietChecked
<1>1. KeepsTombstones  BY DEF KeepsTombstones, storeVars
<1>2. QuietPending  BY DEF QuietPending, PendingFor, storeVars
<1>3. QuietChecked  BY DEF QuietChecked, CheckedFor
<1> QED  BY <1>1, <1>2, <1>3

LEMMA RemovalsStay ==
  ASSUME UNCHANGED <<grant, revoke>>
  PROVE  KeepsRemovals
<1>1. \A u \in Users : HasActiveGrantFor(u)' <=> HasActiveGrantFor(u)  BY SameGrants
<1>2. \A u \in Users : WillHear(u)' <=> WillHear(u)  BY DEF WillHear
<1> QED  BY <1>1, <1>2 DEF KeepsRemovals

LEMMA OwnerWritesDrop ==
  ASSUME Shape, DropInv, NEW del \in BOOLEAN, OwnerWrites(del)
  PROVE  DropInv'
<1>1. /\ written \in Nat /\ deleted \subseteq 1..written /\ due \subseteq 1..written
      /\ UNCHANGED <<grant, revoke, sub, deferred, replica, excused>>
  BY DEF Shape, TypeOK, OwnerWrites, shareVars, syncVars
<1>2. /\ due' = due \cup {written + 1}
      /\ deleted' = IF del THEN deleted \cup {written + 1} ELSE deleted
  BY DEF OwnerWrites
<1>3. \A v \in 0..MaxWrites : TombstoneDue(v) => TombstoneDue(v)'
  BY <1>2 DEF TombstoneDue
<1>4. DeletedInv'
  <2> SUFFICES ASSUME NEW u \in Users \ excused', NEW v \in 0..MaxWrites,
                      PendingFor(u, v)', NEW x \in deleted', x > v
               PROVE  TombstoneDue(v)'
    BY DEF DeletedInv
  <2>1. CASE x \in deleted
    <3>1. v \in Nat /\ v <= written  BY <1>1, <2>1
    <3>2. PendingFor(u, v)  BY <1>1, <1>2, <3>1 DEF PendingFor
    <3> QED  BY <1>1, <1>3, <2>1, <3>2 DEF DropInv, DeletedInv
  <2>2. CASE x = written + 1 /\ del
    <3>1. x \in due' \cap deleted'  BY <1>2, <2>2
    <3> QED  BY <3>1 DEF TombstoneDue
  <2> QED  BY <1>2, <2>1, <2>2
<1>5. RevokedInv'
  <2>1. \A u \in Users : HasActiveGrantFor(u)' <=> HasActiveGrantFor(u)  BY <1>1, SameGrants
  <2>2. \A u \in Users : WillHear(u)' <=> WillHear(u)  BY <1>1 DEF WillHear
  <2>3. \A u \in Users, v \in 0..MaxWrites : CheckedFor(u, v)' <=> CheckedFor(u, v)
    BY <1>1 DEF CheckedFor
  <2> QED  BY <1>1, <1>3, <2>1, <2>2, <2>3 DEF DropInv, RevokedInv
<1> QED  BY <1>4, <1>5 DEF DropInv

LEMMA FanOutUpsertDrop ==
  ASSUME Shape, DropInv, NEW v \in due, FanOutObjectUpsert(v)
  PROVE  DropInv'
<1>1. /\ v \notin deleted /\ due' = due \ {v}
      /\ UNCHANGED <<row, written, deleted, grant, revoke, sub, replica, excused>>
      /\ \A e \in deferred' : e \in deferred \/ (e.v = v /\ e.pc = "probe")
  BY DEF FanOutObjectUpsert, shareVars, history
<1>2. KeepsTombstones  BY <1>1 DEF KeepsTombstones
<1>3. QuietPending  BY <1>1 DEF QuietPending, PendingFor
<1>4. QuietChecked  BY <1>1 DEF QuietChecked, CheckedFor
<1> QED  BY <1>1, <1>2, <1>3, <1>4, RemovalsStay, DeletedKeeps, RevokedKeeps DEF DropInv

(* The tombstone of v is sent: a subscriber to whom something older is      *)
(* still on its way is excused, and what is newer waits for its own.        *)
LEMMA FanOutDeleteDrop ==
  ASSUME Shape, DropInv, NEW v \in due, FanOutObjectDelete(v)
  PROVE  DropInv'
<1>1. /\ v \in deleted /\ due' = due \ {v}
      /\ UNCHANGED <<row, written, deleted, grant, revoke, sub, deferred>>
      /\ replica' = [u \in Users |-> IF Registered(u) THEN 0 ELSE replica[u]]
      /\ excused' = excused \cup {u \in Users : ~Registered(u) \/ OlderPending(u, v) \/ row > v}
  BY DEF FanOutObjectDelete, shareVars
<1>2. /\ \A d \in deferred : d.v \in Nat /\ d.v # v
      /\ \A u \in Users : sub[u].seen \in Nat /\ sub[u].seen # v
      /\ v \in Nat /\ due \subseteq Nat
  BY <1>1 DEF Shape, TypeOK, FramesInv, Frame, Subscription
<1>3. ASSUME NEW u \in Users \ excused', NEW w \in 0..MaxWrites, PendingFor(u, w)'
      PROVE  PendingFor(u, w) /\ w > v
  <2>1. u \notin excused /\ Registered(u) /\ ~OlderPending(u, v)  BY <1>1
  <2>2. replica'[u] = 0 /\ w # 0 /\ w \in Nat  BY <1>1, <1>3, <2>1 DEF PendingFor
  <2>3. CASE w \in due' \ deleted'
    BY <1>1, <1>2, <2>1, <2>2, <2>3 DEF OlderPending, PendingFor
  <2>4. CASE \E d \in deferred' : d.u = u /\ d.v = w
    BY <1>1, <1>2, <2>1, <2>2, <2>4 DEF OlderPending, PendingFor
  <2>5. CASE sub'[u].pc \in {"probe", "check", "send"} /\ sub'[u].seen = w
    <3>1. w >= v
      BY <1>1, <1>2, <2>1, <2>2, <2>5 DEF OlderPending
    <3> QED  BY <1>1, <1>2, <2>2, <2>5, <3>1 DEF PendingFor
  <2> QED  BY <1>3, <2>2, <2>3, <2>4, <2>5 DEF PendingFor
<1>4. ASSUME NEW w \in 0..MaxWrites, w > v, TombstoneDue(w) PROVE TombstoneDue(w)'
  BY <1>1, <1>2, <1>4 DEF TombstoneDue
<1>5. DeletedInv'
  <2> SUFFICES ASSUME NEW u \in Users \ excused', NEW w \in 0..MaxWrites,
                      PendingFor(u, w)', NEW x \in deleted', x > w
               PROVE  TombstoneDue(w)'
    BY DEF DeletedInv
  <2>1. PendingFor(u, w) /\ w > v  BY <1>3
  <2>2. TombstoneDue(w)  BY <1>1, <2>1 DEF DropInv, DeletedInv
  <2> QED  BY <1>4, <2>1, <2>2
<1>6. RevokedInv'
  <2> SUFFICES ASSUME NEW u \in Users \ excused', NEW w \in 0..MaxWrites, CheckedFor(u, w)',
                      ~HasActiveGrantFor(u)', ~WillHear(u)'
               PROVE  TombstoneDue(w)'
    BY DEF RevokedInv
  <2>1. PendingFor(u, w)'  BY DEF CheckedFor, PendingFor
  <2>2. w > v  BY <1>3, <2>1
  <2>3. u \in Users \ excused /\ replica'[u] = 0  BY <1>1
  <2>4. CheckedFor(u, w)  BY <1>1, <2>3 DEF CheckedFor
  <2>5. ~HasActiveGrantFor(u) /\ ~WillHear(u)  BY <1>1, SameGrants DEF WillHear
  <2>6. TombstoneDue(w)  BY <2>3, <2>4, <2>5 DEF DropInv, RevokedInv
  <2> QED  BY <1>4, <2>2, <2>6
<1> QED  BY <1>5, <1>6 DEF DropInv

LEMMA TaskDrop ==
  ASSUME Shape, DropInv, NEW d \in deferred, TaskProbes(d) \/ TaskChecks(d) \/ TaskSends(d)
  PROVE  DropInv'
<1>1. TypeOK  BY DEF Shape
<1>2. CASE TaskProbes(d) \/ TaskChecks(d)
  <2>1. UNCHANGED <<row, due, deleted, grant, revoke, sub, replica, excused>>
    BY <1>1, <1>2, TaskSteps DEF storeVars, shareVars, history
  <2>2. KeepsTombstones  BY <2>1 DEF KeepsTombstones
  <2>3. \A e \in deferred' : e \in deferred \/ (e.u = d.u /\ e.v = d.v)
    BY <1>1, <1>2, TaskSteps DEF FrameMoves
  <2>4. QuietPending  BY <2>1, <2>3 DEF QuietPending, PendingFor
  <2>5. \A e \in deferred' : e \in deferred \/ e.pc = "check" \/ HasActiveGrantFor(e.u)
    <3>1. CASE FrameMoves(d, "check")  BY <3>1 DEF FrameMoves
    <3>2. CASE deferred' \subseteq deferred  BY <3>2
    <3>3. CASE FrameMoves(d, "send") /\ HasActiveGrantFor(d.u)  BY <3>3 DEF FrameMoves
    <3> QED  BY <1>1, <1>2, <3>1, <3>2, <3>3, TaskSteps
  <2>6. \A u \in Users : HasActiveGrantFor(u)' <=> HasActiveGrantFor(u)  BY <2>1, SameGrants
  <2>7. QuietChecked  BY <2>1, <2>5, <2>6 DEF QuietChecked, CheckedFor
  <2> QED  BY <2>1, <2>2, <2>4, <2>7, RemovalsStay, DeletedKeeps, RevokedKeeps DEF DropInv
<1>3. CASE TaskSends(d)
  <2>1. /\ UNCHANGED <<row, due, deleted, grant, revoke, sub, excused>>
        /\ deferred' \subseteq deferred /\ replica' = [replica EXCEPT ![d.u] = d.v] /\ d.pc = "send"
    BY <1>3 DEF TaskSends, storeVars, shareVars, history
  <2>2. KeepsTombstones  BY <2>1 DEF KeepsTombstones
  <2>3. \A u \in Users : replica'[u] = IF u = d.u THEN d.v ELSE replica[u]
    BY <1>1, <2>1 DEF TypeOK
  <2>4. QuietPending  BY <2>1, <2>3 DEF QuietPending, PendingFor
  <2>5. QuietChecked  BY <2>1, <2>3 DEF QuietChecked, CheckedFor
  <2> QED  BY <2>1, <2>2, <2>4, <2>5, RemovalsStay, DeletedKeeps, RevokedKeeps DEF DropInv
<1> QED  BY <1>2, <1>3

LEMMA SubscriptionDrop ==
  ASSUME Shape, DropInv, NEW u \in Users,
         \/ Subscribe(u) \/ SnapshotLists(u) \/ SnapshotProbes(u)
         \/ SnapshotChecks(u) \/ SnapshotSends(u)
  PROVE  DropInv'
<1>1. TypeOK /\ UNCHANGED <<storeVars, grant, revoke, deferred, excused>>
  BY DEF Shape, Subscribe, SnapshotLists, SnapshotProbes, SnapshotChecks, SnapshotSends,
         shareVars, history
<1>2. KeepsTombstones  BY <1>1 DEF KeepsTombstones, storeVars
<1>3. \A w \in Users : HasActiveGrantFor(w)' <=> HasActiveGrantFor(w)  BY <1>1, SameGrants
<1>4. QuietPending /\ QuietChecked
  <2>1. CASE Subscribe(u)
    <3>1. SubMoves(u, "list", sub[u].seen) /\ UNCHANGED replica
      BY <1>1, <2>1, SubGoesMoves DEF Subscribe
    <3>2. QuietPending  BY <1>1, <3>1 DEF QuietPending, PendingFor, SubMoves, storeVars
    <3>3. QuietChecked  BY <1>1, <3>1 DEF QuietChecked, CheckedFor, SubMoves
    <3> QED  BY <3>2, <3>3
  <2>2. CASE SnapshotLists(u)
    <3>1. row \in 0..MaxWrites
      BY <1>1, SharingLimitAssumption DEF TypeOK
    <3>2. [pc |-> "probe", seen |-> row] \in Subscription  BY <3>1 DEF Subscription
    <3>3. SubMoves(u, "probe", row) /\ UNCHANGED replica
      BY <1>1, <2>2, <3>2 DEF SnapshotLists, SubMoves, TypeOK
    <3>4. QuietPending  BY <1>1, <3>3 DEF QuietPending, PendingFor, SubMoves, storeVars
    <3>5. QuietChecked  BY <1>1, <3>3 DEF QuietChecked, CheckedFor, SubMoves
    <3> QED  BY <3>4, <3>5
  <2>3. CASE SnapshotProbes(u)
    <3>1. PICK p \in {"check", "live"} : SubMoves(u, p, sub[u].seen)
      BY <1>1, <2>3, SubGoesMoves DEF SnapshotProbes
    <3>2. sub[u].pc = "probe" /\ UNCHANGED replica  BY <2>3 DEF SnapshotProbes
    <3>3. QuietPending  BY <1>1, <3>1, <3>2 DEF QuietPending, PendingFor, SubMoves, storeVars
    <3>4. QuietChecked  BY <1>1, <3>1, <3>2 DEF QuietChecked, CheckedFor, SubMoves
    <3> QED  BY <3>3, <3>4
  <2>4. CASE SnapshotChecks(u)
    <3>1. SubMoves(u, IF HasActiveGrantFor(u) THEN "send" ELSE "live", sub[u].seen)
      BY <1>1, <2>4, SubGoesMoves DEF SnapshotChecks
    <3>2. sub[u].pc = "check" /\ UNCHANGED replica  BY <2>4 DEF SnapshotChecks
    <3>3. QuietPending  BY <1>1, <3>1, <3>2 DEF QuietPending, PendingFor, SubMoves, storeVars
    <3>4. QuietChecked  BY <1>1, <1>3, <3>1, <3>2 DEF QuietChecked, CheckedFor, SubMoves
    <3> QED  BY <3>3, <3>4
  <2>5. CASE SnapshotSends(u)
    <3>1. SubMoves(u, "live", sub[u].seen)  BY <1>1, <2>5, SubGoesMoves DEF SnapshotSends
    <3>2. sub[u].pc = "send" /\ replica' = [replica EXCEPT ![u] = sub[u].seen]
      BY <2>5 DEF SnapshotSends
    <3>3. \A w \in Users : replica'[w] = IF w = u THEN sub[u].seen ELSE replica[w]
      BY <1>1, <3>2 DEF TypeOK
    <3>4. QuietPending  BY <1>1, <3>1, <3>2, <3>3 DEF QuietPending, PendingFor, SubMoves, storeVars
    <3>5. QuietChecked  BY <1>1, <3>1, <3>2, <3>3 DEF QuietChecked, CheckedFor, SubMoves
    <3> QED  BY <3>4, <3>5
  <2> QED  BY <2>1, <2>2, <2>3, <2>4, <2>5
<1> QED  BY <1>1, <1>2, <1>4, RemovalsStay, DeletedKeeps, RevokedKeeps DEF DropInv

LEMMA DisconnectDrop ==
  ASSUME Shape, DropInv, NEW u \in Users, Disconnect(u)
  PROVE  DropInv'
<1>1. TypeOK  BY DEF Shape
<1>2. /\ UNCHANGED <<storeVars, grant, replica>> /\ deferred' \subseteq deferred
      /\ excused' = excused \cup {u} /\ sub' = [sub EXCEPT ![u] = NoSub]
  BY DEF Disconnect, shareVars
<1>3. \A w \in Users \ excused' : w # u /\ sub'[w] = sub[w]  BY <1>1, <1>2 DEF TypeOK
<1>4. KeepsTombstones  BY <1>2 DEF KeepsTombstones, storeVars
<1>5. QuietPending  BY <1>2, <1>3 DEF QuietPending, PendingFor, storeVars
<1>6. QuietChecked  BY <1>2, <1>3 DEF QuietChecked, CheckedFor
<1>7. Forgets(u)  BY <1>1, DisconnectForgets
<1>8. \A w \in Users \ excused' : WillHear(w) => WillHear(w)'
  BY <1>3, <1>7 DEF WillHear, Forgets
<1>9. \A w \in Users : HasActiveGrantFor(w)' <=> HasActiveGrantFor(w)  BY <1>2, SameGrants
<1>10. KeepsRemovals  BY <1>8, <1>9 DEF KeepsRemovals
<1> QED  BY <1>4, <1>5, <1>6, <1>10, DeletedKeeps, RevokedKeeps DEF DropInv

LEMMA AcceptDrop ==
  ASSUME Shape, DropInv, NEW u \in Users \cup {Owner},
         \/ \E i \in Invites : AcceptLooksUp(u, i)
         \/ AcceptUpdates(u) \/ AcceptCreates(u) \/ AcceptDies(u)
  PROVE  DropInv'
<1>1. UNCHANGED <<storeVars, sub, deferred, replica, revoke, excused>>
  BY DEF AcceptLooksUp, AcceptUpdates, AcceptCreates, AcceptDies, syncVars, history
<1>2. KeepsTombstones /\ QuietPending /\ QuietChecked  BY <1>1, NothingMoves
<1>3. \A w \in Users : HasActiveGrantFor(w) => HasActiveGrantFor(w)'
  <2>1. CASE AcceptCreates(u)  BY <2>1, CreatesGrant, NewGrants
  <2>2. CASE UNCHANGED grant  BY <2>2, SameGrants
  <2> QED  BY <2>1, <2>2 DEF AcceptLooksUp, AcceptUpdates, AcceptDies
<1>4. \A w \in Users : WillHear(w)' <=> WillHear(w)  BY <1>1 DEF WillHear
<1>5. KeepsRemovals  BY <1>3, <1>4 DEF KeepsRemovals
<1> QED  BY <1>2, <1>5, DeletedKeeps, RevokedKeeps DEF DropInv

(* While there is no row, whatever u holds is followed by a tombstone. *)
LEMMA NoRowDrop ==
  ASSUME Shape, DropInv, row = 0, NEW u \in Users \ excused, NEW v \in 0..MaxWrites,
         CheckedFor(u, v)
  PROVE  TombstoneDue(v)
<1>1. PendingFor(u, v) /\ v # 0  BY DEF CheckedFor, PendingFor
<1>2. v \in Nat /\ v <= written /\ v \notin deleted /\ written \in Nat
  BY DEF CheckedFor, Shape, FramesInv, TypeOK
<1>3. written \in deleted  BY <1>1, <1>2 DEF Shape, RowInv
<1>4. written > v  BY <1>2, <1>3
<1> QED  BY <1>1, <1>3, <1>4 DEF DropInv, DeletedInv

LEMMA RevokeDrop ==
  ASSUME Shape, DropInv, NEW g \in GrantIds,
         \/ RevokeUpdates(g) \/ RevokeReads(g) \/ RevokeCollects(g)
         \/ RevokeChecks(g) \/ RevokeDies(g)
  PROVE  DropInv'
<1>1. TypeOK  BY DEF Shape
<1>2. UNCHANGED <<storeVars, sub, deferred, replica>>
  BY DEF RevokeUpdates, RevokeReads, RevokeCollects, RevokeChecks, RevokeDies, syncVars
<1>3. excused \subseteq excused'
  BY <1>1, RevokeCollectsMoves DEF RevokeUpdates, RevokeReads, RevokeChecks, RevokeDies, history, TypeOK
<1>4. KeepsTombstones /\ QuietPending /\ QuietChecked  BY <1>2, <1>3, NothingMoves
<1>5. DeletedInv'  BY <1>4, DeletedKeeps DEF DropInv
<1>6. CASE RevokeUpdates(g)
  <2>1. revoke'[g].pc = "read"  BY <1>1, <1>6, RevokeGoes DEF RevokeUpdates, RevokeMoves
  <2>2. KeepsRemovals  BY <2>1 DEF KeepsRemovals, WillHear
  <2> QED  BY <1>4, <1>5, <2>2, RevokedKeeps DEF DropInv
<1>7. CASE RevokeReads(g)
  <2>1. UNCHANGED grant /\ revoke[g].pc = "read" /\ excused' = excused
    BY <1>7 DEF RevokeReads, shareVars, history
  <2>2. CASE row = 0
    <3>1. RevokedInv'
      <4> SUFFICES ASSUME NEW u \in Users \ excused', NEW v \in 0..MaxWrites, CheckedFor(u, v)'
                   PROVE  TombstoneDue(v)'
        BY DEF RevokedInv
      <4>1. CheckedFor(u, v)  BY <1>2 DEF CheckedFor
      <4>2. TombstoneDue(v)  BY <2>1, <2>2, <4>1, NoRowDrop
      <4> QED  BY <1>4, <4>2, TombstoneStays
    <3> QED  BY <1>5, <3>1 DEF DropInv
  <2>3. CASE row # 0
    <3>1. revoke'[g].pc = "collect"
      BY <1>1, <1>7, <2>3, RevokeGoes DEF RevokeReads, RevokeMoves
    <3>2. KeepsRemovals  BY <3>1 DEF KeepsRemovals, WillHear
    <3> QED  BY <1>4, <1>5, <3>2, RevokedKeeps DEF DropInv
  <2> QED  BY <2>2, <2>3
<1>8. CASE RevokeCollects(g)
  <2>1. /\ RevokeMoves(g, "check") /\ revoke'[g].left \subseteq Users
        /\ excused' = excused \cup (Users \ revoke'[g].left)
    BY <1>1, <1>8, RevokeCollectsMoves
  <2>2. \A u \in Users \ excused' : u \in revoke'[g].left  BY <2>1
  <2>3. KeepsRemovals  BY <2>1, <2>2 DEF KeepsRemovals, WillHear, RevokeMoves
  <2> QED  BY <1>4, <1>5, <2>3, RevokedKeeps DEF DropInv
<1>9. CASE RevokeChecks(g)
  <2>1. UNCHANGED grant /\ revoke[g].pc = "check"  BY <1>9 DEF RevokeChecks, shareVars
  <2>2. \A w \in Users : HasActiveGrantFor(w)' <=> HasActiveGrantFor(w)  BY <2>1, SameGrants
  <2>3. \A w \in Users : WillHear(w) => HasActiveGrantFor(w) \/ WillHear(w)'
    <3> SUFFICES ASSUME NEW w \in Users, WillHear(w), ~HasActiveGrantFor(w) PROVE WillHear(w)'
      OBVIOUS
    <3>1. PICK h \in GrantIds : \/ revoke[h].pc \in {"read", "collect"}
                                \/ revoke[h].pc \in {"check", "send"} /\ w \in revoke[h].left
                                \/ revoke[h].pc = "send" /\ revoke[h].at = w
      BY DEF WillHear
    <3>2. CASE h # g
      <4>1. revoke'[h] = revoke[h]
        BY <1>1, <1>9, <3>2, RevokeChecksMoves DEF RevokeMoves
      <4> QED  BY <3>1, <4>1 DEF WillHear
    <3>3. CASE h = g
      <4>1. w \in revoke[g].left  BY <2>1, <3>1, <3>3
      <4>2. PICK u \in Users :
              /\ \/ HasActiveGrantFor(u) /\ RevokeMoves(g, "check")
                 \/ RevokeMoves(g, "send") /\ revoke'[g].at = u
              /\ revoke'[g].left = revoke[g].left \ {u}
        BY <1>1, <1>9, <4>1, RevokeChecksMoves
      <4>3. CASE u = w  BY <4>2, <4>3 DEF WillHear, RevokeMoves
      <4>4. CASE u # w  BY <4>1, <4>2, <4>4 DEF WillHear, RevokeMoves
      <4> QED  BY <4>3, <4>4
    <3> QED  BY <3>2, <3>3
  <2>4. KeepsRemovals  BY <2>2, <2>3 DEF KeepsRemovals
  <2> QED  BY <1>4, <1>5, <2>4, RevokedKeeps DEF DropInv
<1>10. CASE RevokeDies(g)
  <2>1. Users \ excused' = {}  BY <1>10 DEF RevokeDies
  <2>2. RevokedInv'  BY <2>1 DEF RevokedInv
  <2> QED  BY <1>5, <2>2 DEF DropInv
<1> QED  BY <1>6, <1>7, <1>8, <1>9, <1>10

(* The removal reaches the subscriber that was found without a grant; one   *)
(* for whom a frame was checked before, or who got a grant since, is        *)
(* excused.                                                                 *)
LEMMA RevokeSendsDrop ==
  ASSUME Shape, DropInv, NEW g \in GrantIds, RevokeSends(g)
  PROVE  DropInv'
<1> DEFINE u == revoke[g].at
<1>1. TypeOK /\ u \in Users  BY DEF Shape, CallsInv, RevokeSends
<1>2. /\ UNCHANGED <<storeVars, grant, sub, deferred>> /\ replica' = [replica EXCEPT ![u] = 0]
      /\ revoke[g].pc = "send"
      /\ excused' = IF CheckedPending(u) \/ HasActiveGrantFor(u) THEN excused \cup {u} ELSE excused
  BY DEF RevokeSends, shareVars
<1>3. RevokeMoves(g, "check") /\ revoke'[g].left = revoke[g].left
  BY <1>1, RevokeSendsMoves
<1> HIDE DEF u
<1>4. \A w \in Users : replica'[w] = IF w = u THEN 0 ELSE replica[w]  BY <1>1, <1>2 DEF TypeOK
<1>5. KeepsTombstones  BY <1>2 DEF KeepsTombstones, storeVars
<1>6. QuietPending  BY <1>2, <1>4 DEF QuietPending, PendingFor, storeVars
<1>7. QuietChecked  BY <1>2, <1>4 DEF QuietChecked, CheckedFor
<1>8. \A w \in Users : HasActiveGrantFor(w)' <=> HasActiveGrantFor(w)  BY <1>2, SameGrants
<1>9. \A w \in Users : w # u /\ WillHear(w) => WillHear(w)'
  BY <1>2, <1>3 DEF WillHear, RevokeMoves, u
<1>10. RevokedInv'
  <2> SUFFICES ASSUME NEW w \in Users \ excused', NEW v \in 0..MaxWrites, CheckedFor(w, v)',
                      ~HasActiveGrantFor(w)', ~WillHear(w)'
               PROVE  TombstoneDue(v)'
    BY DEF RevokedInv
  <2>1. CASE w = u
    <3>1. ~CheckedPending(u) /\ replica'[u] = 0  BY <1>1, <1>2, <1>4, <2>1
    <3> QED  BY <1>2, <2>1, <3>1 DEF CheckedFor, CheckedPending
  <2>2. CASE w # u
    <3>1. w \in Users \ excused  BY <1>5 DEF KeepsTombstones
    <3>2. CheckedFor(w, v)  BY <1>7 DEF QuietChecked
    <3>3. ~HasActiveGrantFor(w) /\ ~WillHear(w)  BY <1>8, <1>9, <2>2
    <3>4. TombstoneDue(v)  BY <3>1, <3>2, <3>3 DEF DropInv, RevokedInv
    <3> QED  BY <1>5, <3>4, TombstoneStays
  <2> QED  BY <2>1, <2>2
<1> QED  BY <1>5, <1>6, <1>10, DeletedKeeps DEF DropInv

LEMMA DropStep ==
  ASSUME Shape, DropInv, [Next]_vars
  PROVE  DropInv'
<1>1. CASE UNCHANGED vars
  <2>1. UNCHANGED <<storeVars, sub, deferred, replica, grant, revoke, excused>>
    BY <1>1 DEF vars, shareVars, syncVars, history
  <2> QED  BY <2>1, NothingMoves, RemovalsStay, DeletedKeeps, RevokedKeeps DEF DropInv
<1> QED
  BY <1>1, OwnerWritesDrop, FanOutUpsertDrop, FanOutDeleteDrop, TaskDrop, SubscriptionDrop,
     DisconnectDrop, AcceptDrop, RevokeDrop, RevokeSendsDrop DEF Next

LEMMA DropInvariant == Spec => []DropInv
<1>1. Init => DropInv
  BY DEF Init, NoSub, DropInv, DeletedInv, RevokedInv, PendingFor, CheckedFor
<1>2. Shape /\ DropInv /\ [Next]_vars => DropInv'  BY DropStep
<1> QED  BY <1>1, <1>2, ShapeInvariant, PTL DEF Spec

(* RevokedRowIsDropped: once the fan-outs are over, a subscriber of this    *)
(* node that cannot read the row does not have it, unless it was away or a  *)
(* frame overtook the removal (fan_out_object_visibility_revoked).          *)
THEOREM RevokedLosesTheRow == Spec => []RevokedRowIsDropped
<1>1. Shape /\ DropInv => RevokedRowIsDropped
  <2> SUFFICES ASSUME Shape, DropInv, NEW u \in Users \ excused, Settled(u),
                      row = 0 \/ ~HasActiveGrantFor(u), replica[u] # 0
               PROVE  FALSE
    BY DEF RevokedRowIsDropped
  <2> DEFINE v == replica[u]
  <2>1. v \in 0..MaxWrites  BY DEF Shape, TypeOK
  <2>2. CheckedFor(u, v)  BY DEF CheckedFor
  <2>3. ~TombstoneDue(v) /\ ~WillHear(u)  BY DEF Settled, TombstoneDue, WillHear
  <2> HIDE DEF v
  <2>4. CASE row = 0  BY <2>1, <2>2, <2>3, <2>4, NoRowDrop
  <2>5. CASE ~HasActiveGrantFor(u)  BY <2>1, <2>2, <2>3, <2>5 DEF DropInv, RevokedInv
  <2> QED  BY <2>4, <2>5
<1> QED  BY <1>1, ShapeInvariant, DropInvariant, PTL

-----------------------------------------------------------------------------
(* A row that may be read reaches who may read it.                         *)

(* A step gives up no way by which u gets the row, and owes it none anew    *)
(* without one.                                                             *)
KeepsServing == \A u \in Users \ excused' :
    Owed(u)' => Served(u)' \/ (Owed(u) /\ (Served(u) => Served(u)'))

LEMMA ServedKeeps ==
  ASSUME ServedInv, excused \subseteq excused', KeepsServing
  PROVE  ServedInv'
BY DEF ServedInv, KeepsServing

LEMMA ServedStep ==
  ASSUME Shape, ServedInv, [Next]_vars
  PROVE  ServedInv'
<1>1. /\ TypeOK /\ row \in Nat /\ written \in Nat /\ row <= written
      /\ \A u \in Users : since[u] \in Nat
  BY DEF Shape, TypeOK
<1>2. ASSUME NEW del \in BOOLEAN, OwnerWrites(del) PROVE ServedInv'
  <2>1. /\ row' = (IF del THEN 0 ELSE written + 1) /\ written + 1 \in due'
        /\ UNCHANGED <<since, excused>>
    BY <1>2 DEF OwnerWrites
  <2>2. \A u \in Users : Owed(u)' => Served(u)'  BY <1>1, <2>1 DEF Owed, Served
  <2> QED  BY <2>1, <2>2, ServedKeeps DEF KeepsServing
<1>3. ASSUME NEW v \in due, FanOutObjectUpsert(v) PROVE ServedInv'
  <2>1. /\ due' = due \ {v} /\ UNCHANGED <<row, grant, sub, replica, since, excused>>
        /\ deferred' = deferred \cup {[v |-> v, u |-> u, pc |-> "probe"] : u \in {u \in Users : Registered(u)}}
    BY <1>3 DEF FanOutObjectUpsert, shareVars, history
  <2>2. \A u \in Users : Owed(u)' <=> Owed(u)
    BY <2>1, SameGrants DEF Owed, Registered
  <2>3. ASSUME NEW u \in Users, Registered(u), Served(u) PROVE Served(u)'
    <3>1. CASE row = v
      <4>1. [v |-> v, u |-> u, pc |-> "probe"] \in deferred'  BY <2>1, <2>3
      <4> QED  BY <2>1, <3>1, <4>1 DEF Served
    <3>2. CASE row # v  BY <2>1, <2>3, <3>2 DEF Served
    <3> QED  BY <3>1, <3>2
  <2> QED  BY <2>1, <2>2, <2>3, ServedKeeps DEF KeepsServing, Owed
<1>4. ASSUME NEW v \in due, FanOutObjectDelete(v) PROVE ServedInv'
  <2>1. /\ v \in deleted /\ UNCHANGED <<row, since>>
        /\ excused' = excused \cup {u \in Users : ~Registered(u) \/ OlderPending(u, v) \/ row > v}
    BY <1>4 DEF FanOutObjectDelete
  <2>2. v \in 1..written /\ row # v  BY <1>1, <2>1 DEF Shape, TypeOK, RowInv
  <2>3. \A u \in Users \ excused' : ~(row > v)  BY <2>1
  <2>4. \A u \in Users \ excused' : row = 0  BY <1>1, <2>2, <2>3 DEF Shape, RowInv
  <2>5. \A u \in Users \ excused' : ~Owed(u)'  BY <1>1, <2>1, <2>4 DEF Owed
  <2> QED  BY <2>5 DEF ServedInv
<1>5. ASSUME NEW d \in deferred, TaskProbes(d) \/ TaskChecks(d) PROVE ServedInv'
  <2>1. UNCHANGED <<row, due, grant, sub, replica, since, excused>>
    BY <1>1, <1>5, TaskSteps DEF storeVars, shareVars, history
  <2>2. \A u \in Users : Owed(u)' <=> Owed(u)
    BY <2>1, SameGrants DEF Owed, Registered
  <2>3. ASSUME NEW u \in Users, HasActiveGrantFor(u), Served(u) PROVE Served(u)'
    <3>1. PerRecordReadAuthzActive  BY <2>3 DEF HasActiveGrantFor, PerRecordReadAuthzActive
    <3>2. \A e \in deferred : e = d \/ e \in deferred'
      BY <1>1, <1>5, TaskSteps DEF FrameMoves
    <3>3. d.u = u => \E e \in deferred' : e.u = d.u /\ e.v = d.v
      BY <1>1, <1>5, <2>3, <3>1, TaskSteps
    <3> QED  BY <2>1, <2>3, <3>2, <3>3 DEF Served
  <2> QED  BY <2>1, <2>2, <2>3, ServedKeeps DEF KeepsServing, Owed
<1>6. ASSUME NEW d \in deferred, TaskSends(d) PROVE ServedInv'
  <2>1. /\ UNCHANGED <<row, due, grant, sub, since, excused>>
        /\ deferred' = deferred \ {d} /\ replica' = [replica EXCEPT ![d.u] = d.v]
    BY <1>6 DEF TaskSends, storeVars, shareVars, history
  <2>2. \A u \in Users : Owed(u)' <=> Owed(u)
    BY <2>1, SameGrants DEF Owed, Registered
  <2>3. d.u \in Users /\ d.v # 0  BY <1>1 DEF TypeOK, Frame
  <2>4. \A u \in Users : replica'[u] = IF u = d.u THEN d.v ELSE replica[u]
    BY <1>1, <2>1 DEF TypeOK
  <2>5. \A u \in Users : Served(u) => Served(u)'  BY <2>1, <2>3, <2>4 DEF Served
  <2> QED  BY <2>1, <2>2, <2>5, ServedKeeps DEF KeepsServing
<1>7. ASSUME NEW u \in Users, Subscribe(u) PROVE ServedInv'
  <2>1. /\ UNCHANGED <<row, due, grant, deferred, replica, excused>>
        /\ since' = [since EXCEPT ![u] = written]
    BY <1>7 DEF Subscribe, storeVars, shareVars
  <2>2. SubMoves(u, "list", sub[u].seen)  BY <1>1, <1>7, SubGoesMoves DEF Subscribe
  <2>3. ~Owed(u)'  BY <1>1, <2>1 DEF Owed, TypeOK
  <2>4. \A w \in Users : w # u => since'[w] = since[w] /\ sub'[w] = sub[w]
    BY <1>1, <2>1, <2>2 DEF TypeOK, SubMoves
  <2>5. \A w \in Users : w # u => (Owed(w)' => Owed(w)) /\ (Served(w) => Served(w)')
    <3>1. \A w \in Users : HasActiveGrantFor(w)' <=> HasActiveGrantFor(w)  BY <2>1, SameGrants
    <3> QED  BY <2>1, <2>4, <3>1 DEF Owed, Registered, Served
  <2> QED  BY <2>1, <2>3, <2>5, ServedKeeps DEF KeepsServing
<1>8. ASSUME NEW u \in Users, NEW p, NEW n, SubMoves(u, p, n), sub[u].pc # "none",
             UNCHANGED <<row, due, grant, deferred, since, excused>>,
             \A w \in Users : w # u => replica'[w] = replica[w],
             Owed(u) => (Served(u) => Served(u)')
      PROVE  ServedInv'
  <2>1. \A w \in Users : HasActiveGrantFor(w)' <=> HasActiveGrantFor(w)  BY <1>8, SameGrants
  <2>2. \A w \in Users : w # u => sub'[w] = sub[w]  BY <1>8 DEF SubMoves
  <2>3. \A w \in Users : Owed(w)' => Owed(w)  BY <1>8, <2>1, <2>2 DEF Owed, Registered
  <2>4. \A w \in Users : w # u => (Served(w) => Served(w)')  BY <1>8, <2>2 DEF Served
  <2> QED  BY <1>8, <2>3, <2>4, ServedKeeps DEF KeepsServing
<1>9. ASSUME NEW u \in Users, SnapshotLists(u) PROVE ServedInv'
  <2>1. UNCHANGED <<row, due, grant, deferred, replica, since, excused>> /\ sub[u].pc = "list"
    BY <1>9 DEF SnapshotLists, storeVars, shareVars, history
  <2>2. row \in 0..MaxWrites  BY <1>1, SharingLimitAssumption DEF TypeOK
  <2>3. [pc |-> "probe", seen |-> row] \in Subscription  BY <2>2 DEF Subscription
  <2>4. SubMoves(u, "probe", row)  BY <1>1, <1>9, <2>3 DEF SnapshotLists, SubMoves, TypeOK
  <2>5. Owed(u) => row # 0  BY <1>1 DEF Owed
  <2>6. Owed(u) => Served(u)'  BY <2>4, <2>5 DEF Served, SubMoves
  <2> QED  BY <1>8, <2>1, <2>4, <2>6
<1>10. ASSUME NEW u \in Users, SnapshotProbes(u) PROVE ServedInv'
  <2>1. UNCHANGED <<row, due, grant, deferred, replica, since, excused>> /\ sub[u].pc = "probe"
    BY <1>10 DEF SnapshotProbes, storeVars, shareVars, history
  <2>2. SubMoves(u, IF PerRecordReadAuthzActive /\ sub[u].seen # 0 THEN "check" ELSE "live", sub[u].seen)
    BY <1>1, <1>10, SubGoesMoves DEF SnapshotProbes
  <2>3. Owed(u) => PerRecordReadAuthzActive
    BY DEF Owed, HasActiveGrantFor, PerRecordReadAuthzActive
  <2>4. Owed(u) => (Served(u) => Served(u)')  BY <2>1, <2>2, <2>3 DEF Served, SubMoves
  <2> QED  BY <1>8, <2>1, <2>2, <2>4
<1>11. ASSUME NEW u \in Users, SnapshotChecks(u) PROVE ServedInv'
  <2>1. UNCHANGED <<row, due, grant, deferred, replica, since, excused>> /\ sub[u].pc = "check"
    BY <1>11 DEF SnapshotChecks, storeVars, shareVars, history
  <2>2. SubMoves(u, IF HasActiveGrantFor(u) THEN "send" ELSE "live", sub[u].seen)
    BY <1>1, <1>11, SubGoesMoves DEF SnapshotChecks
  <2>3. Owed(u) => (Served(u) => Served(u)')  BY <2>1, <2>2 DEF Owed, Served, SubMoves
  <2> QED  BY <1>8, <2>1, <2>2, <2>3
<1>12. ASSUME NEW u \in Users, SnapshotSends(u) PROVE ServedInv'
  <2>1. /\ UNCHANGED <<row, due, grant, deferred, since, excused>> /\ sub[u].pc = "send"
        /\ replica' = [replica EXCEPT ![u] = sub[u].seen]
    BY <1>12 DEF SnapshotSends, storeVars, shareVars, history
  <2>2. SubMoves(u, "live", sub[u].seen)  BY <1>1, <1>12, SubGoesMoves DEF SnapshotSends
  <2>3. \A w \in Users : replica'[w] = IF w = u THEN sub[u].seen ELSE replica[w]
    BY <1>1, <2>1 DEF TypeOK
  <2>4. sub[u].seen # 0  BY <2>1 DEF Shape, FramesInv
  <2>5. Served(u)'  BY <2>3, <2>4 DEF Served
  <2> QED  BY <1>8, <2>1, <2>2, <2>3, <2>5
<1>13. ASSUME NEW u \in Users, Disconnect(u) PROVE ServedInv'
  <2>1. /\ UNCHANGED <<row, due, grant, replica, since>> /\ sub' = [sub EXCEPT ![u] = NoSub]
        /\ deferred' = {d \in deferred : d.u # u} /\ excused' = excused \cup {u}
    BY <1>13 DEF Disconnect, storeVars, shareVars
  <2>2. \A w \in Users \ excused' : w # u /\ sub'[w] = sub[w]  BY <1>1, <2>1 DEF TypeOK
  <2>3. \A w \in Users : HasActiveGrantFor(w)' <=> HasActiveGrantFor(w)  BY <2>1, SameGrants
  <2>4. \A w \in Users \ excused' : Owed(w)' => Owed(w)  BY <2>1, <2>2, <2>3 DEF Owed, Registered
  <2>5. \A w \in Users \ excused' : Served(w) => Served(w)'  BY <2>1, <2>2 DEF Served
  <2> QED  BY <2>1, <2>4, <2>5, ServedKeeps DEF KeepsServing
<1>14. ASSUME UNCHANGED <<row, due, sub, deferred, replica, since>>, excused \subseteq excused',
              \A u \in Users : HasActiveGrantFor(u)' => HasActiveGrantFor(u)
       PROVE  ServedInv'
  <2>1. \A u \in Users : (Owed(u)' => Owed(u)) /\ (Served(u) => Served(u)')
    BY <1>14 DEF Owed, Registered, Served
  <2> QED  BY <1>14, <2>1, ServedKeeps DEF KeepsServing
<1>15. ASSUME NEW u \in Users \cup {Owner},
              (\E i \in Invites : AcceptLooksUp(u, i)) \/ AcceptUpdates(u) \/ AcceptDies(u)
       PROVE  ServedInv'
  <2>1. UNCHANGED <<row, due, grant, sub, deferred, replica, since, excused>>
    BY <1>15 DEF AcceptLooksUp, AcceptUpdates, AcceptDies, storeVars, syncVars, history
  <2> QED  BY <1>14, <2>1, SameGrants
<1>16. ASSUME NEW u \in Users \cup {Owner}, AcceptCreates(u) PROVE ServedInv'
  <2>1. u \in Users /\ Granted(u)  BY <1>16, CreatesGrant
  <2>2. /\ UNCHANGED <<row, due, sub, deferred, replica, excused>>
        /\ \A w \in Users : since'[w] = IF w = u THEN written ELSE since[w]
    BY <1>16 DEF AcceptCreates, storeVars, syncVars
  <2>3. ~Owed(u)'  BY <1>1, <2>1, <2>2 DEF Owed
  <2>4. \A w \in Users : w # u => (HasActiveGrantFor(w)' <=> HasActiveGrantFor(w))
    BY <2>1, NewGrants
  <2>5. \A w \in Users : w # u => (Owed(w)' => Owed(w)) /\ (Served(w) => Served(w)')
    BY <2>2, <2>4 DEF Owed, Registered, Served
  <2> QED  BY <2>2, <2>3, <2>5, ServedKeeps DEF KeepsServing
<1>17. ASSUME NEW g \in GrantIds, RevokeUpdates(g) PROVE ServedInv'
  <2>1. UNCHANGED <<row, due, sub, deferred, replica, since, excused>>
    BY <1>17 DEF RevokeUpdates, storeVars, syncVars, history
  <2> QED  BY <1>1, <1>14, <1>17, <2>1, RevokeEnds, EndingGrants
<1>18. ASSUME NEW g \in GrantIds,
              RevokeReads(g) \/ RevokeCollects(g) \/ RevokeChecks(g) \/ RevokeDies(g)
       PROVE  ServedInv'
  <2>1. UNCHANGED <<row, due, grant, sub, deferred, replica, since>>
    BY <1>18 DEF RevokeReads, RevokeCollects, RevokeChecks, RevokeDies,
                 storeVars, shareVars, syncVars, history
  <2>2. excused \subseteq excused'
    BY <1>1, <1>18, RevokeCollectsMoves DEF RevokeReads, RevokeChecks, RevokeDies, history, TypeOK
  <2> QED  BY <1>14, <2>1, <2>2, SameGrants
<1>19. ASSUME NEW g \in GrantIds, RevokeSends(g) PROVE ServedInv'
  <2>1. PICK u \in Users : u = revoke[g].at
    BY <1>19 DEF Shape, CallsInv, RevokeSends
  <2>2. /\ UNCHANGED <<row, due, grant, sub, deferred, since>> /\ replica' = [replica EXCEPT ![u] = 0]
        /\ excused' = IF CheckedPending(u) \/ HasActiveGrantFor(u) THEN excused \cup {u} ELSE excused
    BY <1>19, <2>1 DEF RevokeSends, storeVars, shareVars
  <2>3. \A w \in Users : HasActiveGrantFor(w)' <=> HasActiveGrantFor(w)  BY <2>2, SameGrants
  <2>4. \A w \in Users : Owed(w)' => Owed(w)  BY <2>2, <2>3 DEF Owed, Registered
  <2>5. u \notin excused' => ~Owed(u)'  BY <2>1, <2>2, <2>3 DEF Owed
  <2>6. \A w \in Users : w # u => replica'[w] = replica[w]  BY <1>1, <2>1, <2>2 DEF TypeOK
  <2>7. \A w \in Users : w # u => (Served(w) => Served(w)')  BY <2>2, <2>6 DEF Served
  <2>8. excused \subseteq excused'  BY <2>2
  <2> QED  BY <2>4, <2>5, <2>7, <2>8, ServedKeeps DEF KeepsServing
<1>20. CASE UNCHANGED vars
  <2>1. UNCHANGED <<row, due, grant, sub, deferred, replica, since, excused>>
    BY <1>20 DEF vars, storeVars, shareVars, syncVars, history
  <2> QED  BY <1>14, <2>1, SameGrants
<1> QED
  BY <1>2, <1>3, <1>4, <1>5, <1>6, <1>7, <1>9, <1>10, <1>11, <1>12, <1>13, <1>15, <1>16,
     <1>17, <1>18, <1>19, <1>20 DEF Next

(* GranteeHasTheRow: a subscriber that holds a grant has the row written    *)
(* since, once the fan-outs are over: the snapshot or the task of the write *)
(* finds the grant, whatever other grants are being revoked.                *)
THEOREM GranteeIsServed == Spec => []GranteeHasTheRow
<1>1. Init => ServedInv
  <2>1. NoGrant.state = "none"  BY DEF NoGrant
  <2> QED  BY <2>1 DEF Init, ServedInv, Owed, HasActiveGrantFor
<1>2. Shape /\ ServedInv /\ [Next]_vars => ServedInv'  BY ServedStep
<1>3. ServedInv => GranteeHasTheRow
  <2> SUFFICES ASSUME ServedInv, NEW u \in Users \ excused, Settled(u),
                      HasActiveGrantFor(u), row > since[u]
               PROVE  replica[u] # 0
    BY DEF GranteeHasTheRow
  <2>1. Owed(u)  BY DEF Owed, Settled, Registered
  <2>2. Served(u)  BY <2>1 DEF ServedInv
  <2> QED  BY <2>2 DEF Served, Settled
<1> QED  BY <1>1, <1>2, <1>3, ShapeInvariant, PTL DEF Spec
=============================================================================
