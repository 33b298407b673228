----------------------- MODULE CallControlPlaneProofs -----------------------
(***************************************************************************)
(* Proofs about CallControlPlane, for any number of devices and users, any *)
(* cap and any number of commands and failures.                            *)
(*                                                                         *)
(* Shape ties the phase of a command to its operation and to what it has   *)
(* read or written; what a device wrote about itself stays, because a      *)
(* connection runs one command at a time.  PartyFits is the argument for   *)
(* the cap: the creator, the users with an invite and those whose invite   *)
(* is still to be written fit the plane together, and only they join.      *)
(* MediaInv follows the media session through overlapping ends, LastLeaves *)
(* the end of a call through overlapping leaves.                           *)
(***************************************************************************)
EXTENDS CallControlPlane, TLAPS, FiniteSetTheorems

(* The phases of each operation, in the order of the handlers. *)
PhaseOf(o, p) ==
    \/ o = "create" /\ p \in {"room", "create", "invites"}
    \/ o = "accept" /\ p \in {"room", "invite", "accept"}
    \/ o = "join" /\ p \in {"room", "invite", "count", "accept", "participant", "activate", "token"}
    \/ o \in {"media", "sfu"} /\ p \in {"room", "participant", "write"}
    \/ o = "leave" /\ p \in {"room", "participant", "write", "release", "remaining", "end", "ended"}
    \/ o = "end" /\ p \in {"room", "end", "ended", "announce", "release"}
    \/ o = "none" /\ p = "idle"

PhaseOfOp ==
    \A d \in Devices : PhaseOf(cmd[d].op, cmd[d].pc) /\ (cmd[d].op # "create" => cmd[d].left = {})

(* Whoever is past its first read has seen a room, and rooms stay. *)
RoomExists ==
    /\ \A d \in Devices : cmd[d].op # "create" /\ cmd[d].pc \notin {"idle", "room"} => room # "none"
    /\ \A d \in Devices : joined[d] # "none" => room # "none"
    /\ \A u \in Users : invite[u] # "none" => room # "none"

(* One command creates the call: it finds nothing, allocates the session    *)
(* and then writes the room.                                                *)
OneCreate ==
    /\ \A d, e \in Devices : cmd[d].op = "create" /\ cmd[e].op = "create" => d = e
    /\ \A d \in Devices : cmd[d].op = "create" =>
          /\ cmd[d].pc = "room" => room = "none" /\ ~session /\ cmd[d].left = {}
          /\ cmd[d].pc = "create" => room = "none" /\ session
          /\ cmd[d].pc = "invites" => room # "none"

(* What a device's command relies on about its own participant and its     *)
(* user's invite.                                                           *)
OwnRows ==
    \A d \in Devices :
       /\ cmd[d].pc \in {"count", "activate", "token"} \/ At(d, "join", "accept") \/ At(d, "join", "participant")
             => IsCreator(d) \/ invite[UserOf[d]] # "none"
       /\ cmd[d].pc = "accept" => invite[UserOf[d]] # "none"
       /\ joined[d] # "none" => IsCreator(d) \/ invite[UserOf[d]] # "none"
       /\ cmd[d].pc \in {"activate", "token", "write"} => joined[d] = "joined"

Shape == TypeOK /\ PhaseOfOp /\ RoomExists /\ OneCreate /\ OwnRows

-----------------------------------------------------------------------------

(* The users who may ever join. *)
Party == {Creator} \cup {u \in Users : invite[u] # "none"} \cup UNION {cmd[d].left : d \in Devices}

(* The call has been admitted: create_call has checked the cap. *)
Admitted == room # "none" \/ \E d \in Devices : At(d, "create", "create")

PartyFits == Admitted => Fits(Cardinality(Party))

-----------------------------------------------------------------------------

(* A command past the write of a room's end. *)
Ending(d) == cmd[d].pc = "announce" \/ At(d, "end", "release")

(* A session that is gone was announced, and took the media with it. *)
ReleasedInv ==
    /\ ~session => media = {} /\ streams = {}
    /\ room # "none" /\ ~session => announced
    /\ \A d \in Devices : At(d, "end", "release") => announced

(* Without a join that wrote over it, an end stays. *)
EndStays ==
    ~revived => /\ (\E d \in Devices : Ending(d)) => room = "ended"
                /\ room # "none" /\ ~session => room = "ended"

(* Without a failure, an ended call that has a session is about to lose it, *)
(* and media belongs to those who are in, or are about to release it.       *)
EndReleasesIt == ~broken /\ room = "ended" /\ session => \E d \in Devices : Ending(d)
MediaOfJoined ==
    ~broken => \A d \in media \cup streams : joined[d] = "joined" \/ At(d, "leave", "release")

MediaInv == ReleasedInv /\ EndStays /\ EndReleasesIt /\ MediaOfJoined

-----------------------------------------------------------------------------

(* Without a failure, who is in an activated call has seen it active.       *)
JoinedIsActive ==
    ~broken => \A d \in Devices :
       /\ joined[d] = "joined" /\ ~At(d, "join", "activate") => room \in {"active", "ended"}
       /\ At(d, "leave", "participant") /\ cmd[d].seen # "active" => joined[d] # "joined"
       /\ cmd[d].op = "leave" /\ cmd[d].pc \in {"write", "release", "remaining"} => cmd[d].seen = "active"

(* An active call that everyone has left is about to be ended. *)
LastLeaves ==
    ~broken /\ room = "active" /\ Joined = {} =>
       \E d \in Devices : \/ cmd[d].op = "leave" /\ cmd[d].pc \in {"release", "remaining"}
                          \/ cmd[d].pc \in {"end", "ended"}

(* What a command has seen of the room is not undone. *)
SeenHolds ==
    \A d \in Devices :
       /\ cmd[d].seen = "active" => room \in {"active", "ended"}
       /\ cmd[d].op # "create" /\ cmd[d].pc \notin {"idle", "room"} => cmd[d].seen # "none"

LeaveInv == SeenHolds /\ JoinedIsActive /\ LastLeaves

-----------------------------------------------------------------------------
(* What a step does to the command.                                         *)

(* Device d goes on, with operation o, phase p, the room s it has read and  *)
(* the invites l it has still to write; no other command is touched.        *)
Moves(d, o, p, s, l) ==
    /\ cmd' \in [Devices -> CommandType]
    /\ cmd'[d].op = o /\ cmd'[d].pc = p /\ cmd'[d].seen = s /\ cmd'[d].left = l
    /\ \A e \in Devices : e # d => cmd'[e] = cmd[e]

(* The command of device d is answered or dropped. *)
Ends(d) == Moves(d, "none", "idle", "none", {})

Phases == {"idle", "room", "create", "invites", "invite", "count", "accept", "participant", "write",
           "activate", "token", "remaining", "end", "ended", "announce", "release"}

(* An assignment to cmd[d] is such a move if what it assigns is a command.  *)
LEMMA AssignMoves ==
    ASSUME TypeOK, NEW d \in Devices, NEW c \in CommandType, cmd' = [cmd EXCEPT ![d] = c]
    PROVE  Moves(d, c.op, c.pc, c.seen, c.left)
BY DEF Moves, TypeOK

LEMMA GoesMoves ==
    ASSUME TypeOK, NEW d \in Devices, NEW p \in Phases, Goes(d, p)
    PROVE  Moves(d, cmd[d].op, p, cmd[d].seen, cmd[d].left)
<1>1. cmd[d] \in CommandType BY DEF TypeOK
<1>2. cmd' = [cmd EXCEPT ![d] = [cmd[d] EXCEPT !.pc = p]] BY DEF Goes, TypeOK
<1>3. [cmd[d] EXCEPT !.pc = p] \in CommandType BY <1>1 DEF CommandType, Phases
<1> QED BY <1>1, <1>2, <1>3 DEF Moves, TypeOK, CommandType

LEMMA ReturnsEnds == ASSUME TypeOK, NEW d \in Devices, Returns(d) PROVE Ends(d)
<1>1. Idle \in CommandType BY DEF Idle, CommandType
<1>2. Idle.op = "none" /\ Idle.pc = "idle" /\ Idle.seen = "none" /\ Idle.left = {} BY DEF Idle
<1> QED BY <1>1, <1>2 DEF Returns, Ends, Moves, TypeOK

(* The reads of the room keep what was read.                                *)
LEMMA SeenMoves ==
    ASSUME TypeOK, NEW d \in Devices, NEW p \in Phases, Live, cmd' = [cmd EXCEPT ![d].seen = room, ![d].pc = p]
    PROVE  Moves(d, cmd[d].op, p, room, cmd[d].left)
<1>1. cmd[d] \in CommandType BY DEF TypeOK
<1>2. cmd' = [cmd EXCEPT ![d] = [cmd[d] EXCEPT !.seen = room, !.pc = p]] BY DEF TypeOK
<1>3. [cmd[d] EXCEPT !.seen = room, !.pc = p] \in CommandType BY <1>1 DEF CommandType, Phases, Live
<1> QED BY <1>1, <1>2, <1>3 DEF Moves, TypeOK, CommandType

(* create_call keeps the invitees it has still to write.                    *)
LEMMA LeftMoves ==
    ASSUME TypeOK, NEW d \in Devices, NEW p \in Phases, NEW l \in SUBSET Users,
           \/ cmd' = [cmd EXCEPT ![d].pc = p, ![d].left = l]
           \/ cmd' = [cmd EXCEPT ![d].left = l] /\ cmd[d].pc = p
    PROVE  Moves(d, cmd[d].op, p, cmd[d].seen, l)
<1>1. cmd[d] \in CommandType BY DEF TypeOK
<1>2. CASE cmd' = [cmd EXCEPT ![d].pc = p, ![d].left = l]
  <2>1. cmd' = [cmd EXCEPT ![d] = [cmd[d] EXCEPT !.pc = p, !.left = l]] BY <1>2 DEF TypeOK
  <2>2. [cmd[d] EXCEPT !.pc = p, !.left = l] \in CommandType BY <1>1 DEF CommandType, Phases
  <2> QED BY <1>1, <2>1, <2>2 DEF Moves, TypeOK, CommandType
<1>3. CASE cmd' = [cmd EXCEPT ![d].left = l] /\ cmd[d].pc = p
  <2>1. cmd' = [cmd EXCEPT ![d] = [cmd[d] EXCEPT !.left = l]] BY <1>3 DEF TypeOK
  <2>2. [cmd[d] EXCEPT !.left = l] \in CommandType BY <1>1 DEF CommandType
  <2> QED BY <1>1, <1>3, <2>1, <2>2 DEF Moves, TypeOK, CommandType
<1> QED BY <1>2, <1>3

(* Each action's moves.                                                     *)
LEMMA IssueMoves ==
    ASSUME TypeOK, NEW d \in Devices, NEW op \in Ops, Issue(d, op)
    PROVE  Moves(d, op, "room", "none", {})
<1> DEFINE c == [Idle EXCEPT !.op = op, !.pc = "room"]
<1>1. Idle \in CommandType BY DEF Idle, CommandType
<1>2. c \in CommandType BY <1>1 DEF CommandType
<1>3. c.op = op /\ c.pc = "room" /\ c.seen = "none" /\ c.left = {} BY DEF Idle
<1>4. cmd' = [cmd EXCEPT ![d] = c] BY DEF Issue
<1> HIDE DEF c
<1> QED BY <1>2, <1>3, <1>4, AssignMoves

LEMMA CreateAllocatesMoves ==
    ASSUME TypeOK, NEW d \in Devices, NEW l \in SUBSET Users, CreateAllocates(d, l)
    PROVE  \/ Moves(d, cmd[d].op, "create", cmd[d].seen, l) /\ Fits(Cardinality(l) + 1) /\ session' = TRUE
           \/ Ends(d) /\ session' = session
BY LeftMoves, ReturnsEnds DEF CreateAllocates, Phases

LEMMA CreateWritesInviteMoves ==
    ASSUME TypeOK, NEW d \in Devices, CreateWritesInvite(d)
    PROVE  \/ \E u \in cmd[d].left :
                 /\ Moves(d, cmd[d].op, "invites", cmd[d].seen, cmd[d].left \ {u})
                 /\ invite' = [invite EXCEPT ![u] = "ringing"]
           \/ Ends(d) /\ invite' = invite
<1>1. CASE Returns(d) /\ invite' = invite BY <1>1, ReturnsEnds
<1>2. ASSUME NEW u \in cmd[d].left, invite' = [invite EXCEPT ![u] = "ringing"],
             cmd' = [cmd EXCEPT ![d].left = @ \ {u}]
      PROVE  Moves(d, cmd[d].op, "invites", cmd[d].seen, cmd[d].left \ {u})
  <2>1. cmd[d].left \ {u} \in SUBSET Users BY DEF TypeOK, CommandType
  <2>2. cmd' = [cmd EXCEPT ![d].left = cmd[d].left \ {u}] BY <1>2
  <2>3. cmd[d].pc = "invites" /\ "invites" \in Phases BY DEF CreateWritesInvite, At, Phases
  <2> QED BY <2>1, <2>2, <2>3, LeftMoves
<1> QED BY <1>1, <1>2 DEF CreateWritesInvite

LEMMA RequireLiveRoomMoves ==
    ASSUME TypeOK, NEW d \in Devices, RequireLiveRoom(d)
    PROVE  \/ Live /\ \E p \in {"participant", "invite"} :
                 /\ Moves(d, cmd[d].op, p, room, cmd[d].left)
                 /\ p = "participant" <=> cmd[d].op \in {"media", "sfu"}
           \/ Ends(d)
<1> DEFINE p == IF cmd[d].op \in {"media", "sfu"} THEN "participant" ELSE "invite"
<1>1. p \in Phases /\ p \in {"participant", "invite"} /\ (p = "participant" <=> cmd[d].op \in {"media", "sfu"})
  BY DEF Phases
<1>2. CASE Returns(d) BY <1>2, ReturnsEnds
<1>3. CASE Live /\ cmd' = [cmd EXCEPT ![d].seen = room, ![d].pc = p]
  <2> HIDE DEF p
  <2>1. Moves(d, cmd[d].op, p, room, cmd[d].left) BY <1>1, <1>3, SeenMoves
  <2> QED BY <1>1, <1>3, <2>1
<1> QED BY <1>2, <1>3 DEF RequireLiveRoom

LEMMA RequireInviteeOrCreatorMoves ==
    ASSUME TypeOK, NEW d \in Devices, RequireInviteeOrCreator(d)
    PROVE  \/ /\ Moves(d, cmd[d].op, "count", cmd[d].seen, cmd[d].left)
              /\ cmd[d].op = "join" /\ (IsCreator(d) \/ invite[UserOf[d]] # "none")
           \/ /\ Moves(d, cmd[d].op, "accept", cmd[d].seen, cmd[d].left)
              /\ cmd[d].op = "accept" /\ invite[UserOf[d]] # "none"
           \/ Ends(d)
BY GoesMoves, ReturnsEnds DEF RequireInviteeOrCreator, Phases

LEMMA AcceptInviteMoves ==
    ASSUME TypeOK, NEW d \in Devices, AcceptInvite(d)
    PROVE  \/ Moves(d, cmd[d].op, "participant", cmd[d].seen, cmd[d].left) /\ cmd[d].op = "join"
           \/ Ends(d)
BY GoesMoves, ReturnsEnds DEF AcceptInvite, Phases

LEMMA JoinCountsMoves ==
    ASSUME TypeOK, NEW d \in Devices, JoinCounts(d)
    PROVE  \/ Moves(d, cmd[d].op, "accept", cmd[d].seen, cmd[d].left) /\ invite[UserOf[d]] # "none"
           \/ Moves(d, cmd[d].op, "participant", cmd[d].seen, cmd[d].left)
           \/ Ends(d)
BY GoesMoves, ReturnsEnds DEF JoinCounts, Phases

LEMMA JoinWritesParticipantMoves ==
    ASSUME TypeOK, NEW d \in Devices, JoinWritesParticipant(d)
    PROVE  \E p \in {"activate", "token"} :
              /\ Moves(d, cmd[d].op, p, cmd[d].seen, cmd[d].left)
              /\ p = "activate" <=> cmd[d].seen = "ringing"
BY GoesMoves DEF JoinWritesParticipant, Phases

LEMMA LeaveOrEndReadsMoves ==
    ASSUME TypeOK, NEW d \in Devices, LeaveOrEndReads(d)
    PROVE  \/ Live /\ \E p \in {"participant", "end"} :
                 /\ Moves(d, cmd[d].op, p, room, cmd[d].left)
                 /\ p = "participant" <=> cmd[d].op = "leave"
           \/ Ends(d)
<1> DEFINE p == IF cmd[d].op = "leave" THEN "participant" ELSE "end"
<1>1. p \in Phases /\ p \in {"participant", "end"} /\ (p = "participant" <=> cmd[d].op = "leave")
  BY DEF Phases
<1>2. CASE Returns(d) BY <1>2, ReturnsEnds
<1>3. CASE Live /\ cmd' = [cmd EXCEPT ![d].seen = room, ![d].pc = p]
  <2> HIDE DEF p
  <2>1. Moves(d, cmd[d].op, p, room, cmd[d].left) BY <1>1, <1>3, SeenMoves
  <2> QED BY <1>1, <1>3, <2>1
<1> QED BY <1>2, <1>3 DEF LeaveOrEndReads

LEMMA EndWritesMoves ==
    ASSUME TypeOK, NEW d \in Devices, EndWrites(d)
    PROVE  Moves(d, "end", "announce", cmd[d].seen, cmd[d].left)
<1>1. cmd[d] \in CommandType BY DEF TypeOK
<1>2. cmd' = [cmd EXCEPT ![d] = [cmd[d] EXCEPT !.pc = "announce", !.op = "end"]] BY DEF EndWrites, TypeOK
<1>3. [cmd[d] EXCEPT !.pc = "announce", !.op = "end"] \in CommandType BY <1>1 DEF CommandType, Ops
<1> QED BY <1>1, <1>2, <1>3 DEF Moves, TypeOK, CommandType

(* The actions that go on to one phase, or end.                             *)
LEMMA PlainMoves ==
    ASSUME TypeOK, NEW d \in Devices
    PROVE  /\ CreateWritesRoom(d) => Moves(d, cmd[d].op, "invites", cmd[d].seen, cmd[d].left)
           /\ JoinActivates(d) => Moves(d, cmd[d].op, "token", cmd[d].seen, cmd[d].left)
           /\ MediaReadsParticipant(d) \/ LeaveReadsParticipant(d) =>
                 \/ Moves(d, cmd[d].op, "write", cmd[d].seen, cmd[d].left) /\ joined[d] = "joined"
                 \/ Ends(d)
           /\ LeaveWrites(d) => Moves(d, cmd[d].op, "release", cmd[d].seen, cmd[d].left)
           /\ LeaveReleases(d) => Moves(d, cmd[d].op, "remaining", cmd[d].seen, cmd[d].left)
           /\ LeaveCounts(d) => \/ Moves(d, cmd[d].op, "end", cmd[d].seen, cmd[d].left)
                                \/ Ends(d) /\ (Joined # {} \/ cmd[d].seen # "active")
           /\ EndReads(d) => \/ Moves(d, cmd[d].op, "ended", cmd[d].seen, cmd[d].left)
                             \/ Ends(d) /\ ~Live
           /\ EndAnnounces(d) => Moves(d, cmd[d].op, "release", cmd[d].seen, cmd[d].left)
           /\ JoinGetsToken(d) \/ MediaWrites(d) \/ SfuOperates(d) \/ EndReleases(d) \/ Fails(d) => Ends(d)
<1> USE GoesMoves, ReturnsEnds DEF Phases
<1>1. CreateWritesRoom(d) => Moves(d, cmd[d].op, "invites", cmd[d].seen, cmd[d].left)
  BY DEF CreateWritesRoom
<1>2. JoinActivates(d) => Moves(d, cmd[d].op, "token", cmd[d].seen, cmd[d].left)
  BY DEF JoinActivates
<1>3. MediaReadsParticipant(d) \/ LeaveReadsParticipant(d) =>
         \/ Moves(d, cmd[d].op, "write", cmd[d].seen, cmd[d].left) /\ joined[d] = "joined"
         \/ Ends(d)
  BY DEF MediaReadsParticipant, LeaveReadsParticipant
<1>4. LeaveWrites(d) => Moves(d, cmd[d].op, "release", cmd[d].seen, cmd[d].left)
  BY DEF LeaveWrites
<1>5. LeaveReleases(d) => Moves(d, cmd[d].op, "remaining", cmd[d].seen, cmd[d].left)
  BY DEF LeaveReleases
<1>6. LeaveCounts(d) => \/ Moves(d, cmd[d].op, "end", cmd[d].seen, cmd[d].left)
                        \/ Ends(d) /\ (Joined # {} \/ cmd[d].seen # "active")
  BY DEF LeaveCounts
<1>7. EndReads(d) => \/ Moves(d, cmd[d].op, "ended", cmd[d].seen, cmd[d].left)
                     \/ Ends(d) /\ ~Live
  BY DEF EndReads
<1>8. EndAnnounces(d) => Moves(d, cmd[d].op, "release", cmd[d].seen, cmd[d].left)
  BY DEF EndAnnounces
<1>9. JoinGetsToken(d) \/ MediaWrites(d) \/ SfuOperates(d) \/ EndReleases(d) \/ Fails(d) => Ends(d)
  BY DEF JoinGetsToken, MediaWrites, SfuOperates, EndReleases, Fails
<1> QED BY <1>1, <1>2, <1>3, <1>4, <1>5, <1>6, <1>7, <1>8, <1>9

-----------------------------------------------------------------------------
(* Every step keeps Shape.                                                  *)

(* What a step of device d leaves to the others: rooms and invites stay,    *)
(* participants are its own, and it stays out of a call that is being       *)
(* created.                                                                 *)
RowsStay(d) ==
    /\ room # "none" => room' # "none"
    /\ \A u \in Users : invite[u] # "none" => invite'[u] # "none"
    /\ \A u \in Users : invite'[u] # "none" => invite[u] # "none" \/ room' # "none"
    /\ \A e \in Devices : e # d => joined'[e] = joined[e]
    /\ (\E e \in Devices : e # d /\ cmd[e].op = "create" /\ cmd[e].pc \in {"room", "create"}) =>
           room' = room /\ session' = session

(* What a move of device d must respect itself. *)
SoundMove(d, o, p, l) ==
    /\ PhaseOf(o, p) /\ (o # "create" => l = {})
    /\ o # "create" /\ p \notin {"idle", "room"} => room' # "none"
    /\ o = "create" => /\ \A e \in Devices : e # d => cmd[e].op # "create"
                       /\ p = "room" => room' = "none" /\ ~session' /\ l = {}
                       /\ p = "create" => room' = "none" /\ session'
                       /\ p = "invites" => room' # "none"
    /\ joined'[d] # "none" => room' # "none" /\ (IsCreator(d) \/ invite'[UserOf[d]] # "none")
    /\ p \in {"count", "activate", "token"} \/ (o = "join" /\ p \in {"accept", "participant"})
          => IsCreator(d) \/ invite'[UserOf[d]] # "none"
    /\ p = "accept" => invite'[UserOf[d]] # "none"
    /\ p \in {"activate", "token", "write"} => joined'[d] = "joined"

LEMMA ShapeMoved ==
    ASSUME Shape, NEW d \in Devices, NEW o, NEW p, NEW s, NEW l, Moves(d, o, p, s, l), TypeOK',
           RowsStay(d), SoundMove(d, o, p, l)
    PROVE  Shape'
<1> USE DEF Shape
<1>0. \A e \in Devices : e # d => cmd'[e] = cmd[e] BY DEF Moves
<1>1. cmd'[d].op = o /\ cmd'[d].pc = p /\ cmd'[d].left = l BY DEF Moves
<1>2. PhaseOfOp' BY <1>0, <1>1 DEF PhaseOfOp, SoundMove
<1>3. RoomExists' BY <1>0, <1>1 DEF RoomExists, SoundMove, RowsStay
<1>4. OneCreate'
  <2>1. \A a, b \in Devices : cmd'[a].op = "create" /\ cmd'[b].op = "create" => a = b
    BY <1>0, <1>1 DEF OneCreate, SoundMove
  <2>2. ASSUME NEW e \in Devices, cmd'[e].op = "create"
        PROVE  /\ cmd'[e].pc = "room" => room' = "none" /\ ~session' /\ cmd'[e].left = {}
               /\ cmd'[e].pc = "create" => room' = "none" /\ session'
               /\ cmd'[e].pc = "invites" => room' # "none"
    <3>1. CASE e = d BY <1>1, <2>2, <3>1 DEF SoundMove
    <3>2. CASE e # d BY <1>0, <2>2, <3>2 DEF OneCreate, RowsStay
    <3> QED BY <3>1, <3>2
  <2> QED BY <2>1, <2>2 DEF OneCreate
<1>5. OwnRows'
  <2> SUFFICES ASSUME NEW e \in Devices PROVE OwnRows!(e)' BY DEF OwnRows
  <2>1. UserOf[e] \in Users BY DeviceAssumption
  <2>2. CASE e = d BY <1>1, <2>2 DEF SoundMove, At, IsCreator
  <2>3. CASE e # d BY <1>0, <2>1, <2>3 DEF OwnRows, RowsStay, At, IsCreator
  <2> QED BY <2>2, <2>3
<1> QED BY <1>2, <1>3, <1>4, <1>5

(* A move of an action that writes no row and no session. *)
ReadMove(d, o, p, l) ==
    /\ PhaseOf(o, p) /\ (o # "create" => l = {})
    /\ o = cmd[d].op \/ o = "none"
    /\ o = "create" => p = cmd[d].pc /\ l = cmd[d].left
    /\ p \notin {"idle", "room"} => room # "none"
    /\ p \in {"count", "activate", "token"} \/ (o = "join" /\ p \in {"accept", "participant"})
          => IsCreator(d) \/ invite[UserOf[d]] # "none"
    /\ p = "accept" => invite[UserOf[d]] # "none"
    /\ p \in {"activate", "token", "write"} => joined[d] = "joined"

LEMMA ReadsKeepShape ==
    ASSUME Shape, NEW d \in Devices, NEW o, NEW p, NEW s, NEW l, Moves(d, o, p, s, l), TypeOK',
           UNCHANGED <<rows, session>>, ReadMove(d, o, p, l)
    PROVE  Shape'
<1>1. room' = room /\ invite' = invite /\ joined' = joined /\ session' = session BY DEF rows
<1>2. RowsStay(d) BY <1>1 DEF RowsStay
<1>3. SoundMove(d, o, p, l) BY <1>1 DEF ReadMove, SoundMove, Shape, RoomExists, OneCreate, OwnRows
<1> QED BY <1>2, <1>3, ShapeMoved

LEMMA EndsReads == ASSUME NEW d \in Devices PROVE ReadMove(d, "none", "idle", {})
BY DEF ReadMove, PhaseOf

(* A step that ends a command and writes no row and no session.             *)
LEMMA EndsKeepShape ==
    ASSUME Shape, NEW d \in Devices, Ends(d), TypeOK', UNCHANGED <<rows, session>>
    PROVE  Shape'
BY EndsReads, ReadsKeepShape DEF Ends

(* Every step keeps the types.                                              *)
LEMMA StepTyped ==
    ASSUME Shape, NEW d \in Devices, Step(d) \/ Fails(d) \/ \E op \in Ops : Issue(d, op)
    PROVE  TypeOK'
<1> USE CallLimitAssumption DEF Shape, rows, mediaVars, history
<1>1. ASSUME cmd' \in [Devices -> CommandType] PROVE TypeOK'
  <2> USE <1>1
  <2>1. CASE \E l \in SUBSET Users : CreateAllocates(d, l) BY <2>1 DEF TypeOK, CreateAllocates
  <2>2. CASE CreateWritesRoom(d) BY <2>2 DEF TypeOK, CreateWritesRoom
  <2>3. CASE CreateWritesInvite(d) BY <2>3 DEF TypeOK, CreateWritesInvite
  <2>4. CASE RequireLiveRoom(d) \/ RequireInviteeOrCreator(d) \/ JoinCounts(d) \/ MediaReadsParticipant(d)
             \/ LeaveOrEndReads(d) \/ LeaveReadsParticipant(d) \/ LeaveCounts(d) \/ EndReads(d)
    <3>1. UNCHANGED <<rows, mediaVars, issued, faults, history>>
      BY <2>4 DEF RequireLiveRoom, RequireInviteeOrCreator, JoinCounts, MediaReadsParticipant,
                  LeaveOrEndReads, LeaveReadsParticipant, LeaveCounts, EndReads
    <3> QED BY <3>1 DEF TypeOK
  <2>5. CASE AcceptInvite(d) BY <2>5 DEF TypeOK, AcceptInvite
  <2>6. CASE JoinWritesParticipant(d) BY <2>6 DEF TypeOK, JoinWritesParticipant
  <2>7. CASE JoinActivates(d) BY <2>7 DEF TypeOK, JoinActivates
  <2>8. CASE JoinGetsToken(d) BY <2>8 DEF TypeOK, JoinGetsToken
  <2>9. CASE MediaWrites(d) BY <2>9 DEF TypeOK, MediaWrites
  <2>10. CASE SfuOperates(d) BY <2>10 DEF TypeOK, SfuOperates
  <2>11. CASE LeaveWrites(d) BY <2>11 DEF TypeOK, LeaveWrites
  <2>12. CASE LeaveReleases(d) BY <2>12 DEF TypeOK, LeaveReleases
  <2>13. CASE EndWrites(d) BY <2>13 DEF TypeOK, EndWrites
  <2>14. CASE EndAnnounces(d) BY <2>14 DEF TypeOK, EndAnnounces
  <2>15. CASE EndReleases(d) BY <2>15 DEF TypeOK, EndReleases
  <2>16. CASE Fails(d) BY <2>16 DEF TypeOK, Fails
  <2>17. CASE \E op \in Ops : Issue(d, op)
    <3>1. /\ UNCHANGED <<rows, mediaVars, faults, history>>
          /\ issued < MaxCommands /\ issued' = issued + 1
      BY <2>17 DEF Issue
    <3> QED BY <3>1 DEF TypeOK
  <2> QED BY <2>1, <2>2, <2>3, <2>4, <2>5, <2>6, <2>7, <2>8, <2>9, <2>10, <2>11, <2>12, <2>13, <2>14,
             <2>15, <2>16, <2>17
    DEF Step
<1>2. cmd' \in [Devices -> CommandType]
  <2>1. ASSUME NEW o, NEW p, NEW s, NEW l, Moves(d, o, p, s, l) PROVE cmd' \in [Devices -> CommandType]
    BY <2>1 DEF Moves
  <2>2. ASSUME Ends(d) PROVE cmd' \in [Devices -> CommandType] BY <2>1, <2>2 DEF Ends
  <2>3. CASE \E l \in SUBSET Users : CreateAllocates(d, l) BY <2>1, <2>2, <2>3, CreateAllocatesMoves
  <2>4. CASE CreateWritesInvite(d) BY <2>1, <2>2, <2>4, CreateWritesInviteMoves
  <2>5. CASE RequireLiveRoom(d) BY <2>1, <2>2, <2>5, RequireLiveRoomMoves
  <2>6. CASE RequireInviteeOrCreator(d) BY <2>1, <2>2, <2>6, RequireInviteeOrCreatorMoves
  <2>7. CASE AcceptInvite(d) BY <2>1, <2>2, <2>7, AcceptInviteMoves
  <2>8. CASE JoinCounts(d) BY <2>1, <2>2, <2>8, JoinCountsMoves
  <2>9. CASE JoinWritesParticipant(d) BY <2>1, <2>9, JoinWritesParticipantMoves
  <2>10. CASE LeaveOrEndReads(d) BY <2>1, <2>2, <2>10, LeaveOrEndReadsMoves
  <2>11. CASE EndWrites(d) BY <2>1, <2>11, EndWritesMoves
  <2>12. CASE \E op \in Ops : Issue(d, op) BY <2>1, <2>12, IssueMoves
  <2>13. CASE \/ CreateWritesRoom(d) \/ JoinActivates(d) \/ MediaReadsParticipant(d)
              \/ LeaveReadsParticipant(d) \/ LeaveWrites(d) \/ LeaveReleases(d) \/ LeaveCounts(d)
              \/ EndReads(d) \/ EndAnnounces(d) \/ JoinGetsToken(d) \/ MediaWrites(d) \/ SfuOperates(d)
              \/ EndReleases(d) \/ Fails(d)
    BY <2>1, <2>2, <2>13, PlainMoves
  <2> QED BY <2>3, <2>4, <2>5, <2>6, <2>7, <2>8, <2>9, <2>10, <2>11, <2>12, <2>13 DEF Step
<1> QED BY <1>1, <1>2

(* A command is issued; a create only where there is no other.              *)
LEMMA IssueShape ==
    ASSUME Shape, NEW d \in Devices, NEW op \in Ops, Issue(d, op), TypeOK'
    PROVE  Shape'
<1>1. Moves(d, op, "room", "none", {}) BY IssueMoves DEF Shape
<1>2. UNCHANGED <<room, invite, joined, session>> BY DEF Issue, rows, mediaVars
<1>3. RowsStay(d) BY <1>2 DEF RowsStay
<1>4. SoundMove(d, op, "room", {})
  BY <1>2 DEF SoundMove, PhaseOf, Ops, Issue, Shape, RoomExists, OwnRows
<1> QED BY <1>1, <1>3, <1>4, ShapeMoved

(* The writes of create_call.                                               *)
LEMMA CreateShape ==
    ASSUME Shape, NEW d \in Devices, TypeOK',
           \/ \E l \in SUBSET Users : CreateAllocates(d, l)
           \/ CreateWritesRoom(d) \/ CreateWritesInvite(d)
    PROVE  Shape'
<1>1. cmd[d].op = "create" BY DEF CreateAllocates, CreateWritesRoom, CreateWritesInvite, At
<1>2. \A e \in Devices : e # d => cmd[e].op # "create" BY <1>1 DEF Shape, OneCreate
<1>3. ASSUME NEW l \in SUBSET Users, CreateAllocates(d, l) PROVE Shape'
  <2>1. room = "none" /\ room' = room /\ joined' = joined /\ invite' = invite
    BY <1>3 DEF CreateAllocates, At, rows, Shape, OneCreate
  <2>2. CASE Ends(d) /\ session' = session
    <3>1. UNCHANGED <<rows, session>> BY <2>1, <2>2 DEF rows
    <3> QED BY <2>2, <3>1, EndsKeepShape
  <2>3. CASE Moves(d, cmd[d].op, "create", cmd[d].seen, l) /\ session' = TRUE
    <3>1. RowsStay(d) BY <1>2, <2>1 DEF RowsStay
    <3>2. SoundMove(d, cmd[d].op, "create", l)
      BY <1>1, <1>2, <2>1, <2>3 DEF SoundMove, PhaseOf, Shape, RoomExists, OwnRows
    <3> QED BY <2>3, <3>1, <3>2, ShapeMoved
  <2> QED BY <1>3, <2>2, <2>3, CreateAllocatesMoves DEF Shape
<1>4. CASE CreateWritesRoom(d)
  <2>1. room' = "ringing" /\ joined' = joined /\ invite' = invite /\ session' = session
    BY <1>4 DEF CreateWritesRoom, mediaVars
  <2>2. Moves(d, cmd[d].op, "invites", cmd[d].seen, cmd[d].left) BY <1>4, PlainMoves DEF Shape
  <2>3. RowsStay(d) BY <1>2, <2>1 DEF RowsStay
  <2>4. SoundMove(d, cmd[d].op, "invites", cmd[d].left)
    BY <1>1, <1>2, <2>1 DEF SoundMove, PhaseOf, Shape, OwnRows
  <2> QED BY <2>2, <2>3, <2>4, ShapeMoved
<1>5. CASE CreateWritesInvite(d)
  <2>1. room # "none" /\ room' = room /\ joined' = joined /\ session' = session
    BY <1>5 DEF CreateWritesInvite, At, mediaVars, Shape, OneCreate
  <2>2. CASE Ends(d) /\ invite' = invite
    <3>1. UNCHANGED <<rows, session>> BY <2>1, <2>2 DEF rows
    <3> QED BY <2>2, <3>1, EndsKeepShape
  <2>3. ASSUME NEW u \in cmd[d].left, Moves(d, cmd[d].op, "invites", cmd[d].seen, cmd[d].left \ {u}),
               invite' = [invite EXCEPT ![u] = "ringing"]
        PROVE  Shape'
    <3>1. \A v \in Users : invite[v] # "none" => invite'[v] # "none" BY <2>3 DEF Shape, TypeOK
    <3>2. RowsStay(d) BY <1>2, <2>1, <3>1 DEF RowsStay
    <3>3. UserOf[d] \in Users BY DeviceAssumption
    <3>4. SoundMove(d, cmd[d].op, "invites", cmd[d].left \ {u})
      BY <1>1, <1>2, <2>1, <3>1, <3>3 DEF SoundMove, PhaseOf, Shape, OwnRows
    <3> QED BY <2>3, <3>2, <3>4, ShapeMoved
  <2> QED BY <1>5, <2>2, <2>3, CreateWritesInviteMoves DEF Shape
<1> QED BY <1>3, <1>4, <1>5

(* The writes of a command that found a room: the call is no longer being   *)
(* created.                                                                 *)
LEMMA LaterKeepsShape ==
    ASSUME Shape, NEW d \in Devices, NEW o, NEW p, NEW s, NEW l, Moves(d, o, p, s, l), TypeOK',
           cmd[d].op # "create", cmd[d].pc \notin {"idle", "room"}, room' # "none",
           \A u \in Users : invite[u] # "none" => invite'[u] # "none",
           \A e \in Devices : e # d => joined'[e] = joined[e],
           SoundMove(d, o, p, l)
    PROVE  Shape'
<1>1. room # "none" BY DEF Shape, RoomExists
<1>2. \A e \in Devices : ~(cmd[e].op = "create" /\ cmd[e].pc \in {"room", "create"})
  BY <1>1 DEF Shape, OneCreate
<1>3. RowsStay(d) BY <1>1, <1>2 DEF RowsStay
<1> QED BY <1>3, ShapeMoved

LEMMA ReadersShape ==
    ASSUME Shape, NEW d \in Devices, TypeOK',
           \/ RequireLiveRoom(d) \/ RequireInviteeOrCreator(d) \/ JoinCounts(d) \/ MediaReadsParticipant(d)
           \/ LeaveOrEndReads(d) \/ LeaveReadsParticipant(d) \/ LeaveCounts(d) \/ EndReads(d)
    PROVE  Shape'
<1>1. UNCHANGED <<rows, session>>
  BY DEF RequireLiveRoom, RequireInviteeOrCreator, JoinCounts, MediaReadsParticipant,
         LeaveOrEndReads, LeaveReadsParticipant, LeaveCounts, EndReads, mediaVars
<1>2. CASE Ends(d) BY <1>1, <1>2, EndsKeepShape
<1>3. ASSUME NEW p, NEW s, Moves(d, cmd[d].op, p, s, cmd[d].left), ReadMove(d, cmd[d].op, p, cmd[d].left)
      PROVE  Shape'
  BY <1>1, <1>3, ReadsKeepShape
<1>4. /\ cmd[d].op # "create" => cmd[d].left = {}
      /\ cmd[d].op # "create" /\ cmd[d].pc \notin {"idle", "room"} => room # "none"
  BY DEF Shape, PhaseOfOp, RoomExists
<1>5. CASE RequireLiveRoom(d)
  <2>1. ASSUME NEW p \in {"participant", "invite"}, Live, p = "participant" <=> cmd[d].op \in {"media", "sfu"}
        PROVE  ReadMove(d, cmd[d].op, p, cmd[d].left)
    BY <1>4, <1>5, <2>1 DEF ReadMove, RequireLiveRoom, PhaseOf, Live
  <2> QED BY <1>2, <1>3, <1>5, <2>1, RequireLiveRoomMoves DEF Shape
<1>6. CASE RequireInviteeOrCreator(d)
  <2>1. ASSUME cmd[d].op = "join", IsCreator(d) \/ invite[UserOf[d]] # "none"
        PROVE  ReadMove(d, cmd[d].op, "count", cmd[d].left)
    BY <1>4, <1>6, <2>1 DEF ReadMove, RequireInviteeOrCreator, PhaseOf
  <2>2. ASSUME cmd[d].op = "accept", invite[UserOf[d]] # "none"
        PROVE  ReadMove(d, cmd[d].op, "accept", cmd[d].left)
    BY <1>4, <1>6, <2>2 DEF ReadMove, RequireInviteeOrCreator, PhaseOf
  <2> QED BY <1>2, <1>3, <1>6, <2>1, <2>2, RequireInviteeOrCreatorMoves DEF Shape
<1>7. CASE JoinCounts(d)
  <2>1. IsCreator(d) \/ invite[UserOf[d]] # "none" BY <1>7 DEF JoinCounts, At, Shape, OwnRows
  <2>2. ReadMove(d, cmd[d].op, "participant", cmd[d].left)
    BY <1>4, <1>7, <2>1 DEF ReadMove, JoinCounts, At, PhaseOf
  <2>3. ASSUME invite[UserOf[d]] # "none" PROVE ReadMove(d, cmd[d].op, "accept", cmd[d].left)
    BY <1>4, <1>7, <2>3 DEF ReadMove, JoinCounts, At, PhaseOf
  <2> QED BY <1>2, <1>3, <1>7, <2>2, <2>3, JoinCountsMoves DEF Shape
<1>8. CASE MediaReadsParticipant(d) \/ LeaveReadsParticipant(d)
  <2>1. ASSUME joined[d] = "joined" PROVE ReadMove(d, cmd[d].op, "write", cmd[d].left)
    BY <1>4, <1>8, <2>1 DEF ReadMove, MediaReadsParticipant, LeaveReadsParticipant, At, PhaseOf
  <2> QED BY <1>2, <1>3, <1>8, <2>1, PlainMoves DEF Shape
<1>9. CASE LeaveOrEndReads(d)
  <2>1. ASSUME NEW p \in {"participant", "end"}, Live, p = "participant" <=> cmd[d].op = "leave"
        PROVE  ReadMove(d, cmd[d].op, p, cmd[d].left)
    BY <1>4, <1>9, <2>1 DEF ReadMove, LeaveOrEndReads, PhaseOf, Live
  <2> QED BY <1>2, <1>3, <1>9, <2>1, LeaveOrEndReadsMoves DEF Shape
<1>10. CASE LeaveCounts(d)
  <2>1. ReadMove(d, cmd[d].op, "end", cmd[d].left)
    BY <1>4, <1>10 DEF ReadMove, LeaveCounts, At, PhaseOf
  <2> QED BY <1>2, <1>3, <1>10, <2>1, PlainMoves DEF Shape
<1>11. CASE EndReads(d)
  <2>1. PhaseOf(cmd[d].op, "end") BY <1>11 DEF EndReads, Shape, PhaseOfOp
  <2>2. ReadMove(d, cmd[d].op, "ended", cmd[d].left)
    BY <1>4, <1>11, <2>1 DEF ReadMove, EndReads, PhaseOf
  <2> QED BY <1>2, <1>3, <1>11, <2>2, PlainMoves DEF Shape
<1> QED BY <1>5, <1>6, <1>7, <1>8, <1>9, <1>10, <1>11

LEMMA WritersShape ==
    ASSUME Shape, NEW d \in Devices, TypeOK',
           \/ AcceptInvite(d) \/ JoinWritesParticipant(d) \/ JoinActivates(d) \/ MediaWrites(d)
           \/ LeaveWrites(d) \/ EndWrites(d) \/ EndReleases(d)
    PROVE  Shape'
<1>0. PhaseOf(cmd[d].op, cmd[d].pc) BY DEF Shape, PhaseOfOp
<1>1. cmd[d].op # "create" /\ cmd[d].pc \notin {"idle", "room"}
  BY <1>0 DEF AcceptInvite, JoinWritesParticipant, JoinActivates, MediaWrites, LeaveWrites, EndWrites,
         EndReleases, At, PhaseOf
<1>2. room # "none" /\ cmd[d].left = {} BY <1>1 DEF Shape, RoomExists, PhaseOfOp
<1>3. room' # "none"
  BY <1>2 DEF AcceptInvite, JoinWritesParticipant, JoinActivates, MediaWrites, LeaveWrites, EndWrites,
         EndReleases, rows
<1>4. \A u \in Users : invite[u] # "none" => invite'[u] # "none"
  BY DEF AcceptInvite, JoinWritesParticipant, JoinActivates, MediaWrites, LeaveWrites, EndWrites,
         EndReleases, rows, Shape, TypeOK
<1>5. \A e \in Devices : e # d => joined'[e] = joined[e]
  BY DEF AcceptInvite, JoinWritesParticipant, JoinActivates, MediaWrites, LeaveWrites, EndWrites,
         EndReleases, rows, Shape, TypeOK
<1>6. UserOf[d] \in Users BY DeviceAssumption
<1>7. ASSUME NEW o, NEW p, NEW s, NEW l, Moves(d, o, p, s, l), SoundMove(d, o, p, l) PROVE Shape'
  BY <1>1, <1>3, <1>4, <1>5, <1>7, LaterKeepsShape
<1>8. CASE AcceptInvite(d)
  <2>1. joined' = joined BY <1>8 DEF AcceptInvite
  <2>2. invite'[UserOf[d]] # "none" BY <1>6, <1>8 DEF AcceptInvite, Shape, TypeOK
  <2>3. SoundMove(d, "none", "idle", {})
    BY <1>3, <2>1, <2>2 DEF SoundMove, PhaseOf
  <2>4. cmd[d].op = "join" => SoundMove(d, cmd[d].op, "participant", cmd[d].left)
    BY <1>2, <1>3, <2>1, <2>2 DEF SoundMove, PhaseOf
  <2> QED BY <1>7, <1>8, <2>3, <2>4, AcceptInviteMoves DEF Shape, Ends
<1>9. CASE JoinWritesParticipant(d)
  <2>1. joined'[d] = "joined" /\ invite' = invite BY <1>9 DEF JoinWritesParticipant, Shape, TypeOK
  <2>2. IsCreator(d) \/ invite[UserOf[d]] # "none" BY <1>9 DEF JoinWritesParticipant, At, Shape, OwnRows
  <2>3. ASSUME NEW p \in {"activate", "token"} PROVE SoundMove(d, cmd[d].op, p, cmd[d].left)
    BY <1>2, <1>3, <1>9, <2>1, <2>2 DEF SoundMove, PhaseOf, JoinWritesParticipant, At
  <2> QED BY <1>7, <1>9, <2>3, JoinWritesParticipantMoves DEF Shape
<1>10. CASE JoinActivates(d)
  <2>1. joined' = joined /\ invite' = invite BY <1>10 DEF JoinActivates
  <2>2. joined[d] = "joined" /\ (IsCreator(d) \/ invite[UserOf[d]] # "none")
    BY <1>10 DEF JoinActivates, At, Shape, OwnRows
  <2>3. SoundMove(d, cmd[d].op, "token", cmd[d].left)
    BY <1>2, <1>3, <1>10, <2>1, <2>2 DEF SoundMove, PhaseOf, JoinActivates, At
  <2> QED BY <1>7, <1>10, <2>3, PlainMoves DEF Shape
<1>11. CASE MediaWrites(d)
  <2>1. joined[d] = "joined" /\ invite' = invite BY <1>11 DEF MediaWrites, At, Shape, OwnRows
  <2>2. IsCreator(d) \/ invite[UserOf[d]] # "none" BY <2>1 DEF Shape, OwnRows
  <2>3. SoundMove(d, "none", "idle", {}) BY <1>3, <2>1, <2>2 DEF SoundMove, PhaseOf
  <2> QED BY <1>7, <1>11, <2>3, PlainMoves DEF Shape, Ends
<1>12. CASE LeaveWrites(d)
  <2>1. joined[d] = "joined" /\ invite' = invite BY <1>12 DEF LeaveWrites, At, Shape, OwnRows
  <2>2. IsCreator(d) \/ invite[UserOf[d]] # "none" BY <2>1 DEF Shape, OwnRows
  <2>3. SoundMove(d, cmd[d].op, "release", cmd[d].left)
    BY <1>2, <1>3, <1>12, <2>1, <2>2 DEF SoundMove, PhaseOf, LeaveWrites, At
  <2> QED BY <1>7, <1>12, <2>3, PlainMoves DEF Shape
<1>13. CASE EndWrites(d)
  <2>1. joined' = joined /\ invite' = invite BY <1>13 DEF EndWrites
  <2>2. SoundMove(d, "end", "announce", cmd[d].left)
    BY <1>2, <1>3, <2>1 DEF SoundMove, PhaseOf, Shape, OwnRows
  <2> QED BY <1>7, <1>13, <2>2, EndWritesMoves DEF Shape
<1>14. CASE EndReleases(d)
  <2>1. joined' = joined /\ invite' = invite BY <1>14 DEF EndReleases, rows
  <2>2. SoundMove(d, "none", "idle", {}) BY <1>3, <2>1 DEF SoundMove, PhaseOf, Shape, OwnRows
  <2> QED BY <1>7, <1>14, <2>2, PlainMoves DEF Shape, Ends
<1> QED BY <1>8, <1>9, <1>10, <1>11, <1>12, <1>13, <1>14

LEMMA OthersShape ==
    ASSUME Shape, NEW d \in Devices, TypeOK',
           JoinGetsToken(d) \/ SfuOperates(d) \/ LeaveReleases(d) \/ EndAnnounces(d) \/ Fails(d)
    PROVE  Shape'
<1>1. UNCHANGED <<rows, session>>
  BY DEF JoinGetsToken, SfuOperates, LeaveReleases, EndAnnounces, Fails, mediaVars
<1>2. CASE JoinGetsToken(d) \/ SfuOperates(d) \/ Fails(d)
  <2>1. Ends(d) BY <1>2, PlainMoves DEF Shape
  <2> QED BY <1>1, <2>1, EndsKeepShape
<1>3. PhaseOf(cmd[d].op, cmd[d].pc) BY DEF Shape, PhaseOfOp
<1>4. /\ cmd[d].op # "create" => cmd[d].left = {}
      /\ cmd[d].op # "create" /\ cmd[d].pc \notin {"idle", "room"} => room # "none"
  BY DEF Shape, PhaseOfOp, RoomExists
<1>5. CASE LeaveReleases(d)
  <2>1. Moves(d, cmd[d].op, "remaining", cmd[d].seen, cmd[d].left) BY <1>5, PlainMoves DEF Shape
  <2>2. ReadMove(d, cmd[d].op, "remaining", cmd[d].left) BY <1>4, <1>5 DEF ReadMove, PhaseOf, LeaveReleases, At
  <2> QED BY <1>1, <2>1, <2>2, ReadsKeepShape
<1>6. CASE EndAnnounces(d)
  <2>1. Moves(d, cmd[d].op, "release", cmd[d].seen, cmd[d].left) BY <1>6, PlainMoves DEF Shape
  <2>2. ReadMove(d, cmd[d].op, "release", cmd[d].left)
    BY <1>3, <1>4, <1>6 DEF ReadMove, PhaseOf, EndAnnounces
  <2> QED BY <1>1, <2>1, <2>2, ReadsKeepShape
<1> QED BY <1>2, <1>5, <1>6

LEMMA StepShape ==
    ASSUME Shape, NEW d \in Devices, Step(d) \/ Fails(d) \/ \E op \in Ops : Issue(d, op)
    PROVE  Shape'
<1>1. TypeOK' BY StepTyped
<1> QED BY <1>1, IssueShape, CreateShape, ReadersShape, WritersShape, OthersShape DEF Step

LEMMA ShapeInvariant == Spec => []Shape
<1>1. Init => Shape
  <2> SUFFICES ASSUME Init PROVE Shape OBVIOUS
  <2>1. Idle \in CommandType BY DEF Idle, CommandType
  <2>2. Idle.op = "none" /\ Idle.pc = "idle" /\ Idle.left = {} BY DEF Idle
  <2>3. TypeOK
    <3>1. issued \in 0..MaxCommands /\ faults \in 0..MaxFaults BY CallLimitAssumption DEF Init
    <3>2. cmd \in [Devices -> CommandType] BY <2>1 DEF Init
    <3>3. invite \in [Users -> {"none", "ringing", "accepted"}] BY DEF Init
    <3>4. joined \in [Devices -> {"none", "joined", "left"}] BY DEF Init
    <3> QED BY <3>1, <3>2, <3>3, <3>4 DEF Init, TypeOK
  <2> QED BY <2>2, <2>3 DEF Init, Shape, PhaseOfOp, PhaseOf, RoomExists, OneCreate, OwnRows, At
<1>2. Shape /\ [Next]_vars => Shape'
  <2> SUFFICES ASSUME Shape, [Next]_vars PROVE Shape' OBVIOUS
  <2>1. CASE UNCHANGED vars
    BY <2>1 DEF vars, rows, mediaVars, history, Shape, TypeOK, PhaseOfOp, RoomExists, OneCreate, OwnRows, At
  <2> QED BY <2>1, StepShape DEF Next
<1> QED BY <1>1, <1>2, PTL DEF Spec

-----------------------------------------------------------------------------
(* The cap is respected.                                                    *)

(* The party is a finite set of users, so that one within another fits when *)
(* the other does.                                                          *)
LEMMA PartyFinite == ASSUME Shape PROVE Party \subseteq Users /\ IsFiniteSet(Party)
<1>1. Party \subseteq Users BY DeviceAssumption DEF Party, Shape, TypeOK, CommandType
<1> QED BY <1>1, DeviceAssumption, FS_Subset

LEMMA SmallerFits ==
    ASSUME NEW S, IsFiniteSet(S), NEW T \in SUBSET S, Fits(Cardinality(S))
    PROVE  Fits(Cardinality(T))
<1>1. Cardinality(T) <= Cardinality(S) /\ Cardinality(T) \in Nat /\ Cardinality(S) \in Nat
  BY FS_Subset, FS_CardinalityType
<1> QED BY <1>1, PlaneAssumption DEF Fits

(* A step that invites nobody who was not in the party.                     *)
LEMMA PartyKept ==
    ASSUME Shape, PartyFits, NEW d \in Devices, NEW o, NEW p, NEW s, NEW l, Moves(d, o, p, s, l),
           l \subseteq cmd[d].left,
           \A u \in Users : invite'[u] # "none" => invite[u] # "none" \/ u \in cmd[d].left,
           plane' = plane, Admitted' => Admitted
    PROVE  PartyFits'
<1>1. \A e \in Devices : cmd'[e].left \subseteq cmd[e].left BY DEF Moves
<1>2. Party' \in SUBSET Party BY <1>1 DEF Party
<1>3. IsFiniteSet(Party) BY PartyFinite
<1>4. Admitted' => Fits(Cardinality(Party')) BY <1>2, <1>3, SmallerFits DEF PartyFits
<1> QED BY <1>4 DEF PartyFits, Fits

(* create_call admits the call: nobody is invited yet, and the invitees fit *)
(* with the creator.                                                        *)
LEMMA CreateAllocatesParty ==
    ASSUME Shape, PartyFits, NEW d \in Devices, NEW l \in SUBSET Users, CreateAllocates(d, l)
    PROVE  PartyFits'
<1>1. /\ cmd[d].op = "create" /\ cmd[d].pc = "room" /\ Creator \notin l /\ plane' = plane
      /\ room' = room /\ invite' = invite
  BY DEF CreateAllocates, At, rows
<1>2. room = "none" /\ cmd[d].left = {} BY <1>1 DEF Shape, OneCreate
<1>3. CASE Moves(d, cmd[d].op, "create", cmd[d].seen, l) /\ Fits(Cardinality(l) + 1)
  <2>1. \A u \in Users : invite'[u] = "none" BY <1>1, <1>2 DEF Shape, RoomExists, TypeOK
  <2>2. \A e \in Devices : e # d => cmd'[e].left = {}
    BY <1>1, <1>3 DEF Moves, Shape, OneCreate, PhaseOfOp
  <2>3. cmd'[d].left = l BY <1>3 DEF Moves
  <2>4. Party' = l \cup {Creator} BY <2>1, <2>2, <2>3 DEF Party
  <2>5. IsFiniteSet(l) BY DeviceAssumption, FS_Subset
  <2>6. Cardinality(Party') = Cardinality(l) + 1 BY <1>1, <2>4, <2>5, FS_AddElement
  <2> QED BY <1>1, <1>3, <2>6 DEF PartyFits, Fits
<1>4. CASE Ends(d)
  <2>1. ~Admitted'
    BY <1>1, <1>2, <1>4 DEF Admitted, Ends, Moves, At, Shape, OneCreate
  <2> QED BY <2>1 DEF PartyFits
<1> QED BY <1>3, <1>4, CreateAllocatesMoves DEF Shape

LEMMA CreateWritesParty ==
    ASSUME Shape, PartyFits, NEW d \in Devices, CreateWritesRoom(d) \/ CreateWritesInvite(d)
    PROVE  PartyFits'
<1>1. plane' = plane BY DEF CreateWritesRoom, CreateWritesInvite, mediaVars
<1>2. Admitted
  BY DEF CreateWritesRoom, CreateWritesInvite, At, Admitted, Shape, OneCreate
<1>3. CASE CreateWritesRoom(d)
  <2>1. Moves(d, cmd[d].op, "invites", cmd[d].seen, cmd[d].left) BY <1>3, PlainMoves DEF Shape
  <2>2. invite' = invite BY <1>3 DEF CreateWritesRoom
  <2> QED BY <1>1, <1>2, <2>1, <2>2, PartyKept
<1>4. CASE CreateWritesInvite(d)
  <2>1. CASE Ends(d) /\ invite' = invite
    <3>1. {} \subseteq cmd[d].left OBVIOUS
    <3> QED BY <1>1, <1>2, <2>1, <3>1, PartyKept DEF Ends
  <2>2. ASSUME NEW u \in cmd[d].left, Moves(d, cmd[d].op, "invites", cmd[d].seen, cmd[d].left \ {u}),
               invite' = [invite EXCEPT ![u] = "ringing"]
        PROVE  PartyFits'
    <3>1. cmd[d].left \ {u} \subseteq cmd[d].left OBVIOUS
    <3>2. \A v \in Users : invite'[v] # "none" => invite[v] # "none" \/ v \in cmd[d].left
      BY <2>2 DEF Shape, TypeOK
    <3> QED BY <1>1, <1>2, <2>2, <3>1, <3>2, PartyKept
  <2> QED BY <1>4, <2>1, <2>2, CreateWritesInviteMoves DEF Shape
<1> QED BY <1>3, <1>4

(* Every other step invites nobody, and finds the call admitted if it       *)
(* leaves it so.                                                            *)
LEMMA OthersParty ==
    ASSUME Shape, PartyFits, NEW d \in Devices,
           \/ RequireLiveRoom(d) \/ RequireInviteeOrCreator(d) \/ AcceptInvite(d)
           \/ JoinCounts(d) \/ JoinWritesParticipant(d) \/ JoinActivates(d) \/ JoinGetsToken(d)
           \/ MediaReadsParticipant(d) \/ MediaWrites(d) \/ SfuOperates(d)
           \/ LeaveOrEndReads(d) \/ LeaveReadsParticipant(d) \/ LeaveWrites(d)
           \/ LeaveReleases(d) \/ LeaveCounts(d)
           \/ EndReads(d) \/ EndWrites(d) \/ EndAnnounces(d) \/ EndReleases(d) \/ Fails(d)
           \/ \E op \in Ops : Issue(d, op)
    PROVE  PartyFits'
<1>1. plane' = plane
  BY DEF RequireLiveRoom, RequireInviteeOrCreator, AcceptInvite, JoinCounts, JoinWritesParticipant,
         JoinActivates, JoinGetsToken, MediaReadsParticipant, MediaWrites, SfuOperates, LeaveOrEndReads,
         LeaveReadsParticipant, LeaveWrites, LeaveReleases, LeaveCounts, EndReads, EndWrites, EndAnnounces,
         EndReleases, Fails, Issue, mediaVars
<1>2. \A u \in Users : invite'[u] # "none" => invite[u] # "none"
  <2>1. CASE AcceptInvite(d)
    BY <2>1 DEF AcceptInvite, Shape, TypeOK, OwnRows
  <2>2. CASE ~AcceptInvite(d)
    BY <2>2 DEF RequireLiveRoom, RequireInviteeOrCreator, JoinCounts, JoinWritesParticipant,
         JoinActivates, JoinGetsToken, MediaReadsParticipant, MediaWrites, SfuOperates, LeaveOrEndReads,
         LeaveReadsParticipant, LeaveWrites, LeaveReleases, LeaveCounts, EndReads, EndWrites, EndAnnounces,
         EndReleases, Fails, Issue, rows
  <2> QED BY <2>1, <2>2
<1>3. PhaseOf(cmd[d].op, cmd[d].pc) BY DEF Shape, PhaseOfOp
<1>4. room' = room \/ room # "none"
  <2>1. CASE JoinActivates(d) BY <2>1 DEF JoinActivates, At, Shape, RoomExists
  <2>2. CASE EndWrites(d) BY <1>3, <2>2 DEF EndWrites, PhaseOf, Shape, RoomExists
  <2>3. CASE ~(JoinActivates(d) \/ EndWrites(d))
    BY <2>3 DEF RequireLiveRoom, RequireInviteeOrCreator, AcceptInvite, JoinCounts, JoinWritesParticipant,
         JoinGetsToken, MediaReadsParticipant, MediaWrites, SfuOperates, LeaveOrEndReads,
         LeaveReadsParticipant, LeaveWrites, LeaveReleases, LeaveCounts, EndReads, EndAnnounces,
         EndReleases, Fails, Issue, rows
  <2> QED BY <2>1, <2>2, <2>3
<1>5. ASSUME NEW o, NEW p, NEW s, NEW l, Moves(d, o, p, s, l), l \subseteq cmd[d].left, p # "create"
      PROVE  PartyFits'
  <2>1. Admitted' => Admitted BY <1>4, <1>5 DEF Admitted, At, Moves
  <2> QED BY <1>1, <1>2, <1>5, <2>1, PartyKept
<1>6. CASE Ends(d)
  <2>1. {} \subseteq cmd[d].left OBVIOUS
  <2> QED BY <1>5, <1>6, <2>1 DEF Ends
<1>7. ASSUME NEW o, NEW p, NEW s, Moves(d, o, p, s, cmd[d].left), p # "create" PROVE PartyFits'
  BY <1>5, <1>7
<1>8. CASE RequireLiveRoom(d) BY <1>6, <1>7, <1>8, RequireLiveRoomMoves DEF Shape
<1>9. CASE RequireInviteeOrCreator(d) BY <1>6, <1>7, <1>9, RequireInviteeOrCreatorMoves DEF Shape
<1>10. CASE AcceptInvite(d) BY <1>6, <1>7, <1>10, AcceptInviteMoves DEF Shape
<1>11. CASE JoinCounts(d) BY <1>6, <1>7, <1>11, JoinCountsMoves DEF Shape
<1>12. CASE JoinWritesParticipant(d) BY <1>7, <1>12, JoinWritesParticipantMoves DEF Shape
<1>13. CASE LeaveOrEndReads(d) BY <1>6, <1>7, <1>13, LeaveOrEndReadsMoves DEF Shape
<1>14. CASE EndWrites(d) BY <1>7, <1>14, EndWritesMoves DEF Shape
<1>15. CASE \/ JoinActivates(d) \/ MediaReadsParticipant(d) \/ LeaveReadsParticipant(d) \/ LeaveWrites(d)
            \/ LeaveReleases(d) \/ LeaveCounts(d) \/ EndReads(d) \/ EndAnnounces(d) \/ JoinGetsToken(d)
            \/ MediaWrites(d) \/ SfuOperates(d) \/ EndReleases(d) \/ Fails(d)
  BY <1>6, <1>7, <1>15, PlainMoves DEF Shape
<1>16. CASE \E op \in Ops : Issue(d, op)
  <2>1. PICK op \in Ops : Issue(d, op) BY <1>16
  <2>2. Moves(d, op, "room", "none", {}) BY <2>1, IssueMoves DEF Shape
  <2>3. {} \subseteq cmd[d].left OBVIOUS
  <2> QED BY <1>5, <2>2, <2>3
<1> QED BY <1>8, <1>9, <1>10, <1>11, <1>12, <1>13, <1>14, <1>15, <1>16

(* CapacityRespected, of create_call and assert_participant_capacity: joins *)
(* that count before they write never exceed the media plane's cap.         *)
THEOREM Capacity == Spec => []CapacityRespected
<1>1. Init => PartyFits
  <2> SUFFICES ASSUME Init PROVE PartyFits OBVIOUS
  <2>1. Idle.op = "none" BY DEF Idle
  <2> QED BY <2>1 DEF Init, PartyFits, Admitted, At
<1>2. Shape /\ PartyFits /\ [Next]_vars => PartyFits'
  <2> SUFFICES ASSUME Shape, PartyFits, [Next]_vars PROVE PartyFits' OBVIOUS
  <2>1. CASE UNCHANGED vars
    BY <2>1 DEF vars, rows, mediaVars, PartyFits, Admitted, At, Fits, Party
  <2> QED BY <2>1, CreateAllocatesParty, CreateWritesParty, OthersParty DEF Next, Step
<1>3. Shape /\ PartyFits => CapacityRespected
  <2> SUFFICES ASSUME Shape, PartyFits PROVE CapacityRespected OBVIOUS
  <2>1. CASE Joined = {}
    <3>1. ActiveUsers = {} BY <2>1 DEF ActiveUsers
    <3> QED BY <3>1, FS_EmptySet, PlaneAssumption DEF CapacityRespected, Fits
  <2>2. CASE Joined # {}
    <3>1. room # "none" BY <2>2 DEF Joined, Shape, RoomExists
    <3>2. ActiveUsers \in SUBSET Party
      BY DeviceAssumption DEF ActiveUsers, Joined, Party, Shape, OwnRows, IsCreator
    <3>3. Fits(Cardinality(Party)) BY <3>1 DEF PartyFits, Admitted
    <3> QED BY <3>2, <3>3, PartyFinite, SmallerFits DEF CapacityRespected
  <2> QED BY <2>1, <2>2
<1> QED BY <1>1, <1>2, <1>3, ShapeInvariant, PTL DEF Spec

-----------------------------------------------------------------------------
(* The media session, through overlapping ends.                             *)

(* A move that touches neither the room nor the media: the command is not   *)
(* ending the call, and its device keeps its media only if it is in.        *)
MediaQuiet(d, o, p) ==
    /\ UNCHANGED <<room, session, media, streams, announced, revived>>
    /\ broken => broken'
    /\ \A e \in Devices : e # d => joined'[e] = joined[e]
    /\ p # "announce" /\ ~(o = "end" /\ p = "release")
    /\ ~broken' => /\ ~Ending(d)
                   /\ d \in media \cup streams => joined'[d] = "joined" \/ (o = "leave" /\ p = "release")

LEMMA QuietKeepsMedia ==
    ASSUME Shape, MediaInv, NEW d \in Devices, NEW o, NEW p, NEW s, NEW l, Moves(d, o, p, s, l),
           MediaQuiet(d, o, p)
    PROVE  MediaInv'
<1> USE DEF MediaInv
<1>0. \A e \in Devices : e # d => cmd'[e] = cmd[e] BY DEF Moves
<1>1. cmd'[d].op = o /\ cmd'[d].pc = p BY DEF Moves
<1>2. ReleasedInv' BY <1>0, <1>1 DEF ReleasedInv, MediaQuiet, At
<1>3. EndStays' BY <1>0, <1>1 DEF EndStays, MediaQuiet, Ending, At
<1>4. EndReleasesIt' BY <1>0, <1>1 DEF EndReleasesIt, MediaQuiet, Ending, At
<1>5. MediaOfJoined'
  <2> SUFFICES ASSUME ~broken', NEW e \in media' \cup streams'
               PROVE  joined'[e] = "joined" \/ At(e, "leave", "release")'
    BY DEF MediaOfJoined
  <2>1. e \in Devices /\ e \in media \cup streams BY DEF MediaQuiet, Shape, TypeOK
  <2>2. CASE e = d BY <1>1, <2>1, <2>2 DEF MediaQuiet, At
  <2>3. CASE e # d BY <1>0, <2>1, <2>3 DEF MediaQuiet, At, MediaOfJoined
  <2> QED BY <2>2, <2>3
<1> QED BY <1>2, <1>3, <1>4, <1>5

(* The steps of that kind.                                                  *)
LEMMA QuietStepsMedia ==
    ASSUME Shape, MediaInv, NEW d \in Devices,
           \/ CreateWritesInvite(d) \/ RequireLiveRoom(d) \/ RequireInviteeOrCreator(d) \/ AcceptInvite(d)
           \/ JoinCounts(d) \/ JoinWritesParticipant(d) \/ MediaReadsParticipant(d) \/ MediaWrites(d)
           \/ LeaveOrEndReads(d) \/ LeaveReadsParticipant(d) \/ LeaveWrites(d) \/ LeaveCounts(d)
           \/ EndReads(d) \/ Fails(d) \/ \E op \in Ops : Issue(d, op)
    PROVE  MediaInv'
<1>1. /\ UNCHANGED <<room, session, media, streams, announced, revived>>
      /\ broken => broken'
      /\ \A e \in Devices : e # d => joined'[e] = joined[e]
  BY DEF CreateWritesInvite, RequireLiveRoom, RequireInviteeOrCreator, AcceptInvite, JoinCounts,
         JoinWritesParticipant, MediaReadsParticipant, MediaWrites, LeaveOrEndReads, LeaveReadsParticipant,
         LeaveWrites, LeaveCounts, EndReads, Fails, Issue, rows, mediaVars, history, Shape, TypeOK
<1>2. ~broken' => /\ cmd[d].pc # "announce" /\ ~(cmd[d].op \in {"end", "leave"} /\ cmd[d].pc = "release")
                  /\ joined'[d] = joined[d] \/ joined'[d] = "joined" \/ LeaveWrites(d)
  <2>1. Idle.pc = "idle" BY DEF Idle
  <2> QED BY <2>1
    DEF CreateWritesInvite, RequireLiveRoom, RequireInviteeOrCreator, AcceptInvite, JoinCounts,
         JoinWritesParticipant, MediaReadsParticipant, MediaWrites, LeaveOrEndReads, LeaveReadsParticipant,
         LeaveWrites, LeaveCounts, EndReads, Fails, Issue, rows, At, Shape, TypeOK
<1>3. ~broken' /\ d \in media \cup streams => joined[d] = "joined"
  BY <1>1, <1>2 DEF MediaInv, MediaOfJoined, At
<1>4. ASSUME NEW o, NEW p, p \notin {"announce", "release"}, ~LeaveWrites(d) PROVE MediaQuiet(d, o, p)
  BY <1>1, <1>2, <1>3, <1>4 DEF MediaQuiet, Ending, At
<1>5. ASSUME NEW o, NEW p, NEW s, NEW l, Moves(d, o, p, s, l), p \notin {"announce", "release"}, ~LeaveWrites(d)
      PROVE  MediaInv'
  BY <1>4, <1>5, QuietKeepsMedia
<1>6. CASE Ends(d) /\ ~LeaveWrites(d) BY <1>5, <1>6 DEF Ends
<1>7. CASE LeaveWrites(d)
  <2>1. Moves(d, cmd[d].op, "release", cmd[d].seen, cmd[d].left) BY <1>7, PlainMoves DEF Shape
  <2>2. MediaQuiet(d, cmd[d].op, "release")
    BY <1>1, <1>2, <1>7 DEF MediaQuiet, LeaveWrites, Ending, At
  <2> QED BY <2>1, <2>2, QuietKeepsMedia
<1>8. CASE ~LeaveWrites(d)
  <2> USE <1>5, <1>6, <1>8
  <2>1. CASE CreateWritesInvite(d)
    <3>1. ASSUME NEW u \in cmd[d].left, Moves(d, cmd[d].op, "invites", cmd[d].seen, cmd[d].left \ {u})
          PROVE  MediaInv'
      BY <3>1
    <3> QED BY <2>1, <3>1, CreateWritesInviteMoves DEF Shape
  <2>2. CASE RequireLiveRoom(d) BY <2>2, RequireLiveRoomMoves DEF Shape
  <2>3. CASE RequireInviteeOrCreator(d) BY <2>3, RequireInviteeOrCreatorMoves DEF Shape
  <2>4. CASE AcceptInvite(d) BY <2>4, AcceptInviteMoves DEF Shape
  <2>5. CASE JoinCounts(d) BY <2>5, JoinCountsMoves DEF Shape
  <2>6. CASE JoinWritesParticipant(d) BY <2>6, JoinWritesParticipantMoves DEF Shape
  <2>7. CASE LeaveOrEndReads(d) BY <2>7, LeaveOrEndReadsMoves DEF Shape
  <2>8. CASE MediaReadsParticipant(d) \/ LeaveReadsParticipant(d) \/ LeaveCounts(d) \/ EndReads(d)
             \/ MediaWrites(d) \/ Fails(d)
    BY <2>8, PlainMoves DEF Shape
  <2>9. CASE \E op \in Ops : Issue(d, op) BY <2>9, IssueMoves DEF Shape
  <2> QED BY <2>1, <2>2, <2>3, <2>4, <2>5, <2>6, <2>7, <2>8, <2>9
<1> QED BY <1>7, <1>8

(* The writes of create_call: nobody ends a call that is not there yet.     *)
LEMMA CreateMedia ==
    ASSUME Shape, MediaInv, NEW d \in Devices,
           CreateWritesRoom(d) \/ \E l \in SUBSET Users : CreateAllocates(d, l)
    PROVE  MediaInv'
<1> USE DEF MediaInv
<1>0. /\ UNCHANGED <<joined, media, streams, announced, revived, broken>>
      /\ cmd[d].op = "create" /\ cmd[d].pc \in {"room", "create"}
  BY DEF CreateWritesRoom, CreateAllocates, At, rows, mediaVars, history
<1>1. /\ room = "none" /\ room' # "ended"
      /\ ~session' => ~session
      /\ room' # "none" => session'
  <2>1. room = "none" /\ (cmd[d].pc = "create" => session) BY <1>0 DEF Shape, OneCreate
  <2>2. CASE CreateWritesRoom(d) BY <2>1, <2>2 DEF CreateWritesRoom, At, mediaVars
  <2>3. ASSUME NEW l \in SUBSET Users, CreateAllocates(d, l)
        PROVE  room' = room /\ (~session' => ~session)
    BY <2>3 DEF CreateAllocates, rows
  <2> QED BY <2>1, <2>2, <2>3
<1>2. \A e \in Devices : ~Ending(e) /\ ~At(e, "leave", "release")
  <2> SUFFICES ASSUME NEW e \in Devices PROVE ~Ending(e) /\ ~At(e, "leave", "release") OBVIOUS
  <2>1. PhaseOf(cmd[e].op, cmd[e].pc) BY DEF Shape, PhaseOfOp
  <2> QED BY <1>1, <2>1 DEF PhaseOf, Ending, At, Shape, RoomExists
<1>3. ASSUME NEW p, NEW s, NEW l, NEW o, Moves(d, o, p, s, l), p \notin {"announce", "release"} PROVE MediaInv'
  <2>0. \A e \in Devices : e # d => cmd'[e] = cmd[e] BY <1>3 DEF Moves
  <2>1. cmd'[d].pc = p BY <1>3 DEF Moves
  <2>2. \A e \in Devices : ~Ending(e)' /\ ~At(e, "leave", "release")'
    BY <1>2, <1>3, <2>0, <2>1 DEF Ending, At
  <2>3. ReleasedInv' BY <1>0, <1>1, <2>2 DEF ReleasedInv, Ending
  <2>4. EndStays' BY <1>1, <2>2 DEF EndStays
  <2>5. EndReleasesIt' BY <1>1 DEF EndReleasesIt
  <2>6. MediaOfJoined' BY <1>0, <1>2 DEF MediaOfJoined, Shape, TypeOK
  <2> QED BY <2>3, <2>4, <2>5, <2>6
<1>4. CASE Ends(d) BY <1>3, <1>4 DEF Ends
<1>5. CASE CreateWritesRoom(d) BY <1>3, <1>5, PlainMoves DEF Shape
<1>6. ASSUME NEW l \in SUBSET Users, CreateAllocates(d, l) PROVE MediaInv'
  <2>1. \/ Moves(d, cmd[d].op, "create", cmd[d].seen, l)
        \/ Ends(d)
    BY <1>6, CreateAllocatesMoves DEF Shape
  <2> QED BY <1>3, <1>4, <2>1
<1> QED BY <1>5, <1>6

(* A join activates the room.  If that is not over its end, nobody is       *)
(* ending the call and the session is there.                                *)
LEMMA JoinActivatesMedia ==
    ASSUME Shape, MediaInv, NEW d \in Devices, JoinActivates(d)
    PROVE  MediaInv'
<1> USE DEF MediaInv
<1>1. /\ room' = "active" /\ (~revived' => ~revived /\ room # "ended")
      /\ UNCHANGED <<joined, session, media, streams, announced, broken>>
      /\ cmd[d].op = "join" /\ cmd[d].pc = "activate"
  BY DEF JoinActivates, At, mediaVars
<1>2. room # "none" BY <1>1 DEF Shape, RoomExists
<1>3. Moves(d, cmd[d].op, "token", cmd[d].seen, cmd[d].left) BY PlainMoves DEF Shape
<1>4. \A e \in Devices : /\ Ending(e)' => Ending(e)
                         /\ At(e, "leave", "release")' <=> At(e, "leave", "release")
                         /\ At(e, "end", "release")' => At(e, "end", "release")
  BY <1>1, <1>3 DEF Moves, Ending, At
<1>5. ReleasedInv' BY <1>1, <1>2, <1>4 DEF ReleasedInv
<1>6. EndStays' BY <1>1, <1>2, <1>4 DEF EndStays
<1>7. EndReleasesIt' BY <1>1 DEF EndReleasesIt
<1>8. MediaOfJoined' BY <1>1, <1>4 DEF MediaOfJoined, Shape, TypeOK
<1> QED BY <1>5, <1>6, <1>7, <1>8

(* Transports and streams come and go: only with a session, and only for a  *)
(* device that is in.                                                       *)
LEMMA DeviceMedia ==
    ASSUME Shape, MediaInv, NEW d \in Devices, JoinGetsToken(d) \/ SfuOperates(d) \/ LeaveReleases(d)
    PROVE  MediaInv'
<1> USE DEF MediaInv
<1>1. /\ UNCHANGED <<room, joined, session, announced, revived, broken>>
      /\ cmd[d].pc # "announce" /\ ~At(d, "end", "release")
  BY DEF JoinGetsToken, SfuOperates, LeaveReleases, At, rows, history
<1>2. /\ ~session => media' = {} /\ streams' = {}
      /\ \A e \in (media' \cup streams') \ {d} : e \in media \cup streams
  BY DEF JoinGetsToken, SfuOperates, LeaveReleases, ReleasedInv
<1>3. d \in media' \cup streams' => joined[d] = "joined"
  BY DEF JoinGetsToken, SfuOperates, LeaveReleases, At, Shape, OwnRows
<1>4. /\ \A e \in Devices : e # d => cmd'[e] = cmd[e]
      /\ cmd'[d].pc \in {"idle", "remaining"}
  <2>1. Ends(d) \/ Moves(d, cmd[d].op, "remaining", cmd[d].seen, cmd[d].left) BY PlainMoves DEF Shape
  <2> QED BY <2>1 DEF Ends, Moves
<1>5. ReleasedInv' BY <1>1, <1>2, <1>4 DEF ReleasedInv, At
<1>6. EndStays' BY <1>1, <1>4 DEF EndStays, Ending, At
<1>7. EndReleasesIt' BY <1>1, <1>4 DEF EndReleasesIt, Ending, At
<1>8. MediaOfJoined'
  <2>1. media' \cup streams' \subseteq Devices
    BY DEF JoinGetsToken, SfuOperates, LeaveReleases, Shape, TypeOK
  <2> QED BY <1>1, <1>2, <1>3, <1>4, <2>1 DEF MediaOfJoined, At
<1> QED BY <1>5, <1>6, <1>7, <1>8

(* finalize_end: the room's end, CallEnded, and the release of the session. *)
LEMMA EndMedia ==
    ASSUME Shape, MediaInv, NEW d \in Devices, EndWrites(d) \/ EndAnnounces(d) \/ EndReleases(d)
    PROVE  MediaInv'
<1> USE DEF MediaInv
<1>0. PhaseOf(cmd[d].op, cmd[d].pc) BY DEF Shape, PhaseOfOp
<1>1. CASE EndWrites(d)
  <2>1. /\ room' = "ended" /\ cmd[d].pc = "ended"
        /\ UNCHANGED <<joined, session, media, streams, announced, revived, broken>>
    BY <1>1 DEF EndWrites, mediaVars, history
  <2>2. room # "none" BY <1>0, <2>1 DEF PhaseOf, Shape, RoomExists
  <2>3. /\ \A e \in Devices : e # d => cmd'[e] = cmd[e]
        /\ cmd'[d].pc = "announce"
    BY <1>1, EndWritesMoves DEF Shape, Moves
  <2>4. ReleasedInv' BY <2>1, <2>2, <2>3 DEF ReleasedInv, At
  <2>5. EndStays' BY <2>1 DEF EndStays
  <2>6. EndReleasesIt' BY <2>3 DEF EndReleasesIt, Ending
  <2>7. MediaOfJoined' BY <2>1, <2>3 DEF MediaOfJoined, At, Shape, TypeOK
  <2> QED BY <2>4, <2>5, <2>6, <2>7
<1>2. CASE EndAnnounces(d)
  <2>1. /\ announced' = TRUE /\ cmd[d].pc = "announce"
        /\ UNCHANGED <<room, joined, session, media, streams, revived, broken>>
    BY <1>2 DEF EndAnnounces, rows, mediaVars
  <2>2. /\ \A e \in Devices : e # d => cmd'[e] = cmd[e]
        /\ cmd'[d].pc = "release" /\ cmd'[d].op = "end"
    BY <1>0, <1>2, <2>1, PlainMoves DEF Shape, Moves, PhaseOf
  <2>3. ReleasedInv' BY <2>1 DEF ReleasedInv
  <2>4. EndStays' BY <2>1, <2>2 DEF EndStays, Ending, At
  <2>5. EndReleasesIt' BY <2>2 DEF EndReleasesIt, Ending, At
  <2>6. MediaOfJoined' BY <2>1, <2>2 DEF MediaOfJoined, At, Shape, TypeOK
  <2> QED BY <2>3, <2>4, <2>5, <2>6
<1>3. CASE EndReleases(d)
  <2>1. /\ session' = FALSE /\ media' = {} /\ streams' = {} /\ At(d, "end", "release")
        /\ UNCHANGED <<room, joined, announced, revived, broken>>
    BY <1>3 DEF EndReleases, rows, history
  <2>2. announced /\ (~revived => room = "ended") BY <2>1 DEF ReleasedInv, EndStays, Ending
  <2>3. ReleasedInv' BY <2>1, <2>2 DEF ReleasedInv
  <2>4. EndStays' BY <2>1, <2>2 DEF EndStays
  <2>5. EndReleasesIt' BY <2>1 DEF EndReleasesIt
  <2>6. MediaOfJoined' BY <2>1 DEF MediaOfJoined
  <2> QED BY <2>3, <2>4, <2>5, <2>6
<1> QED BY <1>1, <1>2, <1>3

LEMMA MediaInvariant == Spec => []MediaInv
<1>1. Init => MediaInv
  <2> SUFFICES ASSUME Init PROVE MediaInv OBVIOUS
  <2>1. Idle.op = "none" /\ Idle.pc = "idle" BY DEF Idle
  <2> QED BY <2>1 DEF Init, MediaInv, ReleasedInv, EndStays, EndReleasesIt, MediaOfJoined, Ending, At
<1>2. Shape /\ MediaInv /\ [Next]_vars => MediaInv'
  <2> SUFFICES ASSUME Shape, MediaInv, [Next]_vars PROVE MediaInv' OBVIOUS
  <2>1. CASE UNCHANGED vars
    BY <2>1 DEF vars, rows, mediaVars, history, MediaInv, ReleasedInv, EndStays, EndReleasesIt,
                MediaOfJoined, Ending, At
  <2> QED BY <2>1, QuietStepsMedia, CreateMedia, JoinActivatesMedia, DeviceMedia, EndMedia DEF Next, Step
<1> QED BY <1>1, <1>2, ShapeInvariant, PTL DEF Spec

(* When nothing is in progress, nobody is ending or leaving.                *)
LEMMA QuietEnds == ASSUME Quiet PROVE \A d \in Devices : ~Ending(d) /\ cmd[d].op = "none" /\ cmd[d].pc = "idle"
<1>1. Idle.op = "none" /\ Idle.pc = "idle" BY DEF Idle
<1> QED BY <1>1 DEF Quiet, Ending, At

(* ActiveCallHasMedia, of issue_join_token: a call that is active, and was  *)
(* never written over its end, has its media session.                       *)
THEOREM ActiveHasMedia == Spec => []ActiveCallHasMedia
<1>1. MediaInv => ActiveCallHasMedia BY DEF MediaInv, EndStays, ActiveCallHasMedia
<1> QED BY <1>1, MediaInvariant, PTL

(* EndedCallHoldsNoMedia, of finalize_end: however many commands end the    *)
(* call at once, its session is released, and CallEnded goes before.        *)
THEOREM EndedIsReleased == Spec => []EndedCallHoldsNoMedia
<1>1. MediaInv => EndedCallHoldsNoMedia
  BY QuietEnds DEF MediaInv, EndReleasesIt, ReleasedInv, EndedCallHoldsNoMedia
<1> QED BY <1>1, MediaInvariant, PTL

(* NoMediaLeaks, of leave_participant: without a failure, only the devices  *)
(* that are in the call hold transports, producers or consumers.            *)
THEOREM NoLeaks == Spec => []NoMediaLeaks
<1>1. Shape /\ MediaInv => NoMediaLeaks
  BY QuietEnds DEF Shape, TypeOK, MediaInv, MediaOfJoined, NoMediaLeaks, Joined, At
<1> QED BY <1>1, ShapeInvariant, MediaInvariant, PTL

-----------------------------------------------------------------------------
(* The last to leave ends the call, through overlapping leaves.             *)

(* A command that will count who remains, or that has counted. *)
Leaving(o, p) == (o = "leave" /\ p \in {"release", "remaining"}) \/ p \in {"end", "ended"}

(* What a move of device d must respect: a room that was activated is not   *)
(* rung again, and where nobody is left in an active call, the device that  *)
(* moves is, or some other was already, about to notice.                    *)
SeatMove(d, o, p, s) ==
    /\ \A e \in Devices : e # d => joined'[e] = joined[e]
    /\ broken => broken'
    /\ room \in {"active", "ended"} => room' \in {"active", "ended"}
    /\ s = "active" => room' \in {"active", "ended"}
    /\ o # "create" /\ p \notin {"idle", "room"} => s # "none"
    /\ ~broken' =>
          /\ joined'[d] = "joined" /\ ~(o = "join" /\ p = "activate") => room' \in {"active", "ended"}
          /\ o = "leave" /\ p = "participant" /\ s # "active" => joined'[d] # "joined"
          /\ o = "leave" /\ p \in {"write", "release", "remaining"} => s = "active"
          /\ room' = "active" =>
                \/ joined'[d] = "joined" \/ Leaving(o, p)
                \/ room = "active" /\ joined[d] # "joined" /\ ~Leaving(cmd[d].op, cmd[d].pc)

LEMMA SeatMoved ==
    ASSUME Shape, LeaveInv, NEW d \in Devices, NEW o, NEW p, NEW s, NEW l, Moves(d, o, p, s, l),
           SeatMove(d, o, p, s)
    PROVE  LeaveInv'
<1> USE DEF LeaveInv
<1>0. \A e \in Devices : e # d => cmd'[e] = cmd[e] BY DEF Moves
<1>1. cmd'[d].op = o /\ cmd'[d].pc = p /\ cmd'[d].seen = s BY DEF Moves
<1>2. SeenHolds' BY <1>0, <1>1 DEF SeenHolds, SeatMove
<1>3. JoinedIsActive' BY <1>0, <1>1 DEF JoinedIsActive, SeatMove, At
<1>4. LastLeaves'
  <2> SUFFICES ASSUME ~broken', room' = "active", \A e \in Devices : joined'[e] # "joined"
               PROVE  \E e \in Devices : Leaving(cmd'[e].op, cmd'[e].pc)
    BY DEF LastLeaves, Joined, Leaving
  <2>1. CASE Leaving(o, p) BY <1>1, <2>1
  <2>2. CASE ~Leaving(o, p)
    <3>1. ~broken /\ room = "active" /\ joined[d] # "joined" /\ ~Leaving(cmd[d].op, cmd[d].pc)
      BY <2>2 DEF SeatMove
    <3>2. Joined = {} BY <3>1 DEF SeatMove, Joined
    <3>3. PICK e \in Devices : Leaving(cmd[e].op, cmd[e].pc) BY <3>1, <3>2 DEF LastLeaves, Leaving
    <3> QED BY <1>0, <3>1, <3>3
  <2> QED BY <2>1, <2>2
<1> QED BY <1>2, <1>3, <1>4

(* A step of another operation than leave that writes no row and goes on:   *)
(* it keeps what it has seen, or has just seen a room.                      *)
ReadSeat(d, o, s) ==
    /\ o = cmd[d].op /\ o # "leave" /\ ~Leaving(o, cmd[d].pc) /\ ~At(d, "join", "activate")
    /\ \/ s = cmd[d].seen /\ (o = "create" \/ cmd[d].pc \notin {"idle", "room"})
       \/ s = room /\ Live

LEMMA ReadsKeepSeats ==
    ASSUME Shape, LeaveInv, NEW d \in Devices, UNCHANGED rows, broken' = broken,
           NEW o, NEW p, NEW s, NEW l, Moves(d, o, p, s, l), ReadSeat(d, o, s)
    PROVE  LeaveInv'
<1>1. room' = room /\ joined' = joined BY DEF rows
<1>2. s = "active" => room \in {"active", "ended"} BY DEF ReadSeat, LeaveInv, SeenHolds
<1>3. o = "create" \/ s # "none" BY DEF ReadSeat, LeaveInv, SeenHolds, Live
<1>4. ~broken => (joined[d] = "joined" => room \in {"active", "ended"})
  BY DEF ReadSeat, LeaveInv, JoinedIsActive
<1>5. SeatMove(d, o, p, s) BY <1>1, <1>2, <1>3, <1>4 DEF SeatMove, ReadSeat
<1> QED BY <1>5, SeatMoved

(* A step that writes no row and ends its command.                          *)
LEMMA EndsKeepSeats ==
    ASSUME Shape, LeaveInv, NEW d \in Devices, UNCHANGED rows, broken => broken', Ends(d),
           ~broken' => ~Leaving(cmd[d].op, cmd[d].pc) /\ ~At(d, "join", "activate")
    PROVE  LeaveInv'
<1>1. room' = room /\ joined' = joined BY DEF rows
<1>2. SeatMove(d, "none", "idle", "none")
  BY <1>1 DEF SeatMove, LeaveInv, SeenHolds, JoinedIsActive, At
<1> QED BY <1>2, SeatMoved DEF Ends

(* Commands that are issued, and create_call.                               *)
LEMMA CreateSeats ==
    ASSUME Shape, LeaveInv, NEW d \in Devices,
           \/ \E l \in SUBSET Users : CreateAllocates(d, l)
           \/ CreateWritesRoom(d) \/ CreateWritesInvite(d)
           \/ \E op \in Ops : Issue(d, op)
    PROVE  LeaveInv'
<1>0. joined' = joined /\ broken' = broken
  BY DEF CreateAllocates, CreateWritesRoom, CreateWritesInvite, Issue, rows, history
<1>1. ASSUME NEW p, NEW s, NEW l, Moves(d, "create", p, s, l), s = cmd[d].seen, cmd[d].op = "create",
             room' = room \/ (room = "none" /\ room' = "ringing")
      PROVE  LeaveInv'
  <2>1. PhaseOf(cmd[d].op, cmd[d].pc) BY DEF Shape, PhaseOfOp
  <2>2. SeatMove(d, "create", p, s)
    BY <1>0, <1>1, <2>1 DEF SeatMove, PhaseOf, Leaving, At, LeaveInv, SeenHolds, JoinedIsActive, Shape, RoomExists
  <2> QED BY <1>1, <2>2, SeatMoved
<1>2. ASSUME Ends(d), room' = room, cmd[d].op = "create" PROVE LeaveInv'
  <2>1. PhaseOf(cmd[d].op, cmd[d].pc) BY DEF Shape, PhaseOfOp
  <2>2. SeatMove(d, "none", "idle", "none")
    BY <1>0, <1>2, <2>1 DEF SeatMove, PhaseOf, Leaving, At, LeaveInv, JoinedIsActive
  <2> QED BY <1>2, <2>2, SeatMoved DEF Ends
<1>3. ASSUME NEW l \in SUBSET Users, CreateAllocates(d, l) PROVE LeaveInv'
  <2>1. room' = room /\ cmd[d].op = "create" BY <1>3 DEF CreateAllocates, At, rows
  <2>2. Moves(d, cmd[d].op, "create", cmd[d].seen, l) \/ Ends(d) BY <1>3, CreateAllocatesMoves DEF Shape
  <2> QED BY <1>1, <1>2, <2>1, <2>2
<1>4. CASE CreateWritesRoom(d)
  <2>1. room = "none" /\ room' = "ringing" /\ cmd[d].op = "create"
    BY <1>4 DEF CreateWritesRoom, At, Shape, OneCreate
  <2>2. Moves(d, cmd[d].op, "invites", cmd[d].seen, cmd[d].left) BY <1>4, PlainMoves DEF Shape
  <2> QED BY <1>1, <2>1, <2>2
<1>5. CASE CreateWritesInvite(d)
  <2>1. room' = room /\ cmd[d].op = "create" BY <1>5 DEF CreateWritesInvite, At
  <2>2. ASSUME NEW u \in cmd[d].left, Moves(d, cmd[d].op, "invites", cmd[d].seen, cmd[d].left \ {u})
        PROVE  LeaveInv'
    BY <1>1, <2>1, <2>2
  <2> QED BY <1>2, <1>5, <2>1, <2>2, CreateWritesInviteMoves DEF Shape
<1>6. ASSUME NEW op \in Ops, Issue(d, op) PROVE LeaveInv'
  <2>1. room' = room BY <1>6 DEF Issue, rows
  <2>2. cmd[d].op = "none" /\ cmd[d].pc = "idle"
    <3>1. Idle.op = "none" /\ Idle.pc = "idle" BY DEF Idle
    <3> QED BY <1>6, <3>1 DEF Issue
  <2>3. Moves(d, op, "room", "none", {}) BY <1>6, IssueMoves DEF Shape
  <2>4. SeatMove(d, op, "room", "none")
    BY <1>0, <2>1, <2>2 DEF SeatMove, Leaving, At, LeaveInv, JoinedIsActive
  <2> QED BY <2>3, <2>4, SeatMoved
<1> QED BY <1>3, <1>4, <1>5, <1>6

(* The reads and writes of the commands that are in a call and stay.        *)
LEMMA MemberSeats ==
    ASSUME Shape, LeaveInv, NEW d \in Devices,
           \/ RequireLiveRoom(d) \/ RequireInviteeOrCreator(d) \/ JoinCounts(d) \/ JoinGetsToken(d)
           \/ MediaReadsParticipant(d) \/ SfuOperates(d) \/ EndAnnounces(d) \/ EndReleases(d) \/ Fails(d)
    PROVE  LeaveInv'
<1>1. UNCHANGED rows /\ (broken => broken') /\ (~Fails(d) => broken' = broken)
  BY DEF RequireLiveRoom, RequireInviteeOrCreator, JoinCounts, JoinGetsToken, MediaReadsParticipant,
         SfuOperates, EndAnnounces, EndReleases, Fails, history
<1>2. PhaseOf(cmd[d].op, cmd[d].pc) BY DEF Shape, PhaseOfOp
<1>3. ~Fails(d) => /\ cmd[d].op \notin {"leave", "none"} /\ ~Leaving(cmd[d].op, cmd[d].pc)
                   /\ ~At(d, "join", "activate") /\ (RequireLiveRoom(d) \/ cmd[d].pc \notin {"idle", "room"})
  BY <1>2 DEF RequireLiveRoom, RequireInviteeOrCreator, JoinCounts, JoinGetsToken, MediaReadsParticipant,
         SfuOperates, EndAnnounces, EndReleases, At, Leaving, PhaseOf
<1>4. CASE Fails(d)
  <2>1. Ends(d) /\ broken' = TRUE BY <1>4, PlainMoves DEF Shape, Fails
  <2> QED BY <1>1, <2>1, EndsKeepSeats
<1>5. ASSUME ~Fails(d) PROVE LeaveInv'
  <2>1. CASE Ends(d) BY <1>1, <1>3, <1>5, <2>1, EndsKeepSeats
  <2>2. ASSUME NEW p, NEW s, NEW l, Moves(d, cmd[d].op, p, s, l),
               (s = cmd[d].seen /\ ~RequireLiveRoom(d)) \/ (s = room /\ Live)
        PROVE  LeaveInv'
    <3>1. ReadSeat(d, cmd[d].op, s) BY <1>3, <1>5, <2>2 DEF ReadSeat
    <3> QED BY <1>1, <1>5, <2>2, <3>1, ReadsKeepSeats
  <2>3. CASE RequireLiveRoom(d) BY <2>1, <2>2, <2>3, RequireLiveRoomMoves DEF Shape
  <2>4. CASE ~RequireLiveRoom(d)
    <3>1. ASSUME NEW p, Moves(d, cmd[d].op, p, cmd[d].seen, cmd[d].left) PROVE LeaveInv'
      BY <2>2, <2>4, <3>1
    <3>2. CASE RequireInviteeOrCreator(d) BY <2>1, <3>1, <3>2, RequireInviteeOrCreatorMoves DEF Shape
    <3>3. CASE JoinCounts(d) BY <2>1, <3>1, <3>3, JoinCountsMoves DEF Shape
    <3>4. CASE JoinGetsToken(d) \/ MediaReadsParticipant(d) \/ SfuOperates(d) \/ EndAnnounces(d) \/ EndReleases(d)
      BY <2>1, <3>1, <3>4, PlainMoves DEF Shape
    <3> QED BY <1>5, <2>4, <3>2, <3>3, <3>4
  <2> QED BY <2>3, <2>4
<1> QED BY <1>4, <1>5

(* The writes of an invite, of a participant and of the room.               *)
LEMMA WriteSeats ==
    ASSUME Shape, LeaveInv, NEW d \in Devices,
           \/ AcceptInvite(d) \/ JoinWritesParticipant(d) \/ JoinActivates(d) \/ MediaWrites(d) \/ EndWrites(d)
    PROVE  LeaveInv'
<1>1. /\ \A e \in Devices : e # d => joined'[e] = joined[e]
      /\ broken' = broken
  BY DEF AcceptInvite, JoinWritesParticipant, JoinActivates, MediaWrites, EndWrites, history, Shape, TypeOK
<1>2. PhaseOf(cmd[d].op, cmd[d].pc) BY DEF Shape, PhaseOfOp
<1>3. /\ cmd[d].seen = "active" => room \in {"active", "ended"}
      /\ cmd[d].op # "create" /\ cmd[d].pc \notin {"idle", "room"} => cmd[d].seen # "none"
      /\ ~broken /\ joined[d] = "joined" /\ ~At(d, "join", "activate") => room \in {"active", "ended"}
  BY DEF LeaveInv, SeenHolds, JoinedIsActive
<1>4. cmd[d].seen \in {"none", "ringing", "active"} BY DEF Shape, TypeOK, CommandType
<1>5. CASE AcceptInvite(d)
  <2>1. room' = room /\ joined' = joined /\ cmd[d].pc = "accept" BY <1>5 DEF AcceptInvite
  <2>2. SeatMove(d, "none", "idle", "none")
    BY <1>1, <1>3, <2>1 DEF SeatMove, Leaving, At
  <2>3. cmd[d].op = "join" => SeatMove(d, cmd[d].op, "participant", cmd[d].seen)
    BY <1>1, <1>3, <2>1 DEF SeatMove, Leaving, At
  <2> QED BY <1>5, <2>2, <2>3, AcceptInviteMoves, SeatMoved DEF Shape, Ends
<1>6. CASE JoinWritesParticipant(d)
  <2>1. room' = room /\ joined'[d] = "joined" /\ cmd[d].op = "join" /\ cmd[d].pc = "participant"
    BY <1>6 DEF JoinWritesParticipant, At, Shape, TypeOK
  <2>2. ASSUME NEW p \in {"activate", "token"}, p = "activate" <=> cmd[d].seen = "ringing"
        PROVE  SeatMove(d, cmd[d].op, p, cmd[d].seen)
    BY <1>1, <1>3, <1>4, <2>1, <2>2 DEF SeatMove
  <2> QED BY <1>6, <2>2, JoinWritesParticipantMoves, SeatMoved DEF Shape
<1>7. CASE JoinActivates(d)
  <2>1. room' = "active" /\ joined' = joined /\ cmd[d].op = "join" /\ cmd[d].pc = "activate"
    BY <1>7 DEF JoinActivates, At
  <2>2. joined[d] = "joined" BY <2>1 DEF Shape, OwnRows
  <2>3. SeatMove(d, cmd[d].op, "token", cmd[d].seen) BY <1>1, <1>3, <2>1, <2>2 DEF SeatMove
  <2>4. Moves(d, cmd[d].op, "token", cmd[d].seen, cmd[d].left) BY <1>7, PlainMoves DEF Shape
  <2> QED BY <2>3, <2>4, SeatMoved
<1>8. CASE MediaWrites(d)
  <2>1. room' = room /\ joined'[d] = "joined" /\ cmd[d].op = "media" /\ cmd[d].pc = "write"
    BY <1>8 DEF MediaWrites, At, Shape, TypeOK
  <2>2. joined[d] = "joined" BY <2>1 DEF Shape, OwnRows
  <2>3. SeatMove(d, "none", "idle", "none") BY <1>1, <1>3, <2>1, <2>2 DEF SeatMove, At
  <2>4. Ends(d) BY <1>8, PlainMoves DEF Shape
  <2> QED BY <2>3, <2>4, SeatMoved DEF Ends
<1>9. CASE EndWrites(d)
  <2>1. room' = "ended" BY <1>9 DEF EndWrites
  <2>2. cmd[d].op # "create" /\ cmd[d].pc \notin {"idle", "room"} BY <1>2, <1>9 DEF EndWrites, PhaseOf
  <2>3. SeatMove(d, "end", "announce", cmd[d].seen) BY <1>1, <1>3, <2>1, <2>2 DEF SeatMove
  <2>4. Moves(d, "end", "announce", cmd[d].seen, cmd[d].left) BY <1>9, EndWritesMoves DEF Shape
  <2> QED BY <2>3, <2>4, SeatMoved
<1> QED BY <1>5, <1>6, <1>7, <1>8, <1>9

(* leave_call and end_call, up to the second read of the room.              *)
LEMMA LeaveSeats ==
    ASSUME Shape, LeaveInv, NEW d \in Devices,
           \/ LeaveOrEndReads(d) \/ LeaveReadsParticipant(d) \/ LeaveWrites(d) \/ LeaveReleases(d)
           \/ LeaveCounts(d) \/ EndReads(d)
    PROVE  LeaveInv'
<1>1. /\ \A e \in Devices : e # d => joined'[e] = joined[e]
      /\ broken' = broken /\ room' = room
  BY DEF LeaveOrEndReads, LeaveReadsParticipant, LeaveWrites, LeaveReleases, LeaveCounts, EndReads, rows,
         history, Shape, TypeOK
<1>2. PhaseOf(cmd[d].op, cmd[d].pc) BY DEF Shape, PhaseOfOp
<1>3. /\ cmd[d].seen = "active" => room \in {"active", "ended"}
      /\ cmd[d].op # "create" /\ cmd[d].pc \notin {"idle", "room"} => cmd[d].seen # "none"
      /\ ~broken => /\ joined[d] = "joined" /\ ~At(d, "join", "activate") => room \in {"active", "ended"}
                    /\ At(d, "leave", "participant") /\ cmd[d].seen # "active" => joined[d] # "joined"
                    /\ cmd[d].op = "leave" /\ cmd[d].pc \in {"write", "release", "remaining"} => cmd[d].seen = "active"
  BY DEF LeaveInv, SeenHolds, JoinedIsActive
<1>4. CASE LeaveOrEndReads(d)
  <2>1. joined' = joined /\ cmd[d].op \in {"leave", "end"} /\ cmd[d].pc = "room" BY <1>4 DEF LeaveOrEndReads, rows
  <2>2. SeatMove(d, "none", "idle", "none") BY <1>1, <1>3, <2>1 DEF SeatMove, Leaving, At
  <2>3. ASSUME NEW p \in {"participant", "end"}, Live, p = "participant" <=> cmd[d].op = "leave"
        PROVE  SeatMove(d, cmd[d].op, p, room)
    BY <1>1, <1>3, <2>1, <2>3 DEF SeatMove, Leaving, At, Live
  <2> QED BY <1>4, <2>2, <2>3, LeaveOrEndReadsMoves, SeatMoved DEF Shape, Ends
<1>5. CASE LeaveReadsParticipant(d)
  <2>1. joined' = joined /\ cmd[d].op = "leave" /\ cmd[d].pc = "participant"
    BY <1>5 DEF LeaveReadsParticipant, At, rows
  <2>2. SeatMove(d, "none", "idle", "none") BY <1>1, <1>3, <2>1 DEF SeatMove, Leaving, At
  <2>3. joined[d] = "joined" => SeatMove(d, cmd[d].op, "write", cmd[d].seen)
    BY <1>1, <1>3, <2>1 DEF SeatMove, Leaving, At
  <2> QED BY <1>5, <2>2, <2>3, PlainMoves, SeatMoved DEF Shape, Ends
<1>6. CASE LeaveWrites(d)
  <2>1. joined'[d] = "left" /\ cmd[d].op = "leave" /\ cmd[d].pc = "write"
    BY <1>6 DEF LeaveWrites, At, Shape, TypeOK
  <2>2. SeatMove(d, cmd[d].op, "release", cmd[d].seen) BY <1>1, <1>3, <2>1 DEF SeatMove, Leaving
  <2>3. Moves(d, cmd[d].op, "release", cmd[d].seen, cmd[d].left) BY <1>6, PlainMoves DEF Shape
  <2> QED BY <2>2, <2>3, SeatMoved
<1>7. CASE LeaveReleases(d)
  <2>1. joined' = joined /\ cmd[d].op = "leave" /\ cmd[d].pc = "release" BY <1>7 DEF LeaveReleases, At, rows
  <2>2. SeatMove(d, cmd[d].op, "remaining", cmd[d].seen) BY <1>1, <1>3, <2>1 DEF SeatMove, Leaving, At
  <2>3. Moves(d, cmd[d].op, "remaining", cmd[d].seen, cmd[d].left) BY <1>7, PlainMoves DEF Shape
  <2> QED BY <2>2, <2>3, SeatMoved
<1>8. CASE LeaveCounts(d)
  <2>1. joined' = joined /\ cmd[d].op = "leave" /\ cmd[d].pc = "remaining" BY <1>8 DEF LeaveCounts, At, rows
  <2>2. SeatMove(d, cmd[d].op, "end", cmd[d].seen) BY <1>1, <1>3, <2>1 DEF SeatMove, Leaving, At
  <2>3. CASE Moves(d, cmd[d].op, "end", cmd[d].seen, cmd[d].left) BY <2>2, <2>3, SeatMoved
  <2>4. CASE Ends(d) /\ (Joined # {} \/ cmd[d].seen # "active")
    <3>1. SeenHolds' /\ JoinedIsActive'
      BY <1>1, <1>3, <2>1, <2>4 DEF Ends, Moves, LeaveInv, SeenHolds, JoinedIsActive, At
    <3>2. ~broken => Joined # {} BY <1>3, <2>1, <2>4
    <3>3. Joined' = Joined BY <2>1 DEF Joined
    <3>4. LastLeaves' BY <1>1, <3>2, <3>3 DEF LastLeaves
    <3> QED BY <3>1, <3>4 DEF LeaveInv
  <2> QED BY <1>8, <2>3, <2>4, PlainMoves DEF Shape
<1>9. CASE EndReads(d)
  <2>1. joined' = joined /\ cmd[d].pc = "end" BY <1>9 DEF EndReads, rows
  <2>2. SeatMove(d, cmd[d].op, "ended", cmd[d].seen)
    BY <1>1, <1>2, <1>3, <2>1 DEF SeatMove, Leaving, At, PhaseOf
  <2>3. ~Live => SeatMove(d, "none", "idle", "none")
    BY <1>1, <1>3, <2>1 DEF SeatMove, Live, At
  <2> QED BY <1>9, <2>2, <2>3, PlainMoves, SeatMoved DEF Shape, Ends
<1> QED BY <1>4, <1>5, <1>6, <1>7, <1>8, <1>9

(* ActiveCallHasSomeone, of leave_call: of leaves that overlap each other,  *)
(* joins and ends, the last to count ends the call it has left empty.       *)
THEOREM ActiveHasSomeone == Spec => []ActiveCallHasSomeone
<1>1. Init => LeaveInv
  <2> SUFFICES ASSUME Init PROVE LeaveInv OBVIOUS
  <2>1. Idle.op = "none" /\ Idle.pc = "idle" /\ Idle.seen = "none" BY DEF Idle
  <2> QED BY <2>1 DEF Init, LeaveInv, SeenHolds, JoinedIsActive, LastLeaves, At
<1>2. Shape /\ LeaveInv /\ [Next]_vars => LeaveInv'
  <2> SUFFICES ASSUME Shape, LeaveInv, [Next]_vars PROVE LeaveInv' OBVIOUS
  <2>1. CASE UNCHANGED vars
    BY <2>1 DEF vars, rows, history, LeaveInv, SeenHolds, JoinedIsActive, LastLeaves, Joined, At
  <2> QED BY <2>1, CreateSeats, MemberSeats, WriteSeats, LeaveSeats DEF Next, Step
<1>3. LeaveInv => ActiveCallHasSomeone BY QuietEnds DEF LeaveInv, LastLeaves, ActiveCallHasSomeone
<1> QED BY <1>1, <1>2, <1>3, ShapeInvariant, PTL DEF Spec

(* The states of the rows, of the session and of the commands.              *)
THEOREM CallTyped == Spec => []TypeOK
<1>1. Shape => TypeOK BY DEF Shape
<1> QED BY <1>1, ShapeInvariant, PTL

=============================================================================
