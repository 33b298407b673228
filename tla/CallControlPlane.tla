--------------------------- MODULE CallControlPlane ---------------------------
(***************************************************************************)
(* One call of the call control plane (crates/frick-server/src/calls/      *)
(* control_plane.rs) and its media session (media_plane.rs,                *)
(* sfu_media_plane.rs, sfu_backend.rs): commands that arrive on the        *)
(* connections of several devices run side by side, each a series of reads *)
(* and writes of the room, invite and participant objects with no version  *)
(* precondition and no transaction.  A connection runs one command at a    *)
(* time.  A step is one read or write; a command that reads the room keeps *)
(* what it read.                                                           *)
(***************************************************************************)
EXTENDS Naturals, FiniteSets

CONSTANTS
    Devices,          \* the devices that take part, one connection each
    Users,            \* the users they belong to
    UserOf,           \* UserOf[d]: the user of device d
    Creator,          \* the user who creates the call
    Planes,           \* the media planes in play: "p2p", "sfu"
    P2PCap,           \* the P2P plane's max_participants; an SFU has none
    MaxCommands,      \* bound: commands ever issued
    MaxFaults         \* bound: commands that fail or die half-way

ASSUME DeviceAssumption == UserOf \in [Devices -> Users] /\ Creator \in Users /\ IsFiniteSet(Users)
ASSUME PlaneAssumption == Planes \subseteq {"p2p", "sfu"} /\ P2PCap \in Nat
ASSUME CallLimitAssumption == MaxCommands \in Nat /\ MaxFaults \in Nat

VARIABLES
    plane,       \* the deployment's media plane
    room,        \* the CallRoom's state, "none" before it is written
    invite,      \* invite[u]: the CallInvite of user u
    joined,      \* joined[d]: the CallParticipant's state of device d
    session,     \* the media session is allocated
    media,       \* the devices with a binding (transports) in an SFU session
    streams,     \* the devices with producers or consumers on their transports
    cmd,         \* cmd[d]: the command in progress of device d
    issued,      \* commands so far
    faults,
    announced,   \* history: CallEnded is in the call's event stream
    revived,     \* history: a join wrote the room over its end
    broken       \* history: some command failed after one of its writes

rows == <<room, invite, joined>>
mediaVars == <<plane, session, media, streams>>
history == <<announced, revived, broken>>
vars == <<rows, mediaVars, cmd, issued, faults, history>>

Ops == {"create", "accept", "join", "media", "sfu", "leave", "end"}

(* `seen` is the room as the command read it, `left` the invites it has     *)
(* still to write.                                                          *)
Idle == [op |-> "none", pc |-> "idle", seen |-> "none", left |-> {}]

CommandType ==
    [op : Ops \cup {"none"},
     pc : {"idle", "room", "create", "invites", "invite", "count", "accept", "participant", "write",
           "activate", "token", "remaining", "end", "ended", "announce", "release"},
     seen : {"none", "ringing", "active"}, left : SUBSET Users]

TypeOK ==
    /\ room \in {"none", "ringing", "active", "ended"}
    /\ invite \in [Users -> {"none", "ringing", "accepted"}]
    /\ joined \in [Devices -> {"none", "joined", "left"}]
    /\ plane \in Planes /\ session \in BOOLEAN
    /\ media \subseteq Devices /\ streams \subseteq Devices
    /\ cmd \in [Devices -> CommandType]
    /\ issued \in 0..MaxCommands /\ faults \in 0..MaxFaults
    /\ announced \in BOOLEAN /\ revived \in BOOLEAN /\ broken \in BOOLEAN

Init ==
    /\ room = "none" /\ invite = [u \in Users |-> "none"]
    /\ joined = [d \in Devices |-> "none"]
    /\ plane \in Planes /\ session = FALSE /\ media = {} /\ streams = {}
    /\ cmd = [d \in Devices |-> Idle] /\ issued = 0 /\ faults = 0
    /\ announced = FALSE /\ revived = FALSE /\ broken = FALSE

-----------------------------------------------------------------------------
(* Helpers.                                                                *)

At(d, op, pc) == cmd[d].op = op /\ cmd[d].pc = pc
Goes(d, pc) == cmd' = [cmd EXCEPT ![d].pc = pc]
Returns(d) == cmd' = [cmd EXCEPT ![d] = Idle]
IsCreator(d) == UserOf[d] = Creator
Joined == {d \in Devices : joined[d] = "joined"}
ActiveUsers == {UserOf[d] : d \in Joined}
Fits(n) == plane = "sfu" \/ n <= P2PCap
Live == room \in {"ringing", "active"}

(* handle_call_command: the connection takes a command.  create_call makes  *)
(* up the id of the call, so that no two commands create the same one.      *)
Issue(d, op) ==
    /\ cmd[d] = Idle
    /\ issued < MaxCommands
    /\ issued' = issued + 1
    /\ op = "create" => /\ IsCreator(d) /\ room = "none" /\ ~session
                        /\ \A e \in Devices : cmd[e].op # "create"
    /\ cmd' = [cmd EXCEPT ![d] = [Idle EXCEPT !.op = op, !.pc = "room"]]
    /\ UNCHANGED <<rows, mediaVars, faults, history>>

-----------------------------------------------------------------------------
(* create_call                                                             *)

(* Mutant of CreateAllocates: the creator is not counted. *)
CountsInviteesOnly(d, invitees) ==
    /\ At(d, "create", "room")
    /\ invitees # {} /\ Creator \notin invitees
    /\ \/ /\ Fits(Cardinality(invitees))
          /\ session' = TRUE
          /\ cmd' = [cmd EXCEPT ![d].pc = "create", ![d].left = invitees]
       \/ /\ ~Fits(Cardinality(invitees))
          /\ Returns(d)
          /\ UNCHANGED session
    /\ UNCHANGED <<rows, plane, media, streams, issued, faults, history>>

(* The invitees and the creator must fit the media plane; the session is    *)
(* allocated before anything is written.                                    *)
CreateAllocates(d, invitees) ==
    /\ At(d, "create", "room")
    /\ invitees # {} /\ Creator \notin invitees
    /\ \/ /\ Fits(Cardinality(invitees) + 1)
          /\ session' = TRUE
          /\ cmd' = [cmd EXCEPT ![d].pc = "create", ![d].left = invitees]
       \/ /\ ~Fits(Cardinality(invitees) + 1)
          /\ Returns(d)
          /\ UNCHANGED session
    /\ UNCHANGED <<rows, plane, media, streams, issued, faults, history>>

CreateWritesRoom(d) ==
    /\ At(d, "create", "create")
    /\ room' = "ringing"
    /\ Goes(d, "invites")
    /\ UNCHANGED <<invite, joined, mediaVars, issued, faults, history>>

CreateWritesInvite(d) ==
    /\ At(d, "create", "invites")
    /\ \/ \E u \in cmd[d].left :
             /\ invite' = [invite EXCEPT ![u] = "ringing"]
             /\ cmd' = [cmd EXCEPT ![d].left = @ \ {u}]
       \/ /\ cmd[d].left = {}
          /\ Returns(d)
          /\ UNCHANGED invite
    /\ UNCHANGED <<room, joined, mediaVars, issued, faults, history>>

-----------------------------------------------------------------------------
(* require_live_room, require_invitee_or_creator, accept_invite            *)

(* A room that is missing or ended is refused, and so is an SFU command     *)
(* where the plane is not one.                                              *)
RequireLiveRoom(d) ==
    /\ cmd[d].op \in {"accept", "join", "media", "sfu"}
    /\ cmd[d].pc = "room"
    /\ LET allowed == Live /\ (cmd[d].op = "sfu" => plane = "sfu") IN
       \/ /\ allowed
          /\ cmd' = [cmd EXCEPT ![d].seen = room, ![d].pc =
                        IF cmd[d].op \in {"media", "sfu"} THEN "participant" ELSE "invite"]
       \/ ~allowed /\ Returns(d)
    /\ UNCHANGED <<rows, mediaVars, issued, faults, history>>

(* The creator has no invite; anyone else without one is refused. *)
RequireInviteeOrCreator(d) ==
    /\ cmd[d].pc = "invite"
    /\ \/ /\ cmd[d].op = "join"
          /\ IsCreator(d) \/ invite[UserOf[d]] # "none"
          /\ Goes(d, "count")
       \/ /\ cmd[d].op = "accept"
          /\ ~IsCreator(d) /\ invite[UserOf[d]] = "ringing"
          /\ Goes(d, "accept")
       \/ /\ \/ ~IsCreator(d) /\ invite[UserOf[d]] = "none"
             \/ cmd[d].op = "accept" /\ (IsCreator(d) \/ invite[UserOf[d]] = "accepted")
          /\ Returns(d)
    /\ UNCHANGED <<rows, mediaVars, issued, faults, history>>

(* write_invite, by accept_invite and by a join. *)
AcceptInvite(d) ==
    /\ cmd[d].pc = "accept"
    /\ invite' = [invite EXCEPT ![UserOf[d]] = "accepted"]
    /\ IF cmd[d].op = "join" THEN Goes(d, "participant") ELSE Returns(d)
    /\ UNCHANGED <<room, joined, mediaVars, issued, faults, history>>

-----------------------------------------------------------------------------
(* join_call                                                               *)

(* assert_participant_capacity: distinct users; one who is in already does  *)
(* not count again.  A ringing invite is then accepted.                     *)
JoinCounts(d) ==
    /\ At(d, "join", "count")
    /\ \/ /\ UserOf[d] \in ActiveUsers \/ Fits(Cardinality(ActiveUsers) + 1)
          /\ Goes(d, IF ~IsCreator(d) /\ invite[UserOf[d]] = "ringing" THEN "accept" ELSE "participant")
       \/ /\ UserOf[d] \notin ActiveUsers /\ ~Fits(Cardinality(ActiveUsers) + 1)
          /\ Returns(d)
    /\ UNCHANGED <<rows, mediaVars, issued, faults, history>>

JoinWritesParticipant(d) ==
    /\ At(d, "join", "participant")
    /\ joined' = [joined EXCEPT ![d] = "joined"]
    /\ Goes(d, IF cmd[d].seen = "ringing" THEN "activate" ELSE "token")
    /\ UNCHANGED <<room, invite, mediaVars, issued, faults, history>>

(* The first join activates the room, as it was read at the start. *)
JoinActivates(d) ==
    /\ At(d, "join", "activate")
    /\ room' = "active"
    /\ revived' = (revived \/ room = "ended")
    /\ Goes(d, "token")
    /\ UNCHANGED <<invite, joined, mediaVars, issued, faults, announced, broken>>

(* issue_join_token: the join fails when there is no session, and what it   *)
(* has written stays.  A second token replaces the transports and what is   *)
(* on them.                                                                 *)
JoinGetsToken(d) ==
    /\ At(d, "join", "token")
    /\ media' = IF session /\ plane = "sfu" THEN media \cup {d} ELSE media
    /\ streams' = IF session /\ plane = "sfu" THEN streams \ {d} ELSE streams
    /\ Returns(d)
    /\ UNCHANGED <<rows, plane, session, issued, faults, history>>

-----------------------------------------------------------------------------
(* set_media_state, sfu_connect_transport, sfu_produce, sfu_consume        *)

MediaReadsParticipant(d) ==
    /\ cmd[d].op \in {"media", "sfu"}
    /\ cmd[d].pc = "participant"
    /\ IF joined[d] = "joined" THEN Goes(d, "write") ELSE Returns(d)
    /\ UNCHANGED <<rows, mediaVars, issued, faults, history>>

(* The participant is written as it was read, joined. *)
MediaWrites(d) ==
    /\ At(d, "media", "write")
    /\ joined' = [joined EXCEPT ![d] = "joined"]
    /\ Returns(d)
    /\ UNCHANGED <<room, invite, mediaVars, issued, faults, history>>

(* require_verified_token: without the binding the token was issued with    *)
(* nothing is produced or consumed.                                         *)
SfuOperates(d) ==
    /\ At(d, "sfu", "write")
    /\ streams' = IF d \in media THEN streams \cup {d} ELSE streams
    /\ Returns(d)
    /\ UNCHANGED <<rows, plane, session, media, issued, faults, history>>

-----------------------------------------------------------------------------
(* leave_call, end_call, finalize_end                                      *)

(* Leaving or ending an ended call changes nothing; only the creator ends.  *)
LeaveOrEndReads(d) ==
    /\ cmd[d].op \in {"leave", "end"}
    /\ cmd[d].pc = "room"
    /\ \/ /\ Live /\ (cmd[d].op = "end" => IsCreator(d))
          /\ cmd' = [cmd EXCEPT ![d].seen = room,
                                ![d].pc = IF cmd[d].op = "leave" THEN "participant" ELSE "end"]
       \/ /\ ~Live \/ (cmd[d].op = "end" /\ ~IsCreator(d))
          /\ Returns(d)
    /\ UNCHANGED <<rows, mediaVars, issued, faults, history>>

LeaveReadsParticipant(d) ==
    /\ At(d, "leave", "participant")
    /\ IF joined[d] = "joined" THEN Goes(d, "write") ELSE Returns(d)
    /\ UNCHANGED <<rows, mediaVars, issued, faults, history>>

LeaveWrites(d) ==
    /\ At(d, "leave", "write")
    /\ joined' = [joined EXCEPT ![d] = "left"]
    /\ Goes(d, "release")
    /\ UNCHANGED <<room, invite, mediaVars, issued, faults, history>>

(* Mutant of LeaveReleases: the transports are left to the room's close. *)
KeepsTransports(d) ==
    /\ At(d, "leave", "release")
    /\ Goes(d, "remaining")
    /\ UNCHANGED <<rows, mediaVars, issued, faults, history>>

(* leave_participant, after CallParticipantLeft. *)
LeaveReleases(d) ==
    /\ At(d, "leave", "release")
    /\ media' = media \ {d} /\ streams' = streams \ {d}
    /\ Goes(d, "remaining")
    /\ UNCHANGED <<rows, plane, session, issued, faults, history>>

(* Mutant of LeaveCounts: the device that leaves is counted. *)
CountsItself(d) ==
    /\ At(d, "leave", "remaining")
    /\ IF Joined \subseteq {d} /\ d \in Joined /\ cmd[d].seen = "active"
       THEN Goes(d, "end") ELSE Returns(d)
    /\ UNCHANGED <<rows, mediaVars, issued, faults, history>>

(* The last to leave ends the call, if it was active when the leave began.  *)
LeaveCounts(d) ==
    /\ At(d, "leave", "remaining")
    /\ IF Joined = {} /\ cmd[d].seen = "active" THEN Goes(d, "end") ELSE Returns(d)
    /\ UNCHANGED <<rows, mediaVars, issued, faults, history>>

(* finalize_end: the room is read again ... *)
EndReads(d) ==
    /\ cmd[d].pc = "end"
    /\ IF Live THEN Goes(d, "ended") ELSE Returns(d)
    /\ UNCHANGED <<rows, mediaVars, issued, faults, history>>

(* Mutant of EndWrites: the room is written back as it was read. *)
WritesWhatItRead(d) ==
    /\ cmd[d].pc = "ended"
    /\ room' = cmd[d].seen
    /\ cmd' = [cmd EXCEPT ![d].pc = "announce", ![d].op = "end"]
    /\ UNCHANGED <<invite, joined, mediaVars, issued, faults, history>>

(* ... and written as ended; CallEnded; the session is released.            *)
EndWrites(d) ==
    /\ cmd[d].pc = "ended"
    /\ room' = "ended"
    /\ cmd' = [cmd EXCEPT ![d].pc = "announce", ![d].op = "end"]
    /\ UNCHANGED <<invite, joined, mediaVars, issued, faults, history>>

EndAnnounces(d) ==
    /\ cmd[d].pc = "announce"
    /\ announced' = TRUE
    /\ Goes(d, "release")
    /\ UNCHANGED <<rows, mediaVars, issued, faults, revived, broken>>

(* Mutant of EndReleases: the session is kept. *)
KeepsSession(d) ==
    /\ At(d, "end", "release")
    /\ Returns(d)
    /\ UNCHANGED <<rows, mediaVars, issued, faults, history>>

EndReleases(d) ==
    /\ At(d, "end", "release")
    /\ session' = FALSE /\ media' = {} /\ streams' = {}
    /\ Returns(d)
    /\ UNCHANGED <<rows, plane, issued, faults, history>>

(* A read, a write or an append fails, or the process ends: the command     *)
(* stops where it is, and nothing is undone.                                *)
Fails(d) ==
    /\ cmd[d] # Idle
    /\ faults < MaxFaults
    /\ faults' = faults + 1
    /\ Returns(d)
    /\ broken' = TRUE
    /\ UNCHANGED <<rows, mediaVars, issued, announced, revived>>

-----------------------------------------------------------------------------

Step(d) ==
    \/ \E invitees \in SUBSET Users : CreateAllocates(d, invitees)
    \/ CreateWritesRoom(d) \/ CreateWritesInvite(d)
    \/ RequireLiveRoom(d) \/ RequireInviteeOrCreator(d) \/ AcceptInvite(d)
    \/ JoinCounts(d) \/ JoinWritesParticipant(d) \/ JoinActivates(d) \/ JoinGetsToken(d)
    \/ MediaReadsParticipant(d) \/ MediaWrites(d) \/ SfuOperates(d)
    \/ LeaveOrEndReads(d) \/ LeaveReadsParticipant(d) \/ LeaveWrites(d)
    \/ LeaveReleases(d) \/ LeaveCounts(d)
    \/ EndReads(d) \/ EndWrites(d) \/ EndAnnounces(d) \/ EndReleases(d)

Next == \E d \in Devices : Step(d) \/ Fails(d) \/ \E op \in Ops : Issue(d, op)

Spec == Init /\ [][Next]_vars

-----------------------------------------------------------------------------
(* Properties.                                                             *)

Quiet == \A d \in Devices : cmd[d] = Idle

(* leave_call's "when the last active participant leaves an `active` call,  *)
(* the call auto-ends": leaves that overlap each other, joins and ends all  *)
(* count after their own write, so no active call is left without anyone.   *)
ActiveCallHasSomeone == Quiet /\ room = "active" /\ ~broken => Joined # {}

(* An active call has its media session, so that whoever joins gets a       *)
(* token, unless a join wrote the room over an end it had not seen.         *)
ActiveCallHasMedia == Quiet /\ room = "active" /\ ~revived => session

(* An ended call holds no media: however many commands end it at once, the  *)
(* session is released, and the event stream says CallEnded before.         *)
EndedCallHoldsNoMedia ==
    /\ Quiet /\ room = "ended" /\ ~broken => ~session /\ media \cup streams = {}
    /\ room # "none" /\ ~session => announced

(* "repeated join/leave can't leak server-side media state": a device has   *)
(* transports, producers or consumers only while it is in the call.         *)
NoMediaLeaks == Quiet /\ ~broken => media \cup streams \subseteq Joined

(* The media plane's cap is never exceeded, although joins count before     *)
(* they write: only the creator and the invitees of create_call may join,   *)
(* and those fit together.                                                  *)
CapacityRespected == Fits(Cardinality(ActiveUsers))
=============================================================================
