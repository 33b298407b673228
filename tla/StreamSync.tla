----------------------------- MODULE StreamSync -----------------------------
(***************************************************************************)
(* A client that follows one stream over the sync WebSocket, and appends   *)
(* to it: the gateway's subscribe and append handlers and its fan-out      *)
(* (crates/frick-server/src/gateway.rs), fed by this node's writes and by  *)
(* the cluster bus, and the client runtime's cursor, replica and queue of  *)
(* unacknowledged appends (packages/core/src/runtime.ts).  The log below   *)
(* is EventLog, which StreamLog implements.                                *)
(*                                                                         *)
(* A connection's task handles one frame at a time and is not cancelled    *)
(* when the client goes away, so the handler of an old connection may      *)
(* still run beside the new one's.  A step is one stretch without an await.*)
(***************************************************************************)
EXTENDS EventLog, FiniteSets, SequencesExt

CONSTANTS
    Own,         \* the requests of this client
    Conns,       \* connections, each used once
    NoConn,      \* no connection
    NoReq,       \* a frame that is about no request
    PageSize,    \* max_stream_page_size
    MaxLog,      \* bound: events ever stored
    MaxCuts,     \* bound: connections cut, processes crashed
    MaxLost      \* bound: envelopes the bus loses, appends that die half-way

ASSUME OwnAssumption == Own \subseteq Requests /\ NoReq \notin Requests
ASSUME ConnAssumption == NoConn \notin Conns
ASSUME SyncLimitAssumption == /\ PageSize \in Nat \ {0} /\ MaxLog \in Nat
                              /\ MaxCuts \in Nat /\ MaxLost \in Nat

VARIABLES
    client,    \* the runtime: socket, cursor, replica, pending appends
    conn,      \* conn[c]: the gateway's side of connection c
    inbox,     \* inbox[c]: frames on their way to the server
    outbox,    \* outbox[c]: frames on their way to the client
    cuts, losses,
    abandoned, \* history: events no page or delta will bring to the client
    acked,     \* history: own requests acknowledged
    nacked,    \* history: own requests refused
    resent     \* history: own requests sent again on a later connection

linkVars == <<inbox, outbox>>
faultVars == <<cuts, losses>>
history == <<abandoned, acked, nacked, resent>>
vars == <<logVars, client, conn, linkVars, faultVars, history>>

Frame(kind, req, seqs, cursor) ==
    [kind |-> kind, req |-> req, seqs |-> seqs, cursor |-> cursor]

(* `pc` is where the handler of the frame in progress is; `req`, `cursor`   *)
(* are the frame's, `page` what handle_subscribe has read.                  *)
Unused == [pc |-> "unused", hello |-> FALSE, sub |-> FALSE, closing |-> FALSE,
           req |-> NoReq, cursor |-> 0, page |-> {}]

ConnState == [pc : {"unused", "idle", "subscribe", "read", "page", "append", "lookup",
                    "insert", "tell", "ack", "gone"},
              hello : BOOLEAN, sub : BOOLEAN, closing : BOOLEAN,
              req : Requests \cup {NoReq}, cursor : 0..MaxLog, page : SUBSET (1..MaxLog)]

Frames == [kind : {"hello", "subscribe", "append", "page", "delta", "ack", "nack", "close"},
           req : Requests \cup {NoReq}, seqs : SUBSET (1..MaxLog), cursor : 0..MaxLog]

TypeOK ==
    /\ LogTypeOK
    /\ client \in [sock : Conns \cup {NoConn}, cursor : 0..MaxLog,
                   have : SUBSET (1..MaxLog), pending : SUBSET Own]
    /\ conn \in [Conns -> ConnState]
    /\ \A c \in Conns : \A q \in {inbox[c], outbox[c]} :
          \A i \in 1..Len(q) : q[i] \in Frames
    /\ cuts \in 0..MaxCuts /\ losses \in 0..MaxLost
    /\ abandoned \in SUBSET (1..MaxLog)
    /\ acked \in SUBSET Own /\ nacked \in SUBSET Own /\ resent \in SUBSET Own

Init ==
    /\ LogInit
    /\ client = [sock |-> NoConn, cursor |-> 0, have |-> {}, pending |-> {}]
    /\ conn = [c \in Conns |-> Unused]
    /\ inbox = [c \in Conns |-> <<>>] /\ outbox = [c \in Conns |-> <<>>]
    /\ cuts = 0 /\ losses = 0
    /\ abandoned = {} /\ acked = {} /\ nacked = {} /\ resent = {}

-----------------------------------------------------------------------------
(* Helpers.                                                                *)

Larger(a, b) == IF a > b THEN a ELSE b
Live(c) == conn[c].pc \notin {"unused", "gone"}
LastOf(seqs) == CHOOSE s \in seqs : \A other \in seqs : other <= s
FirstOf(seqs, n) == {s \in seqs : Cardinality({o \in seqs : o < s}) < n}
IsOpen == client.sock # NoConn

(* send_frame: the writer has ended after a Close, and what is queued later *)
(* goes nowhere.                                                            *)
Sends(c, frames) ==
    outbox' = [outbox EXCEPT ![c] = IF conn[c].closing THEN @ ELSE @ \o frames]

(* The handler returns; the connection takes its next frame. *)
Done(c) == [conn[c] EXCEPT !.pc = "idle", !.req = NoReq, !.cursor = 0, !.page = {}]
Goes(c, pc) == conn' = [conn EXCEPT ![c].pc = pc]

(* What connection c still owes the client: the frames on the way, the page *)
(* it is about to read or has read, and, registered, the events due.        *)
Carried(c) == UNION {outbox[c][i].seqs : i \in 1..Len(outbox[c])}
Queued(c, kind) == {i \in 1..Len(inbox[c]) : inbox[c][i].kind = kind}
Backlog(c) ==
    IF conn[c].pc \in {"subscribe", "read"} THEN (conn[c].cursor + 1)..Len(log)
    ELSE IF conn[c].pc = "page" THEN conn[c].page
    ELSE IF conn[c].hello \/ Queued(c, "hello") # {}
         THEN UNION {(inbox[c][i].cursor + 1)..Len(log) : i \in Queued(c, "subscribe")}
    ELSE {}
InFlight(c) == Carried(c) \cup Backlog(c) \cup (IF conn[c].sub THEN due ELSE {})

(* Where the client's cursor gets to with the frames already on the way.    *)
Reach(c) ==
    LET cursors == {client.cursor} \cup {outbox[c][i].cursor : i \in 1..Len(outbox[c])} IN
    LastOf(cursors)

(* What c will not bring once it takes the subscription back, or closes.    *)
LeftBehind(c) ==
    IF c = client.sock THEN (InFlight(c) \ Carried(c)) \cap (1..Reach(c)) ELSE {}

-----------------------------------------------------------------------------
(* The client runtime.                                                     *)

(* Mutant of Connect: the pending appends are not sent again. *)
ForgetsPending(c) ==
    /\ ~IsOpen
    /\ conn[c] = Unused
    /\ client' = [client EXCEPT !.sock = c]
    /\ conn' = [conn EXCEPT ![c].pc = "idle"]
    /\ inbox' = [inbox EXCEPT ![c] =
         <<Frame("hello", NoReq, {}, 0), Frame("subscribe", NoReq, {}, client.cursor)>>]
    /\ UNCHANGED <<logVars, outbox, faultVars, history>>

(* connect, and the `open` listener: Hello, every subscription with its     *)
(* saved cursor, every pending append again.                                *)
Connect(c) ==
    /\ ~IsOpen
    /\ conn[c] = Unused
    /\ client' = [client EXCEPT !.sock = c]
    /\ conn' = [conn EXCEPT ![c].pc = "idle"]
    /\ inbox' = [inbox EXCEPT ![c] =
         <<Frame("hello", NoReq, {}, 0), Frame("subscribe", NoReq, {}, client.cursor)>>
           \o [i \in 1..Cardinality(client.pending) |->
                 Frame("append", SetToSeq(client.pending)[i], {}, 0)]]
    /\ resent' = resent \cup client.pending
    /\ UNCHANGED <<logVars, outbox, faultVars, abandoned, acked, nacked>>

(* append: tracked first, sent if the socket is open. *)
ClientAppends(r) ==
    /\ r \in Own \ (client.pending \cup acked \cup nacked)
    /\ client' = [client EXCEPT !.pending = @ \cup {r}]
    /\ inbox' = IF IsOpen
                THEN [inbox EXCEPT ![client.sock] = Append(@, Frame("append", r, {}, 0))]
                ELSE inbox
    /\ UNCHANGED <<logVars, conn, outbox, faultVars, history>>

(* saveCursor *)
SaveCursor(cursor) == Larger(client.cursor, cursor)

(* The connection is lost with everything on it.  The server's task finds   *)
(* out when it reads the socket again.                                      *)
Drops(c) ==
    /\ client' = [client EXCEPT !.sock = NoConn]
    /\ outbox' = [outbox EXCEPT ![c] = <<>>]
    /\ abandoned' = abandoned \cup (InFlight(c) \cap (1..client.cursor))

(* handleFrame.  hasMore is not looked at: the next page is never asked for.*)
Receives ==
    /\ IsOpen
    /\ outbox[client.sock] # <<>>
    /\ LET c == client.sock
           f == Head(outbox[c]) IN
       \/ /\ f.kind = "close"
          /\ Drops(c)
          /\ UNCHANGED <<acked, nacked, resent>>
       \/ /\ f.kind \in {"page", "delta"}
          /\ client' = [client EXCEPT !.have = @ \cup f.seqs, !.cursor = SaveCursor(f.cursor)]
          /\ outbox' = [outbox EXCEPT ![c] = Tail(@)]
          /\ UNCHANGED history
       \/ /\ f.kind \in {"ack", "nack"}
          /\ client' = [client EXCEPT !.pending = @ \ {f.req}]
          /\ acked' = IF f.kind = "ack" THEN acked \cup {f.req} ELSE acked
          /\ nacked' = IF f.kind = "nack" /\ f.req \in client.pending
                       THEN nacked \cup {f.req} ELSE nacked
          /\ outbox' = [outbox EXCEPT ![c] = Tail(@)]
          /\ UNCHANGED <<abandoned, resent>>
    /\ UNCHANGED <<logVars, conn, inbox, faultVars>>

(* The network, the heartbeat or the client ends the connection. *)
Cut ==
    /\ IsOpen
    /\ cuts < MaxCuts
    /\ cuts' = cuts + 1
    /\ Drops(client.sock)
    /\ UNCHANGED <<logVars, conn, inbox, losses, acked, nacked, resent>>

-----------------------------------------------------------------------------
(* The gateway's connection task: dispatch.                                *)

Takes(c, kind) == /\ conn[c].pc = "idle"
                  /\ inbox[c] # <<>>
                  /\ Head(inbox[c]).kind = kind
                  /\ inbox' = [inbox EXCEPT ![c] = Tail(@)]

(* handle_hello: accepted ... *)
TakeHello(c) ==
    /\ Takes(c, "hello")
    /\ conn' = [conn EXCEPT ![c].hello = TRUE]
    /\ UNCHANGED <<logVars, client, outbox, faultVars, history>>

(* ... or refused: an invalid session or a full principal closes the        *)
(* connection, an unknown app or an incompatible schema leaves it open.     *)
RefuseHello(c, closes) ==
    /\ cuts < MaxCuts
    /\ cuts' = cuts + 1
    /\ Takes(c, "hello")
    /\ Sends(c, IF closes THEN <<Frame("close", NoReq, {}, 0)>> ELSE <<>>)
    /\ conn' = [conn EXCEPT ![c].closing = closes]
    /\ UNCHANGED <<logVars, client, losses, history>>

(* Before a Hello succeeded every other frame is refused: handshakeRequired. *)
TakeTooEarly(c) ==
    /\ ~conn[c].hello
    /\ Takes(c, "subscribe") \/ Takes(c, "append")
    /\ Sends(c, IF Head(inbox[c]).kind = "append"
                THEN <<Frame("nack", Head(inbox[c]).req, {}, 0)>> ELSE <<>>)
    /\ UNCHANGED <<logVars, client, conn, faultVars, history>>

(* handle_subscribe up to add_subscription: registered before the first     *)
(* await.                                                                   *)
TakeSubscribe(c) ==
    /\ conn[c].hello
    /\ Takes(c, "subscribe")
    /\ conn' = [conn EXCEPT ![c].pc = "subscribe", ![c].sub = TRUE,
                            ![c].cursor = Head(inbox[c]).cursor]
    /\ UNCHANGED <<logVars, client, outbox, faultVars, history>>

(* ... or refused before it: too many subscriptions, or assertCanSubscribe  *)
(* on the principal of the Hello.                                           *)
RefuseSubscribe(c) ==
    /\ conn[c].hello
    /\ losses < MaxLost
    /\ losses' = losses + 1
    /\ Takes(c, "subscribe")
    /\ abandoned' = abandoned \cup LeftBehind(c)
    /\ UNCHANGED <<logVars, client, conn, outbox, cuts, acked, nacked, resent>>

TakeAppend(c) ==
    /\ conn[c].hello
    /\ Takes(c, "append")
    /\ conn' = [conn EXCEPT ![c].pc = "append", ![c].req = Head(inbox[c]).req]
    /\ UNCHANGED <<logVars, client, outbox, faultVars, history>>

(* active_principal_for_frame refuses: a Nack and a Close are queued, a     *)
(* subscription is taken back.  The task goes on reading.                   *)
SessionRefused(c) ==
    /\ conn[c].pc \in {"subscribe", "append"}
    /\ cuts < MaxCuts
    /\ cuts' = cuts + 1
    /\ conn' = [conn EXCEPT ![c] = [Done(c) EXCEPT !.closing = TRUE,
                  !.sub = IF conn[c].pc = "subscribe" THEN FALSE ELSE @]]
    /\ Sends(c, (IF conn[c].pc = "append" THEN <<Frame("nack", conn[c].req, {}, 0)>> ELSE <<>>)
                  \o <<Frame("close", NoReq, {}, 0)>>)
    /\ abandoned' = abandoned \cup LeftBehind(c)
    /\ UNCHANGED <<logVars, client, inbox, losses, acked, nacked, resent>>

(* assertCanSubscribe on the fresh principal, or a missing key: the entry   *)
(* is taken back and the connection stays open.                             *)
SubscribeRefused(c) ==
    /\ conn[c].pc = "subscribe"
    /\ losses < MaxLost
    /\ losses' = losses + 1
    /\ conn' = [conn EXCEPT ![c] = [Done(c) EXCEPT !.sub = FALSE]]
    /\ abandoned' = abandoned \cup LeftBehind(c)
    /\ UNCHANGED <<logVars, client, linkVars, cuts, acked, nacked, resent>>

(* ... or the session is fine. *)
SessionValid(c) ==
    /\ \/ conn[c].pc = "subscribe" /\ Goes(c, "read")
       \/ conn[c].pc = "append" /\ Goes(c, "lookup")
    /\ UNCHANGED <<logVars, client, linkVars, faultVars, history>>

-----------------------------------------------------------------------------
(* handle_subscribe: the page.                                             *)

(* Mutant of ReadPage: the first event after the cursor is skipped. *)
SkipsOne(c) ==
    /\ conn[c].pc = "read"
    /\ conn' = [conn EXCEPT ![c].pc = "page",
                            ![c].page = FirstOf((conn[c].cursor + 2)..Len(log), PageSize)]
    /\ abandoned' = abandoned \cup
         IF c = client.sock THEN ((conn[c].cursor + 2)..Len(log)) \ conn'[c].page ELSE {}
    /\ UNCHANGED <<logVars, client, linkVars, faultVars, acked, nacked, resent>>

(* streams().read: at most a page of what is after the cursor.  What is     *)
(* beyond the page is left to a request that the runtime never makes.       *)
ReadPage(c) ==
    /\ conn[c].pc = "read"
    /\ conn' = [conn EXCEPT ![c].pc = "page",
                            ![c].page = FirstOf((conn[c].cursor + 1)..Len(log), PageSize)]
    /\ abandoned' = abandoned \cup
         IF c = client.sock THEN ((conn[c].cursor + 1)..Len(log)) \ conn'[c].page ELSE {}
    /\ UNCHANGED <<logVars, client, linkVars, faultVars, acked, nacked, resent>>

(* A read that fails is an empty page (unwrap_or_default), at the cursor    *)
(* that was asked for.                                                      *)
ReadFails(c) ==
    /\ conn[c].pc = "read"
    /\ losses < MaxLost
    /\ losses' = losses + 1
    /\ Goes(c, "page")
    /\ abandoned' = abandoned \cup IF c = client.sock THEN Backlog(c) ELSE {}
    /\ UNCHANGED <<logVars, client, linkVars, cuts, acked, nacked, resent>>

SendPage(c) ==
    /\ conn[c].pc = "page"
    /\ LET page == conn[c].page IN
       Sends(c, <<Frame("page", NoReq, page, IF page = {} THEN conn[c].cursor ELSE LastOf(page))>>)
    /\ conn' = [conn EXCEPT ![c] = Done(c)]
    /\ UNCHANGED <<logVars, client, inbox, faultVars, history>>

-----------------------------------------------------------------------------
(* handle_append.                                                          *)

(* The rate limit, the size limit or a policy refuses, or the store does.   *)
AppendRefused(c) ==
    /\ conn[c].pc \in {"lookup", "insert"}
    /\ losses < MaxLost
    /\ losses' = losses + 1
    /\ Sends(c, <<Frame("nack", conn[c].req, {}, 0)>>)
    /\ conn' = [conn EXCEPT ![c] = Done(c)]
    /\ UNCHANGED <<logVars, client, inbox, cuts, history>>

(* append_event finds the request's event, and nothing is fanned out ... *)
LookupRequest(c) ==
    /\ conn[c].pc = "lookup"
    /\ Goes(c, IF \E s \in 1..Len(log) : log[s] = conn[c].req THEN "ack" ELSE "insert")
    /\ UNCHANGED <<logVars, client, linkVars, faultVars, history>>

(* ... or stores a new one ... *)
StoreAppend(c) ==
    /\ conn[c].pc = "insert"
    /\ Len(log) < MaxLog
    /\ Insert(conn[c].req)
    /\ conn' = [conn EXCEPT ![c].pc = "tell", ![c].cursor = Len(log) + 1]
    /\ UNCHANGED <<client, linkVars, faultVars, history>>

Delta(s) == Frame("delta", NoReq, {s}, s)

(* Mutant of Broadcasts: a connection about to be sent a page is left to it. *)
LeavesItToThePage(s) ==
    outbox' = [c \in Conns |->
                 IF conn[c].sub /\ conn[c].pc # "page" /\ ~conn[c].closing
                 THEN Append(outbox[c], Delta(s)) ELSE outbox[c]]

(* broadcast_to_subscribers: one lock, every registered connection. *)
Broadcasts(s) ==
    outbox' = [c \in Conns |-> IF conn[c].sub /\ ~conn[c].closing
                               THEN Append(outbox[c], Delta(s)) ELSE outbox[c]]

(* ... which the write listener fans out before the append returns ... *)
FanOutOwn(c) ==
    /\ conn[c].pc = "tell"
    /\ Tell(conn[c].cursor)
    /\ Broadcasts(conn[c].cursor)
    /\ Goes(c, "ack")
    /\ UNCHANGED <<client, inbox, faultVars, history>>

(* Mutant of AckAppend: acknowledged when stored, before the fan-out. *)
AcksWhenStored(c) ==
    /\ conn[c].pc \in {"tell", "ack"}
    /\ Sends(c, <<Frame("ack", conn[c].req, {}, 0)>>)
    /\ conn' = [conn EXCEPT ![c] = Done(c)]
    /\ UNCHANGED <<logVars, client, inbox, faultVars, history>>

(* ... and it is acknowledged. *)
AckAppend(c) ==
    /\ conn[c].pc = "ack"
    /\ Sends(c, <<Frame("ack", conn[c].req, {}, 0)>>)
    /\ conn' = [conn EXCEPT ![c] = Done(c)]
    /\ UNCHANGED <<logVars, client, inbox, faultVars, history>>

(* The inbound loop ends once the client is gone; what the client had sent  *)
(* may or may not have been read.                                           *)
Unregister(c) ==
    /\ conn[c].pc = "idle"
    /\ client.sock # c
    /\ conn' = [conn EXCEPT ![c] = [Unused EXCEPT !.pc = "gone"]]
    /\ inbox' = [inbox EXCEPT ![c] = <<>>] /\ outbox' = [outbox EXCEPT ![c] = <<>>]
    /\ UNCHANGED <<logVars, client, faultVars, history>>

-----------------------------------------------------------------------------
(* Everyone else: HTTP routes, other clients, other nodes.                 *)

OtherStores(r) ==
    /\ Len(log) < MaxLog
    /\ \A s \in 1..Len(log) : log[s] # r
    /\ Insert(r)
    /\ UNCHANGED <<client, conn, linkVars, faultVars, history>>

(* The write listener of this node, or an envelope of a peer: in any order. *)
OtherTells(s) ==
    /\ log[s] \notin Own
    /\ Tell(s)
    /\ Broadcasts(s)
    /\ UNCHANGED <<client, conn, inbox, faultVars, history>>

(* An envelope is lost, or the call that stored the event ends before the   *)
(* listener.                                                                *)
OtherLost(s) ==
    /\ log[s] \notin Own
    /\ losses < MaxLost
    /\ losses' = losses + 1
    /\ Lose({s})
    /\ abandoned' = abandoned \cup
         IF IsOpen /\ s \notin Backlog(client.sock) \cup Carried(client.sock) THEN {s} ELSE {}
    /\ UNCHANGED <<client, conn, linkVars, cuts, acked, nacked, resent>>

(* The process ends, with its connections and the calls in progress.        *)
Crash ==
    /\ cuts < MaxCuts
    /\ cuts' = cuts + 1
    /\ Lose(due)
    /\ client' = [client EXCEPT !.sock = NoConn]
    /\ abandoned' = abandoned \cup
         ((due \cup IF IsOpen THEN InFlight(client.sock) ELSE {}) \cap (1..client.cursor))
    /\ conn' = [c \in Conns |-> IF Live(c) THEN [Unused EXCEPT !.pc = "gone"] ELSE conn[c]]
    /\ inbox' = [c \in Conns |-> <<>>] /\ outbox' = [c \in Conns |-> <<>>]
    /\ UNCHANGED <<losses, acked, nacked, resent>>

-----------------------------------------------------------------------------

TaskStep(c) == \/ TakeHello(c) \/ TakeTooEarly(c) \/ TakeSubscribe(c) \/ TakeAppend(c)
               \/ SessionValid(c) \/ ReadPage(c) \/ SendPage(c)
               \/ LookupRequest(c) \/ StoreAppend(c) \/ FanOutOwn(c) \/ AckAppend(c)

Next == \/ \E c \in Conns : Connect(c) \/ TaskStep(c) \/ SessionRefused(c)
                            \/ RefuseSubscribe(c) \/ SubscribeRefused(c) \/ ReadFails(c)
                            \/ AppendRefused(c) \/ Unregister(c)
        \/ \E c \in Conns, closes \in BOOLEAN : RefuseHello(c, closes)
        \/ \E r \in Own : ClientAppends(r)
        \/ Receives \/ Cut \/ Crash
        \/ \E r \in Requests \ Own : OtherStores(r)
        \/ \E s \in due : OtherTells(s) \/ OtherLost(s)

Spec == Init /\ [][Next]_vars

(* The client reconnects and reads its socket, the gateway's task runs, and *)
(* the listener is called for what was stored.                              *)
LiveSpec == Spec /\ WF_vars(\E c \in Conns : Connect(c)) /\ WF_vars(Receives)
                 /\ \A c \in Conns : WF_vars(TaskStep(c))
                 /\ WF_vars(\E s \in due : OtherTells(s))

-----------------------------------------------------------------------------
(* Properties.                                                             *)

(* Registering before the page is read closes the race with a write: an     *)
(* event at or below the client's cursor that the client does not have is   *)
(* still on its way to it, or was in flight behind the cursor when it, its  *)
(* connection or the rest of its page was lost.  Nothing else slips behind. *)
MissingIsOnItsWay ==
    \A s \in 1..client.cursor :
        s \in client.have \cup abandoned \cup (IF IsOpen THEN InFlight(client.sock) ELSE {})

(* The client is subscribed and has received its page. *)
PagedIn ==
    /\ IsOpen
    /\ LET c == client.sock IN
       /\ conn[c].sub /\ Backlog(c) = {}
       /\ \A i \in 1..Len(outbox[c]) : outbox[c][i].kind # "page"

(* runtime.ts:579-581: the overlay is dropped on Ack since "the real Delta  *)
(* takes over": the delta is queued before the Ack, so an append that was   *)
(* sent once is in the replica of a subscriber when it is acknowledged.  (An*)
(* older connection's handler may still have to fan out a resent append.)   *)
AckedIsVisible ==
    PagedIn => \A r \in acked \ resent :
        \E s \in 1..Len(log) : log[s] = r /\ s \in client.have \cup abandoned

(* The client is connected and has been refused. *)
NotSubscribed ==
    /\ IsOpen
    /\ LET c == client.sock IN
       /\ ~conn[c].sub /\ ~conn[c].closing
       /\ Queued(c, "hello") = {}
       /\ conn[c].hello => Queued(c, "subscribe") = {}

(* A queued append is answered in the end, over cuts, crashes and refused   *)
(* handshakes: by an Ack or a Nack of the connection it was last sent on.   *)
AppendsAreAnswered == \A r \in Own : (r \in client.pending) ~> (r \notin client.pending)

(* Every event reaches the replica in the end, unless the client's cursor   *)
(* passed it when a frame or an envelope was lost, it was not on the page   *)
(* of its subscription, or the client's handshake or subscription is        *)
(* refused.                                                                 *)
Replicates ==
    \A s \in 1..MaxLog :
        (s <= Len(log)) ~> (s \in client.have \cup abandoned \/ NotSubscribed)
=============================================================================
