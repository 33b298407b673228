-------------------------- MODULE StreamSyncProofs --------------------------
(***************************************************************************)
(* Proofs about StreamSync, for any number of connections, requests and    *)
(* events, any page size and any number of cuts and losses: nothing that   *)
(* is neither lost nor on its way is behind the client's cursor, and what  *)
(* is acknowledged is visible.                                             *)
(*                                                                         *)
(* Base is the shape of the state and what the frames in the two queues    *)
(* and a handler's position say about each other.  WayInv is the argument  *)
(* for the cursor: a registered connection brings everything that the      *)
(* client has not, by its queue, its page or the write listener.  TraceInv *)
(* says that an append that was sent once is in one place until it is      *)
(* stored, hence stored once; ToldInv that its event was told before any   *)
(* Ack of it; OrderInv that the delta is ahead of the Ack in the queue.    *)
(***************************************************************************)
EXTENDS StreamSync, SequenceTheorems, FiniteSetTheorems, WellFoundedInduction, TLAPS

-----------------------------------------------------------------------------
(* The shape of the state.                                                 *)

ClientState == [sock : Conns \cup {NoConn}, cursor : 0..MaxLog,
                have : SUBSET (1..MaxLog), pending : SUBSET Own]

Shape ==
    /\ log \in Seq(Requests) /\ Len(log) <= MaxLog
    /\ due \in SUBSET (1..Len(log))
    /\ client \in ClientState /\ IsFiniteSet(client.pending)
    /\ conn \in [Conns -> ConnState]
    /\ inbox \in [Conns -> Seq(Frames)] /\ outbox \in [Conns -> Seq(Frames)]
    /\ acked \in SUBSET Own /\ nacked \in SUBSET Own

(* The frames q on their way to a connection that is m, with n events       *)
(* stored: Hello, then one Subscribe, then appends.  The Subscribe is taken *)
(* before any append, so the connection is not closing yet.                 *)
InboxOK(q, m, n) == \A i \in 1..Len(q) :
    /\ q[i].kind \in {"hello", "subscribe", "append"}
    /\ q[i].kind = "hello" => i = 1 /\ ~m.hello /\ ~m.closing
    /\ q[i].kind = "subscribe" =>
         /\ i = 1 \/ (i = 2 /\ q[1].kind = "hello")
         /\ ~m.sub /\ (m.hello => ~m.closing) /\ q[i].cursor <= n
    /\ q[i].kind # "append" => m.pc = "idle"
    /\ q[i].kind = "append" => q[i].req \in Own

(* A connection is registered while it is about to send the page, and then  *)
(* it is not closing.                                                       *)
HandlerOK(m, n) ==
    /\ m.sub => m.hello
    /\ m.pc \notin {"unused", "idle", "gone"} => m.hello
    /\ m.pc \in {"subscribe", "read", "page"} => m.sub /\ ~m.closing
    /\ m.pc \in {"unused", "gone"} => ~m.sub
    /\ m.pc \in {"append", "lookup", "insert", "tell", "ack"} => m.req \in Own
    /\ m.pc = "tell" => m.cursor >= 1
    /\ m.cursor <= n /\ m.page \subseteq 1..n

(* A frame to the client is about events that are stored. *)
FrameOK(f, n) ==
    /\ f.seqs \subseteq 1..n /\ f.cursor <= n
    /\ f.kind \in {"page", "delta", "ack", "nack", "close"}
    /\ f.kind \notin {"page", "delta"} => f.seqs = {} /\ f.cursor = 0
    /\ f.kind \in {"ack", "nack"} => f.req \in Own

OutboxOK(q, n) == \A i \in 1..Len(q) : FrameOK(q[i], n)

(* The Subscribe that was sent asks for what is after a cursor the client   *)
(* had then.                                                                *)
AsksBehind(q, cursor) == \A i \in 1..Len(q) : q[i].kind = "subscribe" => q[i].cursor <= cursor

Links ==
    /\ client.cursor <= Len(log)
    /\ \A c \in Conns : /\ InboxOK(inbox[c], conn[c], Len(log))
                        /\ HandlerOK(conn[c], Len(log))
                        /\ OutboxOK(outbox[c], Len(log))
                        /\ conn[c].pc = "unused" => outbox[c] = <<>>
                        /\ c = client.sock => AsksBehind(inbox[c], client.cursor)

Base == Shape /\ Links

-----------------------------------------------------------------------------
(* Records and queues.                                                     *)

LEMMA FrameFields ==
    ASSUME NEW k, NEW r, NEW s, NEW n
    PROVE  /\ Frame(k, r, s, n).kind = k /\ Frame(k, r, s, n).req = r
           /\ Frame(k, r, s, n).seqs = s /\ Frame(k, r, s, n).cursor = n
BY DEF Frame

LEMMA FrameTyped ==
    ASSUME NEW k \in {"hello", "subscribe", "append", "page", "delta", "ack", "nack", "close"},
           NEW r \in Requests \cup {NoReq}, NEW s \in SUBSET (1..MaxLog), NEW n \in 0..MaxLog
    PROVE  Frame(k, r, s, n) \in Frames
BY DEF Frame, Frames

LEMMA FrameTypes ==
    ASSUME NEW f \in Frames
    PROVE  /\ f.cursor \in 0..MaxLog /\ f.cursor \in Nat /\ f.seqs \in SUBSET (1..MaxLog)
           /\ f.req \in Requests \cup {NoReq}
BY SyncLimitAssumption DEF Frames

LEMMA ConnTypes ==
    ASSUME NEW m \in ConnState
    PROVE  /\ m.hello \in BOOLEAN /\ m.sub \in BOOLEAN /\ m.closing \in BOOLEAN
           /\ m.req \in Requests \cup {NoReq} /\ m.cursor \in 0..MaxLog /\ m.cursor \in Nat
           /\ m.page \in SUBSET (1..MaxLog)
           /\ m.pc \in {"unused", "idle", "subscribe", "read", "page", "append", "lookup",
                        "insert", "tell", "ack", "gone"}
BY SyncLimitAssumption DEF ConnState

LEMMA UnusedFields ==
    /\ Unused \in ConnState /\ Unused.pc = "unused" /\ Unused.hello = FALSE /\ Unused.sub = FALSE
    /\ Unused.closing = FALSE /\ Unused.req = NoReq /\ Unused.cursor = 0 /\ Unused.page = {}
BY SyncLimitAssumption DEF Unused, ConnState

(* A queue without its head, with a frame more, and with frames more that   *)
(* bring nothing.                                                           *)
Popped(q, p) ==
    /\ p \in Seq(Frames) /\ q[1] \in Frames
    /\ Len(q) \in Nat /\ Len(p) \in Nat /\ Len(q) = Len(p) + 1
    /\ \A i \in 1..Len(p) : p[i] = q[i + 1]
Pushed(q, p, f) ==
    /\ p \in Seq(Frames)
    /\ Len(q) \in Nat /\ Len(p) = Len(q) + 1
    /\ \A i \in 1..Len(q) : p[i] = q[i]
    /\ p[Len(p)] = f

LEMMA TailPops ==
    ASSUME NEW q \in Seq(Frames), q # <<>>
    PROVE  Popped(q, Tail(q)) /\ Head(q) = q[1] /\ Len(q) >= 1
<1>1. Len(q) \in Nat /\ Len(q) # 0  BY EmptySeq, LenProperties
<1>2. Head(q) = q[1] OBVIOUS
<1>3. q[1] \in Frames  BY <1>1, ElementOfSeq
<1>4. /\ Tail(q) \in Seq(Frames) /\ Len(Tail(q)) = Len(q) - 1
      /\ \A i \in 1..Len(Tail(q)) : Tail(q)[i] = q[i + 1]
  BY HeadTailProperties
<1> QED  BY <1>1, <1>2, <1>3, <1>4 DEF Popped

LEMMA AppendPushes ==
    ASSUME NEW q \in Seq(Frames), NEW f \in Frames
    PROVE  Pushed(q, Append(q, f), f)
<1>1. Len(q) \in Nat  BY LenProperties
<1> QED  BY <1>1, AppendProperties DEF Pushed

LEMMA ConcatPushes ==
    ASSUME NEW q \in Seq(Frames), NEW f \in Frames
    PROVE  Pushed(q, q \o <<f>>, f)
<1>1. Len(q) \in Nat  BY LenProperties
<1>2. <<f>> \in Seq(Frames) /\ Len(<<f>>) = 1 /\ <<f>>[1] = f  OBVIOUS
<1> QED  BY <1>1, <1>2, ConcatProperties DEF Pushed

LEMMA MaxExists ==
    ASSUME NEW n \in Nat, NEW S \in SUBSET (0..n), S # {}
    PROVE  LastOf(S) \in S /\ \A o \in S : o <= LastOf(S)
<1> DEFINE T == {n - s : s \in S}
<1>1. T \subseteq Nat  OBVIOUS
<1>0. T # {}  OBVIOUS
<1>2. PICK x \in T : \A y \in T : <<y, x>> \notin OpToRel(<, Nat)
  <2> HIDE DEF T
  <2>1. IsWellFoundedOn(OpToRel(<, Nat), Nat) BY NatLessThanWellFounded
  <2> QED BY <1>0, <1>1, <2>1, WFMin
<1>3. \A y \in T : ~(y < x)
  BY <1>1, <1>2 DEF OpToRel
<1>4. PICK s \in S : x = n - s
  OBVIOUS
<1>5. \A o \in S : ~(n - o < n - s)
  BY <1>3, <1>4
<1>6. \A o \in S : o <= s
  BY <1>5
<1> QED
  BY <1>4, <1>6 DEF LastOf

-----------------------------------------------------------------------------
(* The step of a connection's task.                                        *)

(* Connection c goes on like this, and no other changes. *)
Turns(c, pc, hello, sub, closing, req, cursor, page) ==
    /\ conn' \in [Conns -> ConnState] /\ \A e \in Conns : e # c => conn'[e] = conn[e]
    /\ conn'[c].pc = pc /\ conn'[c].hello = hello /\ conn'[c].sub = sub
    /\ conn'[c].closing = closing /\ conn'[c].req = req
    /\ conn'[c].cursor = cursor /\ conn'[c].page = page

LEMMA ShapeConn == Shape => conn \in [Conns -> ConnState]
BY DEF Shape

LEMMA GoesTurns ==
    ASSUME Shape, NEW c \in Conns, NEW p,
           p \in {"idle", "subscribe", "read", "page", "append", "lookup", "insert", "tell", "ack"},
           Goes(c, p)
    PROVE  Turns(c, p, conn[c].hello, conn[c].sub, conn[c].closing, conn[c].req,
                 conn[c].cursor, conn[c].page)
BY ShapeConn DEF Goes, Turns, ConnState

LEMMA TurnsTo ==
    ASSUME Shape, NEW c \in Conns, NEW m \in ConnState, conn' = [conn EXCEPT ![c] = m]
    PROVE  Turns(c, m.pc, m.hello, m.sub, m.closing, m.req, m.cursor, m.page)
BY ShapeConn DEF Turns

Reset(m, n, p) == [m EXCEPT !.pc = "idle", !.req = NoReq, !.cursor = n, !.page = p]

LEMMA ResetFields ==
    ASSUME NEW m \in ConnState, NEW n \in 0..MaxLog, NEW p \in SUBSET (1..MaxLog)
    PROVE  /\ Reset(m, n, p) \in ConnState /\ Reset(m, n, p).pc = "idle"
           /\ Reset(m, n, p).hello = m.hello /\ Reset(m, n, p).sub = m.sub
           /\ Reset(m, n, p).closing = m.closing /\ Reset(m, n, p).req = NoReq
           /\ Reset(m, n, p).cursor = n /\ Reset(m, n, p).page = p
BY DEF Reset, ConnState

LEMMA DoneFields ==
    ASSUME Shape, NEW c \in Conns
    PROVE  /\ Done(c) \in ConnState /\ Done(c).pc = "idle" /\ Done(c).hello = conn[c].hello
           /\ Done(c).sub = conn[c].sub /\ Done(c).closing = conn[c].closing
           /\ Done(c).req = NoReq /\ Done(c).cursor = 0 /\ Done(c).page = {}
<1>1. {} \in SUBSET (1..MaxLog) /\ 0 \in 0..MaxLog  BY SyncLimitAssumption
<1>2. conn[c] \in ConnState  BY ShapeConn
<1>3. Done(c) = Reset(conn[c], 0, {})  BY DEF Done, Reset
<1> QED  BY <1>1, <1>2, <1>3, ResetFields

LEMMA DoneTurns ==
    ASSUME Shape, NEW c \in Conns, conn' = [conn EXCEPT ![c] = Done(c)]
    PROVE  Turns(c, "idle", conn[c].hello, conn[c].sub, conn[c].closing, NoReq, 0, {})
<1>1. Turns(c, Done(c).pc, Done(c).hello, Done(c).sub, Done(c).closing, Done(c).req,
            Done(c).cursor, Done(c).page)
  BY DoneFields, TurnsTo
<1> QED  BY <1>1, DoneFields

LEMMA ConnectTurns ==
    ASSUME Shape, NEW c \in Conns, Connect(c)
    PROVE  Turns(c, "idle", FALSE, FALSE, FALSE, NoReq, 0, {})
<1>1. conn[c] = Unused /\ conn' = [conn EXCEPT ![c].pc = "idle"]  BY DEF Connect
<1>2. Goes(c, "idle")  BY <1>1 DEF Goes
<1> QED  BY <1>1, <1>2, GoesTurns, UnusedFields

LEMMA TakeHelloTurns ==
    ASSUME Shape, NEW c \in Conns, TakeHello(c)
    PROVE  Turns(c, conn[c].pc, TRUE, conn[c].sub, conn[c].closing, conn[c].req,
                 conn[c].cursor, conn[c].page)
<1>1. conn' = [conn EXCEPT ![c].hello = TRUE]  BY DEF TakeHello
<1> QED  BY <1>1, ShapeConn DEF Turns, ConnState

LEMMA RefuseHelloTurns ==
    ASSUME Shape, NEW c \in Conns, NEW closes \in BOOLEAN, RefuseHello(c, closes)
    PROVE  Turns(c, conn[c].pc, conn[c].hello, conn[c].sub, closes, conn[c].req,
                 conn[c].cursor, conn[c].page)
<1>1. conn' = [conn EXCEPT ![c].closing = closes]  BY DEF RefuseHello
<1> QED  BY <1>1, ShapeConn DEF Turns, ConnState

LEMMA TakesHead ==
    ASSUME Shape, NEW c \in Conns, NEW k, Takes(c, k)
    PROVE  /\ conn[c].pc = "idle"
           /\ Popped(inbox[c], inbox'[c]) /\ inbox[c][1].kind = k
           /\ Head(inbox[c]) = inbox[c][1] /\ inbox[c][1] \in Frames
           /\ inbox' \in [Conns -> Seq(Frames)]
           /\ \A e \in Conns : e # c => inbox'[e] = inbox[e]
           /\ 1 \in 1..Len(inbox[c])
<1>1. /\ conn[c].pc = "idle" /\ inbox[c] # <<>> /\ Head(inbox[c]).kind = k
      /\ inbox' = [inbox EXCEPT ![c] = Tail(inbox[c])]
  BY DEF Takes
<1>2. inbox[c] \in Seq(Frames) /\ inbox \in [Conns -> Seq(Frames)]  BY DEF Shape
<1>3. Popped(inbox[c], Tail(inbox[c])) /\ Head(inbox[c]) = inbox[c][1] /\ Len(inbox[c]) >= 1
  BY <1>1, <1>2, TailPops
<1>4. Tail(inbox[c]) \in Seq(Frames) /\ inbox[c][1] \in Frames /\ 1 \in 1..Len(inbox[c])
  BY <1>3 DEF Popped
<1>5. inbox'[c] = Tail(inbox[c]) /\ inbox' \in [Conns -> Seq(Frames)]
      /\ \A e \in Conns : e # c => inbox'[e] = inbox[e]
  BY <1>1, <1>2, <1>4
<1> QED  BY <1>1, <1>3, <1>4, <1>5

LEMMA TakeSubscribeTurns ==
    ASSUME Shape, NEW c \in Conns, TakeSubscribe(c)
    PROVE  Turns(c, "subscribe", conn[c].hello, TRUE, conn[c].closing, conn[c].req,
                 inbox[c][1].cursor, conn[c].page)
<1>1. Takes(c, "subscribe")
      /\ conn' = [conn EXCEPT ![c].pc = "subscribe", ![c].sub = TRUE,
                              ![c].cursor = Head(inbox[c]).cursor]
  BY DEF TakeSubscribe
<1>2. Head(inbox[c]) = inbox[c][1] /\ inbox[c][1].cursor \in 0..MaxLog
  BY <1>1, TakesHead, FrameTypes
<1> QED  BY <1>1, <1>2, ShapeConn DEF Turns, ConnState

LEMMA TakeAppendTurns ==
    ASSUME Shape, NEW c \in Conns, TakeAppend(c)
    PROVE  Turns(c, "append", conn[c].hello, conn[c].sub, conn[c].closing, inbox[c][1].req,
                 conn[c].cursor, conn[c].page)
<1>1. Takes(c, "append")
      /\ conn' = [conn EXCEPT ![c].pc = "append", ![c].req = Head(inbox[c]).req]
  BY DEF TakeAppend
<1>2. Head(inbox[c]) = inbox[c][1] /\ inbox[c][1].req \in Requests \cup {NoReq}
  BY <1>1, TakesHead, FrameTypes
<1> QED  BY <1>1, <1>2, ShapeConn DEF Turns, ConnState

LEMMA SessionRefusedTurns ==
    ASSUME Shape, NEW c \in Conns, SessionRefused(c)
    PROVE  Turns(c, "idle", conn[c].hello, conn[c].sub /\ conn[c].pc # "subscribe", TRUE,
                 NoReq, 0, {})
<1> DEFINE m == [Done(c) EXCEPT !.closing = TRUE,
                                !.sub = IF conn[c].pc = "subscribe" THEN FALSE ELSE @]
<1>1. conn' = [conn EXCEPT ![c] = m]  BY DEF SessionRefused
<1>2. conn[c].sub \in BOOLEAN  BY ShapeConn, ConnTypes
<1>3. /\ m \in ConnState /\ m.pc = "idle" /\ m.hello = conn[c].hello /\ m.closing = TRUE
      /\ m.req = NoReq /\ m.cursor = 0 /\ m.page = {}
      /\ m.sub = IF conn[c].pc = "subscribe" THEN FALSE ELSE conn[c].sub
  BY DoneFields, <1>2 DEF ConnState
<1>4. m.sub = (conn[c].sub /\ conn[c].pc # "subscribe")  BY <1>2, <1>3
<1> HIDE DEF m
<1>5. Turns(c, m.pc, m.hello, m.sub, m.closing, m.req, m.cursor, m.page)
  BY <1>1, <1>3, TurnsTo
<1> QED  BY <1>3, <1>4, <1>5

LEMMA SubscribeRefusedTurns ==
    ASSUME Shape, NEW c \in Conns, SubscribeRefused(c)
    PROVE  Turns(c, "idle", conn[c].hello, FALSE, conn[c].closing, NoReq, 0, {})
<1> DEFINE m == [Done(c) EXCEPT !.sub = FALSE]
<1>1. conn' = [conn EXCEPT ![c] = m]  BY DEF SubscribeRefused
<1>2. /\ m \in ConnState /\ m.pc = "idle" /\ m.hello = conn[c].hello /\ m.sub = FALSE
      /\ m.closing = conn[c].closing /\ m.req = NoReq /\ m.cursor = 0 /\ m.page = {}
  BY DoneFields DEF ConnState
<1> HIDE DEF m
<1>3. Turns(c, m.pc, m.hello, m.sub, m.closing, m.req, m.cursor, m.page)
  BY <1>1, <1>2, TurnsTo
<1> QED  BY <1>2, <1>3

(* A page is part of what is stored. *)
LEMMA ReadPageTurns ==
    ASSUME Shape, NEW c \in Conns, ReadPage(c)
    PROVE  LET page == FirstOf((conn[c].cursor + 1)..Len(log), PageSize) IN
           /\ page \subseteq (conn[c].cursor + 1)..Len(log)
           /\ Turns(c, "page", conn[c].hello, conn[c].sub, conn[c].closing, conn[c].req,
                    conn[c].cursor, page)
<1> DEFINE page == FirstOf((conn[c].cursor + 1)..Len(log), PageSize)
<1>1. conn' = [conn EXCEPT ![c].pc = "page", ![c].page = page]  BY DEF ReadPage
<1>2. page \subseteq (conn[c].cursor + 1)..Len(log)  BY DEF FirstOf
<1>3. conn[c].cursor \in Nat /\ Len(log) <= MaxLog /\ Len(log) \in Nat
  BY ConnTypes, LenProperties DEF Shape
<1>4. page \in SUBSET (1..MaxLog)  BY <1>2, <1>3, SyncLimitAssumption
<1> HIDE DEF page
<1>5. Turns(c, "page", conn[c].hello, conn[c].sub, conn[c].closing, conn[c].req,
            conn[c].cursor, page)
  BY <1>1, <1>4, ShapeConn DEF Turns, ConnState
<1> QED  BY <1>2, <1>5 DEF page

LEMMA StoreAppendTurns ==
    ASSUME Shape, NEW c \in Conns, StoreAppend(c)
    PROVE  Turns(c, "tell", conn[c].hello, conn[c].sub, conn[c].closing, conn[c].req,
                 Len(log) + 1, conn[c].page)
<1>1. conn' = [conn EXCEPT ![c].pc = "tell", ![c].cursor = Len(log) + 1]
      /\ Len(log) < MaxLog
  BY DEF StoreAppend
<1>2. Len(log) + 1 \in 0..MaxLog  BY <1>1, LenProperties, SyncLimitAssumption DEF Shape
<1> QED  BY <1>1, <1>2, ShapeConn DEF Turns, ConnState

(* A connection that has ended. *)
Gone == [Unused EXCEPT !.pc = "gone"]

LEMMA GoneFields ==
    /\ Gone \in ConnState /\ Gone.pc = "gone" /\ Gone.hello = FALSE /\ Gone.sub = FALSE
    /\ Gone.closing = FALSE /\ Gone.req = NoReq /\ Gone.cursor = 0 /\ Gone.page = {}
<1>1. Gone = [Unused EXCEPT !.pc = "gone"]  BY DEF Gone
<1> QED  BY <1>1, UnusedFields DEF ConnState

LEMMA UnregisterTurns ==
    ASSUME Shape, NEW c \in Conns, Unregister(c)
    PROVE  Turns(c, "gone", FALSE, FALSE, FALSE, NoReq, 0, {})
<1>1. conn' = [conn EXCEPT ![c] = Gone]  BY DEF Unregister, Gone
<1>2. Turns(c, Gone.pc, Gone.hello, Gone.sub, Gone.closing, Gone.req, Gone.cursor, Gone.page)
  BY <1>1, GoneFields, TurnsTo
<1> QED  BY <1>2, GoneFields

-----------------------------------------------------------------------------
(* Queues under the operations.                                            *)

(* Frames that bring no event and acknowledge nothing are added to q. *)
Quietly(q, p) ==
    /\ p \in Seq(Frames) /\ Len(q) \in Nat /\ Len(p) \in Nat /\ Len(q) <= Len(p)
    /\ \A i \in 1..Len(q) : p[i] = q[i]
    /\ \A i \in 1..Len(p) : i > Len(q) =>
          /\ p[i].kind \in {"nack", "close"} /\ p[i].seqs = {} /\ p[i].cursor = 0
          /\ p[i].kind = "nack" => p[i].req \in Own

AllAppends(q) == \A i \in 1..Len(q) : q[i].kind = "append" /\ q[i].req \in Own

LEMMA AppendsOK ==
    ASSUME NEW q, AllAppends(q), NEW m, NEW n
    PROVE  InboxOK(q, m, n) /\ AsksBehind(q, n)
BY DEF AllAppends, InboxOK, AsksBehind

(* Behind a frame that is not the Hello there are appends only. *)
LEMMA BehindOther ==
    ASSUME NEW q, NEW p, Popped(q, p), NEW m, NEW n, InboxOK(q, m, n), q[1].kind # "hello"
    PROVE  AllAppends(p)
<1> SUFFICES ASSUME NEW i \in 1..Len(p) PROVE p[i].kind = "append" /\ p[i].req \in Own
  BY DEF AllAppends
<1>1. i + 1 \in 1..Len(q) /\ p[i] = q[i + 1] /\ i + 1 # 1  BY DEF Popped
<1>2. q[i + 1].kind \notin {"hello", "subscribe"}  BY <1>1 DEF InboxOK
<1> QED  BY <1>1, <1>2 DEF InboxOK

(* Behind the Hello the rest stays as it is. *)
LEMMA BehindHello ==
    ASSUME NEW q, NEW p, Popped(q, p), NEW m, NEW n, InboxOK(q, m, n),
           NEW k, m.sub => k.sub, k.sub => m.sub, k.pc = "idle", k.hello => ~k.closing
    PROVE  InboxOK(p, k, n)
<1> SUFFICES ASSUME NEW i \in 1..Len(p)
             PROVE  /\ p[i].kind \in {"hello", "subscribe", "append"}
                    /\ p[i].kind = "hello" => i = 1 /\ ~k.hello /\ ~k.closing
                    /\ p[i].kind = "subscribe" =>
                         /\ i = 1 \/ (i = 2 /\ p[1].kind = "hello")
                         /\ ~k.sub /\ (k.hello => ~k.closing) /\ p[i].cursor <= n
                    /\ p[i].kind # "append" => k.pc = "idle"
                    /\ p[i].kind = "append" => p[i].req \in Own
  BY DEF InboxOK
<1>1. i + 1 \in 1..Len(q) /\ p[i] = q[i + 1] /\ i + 1 # 1 /\ (i + 1 = 2 => i = 1)  BY DEF Popped
<1>2. /\ q[i + 1].kind \in {"subscribe", "append"}
      /\ q[i + 1].kind = "subscribe" => i + 1 = 2 /\ ~m.sub /\ q[i + 1].cursor <= n
      /\ q[i + 1].kind = "append" => q[i + 1].req \in Own
  BY <1>1 DEF InboxOK
<1> QED  BY <1>1, <1>2

LEMMA PopAsksBehind ==
    ASSUME NEW q, NEW p, Popped(q, p), NEW n, AsksBehind(q, n)
    PROVE  AsksBehind(p, n)
<1> SUFFICES ASSUME NEW i \in 1..Len(p), p[i].kind = "subscribe" PROVE p[i].cursor <= n
  BY DEF AsksBehind
<1>1. i + 1 \in 1..Len(q) /\ p[i] = q[i + 1]  BY DEF Popped
<1> QED  BY <1>1 DEF AsksBehind

(* While a frame is handled, only appends are waiting. *)
LEMMA BusyInbox ==
    ASSUME NEW q, NEW m, NEW n, InboxOK(q, m, n), m.pc # "idle"
    PROVE  AllAppends(q)
BY DEF InboxOK, AllAppends

LEMMA PushOutbox ==
    ASSUME NEW q, NEW p, NEW f, NEW n, Pushed(q, p, f), OutboxOK(q, n), FrameOK(f, n)
    PROVE  OutboxOK(p, n)
<1> SUFFICES ASSUME NEW i \in 1..Len(p) PROVE FrameOK(p[i], n)  BY DEF OutboxOK
<1>1. i \in 1..Len(q) \/ i = Len(p)  BY DEF Pushed
<1>2. i \in 1..Len(q) => p[i] = q[i]  BY DEF Pushed
<1>3. p[Len(p)] = f  BY DEF Pushed
<1> QED  BY <1>1, <1>2, <1>3 DEF OutboxOK

LEMMA QuietOutbox ==
    ASSUME NEW q, NEW p, NEW n \in Nat, Quietly(q, p), OutboxOK(q, n)
    PROVE  OutboxOK(p, n)
<1> SUFFICES ASSUME NEW i \in 1..Len(p) PROVE FrameOK(p[i], n)  BY DEF OutboxOK
<1>1. CASE i <= Len(q)
  <2>1. i \in 1..Len(q) /\ p[i] = q[i]  BY <1>1 DEF Quietly
  <2> QED  BY <2>1 DEF OutboxOK
<1>2. CASE i > Len(q)
  <2>1. /\ p[i].kind \in {"nack", "close"} /\ p[i].seqs = {} /\ p[i].cursor = 0
        /\ p[i].kind = "nack" => p[i].req \in Own
    BY <1>2 DEF Quietly
  <2> QED  BY <2>1 DEF FrameOK
<1>3. i \in Nat /\ Len(q) \in Nat  BY DEF Quietly
<1> QED  BY <1>1, <1>2, <1>3

LEMMA PopOutbox ==
    ASSUME NEW q, NEW p, NEW n, Popped(q, p), OutboxOK(q, n)
    PROVE  OutboxOK(p, n) /\ FrameOK(q[1], n)
<1>1. 1 \in 1..Len(q) /\ \A i \in 1..Len(p) : i + 1 \in 1..Len(q) /\ p[i] = q[i + 1]  BY DEF Popped
<1> QED  BY <1>1 DEF OutboxOK

LEMMA QuietlyRefl ==
    ASSUME NEW q \in Seq(Frames) PROVE Quietly(q, q)
<1>1. Len(q) \in Nat  BY LenProperties
<1> QED  BY <1>1 DEF Quietly

LEMMA QuietPush ==
    ASSUME NEW q \in Seq(Frames), NEW p, NEW f, Pushed(q, p, f), f.kind \in {"nack", "close"},
           f.seqs = {}, f.cursor = 0, f.kind = "nack" => f.req \in Own
    PROVE  Quietly(q, p)
<1>1. Len(q) \in Nat /\ Len(p) = Len(q) + 1 /\ p[Len(p)] = f /\ p \in Seq(Frames)  BY DEF Pushed
<1>2. \A i \in 1..Len(p) : i > Len(q) => i = Len(p)  BY <1>1
<1>3. \A i \in 1..Len(q) : p[i] = q[i]  BY DEF Pushed
<1>4. Len(p) \in Nat /\ Len(q) <= Len(p)  BY <1>1
<1> QED  BY <1>1, <1>2, <1>3, <1>4 DEF Quietly

LEMMA QuietlyTrans ==
    ASSUME NEW q, NEW p, NEW r, Quietly(q, p), Quietly(p, r)
    PROVE  Quietly(q, r)
<1>1. /\ Len(q) \in Nat /\ Len(p) \in Nat /\ Len(r) \in Nat /\ Len(q) <= Len(p) /\ Len(p) <= Len(r)
      /\ r \in Seq(Frames)
  BY DEF Quietly
<1>2. Len(q) <= Len(r) BY <1>1
<1>3. ASSUME NEW i \in 1..Len(q) PROVE r[i] = q[i]
  <2>1. i \in 1..Len(p) BY <1>1
  <2>2. p[i] = q[i] BY DEF Quietly
  <2>3. r[i] = p[i] BY <2>1 DEF Quietly
  <2> QED BY <2>2, <2>3
<1>4. ASSUME NEW i \in 1..Len(r), i > Len(q)
      PROVE  /\ r[i].kind \in {"nack", "close"} /\ r[i].seqs = {} /\ r[i].cursor = 0
             /\ r[i].kind = "nack" => r[i].req \in Own
  <2>1. CASE i > Len(p)  BY <2>1 DEF Quietly
  <2>2. CASE i <= Len(p)
    <3>1. i \in 1..Len(p)  BY <1>1, <2>2
    <3>2. r[i] = p[i]  BY <3>1 DEF Quietly
    <3> QED  BY <1>4, <3>1, <3>2 DEF Quietly
  <2> QED  BY <1>1, <2>1, <2>2
<1> QED  BY <1>1, <1>2, <1>3, <1>4 DEF Quietly

(* send_frame. *)
LEMMA ShapeOut == Shape => outbox \in [Conns -> Seq(Frames)]
BY DEF Shape

LEMMA NoReqTyped == NoReq \in Requests \cup {NoReq}
OBVIOUS

OutOthers(c) == outbox' \in [Conns -> Seq(Frames)] /\ \A e \in Conns : e # c => outbox'[e] = outbox[e]

LEMMA SendsFrames ==
    ASSUME Shape, NEW c \in Conns, NEW fs, Sends(c, fs), outbox[c] \o fs \in Seq(Frames)
    PROVE  /\ OutOthers(c)
           /\ outbox'[c] = IF conn[c].closing THEN outbox[c] ELSE outbox[c] \o fs
<1> DEFINE r == IF conn[c].closing THEN outbox[c] ELSE outbox[c] \o fs
<1>1. outbox' = [outbox EXCEPT ![c] = r]  BY DEF Sends
<1>2. r \in Seq(Frames)  BY ShapeOut
<1> HIDE DEF r
<1>3. outbox'[c] = r /\ OutOthers(c)  BY <1>1, <1>2, ShapeOut DEF OutOthers
<1> QED  BY <1>3 DEF r

LEMMA SendsOne ==
    ASSUME Shape, NEW c \in Conns, NEW f \in Frames, Sends(c, <<f>>)
    PROVE  /\ OutOthers(c)
           /\ conn[c].closing => outbox'[c] = outbox[c]
           /\ ~conn[c].closing => Pushed(outbox[c], outbox'[c], f)
<1>1. outbox[c] \in Seq(Frames)  BY ShapeOut
<1>2. Pushed(outbox[c], outbox[c] \o <<f>>, f)  BY <1>1, ConcatPushes
<1>3. outbox[c] \o <<f>> \in Seq(Frames)  BY <1>2 DEF Pushed
<1>4. OutOthers(c) /\ outbox'[c] = IF conn[c].closing THEN outbox[c] ELSE outbox[c] \o <<f>>
  BY <1>3, SendsFrames
<1> QED  BY <1>2, <1>4

LEMMA SendsNone ==
    ASSUME Shape, NEW c \in Conns, Sends(c, <<>>)
    PROVE  OutOthers(c) /\ outbox'[c] = outbox[c]
<1>1. outbox[c] \in Seq(Frames)  BY ShapeOut
<1>2. outbox[c] \o <<>> = outbox[c]  BY <1>1, ConcatEmptySeq
<1> QED  BY <1>1, <1>2, SendsFrames

Closes == Frame("close", NoReq, {}, 0)
Nack(r) == Frame("nack", r, {}, 0)

LEMMA QuietFrames ==
    /\ Closes \in Frames /\ Closes.kind = "close" /\ Closes.seqs = {} /\ Closes.cursor = 0
    /\ \A r \in Own : /\ Nack(r) \in Frames /\ Nack(r).kind = "nack" /\ Nack(r).seqs = {}
                      /\ Nack(r).cursor = 0 /\ Nack(r).req = r
<1>1. {} \in SUBSET (1..MaxLog) /\ 0 \in 0..MaxLog  BY SyncLimitAssumption
<1>2. Closes \in Frames  BY <1>1, FrameTyped DEF Closes
<1>3. \A r \in Own : Nack(r) \in Frames  BY <1>1, FrameTyped, OwnAssumption DEF Nack
<1> QED  BY <1>2, <1>3, FrameFields DEF Closes, Nack

LEMMA SendsQuietly ==
    ASSUME Shape, NEW c \in Conns, NEW f \in Frames, Sends(c, <<f>>), f.kind \in {"nack", "close"},
           f.seqs = {}, f.cursor = 0, f.kind = "nack" => f.req \in Own
    PROVE  OutOthers(c) /\ Quietly(outbox[c], outbox'[c])
<1>1. outbox[c] \in Seq(Frames)  BY ShapeOut
<1> QED  BY <1>1, SendsOne, QuietlyRefl, QuietPush

-----------------------------------------------------------------------------
(* The queues and handlers stay in order.                                  *)

LEMMA ShapeLen == Shape => Len(log) \in Nat /\ Len(log) <= MaxLog
BY LenProperties DEF Shape

OthersSame(c) ==
    /\ conn' \in [Conns -> ConnState] /\ \A e \in Conns : e # c => conn'[e] = conn[e]
    /\ inbox' \in [Conns -> Seq(Frames)] /\ \A e \in Conns : e # c => inbox'[e] = inbox[e]

(* A step of a task that stores nothing. *)
LEMMA TaskKeeps ==
    ASSUME Base, NEW c \in Conns, OthersSame(c), OutOthers(c),
           UNCHANGED <<log, due, client, acked, nacked>>,
           InboxOK(inbox'[c], conn'[c], Len(log)), HandlerOK(conn'[c], Len(log)),
           OutboxOK(outbox'[c], Len(log)), conn'[c].pc # "unused",
           c = client.sock => AsksBehind(inbox'[c], client.cursor)
    PROVE  Base'
<1>1. Shape'  BY DEF Base, Shape, OthersSame, OutOthers
<1>2. ASSUME NEW e \in Conns
      PROVE  /\ InboxOK(inbox'[e], conn'[e], Len(log'))
             /\ HandlerOK(conn'[e], Len(log'))
             /\ OutboxOK(outbox'[e], Len(log'))
             /\ conn'[e].pc = "unused" => outbox'[e] = <<>>
             /\ e = client'.sock => AsksBehind(inbox'[e], client'.cursor)
  <2>1. CASE e = c  BY <2>1
  <2>2. CASE e # c
    <3>1. conn'[e] = conn[e] /\ inbox'[e] = inbox[e] /\ outbox'[e] = outbox[e]
      BY <2>2 DEF OthersSame, OutOthers
    <3> QED  BY <3>1 DEF Base, Links
  <2> QED  BY <2>1, <2>2
<1>3. client'.cursor <= Len(log')  BY DEF Base, Links
<1>4. Links'  BY <1>2, <1>3 DEF Links
<1> QED  BY <1>1, <1>4 DEF Base

LEMMA BaseOf ==
    ASSUME Base, NEW c \in Conns
    PROVE  /\ Shape /\ InboxOK(inbox[c], conn[c], Len(log)) /\ HandlerOK(conn[c], Len(log))
           /\ OutboxOK(outbox[c], Len(log)) /\ Len(log) \in Nat /\ conn[c] \in ConnState
           /\ outbox[c] \in Seq(Frames) /\ inbox[c] \in Seq(Frames)
           /\ conn[c].pc = "unused" => outbox[c] = <<>>
           /\ c = client.sock => AsksBehind(inbox[c], client.cursor)
<1>1. Shape  BY DEF Base
<1>2. Len(log) \in Nat  BY <1>1, ShapeLen
<1>3. conn[c] \in ConnState /\ outbox[c] \in Seq(Frames) /\ inbox[c] \in Seq(Frames)
  BY <1>1 DEF Shape
<1> QED  BY <1>1, <1>2, <1>3 DEF Base, Links

LEMMA OutSame == ASSUME Shape, NEW c \in Conns, UNCHANGED outbox
                 PROVE  OutOthers(c) /\ outbox'[c] = outbox[c]
BY ShapeOut DEF OutOthers

LEMMA InSame ==
    ASSUME Shape, NEW c \in Conns, UNCHANGED inbox,
           conn' \in [Conns -> ConnState] /\ \A e \in Conns : e # c => conn'[e] = conn[e]
    PROVE  OthersSame(c)
BY DEF Shape, OthersSame

LEMMA TookSame ==
    ASSUME Shape, NEW c \in Conns, NEW k, Takes(c, k),
           conn' \in [Conns -> ConnState] /\ \A e \in Conns : e # c => conn'[e] = conn[e]
    PROVE  OthersSame(c)
BY TakesHead DEF OthersSame

LEMMA HandlerIs ==
    ASSUME NEW c \in Conns, NEW pc, NEW hello, NEW sub, NEW closing, NEW req, NEW cursor, NEW page,
           Turns(c, pc, hello, sub, closing, req, cursor, page), NEW n,
           sub => hello, pc \notin {"unused", "idle", "gone"} => hello,
           pc \in {"subscribe", "read", "page"} => sub /\ ~closing,
           pc \in {"unused", "gone"} => ~sub,
           pc \in {"append", "lookup", "insert", "tell", "ack"} => req \in Own,
           pc = "tell" => cursor >= 1, cursor <= n, page \subseteq 1..n
    PROVE  HandlerOK(conn'[c], n)
BY DEF Turns, HandlerOK

(* The steps of a task that is handling a frame. *)
LEMMA BusyKeeps ==
    ASSUME Base, NEW c \in Conns, conn[c].pc # "idle",
           NEW pc, NEW hello, NEW sub, NEW closing, NEW req, NEW cursor, NEW page,
           Turns(c, pc, hello, sub, closing, req, cursor, page), pc # "unused",
           HandlerOK(conn'[c], Len(log)), OutOthers(c), OutboxOK(outbox'[c], Len(log)),
           UNCHANGED <<log, due, client, acked, nacked, inbox>>
    PROVE  Base'
<1>1. AllAppends(inbox[c])  BY BaseOf, BusyInbox
<1>2. InboxOK(inbox[c], conn'[c], Len(log)) /\ AsksBehind(inbox[c], client.cursor)
  BY <1>1, AppendsOK
<1>3. OthersSame(c)  BY BaseOf, InSame DEF Turns
<1>4. conn'[c].pc # "unused" BY DEF Turns
<1>5. inbox'[c] = inbox[c] OBVIOUS
<1> QED  BY <1>2, <1>3, <1>4, <1>5, TaskKeeps

LEMMA TakeHelloBase == ASSUME Base, NEW c \in Conns, TakeHello(c) PROVE Base'
<1>1. Takes(c, "hello") /\ UNCHANGED <<log, due, client, acked, nacked, outbox>>
  BY DEF TakeHello, logVars, history
<1>2. Turns(c, conn[c].pc, TRUE, conn[c].sub, conn[c].closing, conn[c].req,
            conn[c].cursor, conn[c].page)
  BY BaseOf, TakeHelloTurns
<1>3. /\ conn[c].pc = "idle" /\ Popped(inbox[c], inbox'[c]) /\ inbox[c][1].kind = "hello"
      /\ 1 \in 1..Len(inbox[c])
  BY <1>1, BaseOf, TakesHead
<1>4. ~conn[c].hello /\ ~conn[c].closing  BY <1>3, BaseOf DEF InboxOK
<1>5. /\ conn'[c].pc = "idle" /\ conn'[c].sub = conn[c].sub /\ conn'[c].closing = conn[c].closing
      /\ conn' \in [Conns -> ConnState] /\ \A e \in Conns : e # c => conn'[e] = conn[e]
  BY <1>2, <1>3 DEF Turns
<1>6. InboxOK(inbox'[c], conn'[c], Len(log))
  BY <1>3, <1>4, <1>5, BaseOf, BehindHello
<1>7. HandlerOK(conn'[c], Len(log))
  BY <1>2, <1>3, BaseOf DEF Turns, HandlerOK
<1>8. c = client.sock => AsksBehind(inbox'[c], client.cursor)  BY <1>3, BaseOf, PopAsksBehind
<1>9. OthersSame(c) /\ OutOthers(c) /\ outbox'[c] = outbox[c]  BY <1>1, <1>5, BaseOf, TookSame, OutSame
<1> QED  BY <1>1, <1>5, <1>6, <1>7, <1>8, <1>9, BaseOf, TaskKeeps

LEMMA RefuseHelloOut ==
    ASSUME Base, NEW c \in Conns, NEW closes \in BOOLEAN, RefuseHello(c, closes)
    PROVE  OutOthers(c) /\ Quietly(outbox[c], outbox'[c])
<1>1. Sends(c, IF closes THEN <<Closes>> ELSE <<>>)  BY DEF RefuseHello, Closes
<1>2. CASE closes
  <2>1. Sends(c, <<Closes>>)  BY <1>1, <1>2
  <2> QED  BY <2>1, BaseOf, QuietFrames, SendsQuietly
<1>3. CASE ~closes
  <2>1. Sends(c, <<>>)  BY <1>1, <1>3
  <2> QED  BY <2>1, BaseOf, SendsNone, QuietlyRefl
<1> QED  BY <1>2, <1>3

LEMMA RefuseHelloBase ==
    ASSUME Base, NEW c \in Conns, NEW closes \in BOOLEAN, RefuseHello(c, closes) PROVE Base'
<1>1. Takes(c, "hello") /\ UNCHANGED <<log, due, client, acked, nacked>>
  BY DEF RefuseHello, logVars, history
<1>2. Turns(c, conn[c].pc, conn[c].hello, conn[c].sub, closes, conn[c].req,
            conn[c].cursor, conn[c].page)
  BY BaseOf, RefuseHelloTurns
<1>3. /\ conn[c].pc = "idle" /\ Popped(inbox[c], inbox'[c]) /\ inbox[c][1].kind = "hello"
      /\ 1 \in 1..Len(inbox[c])
  BY <1>1, BaseOf, TakesHead
<1>4. ~conn[c].hello  BY <1>3, BaseOf DEF InboxOK
<1>5. /\ conn'[c].pc = "idle" /\ conn'[c].sub = conn[c].sub /\ conn'[c].hello = conn[c].hello
      /\ conn' \in [Conns -> ConnState] /\ \A e \in Conns : e # c => conn'[e] = conn[e]
  BY <1>2, <1>3 DEF Turns
<1>6. InboxOK(inbox'[c], conn'[c], Len(log))
  BY <1>3, <1>4, <1>5, BaseOf, BehindHello
<1>7. HandlerOK(conn'[c], Len(log))
  BY <1>2, <1>3, BaseOf DEF Turns, HandlerOK
<1>8. c = client.sock => AsksBehind(inbox'[c], client.cursor)  BY <1>3, BaseOf, PopAsksBehind
<1>9. OthersSame(c)  BY <1>1, <1>5, BaseOf, TookSame
<1>10. OutOthers(c) /\ OutboxOK(outbox'[c], Len(log))  BY RefuseHelloOut, BaseOf, QuietOutbox
<1> QED  BY <1>1, <1>5, <1>6, <1>7, <1>8, <1>9, <1>10, TaskKeeps

LEMMA TakeTooEarlyOut ==
    ASSUME Base, NEW c \in Conns, TakeTooEarly(c)
    PROVE  OutOthers(c) /\ Quietly(outbox[c], outbox'[c])
<1>1. /\ Takes(c, "subscribe") \/ Takes(c, "append")
      /\ Sends(c, IF Head(inbox[c]).kind = "append" THEN <<Nack(Head(inbox[c]).req)>> ELSE <<>>)
  BY DEF TakeTooEarly, Nack
<1>2. PICK k : k \in {"subscribe", "append"} /\ Takes(c, k)  BY <1>1
<1>3. Head(inbox[c]) = inbox[c][1] /\ inbox[c][1].kind = k /\ 1 \in 1..Len(inbox[c])
  BY <1>2, BaseOf, TakesHead
<1>4. CASE k = "append"
  <2>1. inbox[c][1].req \in Own  BY <1>3, <1>4, BaseOf DEF InboxOK
  <2>2. Sends(c, <<Nack(inbox[c][1].req)>>)  BY <1>1, <1>3, <1>4
  <2> QED  BY <2>1, <2>2, BaseOf, QuietFrames, SendsQuietly
<1>5. CASE k = "subscribe"
  <2>1. Sends(c, <<>>)  BY <1>1, <1>3, <1>5
  <2> QED  BY <2>1, BaseOf, SendsNone, QuietlyRefl
<1> QED  BY <1>2, <1>4, <1>5

(* A frame that is not the Hello is taken, and the connection is as it was. *)
LEMMA TakeKeeps ==
    ASSUME Base, NEW c \in Conns, NEW k, k # "hello", Takes(c, k), UNCHANGED conn,
           UNCHANGED <<log, due, client, acked, nacked>>,
           OutOthers(c), OutboxOK(outbox'[c], Len(log))
    PROVE  Base'
<1>1. conn[c].pc = "idle" /\ Popped(inbox[c], inbox'[c]) /\ inbox[c][1].kind = k
  BY BaseOf, TakesHead
<1>2. AllAppends(inbox'[c])  BY <1>1, BaseOf, BehindOther
<1>3. InboxOK(inbox'[c], conn[c], Len(log)) /\ AsksBehind(inbox'[c], client.cursor)
  BY <1>2, AppendsOK
<1>4. OthersSame(c)  BY BaseOf, ShapeConn, TookSame
<1>5. conn'[c] = conn[c] OBVIOUS
<1> QED  BY <1>1, <1>3, <1>4, <1>5, BaseOf, TaskKeeps

LEMMA TakeTooEarlyBase == ASSUME Base, NEW c \in Conns, TakeTooEarly(c) PROVE Base'
<1>1. /\ Takes(c, "subscribe") \/ Takes(c, "append")
      /\ UNCHANGED <<log, due, client, conn, acked, nacked>>
  BY DEF TakeTooEarly, logVars, history
<1>2. OutOthers(c) /\ OutboxOK(outbox'[c], Len(log))  BY TakeTooEarlyOut, BaseOf, QuietOutbox
<1> QED  BY <1>1, <1>2, TakeKeeps

LEMMA RefuseSubscribeBase == ASSUME Base, NEW c \in Conns, RefuseSubscribe(c) PROVE Base'
<1>1. Takes(c, "subscribe") /\ UNCHANGED <<log, due, client, conn, outbox, acked, nacked>>
  BY DEF RefuseSubscribe, logVars
<1>2. OutOthers(c) /\ OutboxOK(outbox'[c], Len(log))  BY <1>1, BaseOf, OutSame
<1> QED  BY <1>1, <1>2, TakeKeeps

(* A frame that is not the Hello is taken and its handler begins. *)
LEMMA BeginKeeps ==
    ASSUME Base, NEW c \in Conns, NEW k, k # "hello", Takes(c, k),
           conn' \in [Conns -> ConnState], \A e \in Conns : e # c => conn'[e] = conn[e],
           conn'[c].pc # "unused", HandlerOK(conn'[c], Len(log)),
           UNCHANGED <<log, due, client, outbox, acked, nacked>>
    PROVE  Base'
<1>1. Popped(inbox[c], inbox'[c]) /\ inbox[c][1].kind = k  BY BaseOf, TakesHead
<1>2. AllAppends(inbox'[c])  BY <1>1, BaseOf, BehindOther
<1>3. InboxOK(inbox'[c], conn'[c], Len(log)) /\ AsksBehind(inbox'[c], client.cursor)
  BY <1>2, AppendsOK
<1>4. OthersSame(c) /\ OutOthers(c) /\ outbox'[c] = outbox[c]  BY BaseOf, TookSame, OutSame
<1> QED  BY <1>3, <1>4, BaseOf, TaskKeeps

LEMMA TakeSubscribeBase == ASSUME Base, NEW c \in Conns, TakeSubscribe(c) PROVE Base'
<1>1. Takes(c, "subscribe") /\ conn[c].hello /\ UNCHANGED <<log, due, client, outbox, acked, nacked>>
  BY DEF TakeSubscribe, logVars, history
<1>2. Turns(c, "subscribe", conn[c].hello, TRUE, conn[c].closing, conn[c].req,
            inbox[c][1].cursor, conn[c].page)
  BY BaseOf, TakeSubscribeTurns
<1>3. inbox[c][1].kind = "subscribe" /\ 1 \in 1..Len(inbox[c])  BY <1>1, BaseOf, TakesHead
<1>4. ~conn[c].closing /\ inbox[c][1].cursor <= Len(log)  BY <1>1, <1>3, BaseOf DEF InboxOK
<1>5. HandlerOK(conn'[c], Len(log))
  BY <1>1, <1>2, <1>4, BaseOf DEF Turns, HandlerOK
<1> QED  BY <1>1, <1>2, <1>5, BeginKeeps DEF Turns

LEMMA TakeAppendBase == ASSUME Base, NEW c \in Conns, TakeAppend(c) PROVE Base'
<1>1. Takes(c, "append") /\ conn[c].hello /\ UNCHANGED <<log, due, client, outbox, acked, nacked>>
  BY DEF TakeAppend, logVars, history
<1>2. Turns(c, "append", conn[c].hello, conn[c].sub, conn[c].closing, inbox[c][1].req,
            conn[c].cursor, conn[c].page)
  BY BaseOf, TakeAppendTurns
<1>3. inbox[c][1].kind = "append" /\ 1 \in 1..Len(inbox[c])  BY <1>1, BaseOf, TakesHead
<1>4. inbox[c][1].req \in Own  BY <1>1, <1>3, BaseOf DEF InboxOK
<1>5. HandlerOK(conn'[c], Len(log))
  BY <1>1, <1>2, <1>4, BaseOf DEF Turns, HandlerOK
<1> QED  BY <1>1, <1>2, <1>5, BeginKeeps DEF Turns

LEMMA SessionRefusedOut ==
    ASSUME Base, NEW c \in Conns, SessionRefused(c)
    PROVE  OutOthers(c) /\ Quietly(outbox[c], outbox'[c])
<1>1. /\ conn[c].pc \in {"subscribe", "append"}
      /\ Sends(c, (IF conn[c].pc = "append" THEN <<Nack(conn[c].req)>> ELSE <<>>) \o <<Closes>>)
  BY DEF SessionRefused, Nack, Closes
<1>2. Closes \in Frames  BY QuietFrames
<1>3. CASE conn[c].pc = "subscribe"
  <2>1. <<>> \o <<Closes>> = <<Closes>>  OBVIOUS
  <2>2. Sends(c, <<Closes>>)  BY <1>1, <1>3, <2>1
  <2> QED  BY <2>2, BaseOf, QuietFrames, SendsQuietly
<1>4. CASE conn[c].pc = "append"
  <2> DEFINE n == Nack(conn[c].req)
             q == outbox[c] \o <<n>>
  <2>1. conn[c].req \in Own  BY <1>4, BaseOf DEF HandlerOK
  <2>2. n \in Frames /\ n.kind = "nack" /\ n.seqs = {} /\ n.cursor = 0 /\ n.req \in Own
    BY <2>1, QuietFrames
  <2> HIDE DEF n
  <2>3. outbox[c] \in Seq(Frames)  BY BaseOf
  <2>4. Pushed(outbox[c], q, n)  BY <2>2, <2>3, ConcatPushes
  <2>5. q \in Seq(Frames)  BY <2>4 DEF Pushed
  <2>6. Quietly(outbox[c], q)  BY <2>2, <2>3, <2>4, QuietPush
  <2>7. Pushed(q, q \o <<Closes>>, Closes)  BY <1>2, <2>5, ConcatPushes
  <2>8. Quietly(q, q \o <<Closes>>)  BY <2>5, <2>7, QuietFrames, QuietPush
  <2>9. outbox[c] \o (<<n>> \o <<Closes>>) = q \o <<Closes>>
    <3>1. <<n>> \in Seq(Frames) /\ <<Closes>> \in Seq(Frames)  BY <1>2, <2>2
    <3> QED  BY <2>3, <3>1, ConcatAssociative
  <2>10. Sends(c, <<n>> \o <<Closes>>)  BY <1>1, <1>4 DEF n
  <2>11. q \o <<Closes>> \in Seq(Frames)  BY <2>7 DEF Pushed
  <2>12. OutOthers(c) /\ outbox'[c] = IF conn[c].closing THEN outbox[c] ELSE q \o <<Closes>>
    BY <2>9, <2>10, <2>11, BaseOf, SendsFrames
  <2> QED  BY <2>3, <2>6, <2>8, <2>12, QuietlyRefl, QuietlyTrans
<1> QED  BY <1>1, <1>3, <1>4

LEMMA SessionRefusedBase == ASSUME Base, NEW c \in Conns, SessionRefused(c) PROVE Base'
<1>1. conn[c].pc \in {"subscribe", "append"}
      /\ UNCHANGED <<log, due, client, inbox, acked, nacked>>
  BY DEF SessionRefused, logVars
<1>2. Turns(c, "idle", conn[c].hello, conn[c].sub /\ conn[c].pc # "subscribe", TRUE, NoReq, 0, {})
  BY BaseOf, SessionRefusedTurns
<1>3. HandlerOK(conn'[c], Len(log))
  <2>1. /\ conn'[c].pc = "idle" /\ conn'[c].hello = conn[c].hello /\ (conn'[c].sub => conn[c].sub)
        /\ conn'[c].cursor = 0 /\ conn'[c].page = {}
    BY <1>2 DEF Turns
  <2>2. conn[c].sub => conn[c].hello  BY BaseOf DEF HandlerOK
  <2>3. 0 <= Len(log) /\ {} \subseteq 1..Len(log)  BY BaseOf
  <2>4. conn'[c].sub => conn'[c].hello  BY <2>1, <2>2
  <2> QED  BY <2>1, <2>3, <2>4 DEF HandlerOK
<1>4. OutOthers(c) /\ OutboxOK(outbox'[c], Len(log))  BY SessionRefusedOut, BaseOf, QuietOutbox
<1>5. conn[c].pc # "idle" BY <1>1
<1> QED  BY <1>1, <1>2, <1>3, <1>4, <1>5, BusyKeeps

LEMMA SubscribeRefusedBase == ASSUME Base, NEW c \in Conns, SubscribeRefused(c) PROVE Base'
<1>1. conn[c].pc = "subscribe" /\ UNCHANGED <<log, due, client, inbox, outbox, acked, nacked>>
  BY DEF SubscribeRefused, logVars, linkVars
<1>2. Turns(c, "idle", conn[c].hello, FALSE, conn[c].closing, NoReq, 0, {})
  BY BaseOf, SubscribeRefusedTurns
<1>3. HandlerOK(conn'[c], Len(log))  BY <1>2, BaseOf DEF Turns, HandlerOK
<1>4. OutOthers(c) /\ OutboxOK(outbox'[c], Len(log))  BY <1>1, BaseOf, OutSame
<1> QED  BY <1>1, <1>2, <1>3, <1>4, BusyKeeps

LEMMA SessionValidTurns ==
    ASSUME Base, NEW c \in Conns, SessionValid(c)
    PROVE  \E p \in {"read", "lookup"} :
              /\ conn[c].pc = (IF p = "read" THEN "subscribe" ELSE "append")
              /\ Turns(c, p, conn[c].hello, conn[c].sub, conn[c].closing, conn[c].req,
                       conn[c].cursor, conn[c].page)
<1>1. CASE conn[c].pc = "subscribe" /\ Goes(c, "read")  BY <1>1, BaseOf, GoesTurns
<1>2. CASE conn[c].pc = "append" /\ Goes(c, "lookup")  BY <1>2, BaseOf, GoesTurns
<1> QED  BY <1>1, <1>2 DEF SessionValid

LEMMA SessionValidBase == ASSUME Base, NEW c \in Conns, SessionValid(c) PROVE Base'
<1>1. UNCHANGED <<log, due, client, inbox, outbox, acked, nacked>>
  BY DEF SessionValid, logVars, linkVars, history
<1>2. PICK p \in {"read", "lookup"} :
              /\ conn[c].pc = (IF p = "read" THEN "subscribe" ELSE "append")
              /\ Turns(c, p, conn[c].hello, conn[c].sub, conn[c].closing, conn[c].req,
                       conn[c].cursor, conn[c].page)
  BY SessionValidTurns
<1>3. HandlerOK(conn'[c], Len(log))
  <2>1. CASE p = "read"  BY <1>2, <2>1, BaseOf DEF Turns, HandlerOK
  <2>2. CASE p = "lookup"  BY <1>2, <2>2, BaseOf DEF Turns, HandlerOK
  <2> QED  BY <2>1, <2>2
<1>4. OutOthers(c) /\ OutboxOK(outbox'[c], Len(log))  BY <1>1, BaseOf, OutSame
<1>5. conn[c].pc # "idle" /\ p # "unused"  BY <1>2
<1> QED  BY <1>1, <1>2, <1>3, <1>4, <1>5, BusyKeeps

LEMMA ReadPageBase == ASSUME Base, NEW c \in Conns, ReadPage(c) PROVE Base'
<1>1. conn[c].pc = "read" /\ UNCHANGED <<log, due, client, inbox, outbox, acked, nacked>>
  BY DEF ReadPage, logVars, linkVars
<1>2. PICK page : /\ page \subseteq (conn[c].cursor + 1)..Len(log)
                  /\ Turns(c, "page", conn[c].hello, conn[c].sub, conn[c].closing, conn[c].req,
                           conn[c].cursor, page)
  BY BaseOf, ReadPageTurns
<1>3. page \subseteq 1..Len(log)  BY <1>2, BaseOf, ConnTypes
<1>4. HandlerOK(conn'[c], Len(log))  BY <1>1, <1>2, <1>3, BaseOf DEF Turns, HandlerOK
<1>5. OutOthers(c) /\ OutboxOK(outbox'[c], Len(log))  BY <1>1, BaseOf, OutSame
<1> QED  BY <1>1, <1>2, <1>4, <1>5, BusyKeeps

LEMMA ReadFailsBase == ASSUME Base, NEW c \in Conns, ReadFails(c) PROVE Base'
<1>1. conn[c].pc = "read" /\ Goes(c, "page")
      /\ UNCHANGED <<log, due, client, inbox, outbox, acked, nacked>>
  BY DEF ReadFails, logVars, linkVars
<1>2. Turns(c, "page", conn[c].hello, conn[c].sub, conn[c].closing, conn[c].req,
            conn[c].cursor, conn[c].page)
  BY <1>1, BaseOf, GoesTurns
<1>4. HandlerOK(conn'[c], Len(log))  BY <1>1, <1>2, BaseOf DEF Turns, HandlerOK
<1>5. OutOthers(c) /\ OutboxOK(outbox'[c], Len(log))  BY <1>1, BaseOf, OutSame
<1> QED  BY <1>1, <1>2, <1>4, <1>5, BusyKeeps

(* The frame of a page. *)
PageFrame(c) ==
    Frame("page", NoReq, conn[c].page, IF conn[c].page = {} THEN conn[c].cursor ELSE LastOf(conn[c].page))

LEMMA PageFrameOK ==
    ASSUME Base, NEW c \in Conns
    PROVE  /\ PageFrame(c) \in Frames /\ PageFrame(c).kind = "page" /\ PageFrame(c).seqs = conn[c].page
           /\ FrameOK(PageFrame(c), Len(log))
<1> DEFINE n == IF conn[c].page = {} THEN conn[c].cursor ELSE LastOf(conn[c].page)
<1>1. /\ conn[c].cursor \in Nat /\ conn[c].cursor <= Len(log) /\ Len(log) \in Nat /\ Len(log) <= MaxLog
      /\ conn[c].page \subseteq 1..Len(log) /\ conn[c].page \in SUBSET (1..MaxLog)
  BY BaseOf, ConnTypes, ShapeLen DEF HandlerOK
<1>2. n \in 0..Len(log)
  <2>1. CASE conn[c].page = {}  BY <1>1, <2>1
  <2>2. CASE conn[c].page # {}
    <3>1. conn[c].page \in SUBSET (0..Len(log))  BY <1>1
    <3>2. LastOf(conn[c].page) \in conn[c].page  BY <1>1, <2>2, <3>1, MaxExists
    <3> QED  BY <1>1, <2>2, <3>2
  <2> QED  BY <2>1, <2>2
<1>3. PageFrame(c) = Frame("page", NoReq, conn[c].page, n)  BY DEF PageFrame
<1> HIDE DEF n
<1>4. n \in 0..MaxLog /\ n <= Len(log)  BY <1>1, <1>2, SyncLimitAssumption
<1>5. PageFrame(c) \in Frames  BY <1>1, <1>3, <1>4, FrameTyped
<1>6. PageFrame(c).kind = "page" /\ PageFrame(c).seqs = conn[c].page /\ PageFrame(c).cursor = n
  BY <1>3, FrameFields
<1> QED  BY <1>1, <1>4, <1>5, <1>6 DEF FrameOK

LEMMA SendPageOut ==
    ASSUME Base, NEW c \in Conns, SendPage(c)
    PROVE  /\ OutOthers(c) /\ OutboxOK(outbox'[c], Len(log))
           /\ ~conn[c].closing => Pushed(outbox[c], outbox'[c], PageFrame(c))
<1>1. Sends(c, <<PageFrame(c)>>)  BY DEF SendPage, PageFrame
<1>2. /\ OutOthers(c)
      /\ conn[c].closing => outbox'[c] = outbox[c]
      /\ ~conn[c].closing => Pushed(outbox[c], outbox'[c], PageFrame(c))
  BY <1>1, BaseOf, PageFrameOK, SendsOne
<1> QED  BY <1>2, BaseOf, PageFrameOK, PushOutbox

LEMMA SendPageBase == ASSUME Base, NEW c \in Conns, SendPage(c) PROVE Base'
<1>1. conn[c].pc = "page" /\ conn' = [conn EXCEPT ![c] = Done(c)]
      /\ UNCHANGED <<log, due, client, inbox, acked, nacked>>
  BY DEF SendPage, logVars, history
<1>2. Turns(c, "idle", conn[c].hello, conn[c].sub, conn[c].closing, NoReq, 0, {})
  BY <1>1, BaseOf, DoneTurns
<1>3. HandlerOK(conn'[c], Len(log))  BY <1>2, BaseOf DEF Turns, HandlerOK
<1> QED  BY <1>1, <1>2, <1>3, SendPageOut, BusyKeeps

LEMMA AppendRefusedOut ==
    ASSUME Base, NEW c \in Conns, AppendRefused(c)
    PROVE  OutOthers(c) /\ Quietly(outbox[c], outbox'[c])
<1>1. conn[c].pc \in {"lookup", "insert"} /\ Sends(c, <<Nack(conn[c].req)>>)
  BY DEF AppendRefused, Nack
<1>2. conn[c].req \in Own  BY <1>1, BaseOf DEF HandlerOK
<1> QED  BY <1>1, <1>2, BaseOf, QuietFrames, SendsQuietly

LEMMA AppendRefusedBase == ASSUME Base, NEW c \in Conns, AppendRefused(c) PROVE Base'
<1>1. conn[c].pc \in {"lookup", "insert"} /\ conn' = [conn EXCEPT ![c] = Done(c)]
      /\ UNCHANGED <<log, due, client, inbox, acked, nacked>>
  BY DEF AppendRefused, logVars, history
<1>2. Turns(c, "idle", conn[c].hello, conn[c].sub, conn[c].closing, NoReq, 0, {})
  BY <1>1, BaseOf, DoneTurns
<1>3. HandlerOK(conn'[c], Len(log))  BY <1>2, BaseOf DEF Turns, HandlerOK
<1>4. OutOthers(c) /\ OutboxOK(outbox'[c], Len(log))  BY AppendRefusedOut, BaseOf, QuietOutbox
<1>5. conn[c].pc # "idle"  BY <1>1
<1> QED  BY <1>1, <1>2, <1>3, <1>4, <1>5, BusyKeeps

LEMMA LookupTurns ==
    ASSUME Base, NEW c \in Conns, LookupRequest(c)
    PROVE  \E p \in {"ack", "insert"} :
              /\ p = "ack" <=> \E s \in 1..Len(log) : log[s] = conn[c].req
              /\ Turns(c, p, conn[c].hello, conn[c].sub, conn[c].closing, conn[c].req,
                       conn[c].cursor, conn[c].page)
<1> DEFINE p == IF \E s \in 1..Len(log) : log[s] = conn[c].req THEN "ack" ELSE "insert"
<1>1. Goes(c, p)  BY DEF LookupRequest
<1>2. p \in {"ack", "insert"} /\ (p = "ack" <=> \E s \in 1..Len(log) : log[s] = conn[c].req)
  OBVIOUS
<1> HIDE DEF p
<1> QED  BY <1>1, <1>2, BaseOf, GoesTurns

LEMMA LookupBase == ASSUME Base, NEW c \in Conns, LookupRequest(c) PROVE Base'
<1>1. conn[c].pc = "lookup" /\ UNCHANGED <<log, due, client, inbox, outbox, acked, nacked>>
  BY DEF LookupRequest, logVars, linkVars, history
<1>2. PICK p \in {"ack", "insert"} :
         Turns(c, p, conn[c].hello, conn[c].sub, conn[c].closing, conn[c].req,
               conn[c].cursor, conn[c].page)
  BY LookupTurns
<1>4. HandlerOK(conn'[c], Len(log))  BY <1>1, <1>2, BaseOf DEF Turns, HandlerOK
<1>5. OutOthers(c) /\ OutboxOK(outbox'[c], Len(log))  BY <1>1, BaseOf, OutSame
<1> QED  BY <1>1, <1>2, <1>4, <1>5, BusyKeeps

AckFrame(r) == Frame("ack", r, {}, 0)

LEMMA AckFrameOK ==
    ASSUME NEW r \in Own, NEW n \in Nat
    PROVE  /\ AckFrame(r) \in Frames /\ AckFrame(r).kind = "ack" /\ AckFrame(r).seqs = {}
           /\ AckFrame(r).cursor = 0 /\ AckFrame(r).req = r /\ FrameOK(AckFrame(r), n)
<1>1. {} \in SUBSET (1..MaxLog) /\ 0 \in 0..MaxLog  BY SyncLimitAssumption
<1>2. AckFrame(r) \in Frames  BY <1>1, FrameTyped, OwnAssumption DEF AckFrame
<1>3. /\ AckFrame(r).kind = "ack" /\ AckFrame(r).seqs = {}
      /\ AckFrame(r).cursor = 0 /\ AckFrame(r).req = r
  BY FrameFields DEF AckFrame
<1> QED  BY <1>2, <1>3 DEF FrameOK

LEMMA AckAppendOut ==
    ASSUME Base, NEW c \in Conns, AckAppend(c)
    PROVE  /\ OutOthers(c) /\ OutboxOK(outbox'[c], Len(log)) /\ conn[c].req \in Own
           /\ conn[c].closing => outbox'[c] = outbox[c]
           /\ ~conn[c].closing => Pushed(outbox[c], outbox'[c], AckFrame(conn[c].req))
<1>1. Sends(c, <<AckFrame(conn[c].req)>>) /\ conn[c].pc = "ack"  BY DEF AckAppend, AckFrame
<1>2. conn[c].req \in Own  BY <1>1, BaseOf DEF HandlerOK
<1>3. /\ OutOthers(c)
      /\ conn[c].closing => outbox'[c] = outbox[c]
      /\ ~conn[c].closing => Pushed(outbox[c], outbox'[c], AckFrame(conn[c].req))
  BY <1>1, <1>2, BaseOf, AckFrameOK, SendsOne
<1> QED  BY <1>2, <1>3, BaseOf, AckFrameOK, PushOutbox

LEMMA AckAppendBase == ASSUME Base, NEW c \in Conns, AckAppend(c) PROVE Base'
<1>1. conn[c].pc = "ack" /\ conn' = [conn EXCEPT ![c] = Done(c)]
      /\ UNCHANGED <<log, due, client, inbox, acked, nacked>>
  BY DEF AckAppend, logVars, history
<1>2. Turns(c, "idle", conn[c].hello, conn[c].sub, conn[c].closing, NoReq, 0, {})
  BY <1>1, BaseOf, DoneTurns
<1>3. HandlerOK(conn'[c], Len(log))  BY <1>2, BaseOf DEF Turns, HandlerOK
<1> QED  BY <1>1, <1>2, <1>3, AckAppendOut, BusyKeeps

LEMMA UnregisterBase == ASSUME Base, NEW c \in Conns, Unregister(c) PROVE Base'
<1>1. /\ inbox' = [inbox EXCEPT ![c] = <<>>] /\ outbox' = [outbox EXCEPT ![c] = <<>>]
      /\ UNCHANGED <<log, due, client, acked, nacked>>
  BY DEF Unregister, logVars, history
<1>2. Turns(c, "gone", FALSE, FALSE, FALSE, NoReq, 0, {})  BY BaseOf, UnregisterTurns
<1>3. HandlerOK(conn'[c], Len(log))  BY <1>2, BaseOf DEF Turns, HandlerOK
<1>4. <<>> \in Seq(Frames) /\ Len(<<>>) = 0  BY EmptySeq
<1>5. inbox \in [Conns -> Seq(Frames)] /\ outbox \in [Conns -> Seq(Frames)]  BY DEF Base, Shape
<1>6. OutOthers(c) /\ outbox'[c] = <<>>  BY <1>1, <1>4, <1>5 DEF OutOthers
<1>7. OthersSame(c) /\ inbox'[c] = <<>>  BY <1>1, <1>2, <1>4, <1>5 DEF OthersSame, Turns
<1>8. OutboxOK(outbox'[c], Len(log)) /\ AllAppends(inbox'[c])
  BY <1>4, <1>6, <1>7 DEF OutboxOK, AllAppends
<1>9. InboxOK(inbox'[c], conn'[c], Len(log)) /\ AsksBehind(inbox'[c], client.cursor)
  BY <1>8, AppendsOK
<1>10. conn'[c].pc # "unused"  BY <1>2 DEF Turns
<1> QED  BY <1>1, <1>3, <1>6, <1>7, <1>8, <1>9, <1>10, TaskKeeps

Served(c) == conn[c].sub /\ ~conn[c].closing

LEMMA DeltaOK ==
    ASSUME Base, NEW s \in 1..Len(log)
    PROVE  /\ Delta(s) \in Frames /\ Delta(s).kind = "delta" /\ Delta(s).seqs = {s}
           /\ Delta(s).cursor = s /\ FrameOK(Delta(s), Len(log))
<1>1. Len(log) \in Nat /\ Len(log) <= MaxLog  BY ShapeLen DEF Base
<1>2. s \in 0..MaxLog /\ {s} \in SUBSET (1..MaxLog) /\ s <= Len(log)  BY <1>1, SyncLimitAssumption
<1>3. Delta(s) \in Frames  BY <1>2, FrameTyped DEF Delta
<1>4. Delta(s).kind = "delta" /\ Delta(s).seqs = {s} /\ Delta(s).cursor = s
  BY FrameFields DEF Delta
<1> QED  BY <1>2, <1>3, <1>4 DEF FrameOK

(* broadcast_to_subscribers. *)
LEMMA BroadcastOut ==
    ASSUME Base, NEW s \in 1..Len(log), Broadcasts(s)
    PROVE  /\ outbox' \in [Conns -> Seq(Frames)]
           /\ \A e \in Conns :
                /\ Served(e) => Pushed(outbox[e], outbox'[e], Delta(s))
                /\ ~Served(e) => outbox'[e] = outbox[e]
                /\ OutboxOK(outbox'[e], Len(log))
                /\ conn[e].pc = "unused" => outbox'[e] = <<>>
<1>1. Delta(s) \in Frames /\ FrameOK(Delta(s), Len(log))  BY DeltaOK
<1>2. outbox' = [e \in Conns |-> IF Served(e) THEN Append(outbox[e], Delta(s)) ELSE outbox[e]]
  BY DEF Broadcasts, Served
<1>3. ASSUME NEW e \in Conns, Served(e)
      PROVE  outbox'[e] \in Seq(Frames) /\ Pushed(outbox[e], outbox'[e], Delta(s))
  <2>1. outbox[e] \in Seq(Frames)  BY BaseOf
  <2>2. Pushed(outbox[e], Append(outbox[e], Delta(s)), Delta(s))  BY <1>1, <2>1, AppendPushes
  <2>3. outbox'[e] = Append(outbox[e], Delta(s))  BY <1>2, <1>3
  <2> QED  BY <2>2, <2>3 DEF Pushed
<1>4. ASSUME NEW e \in Conns, ~Served(e) PROVE outbox'[e] = outbox[e]  BY <1>2, <1>4
<1>5. ASSUME NEW e \in Conns PROVE outbox'[e] \in Seq(Frames)  BY <1>3, <1>4, BaseOf
<1>6. outbox' \in [Conns -> Seq(Frames)]  BY <1>2, <1>5
<1>7. ASSUME NEW e \in Conns PROVE OutboxOK(outbox'[e], Len(log))
  BY <1>1, <1>3, <1>4, BaseOf, PushOutbox
<1>8. ASSUME NEW e \in Conns, conn[e].pc = "unused" PROVE outbox'[e] = <<>>
  <2>1. ~Served(e)  BY <1>8, BaseOf DEF HandlerOK, Served
  <2> QED  BY <1>4, <1>8, <2>1, BaseOf
<1> QED  BY <1>3, <1>4, <1>6, <1>7, <1>8

LEMMA FanOutOwnDoes ==
    ASSUME Base, NEW c \in Conns, FanOutOwn(c)
    PROVE  /\ conn[c].cursor \in due /\ conn[c].cursor \in 1..Len(log) /\ conn[c].pc = "tell"
           /\ due' = due \ {conn[c].cursor} /\ Broadcasts(conn[c].cursor)
           /\ UNCHANGED <<log, client, inbox, abandoned, acked, nacked, resent>>
           /\ Turns(c, "ack", conn[c].hello, conn[c].sub, conn[c].closing, conn[c].req,
                    conn[c].cursor, conn[c].page)
<1>1. /\ conn[c].pc = "tell" /\ Tell(conn[c].cursor) /\ Broadcasts(conn[c].cursor)
      /\ Goes(c, "ack") /\ UNCHANGED <<client, inbox, abandoned, acked, nacked, resent>>
  BY DEF FanOutOwn, history
<1>2. conn[c].cursor \in due /\ due' = due \ {conn[c].cursor} /\ UNCHANGED log
  BY <1>1 DEF Tell
<1>3. due \subseteq 1..Len(log)  BY DEF Base, Shape
<1> QED  BY <1>1, <1>2, <1>3, BaseOf, GoesTurns

LEMMA FanOutOwnBase == ASSUME Base, NEW c \in Conns, FanOutOwn(c) PROVE Base'
<1> DEFINE s == conn[c].cursor
<1>1. s \in 1..Len(log) /\ Broadcasts(s) /\ conn[c].pc = "tell"  BY FanOutOwnDoes
<1>2. /\ due' = due \ {s} /\ UNCHANGED <<log, client, inbox, acked, nacked>>
      /\ Turns(c, "ack", conn[c].hello, conn[c].sub, conn[c].closing, conn[c].req,
               s, conn[c].page)
  BY FanOutOwnDoes
<1>3. HandlerOK(conn'[c], Len(log))  BY <1>1, <1>2, BaseOf DEF Turns, HandlerOK
<1>4. AllAppends(inbox[c])  BY <1>1, BaseOf, BusyInbox
<1>5. Shape'
  <2>1. outbox' \in [Conns -> Seq(Frames)]  BY <1>1, BroadcastOut
  <2>2. conn' \in [Conns -> ConnState]  BY <1>2 DEF Turns
  <2> QED  BY <1>2, <2>1, <2>2 DEF Base, Shape
<1>6. ASSUME NEW e \in Conns
      PROVE  /\ InboxOK(inbox'[e], conn'[e], Len(log'))
             /\ HandlerOK(conn'[e], Len(log'))
             /\ OutboxOK(outbox'[e], Len(log'))
             /\ conn'[e].pc = "unused" => outbox'[e] = <<>>
             /\ e = client'.sock => AsksBehind(inbox'[e], client'.cursor)
  <2>1. inbox'[e] = inbox[e] /\ log' = log /\ client' = client  BY <1>2
  <2>2. OutboxOK(outbox'[e], Len(log)) /\ (conn[e].pc = "unused" => outbox'[e] = <<>>)
    BY <1>1, BroadcastOut
  <2>3. e = client.sock => AsksBehind(inbox[e], client.cursor)  BY BaseOf
  <2>4. CASE e = c
    <3>1. InboxOK(inbox[c], conn'[c], Len(log))  BY <1>4, AppendsOK
    <3>2. conn'[c].pc # "unused"  BY <1>2 DEF Turns
    <3> QED  BY <1>3, <2>1, <2>2, <2>3, <2>4, <3>1, <3>2
  <2>5. CASE e # c
    <3>1. conn'[e] = conn[e]  BY <1>2, <2>5 DEF Turns
    <3> QED  BY <2>1, <2>2, <2>3, <3>1, BaseOf
  <2> QED  BY <2>4, <2>5
<1>7. client'.cursor <= Len(log')  BY <1>2 DEF Base, Links
<1> QED  BY <1>5, <1>6, <1>7 DEF Base, Links

LEMMA OtherTellsDoes ==
    ASSUME Base, NEW s \in due, OtherTells(s)
    PROVE  /\ s \in 1..Len(log) /\ due' = due \ {s} /\ Broadcasts(s) /\ log[s] \notin Own
           /\ UNCHANGED <<log, client, conn, inbox, abandoned, acked, nacked, resent>>
<1>1. due \subseteq 1..Len(log)  BY DEF Base, Shape
<1> QED  BY <1>1 DEF OtherTells, Tell, history

LEMMA OtherTellsBase == ASSUME Base, NEW s \in due, OtherTells(s) PROVE Base'
<1>1. /\ s \in 1..Len(log) /\ due' = due \ {s} /\ Broadcasts(s)
      /\ UNCHANGED <<log, client, conn, inbox, acked, nacked>>
  BY OtherTellsDoes
<1>2. Shape'
  <2>1. outbox' \in [Conns -> Seq(Frames)]  BY <1>1, BroadcastOut
  <2> QED  BY <1>1, <2>1 DEF Base, Shape
<1>3. Links'
  <2>1. \A e \in Conns : OutboxOK(outbox'[e], Len(log)) /\ (conn[e].pc = "unused" => outbox'[e] = <<>>)
    BY <1>1, BroadcastOut
  <2> QED  BY <1>1, <2>1 DEF Base, Links
<1> QED  BY <1>2, <1>3 DEF Base

LEMMA OtherLostBase == ASSUME Base, NEW s \in due, OtherLost(s) PROVE Base'
<1>1. due' = due \ {s} /\ UNCHANGED <<log, client, conn, inbox, outbox, acked, nacked>>
  BY DEF OtherLost, Lose, linkVars
<1>2. Shape'  BY <1>1 DEF Base, Shape
<1>3. Links'  BY <1>1 DEF Base, Links
<1> QED  BY <1>2, <1>3 DEF Base

-----------------------------------------------------------------------------
(* The log grows. *)

LEMMA MoreStored ==
    ASSUME NEW n \in Nat, NEW k \in Nat, n <= k
    PROVE  /\ \A q \in Seq(Frames) : \A m : InboxOK(q, m, n) => InboxOK(q, m, k)
           /\ \A m \in ConnState : HandlerOK(m, n) => HandlerOK(m, k)
           /\ \A q \in Seq(Frames) : OutboxOK(q, n) => OutboxOK(q, k)
<1>1. ASSUME NEW q \in Seq(Frames), NEW i \in 1..Len(q)
      PROVE  q[i].cursor \in Nat
  <2>1. q[i] \in Frames  BY ElementOfSeq
  <2> QED  BY <2>1, FrameTypes
<1>2. ASSUME NEW q \in Seq(Frames), NEW m, InboxOK(q, m, n) PROVE InboxOK(q, m, k)
  <2>1. \A i \in 1..Len(q) : q[i].cursor <= n => q[i].cursor <= k  BY <1>1
  <2> QED  BY <1>2, <2>1 DEF InboxOK
<1>3. ASSUME NEW m \in ConnState, HandlerOK(m, n) PROVE HandlerOK(m, k)
  <2>1. m.cursor <= n => m.cursor <= k  BY ConnTypes
  <2>2. 1..n \subseteq 1..k  OBVIOUS
  <2> QED  BY <1>3, <2>1, <2>2 DEF HandlerOK
<1>4. ASSUME NEW q \in Seq(Frames), OutboxOK(q, n) PROVE OutboxOK(q, k)
  <2>1. \A i \in 1..Len(q) : q[i].cursor <= n => q[i].cursor <= k  BY <1>1
  <2>2. 1..n \subseteq 1..k  OBVIOUS
  <2> QED  BY <1>4, <2>1, <2>2 DEF OutboxOK, FrameOK
<1> QED  BY <1>2, <1>3, <1>4

LEMMA InsertGrows ==
    ASSUME Shape, NEW r \in Requests, Insert(r), Len(log) < MaxLog
    PROVE  /\ log' \in Seq(Requests) /\ Len(log') = Len(log) + 1 /\ Len(log') <= MaxLog
           /\ Len(log') \in Nat /\ Len(log) \in Nat
           /\ due' = due \cup {Len(log')} /\ due' \in SUBSET (1..Len(log'))
           /\ log'[Len(log')] = r /\ \A s \in 1..Len(log) : log'[s] = log[s]
<1>1. log \in Seq(Requests) /\ Len(log) \in Nat /\ due \subseteq 1..Len(log)  BY ShapeLen DEF Shape
<1>2. log' = Append(log, r) /\ due' = due \cup {Len(log) + 1}  BY DEF Insert
<1>3. /\ log' \in Seq(Requests) /\ Len(log') = Len(log) + 1
      /\ log'[Len(log) + 1] = r /\ \A s \in 1..Len(log) : log'[s] = log[s]
  BY <1>1, <1>2, AppendProperties
<1>4. Len(log') \in Nat /\ Len(log') <= MaxLog /\ Len(log) + 1 = Len(log')
  BY <1>1, <1>3, SyncLimitAssumption
<1>5. due' = due \cup {Len(log')}  BY <1>2, <1>4
<1>6. due' \in SUBSET (1..Len(log'))
  <2>1. 1..Len(log) \subseteq 1..Len(log') /\ Len(log') \in 1..Len(log')  BY <1>1, <1>4
  <2> QED  BY <1>1, <1>5, <2>1
<1>7. log'[Len(log')] = r  BY <1>3, <1>4
<1> QED  BY <1>1, <1>3, <1>4, <1>5, <1>6, <1>7

(* Storing an event disturbs no queue. *)
LEMMA InsertKeeps ==
    ASSUME Base, NEW r \in Requests, Insert(r), Len(log) < MaxLog,
           conn' \in [Conns -> ConnState], UNCHANGED <<client, inbox, outbox, acked, nacked>>,
           \A e \in Conns : \/ conn'[e] = conn[e]
                            \/ /\ HandlerOK(conn'[e], Len(log')) /\ AllAppends(inbox[e])
                               /\ conn'[e].pc # "unused"
    PROVE  Base'
<1>1. Shape /\ Shape'
  <2>1. Shape  BY DEF Base
  <2>2. log' \in Seq(Requests) /\ Len(log') <= MaxLog /\ due' \in SUBSET (1..Len(log'))
    BY <2>1, InsertGrows
  <2> QED  BY <2>1, <2>2 DEF Shape
<1>2. Len(log) \in Nat /\ Len(log') \in Nat /\ Len(log) <= Len(log')
  BY <1>1, InsertGrows
<1>3. ASSUME NEW e \in Conns
      PROVE  /\ InboxOK(inbox'[e], conn'[e], Len(log'))
             /\ HandlerOK(conn'[e], Len(log'))
             /\ OutboxOK(outbox'[e], Len(log'))
             /\ conn'[e].pc = "unused" => outbox'[e] = <<>>
             /\ e = client'.sock => AsksBehind(inbox'[e], client'.cursor)
  <2>1. inbox'[e] = inbox[e] /\ outbox'[e] = outbox[e] /\ client' = client  OBVIOUS
  <2>2. /\ InboxOK(inbox[e], conn[e], Len(log')) /\ HandlerOK(conn[e], Len(log'))
        /\ OutboxOK(outbox[e], Len(log'))
    BY <1>2, BaseOf, MoreStored
  <2>3. CASE conn'[e] = conn[e]  BY <2>1, <2>2, <2>3, BaseOf
  <2>4. CASE conn'[e] # conn[e]  BY <2>1, <2>2, <2>4, BaseOf, AppendsOK
  <2> QED  BY <2>3, <2>4
<1>4. client'.cursor <= Len(log')
  <2>1. client.cursor <= Len(log) /\ client.cursor \in 0..MaxLog  BY <1>1 DEF Base, Links, Shape, ClientState
  <2> QED  BY <1>2, <2>1, SyncLimitAssumption
<1> QED  BY <1>1, <1>3, <1>4 DEF Base, Links

LEMMA StoreAppendBase == ASSUME Base, NEW c \in Conns, StoreAppend(c) PROVE Base'
<1>1. /\ conn[c].pc = "insert" /\ Len(log) < MaxLog /\ Insert(conn[c].req)
      /\ UNCHANGED <<client, inbox, outbox, acked, nacked>>
  BY DEF StoreAppend, linkVars, history
<1>2. Turns(c, "tell", conn[c].hello, conn[c].sub, conn[c].closing, conn[c].req,
            Len(log) + 1, conn[c].page)
  BY BaseOf, StoreAppendTurns
<1>3. conn[c].req \in Requests  BY <1>1, BaseOf, OwnAssumption DEF HandlerOK
<1>4. Len(log) \in Nat /\ Len(log') = Len(log) + 1  BY <1>1, <1>3, BaseOf, InsertGrows
<1>5. HandlerOK(conn[c], Len(log'))  BY <1>4, BaseOf, MoreStored
<1>6. HandlerOK(conn'[c], Len(log'))  BY <1>1, <1>2, <1>4, <1>5 DEF Turns, HandlerOK
<1>7. AllAppends(inbox[c])  BY <1>1, BaseOf, BusyInbox
<1>8. /\ conn' \in [Conns -> ConnState] /\ conn'[c].pc # "unused"
      /\ \A e \in Conns : e # c => conn'[e] = conn[e]
  BY <1>2 DEF Turns
<1> QED  BY <1>1, <1>3, <1>6, <1>7, <1>8, InsertKeeps

LEMMA OtherStoresBase == ASSUME Base, NEW r \in Requests \ Own, OtherStores(r) PROVE Base'
<1>1. /\ Len(log) < MaxLog /\ Insert(r) /\ UNCHANGED <<client, conn, inbox, outbox, acked, nacked>>
  BY DEF OtherStores, linkVars, history
<1>2. conn' \in [Conns -> ConnState]  BY <1>1 DEF Base, Shape
<1> QED  BY <1>1, <1>2, InsertKeeps

-----------------------------------------------------------------------------
(* The client.                                                             *)

LEMMA ClientTypes ==
    ASSUME Shape
    PROVE  /\ client.sock \in Conns \cup {NoConn} /\ client.cursor \in 0..MaxLog
           /\ client.cursor \in Nat
           /\ client.have \in SUBSET (1..MaxLog) /\ client.pending \in SUBSET Own
           /\ IsFiniteSet(client.pending)
<1>1. client \in ClientState /\ IsFiniteSet(client.pending)  BY DEF Shape
<1> QED  BY <1>1, SyncLimitAssumption DEF ClientState

LEMMA SetToSeqIs ==
    ASSUME NEW P, IsFiniteSet(P)
    PROVE  SetToSeq(P) \in [1..Cardinality(P) -> P] /\ Cardinality(P) \in Nat
<1>1. Cardinality(P) \in Nat /\ ExistsBijection(1..Cardinality(P), P)  BY FS_CardinalityType
<1>2. \E f \in [1..Cardinality(P) -> P] : IsInjective(f)
  BY <1>1 DEF ExistsBijection, Bijection, Injection
<1> QED  BY <1>1, <1>2 DEF SetToSeq

(* What the `open` listener sends. *)
Opens(q) ==
    /\ q \in Seq(Frames) /\ Len(q) >= 2
    /\ q[1].kind = "hello" /\ q[2].kind = "subscribe" /\ q[2].cursor = client.cursor
    /\ \A i \in 1..Len(q) : i > 2 => q[i].kind = "append" /\ q[i].req \in client.pending

LEMMA ConnectSends ==
    ASSUME Shape, NEW c \in Conns, Connect(c)
    PROVE  /\ inbox' \in [Conns -> Seq(Frames)] /\ \A e \in Conns : e # c => inbox'[e] = inbox[e]
           /\ Opens(inbox'[c])
<1> DEFINE P == client.pending
           n == Cardinality(P)
           h == <<Frame("hello", NoReq, {}, 0), Frame("subscribe", NoReq, {}, client.cursor)>>
           r == [i \in 1..n |-> Frame("append", SetToSeq(P)[i], {}, 0)]
<1>1. inbox' = [inbox EXCEPT ![c] = h \o r]  BY DEF Connect
<1>2. inbox \in [Conns -> Seq(Frames)]  BY DEF Shape
<1>3. SetToSeq(P) \in [1..n -> P] /\ n \in Nat /\ P \subseteq Own  BY ClientTypes, SetToSeqIs
<1>4. {} \in SUBSET (1..MaxLog) /\ 0 \in 0..MaxLog /\ client.cursor \in 0..MaxLog
  BY SyncLimitAssumption, ClientTypes
<1>5. \A i \in 1..n : SetToSeq(P)[i] \in P /\ SetToSeq(P)[i] \in Requests \cup {NoReq}
  BY <1>3, OwnAssumption
<1> HIDE DEF n
<1>6. \A i \in 1..n : /\ r[i] \in Frames /\ r[i].kind = "append" /\ r[i].req \in P
  BY <1>4, <1>5, FrameTyped, FrameFields
<1>7. r \in Seq(Frames) /\ Len(r) = n
  <2>1. r \in [1..n -> Frames]  BY <1>6
  <2> HIDE DEF r
  <2> QED  BY <1>3, <2>1, SeqDef, LenProperties
<1>8. Frame("hello", NoReq, {}, 0) \in Frames /\ Frame("subscribe", NoReq, {}, client.cursor) \in Frames
  BY <1>4, FrameTyped
<1>9. /\ h \in Seq(Frames) /\ Len(h) = 2
      /\ h[1] = Frame("hello", NoReq, {}, 0) /\ h[2] = Frame("subscribe", NoReq, {}, client.cursor)
  BY <1>8
<1>10. h[1].kind = "hello" /\ h[2].kind = "subscribe" /\ h[2].cursor = client.cursor
  BY <1>9, FrameFields
<1> HIDE DEF h, r, P
<1>11. /\ h \o r \in Seq(Frames) /\ Len(h \o r) = 2 + n
       /\ \A i \in 1..(2 + n) : (h \o r)[i] = IF i <= 2 THEN h[i] ELSE r[i - 2]
  <2>1. /\ h \o r \in Seq(Frames) /\ Len(h \o r) = Len(h) + Len(r)
        /\ \A i \in 1..(Len(h) + Len(r)) : (h \o r)[i] = IF i <= Len(h) THEN h[i] ELSE r[i - Len(h)]
    BY <1>7, <1>9, ConcatProperties
  <2>2. Len(h) = 2 /\ Len(r) = n  BY <1>7, <1>9
  <2> QED  BY <2>1, <2>2
<1>12. (h \o r)[1] = h[1] /\ (h \o r)[2] = h[2]  BY <1>3, <1>11
<1>13. \A i \in 1..(2 + n) : i > 2 => (h \o r)[i] = r[i - 2] /\ i - 2 \in 1..n  BY <1>3, <1>11
<1>14. Opens(h \o r)
  <2>1. Len(h \o r) >= 2  BY <1>3, <1>11
  <2> QED  BY <1>6, <1>10, <1>11, <1>12, <1>13, <2>1 DEF Opens, P
<1> HIDE DEF Opens
<1>15. inbox' \in [Conns -> Seq(Frames)] /\ inbox'[c] = h \o r
       /\ \A e \in Conns : e # c => inbox'[e] = inbox[e]
  BY <1>1, <1>2, <1>11
<1> QED  BY <1>14, <1>15

LEMMA ConnectDoes ==
    ASSUME Shape, NEW c \in Conns, Connect(c)
    PROVE  /\ client.sock = NoConn /\ conn[c].pc = "unused"
           /\ client' \in ClientState /\ client'.sock = c /\ client'.cursor = client.cursor
           /\ client'.have = client.have /\ client'.pending = client.pending
           /\ resent' = resent \cup client.pending
           /\ UNCHANGED <<log, due, outbox, abandoned, acked, nacked>>
<1>1. /\ client.sock = NoConn /\ conn[c] = Unused /\ client' = [client EXCEPT !.sock = c]
      /\ resent' = resent \cup client.pending
      /\ UNCHANGED <<log, due, outbox, abandoned, acked, nacked>>
  BY DEF Connect, IsOpen, logVars
<1>2. client \in ClientState  BY DEF Shape
<1>3. /\ client' \in ClientState /\ client'.sock = c /\ client'.cursor = client.cursor
      /\ client'.have = client.have /\ client'.pending = client.pending
  BY <1>1, <1>2 DEF ClientState
<1> QED  BY <1>1, <1>3, UnusedFields

LEMMA ConnectBase == ASSUME Base, NEW c \in Conns, Connect(c) PROVE Base'
<1>0. Shape  BY DEF Base
<1>1. /\ conn[c].pc = "unused" /\ client' \in ClientState /\ client'.sock = c
      /\ client'.cursor = client.cursor /\ client'.pending = client.pending
      /\ UNCHANGED <<log, due, outbox, acked, nacked>>
  BY <1>0, ConnectDoes
<1>2. Turns(c, "idle", FALSE, FALSE, FALSE, NoReq, 0, {})  BY <1>0, ConnectTurns
<1>3. /\ inbox' \in [Conns -> Seq(Frames)] /\ \A e \in Conns : e # c => inbox'[e] = inbox[e]
      /\ Opens(inbox'[c])
  BY <1>0, ConnectSends
<1>4. Shape'  BY <1>0, <1>1, <1>2, <1>3 DEF Shape, Turns
<1>5. HandlerOK(conn'[c], Len(log))  BY <1>2, BaseOf DEF Turns, HandlerOK
<1>6. client.cursor <= Len(log) /\ client.pending \subseteq Own
  BY <1>0, ClientTypes DEF Base, Links
<1>7. InboxOK(inbox'[c], conn'[c], Len(log)) /\ AsksBehind(inbox'[c], client.cursor)
  <2> DEFINE q == inbox'[c]
  <2>1. \A i \in 1..Len(q) : i = 1 \/ i = 2 \/ i > 2  BY <1>3, LenProperties
  <2>2. \A i \in 1..Len(q) :
          \/ i = 1 /\ q[i].kind = "hello"
          \/ i = 2 /\ q[i].kind = "subscribe" /\ q[1].kind = "hello" /\ q[i].cursor = client.cursor
          \/ q[i].kind = "append" /\ q[i].req \in Own
    BY <1>3, <1>6, <2>1 DEF Opens
  <2>3. ~conn'[c].hello /\ ~conn'[c].closing /\ ~conn'[c].sub /\ conn'[c].pc = "idle"
    BY <1>2 DEF Turns
  <2>4. client.cursor <= client.cursor  BY <1>0, ClientTypes
  <2> HIDE DEF q
  <2>5. InboxOK(q, conn'[c], Len(log))  BY <1>6, <2>2, <2>3 DEF InboxOK
  <2>6. AsksBehind(q, client.cursor)  BY <2>2, <2>4 DEF AsksBehind
  <2> QED  BY <2>5, <2>6 DEF q
<1>8. ASSUME NEW e \in Conns
      PROVE  /\ InboxOK(inbox'[e], conn'[e], Len(log'))
             /\ HandlerOK(conn'[e], Len(log'))
             /\ OutboxOK(outbox'[e], Len(log'))
             /\ conn'[e].pc = "unused" => outbox'[e] = <<>>
             /\ e = client'.sock => AsksBehind(inbox'[e], client'.cursor)
  <2>1. log' = log /\ outbox'[e] = outbox[e]  BY <1>1
  <2>2. CASE e = c  BY <1>1, <1>2, <1>5, <1>7, <2>1, <2>2, BaseOf DEF Turns
  <2>3. CASE e # c
    <3>1. conn'[e] = conn[e] /\ inbox'[e] = inbox[e]  BY <1>2, <1>3, <2>3 DEF Turns
    <3> QED  BY <1>1, <2>1, <2>3, <3>1, BaseOf
  <2> QED  BY <2>2, <2>3
<1>9. client'.cursor <= Len(log')  BY <1>1, <1>6
<1> QED  BY <1>4, <1>8, <1>9 DEF Base, Links

(* The runtime's fields that a step leaves alone are named; the rest of the *)
(* gateway's side is as it was.                                             *)
LEMMA ClientKeeps ==
    ASSUME Base, client' \in ClientState, IsFiniteSet(client'.pending), client'.cursor <= Len(log),
           inbox' \in [Conns -> Seq(Frames)], outbox' \in [Conns -> Seq(Frames)],
           acked' \in SUBSET Own, nacked' \in SUBSET Own, UNCHANGED <<log, due, conn>>,
           \A e \in Conns : /\ InboxOK(inbox'[e], conn[e], Len(log))
                            /\ OutboxOK(outbox'[e], Len(log))
                            /\ conn[e].pc = "unused" => outbox'[e] = <<>>
                            /\ e = client'.sock => AsksBehind(inbox'[e], client'.cursor)
    PROVE  Base'
<1>1. Shape'  BY DEF Base, Shape
<1>2. \A e \in Conns : HandlerOK(conn[e], Len(log))  BY BaseOf
<1>3. Links'  BY <1>2 DEF Links
<1> QED  BY <1>1, <1>3 DEF Base

LEMMA ClientAppendsDoes ==
    ASSUME Base, NEW r \in Own, ClientAppends(r)
    PROVE  /\ r \notin client.pending \cup acked \cup nacked
           /\ client' \in ClientState /\ client'.sock = client.sock /\ client'.cursor = client.cursor
           /\ client'.have = client.have /\ client'.pending = client.pending \cup {r}
           /\ inbox' \in [Conns -> Seq(Frames)]
           /\ \A e \in Conns : e # client.sock => inbox'[e] = inbox[e]
           /\ \A e \in Conns : e = client.sock => \E f \in Frames :
                Pushed(inbox[e], inbox'[e], f) /\ f.kind = "append" /\ f.req = r
           /\ UNCHANGED <<log, due, conn, outbox, abandoned, acked, nacked, resent>>
<1> DEFINE f == Frame("append", r, {}, 0)
<1>1. /\ r \notin client.pending \cup acked \cup nacked
      /\ client' = [client EXCEPT !.pending = client.pending \cup {r}]
      /\ inbox' = IF client.sock # NoConn
                  THEN [inbox EXCEPT ![client.sock] = Append(inbox[client.sock], f)] ELSE inbox
      /\ UNCHANGED <<log, due, conn, outbox, abandoned, acked, nacked, resent>>
  BY DEF ClientAppends, IsOpen, logVars, history
<1>2. client \in ClientState /\ inbox \in [Conns -> Seq(Frames)] /\ Shape  BY DEF Base, Shape
<1>3. /\ client' \in ClientState /\ client'.sock = client.sock /\ client'.cursor = client.cursor
      /\ client'.have = client.have /\ client'.pending = client.pending \cup {r}
  BY <1>1, <1>2 DEF ClientState
<1>4. {} \in SUBSET (1..MaxLog) /\ 0 \in 0..MaxLog  BY SyncLimitAssumption
<1>5. f \in Frames /\ f.kind = "append" /\ f.req = r  BY <1>4, OwnAssumption, FrameTyped, FrameFields
<1> HIDE DEF f
<1>6. client.sock \in Conns \cup {NoConn}  BY <1>2, ClientTypes
<1>7. CASE client.sock = NoConn
  <2>1. inbox' = inbox  BY <1>1, <1>7
  <2>2. \A e \in Conns : e # client.sock  BY <1>7, ConnAssumption
  <2> QED  BY <1>1, <1>2, <1>3, <2>1, <2>2
<1>8. CASE client.sock # NoConn
  <2>1. client.sock \in Conns  BY <1>6, <1>8
  <2>2. inbox[client.sock] \in Seq(Frames)  BY <1>2, <2>1
  <2>3. Pushed(inbox[client.sock], Append(inbox[client.sock], f), f)  BY <1>5, <2>2, AppendPushes
  <2>4. Append(inbox[client.sock], f) \in Seq(Frames)  BY <2>3 DEF Pushed
  <2>5. inbox' = [inbox EXCEPT ![client.sock] = Append(inbox[client.sock], f)]  BY <1>1, <1>8
  <2>6. /\ inbox' \in [Conns -> Seq(Frames)] /\ inbox'[client.sock] = Append(inbox[client.sock], f)
        /\ \A e \in Conns : e # client.sock => inbox'[e] = inbox[e]
    BY <1>2, <2>1, <2>4, <2>5
  <2>7. Pushed(inbox[client.sock], inbox'[client.sock], f)  BY <2>3, <2>6
  <2> QED  BY <1>1, <1>3, <1>5, <2>6, <2>7
<1> QED  BY <1>7, <1>8

LEMMA PushInbox ==
    ASSUME NEW q, NEW p, NEW f, Pushed(q, p, f), f.kind = "append", f.req \in Own, NEW m, NEW n,
           InboxOK(q, m, n), NEW k
    PROVE  InboxOK(p, m, n) /\ (AsksBehind(q, k) => AsksBehind(p, k))
<1>1. ASSUME NEW i \in 1..Len(p) PROVE (i \in 1..Len(q) /\ p[i] = q[i]) \/ (i = Len(p) /\ p[i] = f)
  BY DEF Pushed
<1>2. 1 \in 1..Len(q) => p[1] = q[1]  BY DEF Pushed
<1>3. ASSUME NEW i \in 1..Len(q), q[i].kind = "subscribe", i = 2 PROVE 1 \in 1..Len(q)
  BY <1>3 DEF Pushed
<1>4. InboxOK(p, m, n)
  <2> SUFFICES ASSUME NEW i \in 1..Len(p)
               PROVE  /\ p[i].kind \in {"hello", "subscribe", "append"}
                      /\ p[i].kind = "hello" => i = 1 /\ ~m.hello /\ ~m.closing
                      /\ p[i].kind = "subscribe" =>
                           /\ i = 1 \/ (i = 2 /\ p[1].kind = "hello")
                           /\ ~m.sub /\ (m.hello => ~m.closing) /\ p[i].cursor <= n
                      /\ p[i].kind # "append" => m.pc = "idle"
                      /\ p[i].kind = "append" => p[i].req \in Own
    BY DEF InboxOK
  <2>1. CASE p[i] = f  BY <2>1
  <2>2. CASE i \in 1..Len(q) /\ p[i] = q[i]
    <3>1. /\ q[i].kind \in {"hello", "subscribe", "append"}
          /\ q[i].kind = "hello" => i = 1 /\ ~m.hello /\ ~m.closing
          /\ q[i].kind = "subscribe" =>
               /\ i = 1 \/ (i = 2 /\ q[1].kind = "hello")
               /\ ~m.sub /\ (m.hello => ~m.closing) /\ q[i].cursor <= n
          /\ q[i].kind # "append" => m.pc = "idle"
          /\ q[i].kind = "append" => q[i].req \in Own
      BY <2>2 DEF InboxOK
    <3> QED  BY <1>2, <1>3, <2>2, <3>1
  <2> QED  BY <1>1, <2>1, <2>2
<1>5. ASSUME AsksBehind(q, k), NEW i \in 1..Len(p), p[i].kind = "subscribe" PROVE p[i].cursor <= k
  <2>1. i \in 1..Len(q) /\ p[i] = q[i]  BY <1>1, <1>5
  <2> QED  BY <1>5, <2>1 DEF AsksBehind
<1> QED  BY <1>4, <1>5 DEF AsksBehind

LEMMA ClientAppendsBase == ASSUME Base, NEW r \in Own, ClientAppends(r) PROVE Base'
<1>1. /\ client' \in ClientState /\ client'.sock = client.sock /\ client'.cursor = client.cursor
      /\ client'.pending = client.pending \cup {r}
      /\ inbox' \in [Conns -> Seq(Frames)]
      /\ \A e \in Conns : e # client.sock => inbox'[e] = inbox[e]
      /\ \A e \in Conns : e = client.sock => \E f \in Frames :
           Pushed(inbox[e], inbox'[e], f) /\ f.kind = "append" /\ f.req = r
      /\ UNCHANGED <<log, due, conn, outbox, acked, nacked>>
  BY ClientAppendsDoes
<1>2. IsFiniteSet(client'.pending)
  <2>1. IsFiniteSet(client.pending)  BY DEF Base, Shape
  <2> QED  BY <1>1, <2>1, FS_AddElement
<1>3. client.cursor <= Len(log)  BY DEF Base, Links
<1>4. outbox' \in [Conns -> Seq(Frames)] /\ acked' \in SUBSET Own /\ nacked' \in SUBSET Own
  BY <1>1 DEF Base, Shape
<1>5. ASSUME NEW e \in Conns
      PROVE  /\ InboxOK(inbox'[e], conn[e], Len(log))
             /\ OutboxOK(outbox'[e], Len(log))
             /\ conn[e].pc = "unused" => outbox'[e] = <<>>
             /\ e = client'.sock => AsksBehind(inbox'[e], client'.cursor)
  <2>1. outbox'[e] = outbox[e] /\ client'.cursor = client.cursor /\ client'.sock = client.sock  BY <1>1
  <2>2. CASE e = client.sock
    <3>1. PICK f \in Frames : Pushed(inbox[e], inbox'[e], f) /\ f.kind = "append" /\ f.req = r
      BY <1>1, <2>2
    <3>2. InboxOK(inbox'[e], conn[e], Len(log)) /\ AsksBehind(inbox'[e], client.cursor)
      BY <2>2, <3>1, BaseOf, PushInbox
    <3> QED  BY <2>1, <3>2, BaseOf
  <2>3. CASE e # client.sock
    <3>1. inbox'[e] = inbox[e]  BY <1>1, <2>3
    <3> QED  BY <2>1, <2>3, <3>1, BaseOf
  <2> QED  BY <2>2, <2>3
<1> QED  BY <1>1, <1>2, <1>3, <1>4, <1>5, ClientKeeps

(* The connection is lost. *)
LEMMA DropsDoes ==
    ASSUME Base, NEW c \in Conns, Drops(c)
    PROVE  /\ client' \in ClientState /\ client'.sock = NoConn /\ client'.cursor = client.cursor
           /\ client'.have = client.have /\ client'.pending = client.pending
           /\ outbox' \in [Conns -> Seq(Frames)] /\ outbox'[c] = <<>>
           /\ \A e \in Conns : e # c => outbox'[e] = outbox[e]
           /\ abandoned' = abandoned \cup (InFlight(c) \cap (1..client.cursor))
<1>1. /\ client' = [client EXCEPT !.sock = NoConn] /\ outbox' = [outbox EXCEPT ![c] = <<>>]
      /\ abandoned' = abandoned \cup (InFlight(c) \cap (1..client.cursor))
  BY DEF Drops
<1>2. client \in ClientState /\ outbox \in [Conns -> Seq(Frames)]  BY DEF Base, Shape
<1>3. /\ client' \in ClientState /\ client'.sock = NoConn /\ client'.cursor = client.cursor
      /\ client'.have = client.have /\ client'.pending = client.pending
  BY <1>1, <1>2 DEF ClientState
<1>4. <<>> \in Seq(Frames)  BY EmptySeq
<1>5. /\ outbox' \in [Conns -> Seq(Frames)] /\ outbox'[c] = <<>>
      /\ \A e \in Conns : e # c => outbox'[e] = outbox[e]
  BY <1>1, <1>2, <1>4
<1> QED  BY <1>1, <1>3, <1>5

LEMMA DropsBase ==
    ASSUME Base, NEW c \in Conns, Drops(c), UNCHANGED <<log, due, conn, inbox, acked, nacked>>
    PROVE  Base'
<1>1. /\ client' \in ClientState /\ client'.sock = NoConn /\ client'.cursor = client.cursor
      /\ client'.pending = client.pending
      /\ outbox' \in [Conns -> Seq(Frames)] /\ outbox'[c] = <<>>
      /\ \A e \in Conns : e # c => outbox'[e] = outbox[e]
  BY DropsDoes
<1>2. /\ IsFiniteSet(client'.pending) /\ client'.cursor <= Len(log)
      /\ inbox' \in [Conns -> Seq(Frames)] /\ acked' \in SUBSET Own /\ nacked' \in SUBSET Own
  BY <1>1 DEF Base, Shape, Links
<1>3. Len(<<>>) = 0  OBVIOUS
<1>4. ASSUME NEW e \in Conns
      PROVE  /\ InboxOK(inbox'[e], conn[e], Len(log))
             /\ OutboxOK(outbox'[e], Len(log))
             /\ conn[e].pc = "unused" => outbox'[e] = <<>>
             /\ e = client'.sock => AsksBehind(inbox'[e], client'.cursor)
  <2>1. inbox'[e] = inbox[e] /\ e # client'.sock  BY <1>1, ConnAssumption
  <2>2. CASE e = c
    <3>1. OutboxOK(<<>>, Len(log))  BY <1>3 DEF OutboxOK
    <3> QED  BY <1>1, <2>1, <2>2, <3>1, BaseOf
  <2>3. CASE e # c  BY <1>1, <2>1, <2>3, BaseOf
  <2> QED  BY <2>2, <2>3
<1> QED  BY <1>1, <1>2, <1>4, ClientKeeps

(* handleFrame, for a frame of each kind. *)
Data(c) ==
    LET f == outbox[c][1] IN
    /\ f.kind \in {"page", "delta"}
    /\ client'.have = client.have \cup f.seqs /\ client'.pending = client.pending
    /\ client'.cursor = IF client.cursor > f.cursor THEN client.cursor ELSE f.cursor
    /\ UNCHANGED <<acked, nacked>>
Answer(c) ==
    LET f == outbox[c][1] IN
    /\ f.kind \in {"ack", "nack"}
    /\ client'.have = client.have /\ client'.cursor = client.cursor
    /\ client'.pending = client.pending \ {f.req}
    /\ acked' = (IF f.kind = "ack" THEN acked \cup {f.req} ELSE acked)
    /\ nacked' = (IF f.kind = "nack" /\ f.req \in client.pending THEN nacked \cup {f.req} ELSE nacked)
Pops(c) ==
    /\ client' \in ClientState /\ client'.sock = client.sock
    /\ Popped(outbox[c], outbox'[c]) /\ OutOthers(c)
    /\ UNCHANGED <<abandoned, resent>>

LEMMA LargerIs ==
    ASSUME NEW k \in Nat, NEW n \in Nat, k <= n, client.cursor \in Nat, client.cursor <= n
    PROVE  /\ SaveCursor(k) \in 0..n /\ client.cursor <= SaveCursor(k) /\ k <= SaveCursor(k)
           /\ SaveCursor(k) \in {client.cursor, k}
           /\ SaveCursor(k) = IF client.cursor > k THEN client.cursor ELSE k
BY DEF SaveCursor, Larger

LEMMA ReceivesDoes ==
    ASSUME Base, Receives
    PROVE  /\ client.sock \in Conns /\ UNCHANGED <<log, due, conn, inbox>>
           /\ \/ Drops(client.sock) /\ UNCHANGED <<acked, nacked, resent>>
              \/ Pops(client.sock) /\ (Data(client.sock) \/ Answer(client.sock))
<1> DEFINE c == client.sock
           f == Head(outbox[c])
<1>1. /\ IsOpen /\ outbox[c] # <<>> /\ UNCHANGED <<log, due, conn, inbox>>
      /\ \/ /\ f.kind = "close"
            /\ Drops(c)
            /\ UNCHANGED <<acked, nacked, resent>>
         \/ /\ f.kind \in {"page", "delta"}
            /\ client' = [client EXCEPT !.have = @ \cup f.seqs, !.cursor = SaveCursor(f.cursor)]
            /\ outbox' = [outbox EXCEPT ![c] = Tail(@)]
            /\ UNCHANGED history
         \/ /\ f.kind \in {"ack", "nack"}
            /\ client' = [client EXCEPT !.pending = @ \ {f.req}]
            /\ acked' = IF f.kind = "ack" THEN acked \cup {f.req} ELSE acked
            /\ nacked' = IF f.kind = "nack" /\ f.req \in client.pending
                         THEN nacked \cup {f.req} ELSE nacked
            /\ outbox' = [outbox EXCEPT ![c] = Tail(@)]
            /\ UNCHANGED <<abandoned, resent>>
  BY DEF Receives, logVars
<1>2. c \in Conns  BY <1>1, ClientTypes DEF IsOpen, Base
<1>3. outbox[c] \in Seq(Frames) /\ outbox \in [Conns -> Seq(Frames)] /\ client \in ClientState
  BY <1>2 DEF Base, Shape
<1>4. Popped(outbox[c], Tail(outbox[c])) /\ f = outbox[c][1]  BY <1>1, <1>3, TailPops
<1>5. FrameOK(outbox[c][1], Len(log)) /\ outbox[c][1] \in Frames
  BY <1>2, <1>4, BaseOf, PopOutbox DEF Popped
<1>6. ASSUME outbox' = [outbox EXCEPT ![c] = Tail(outbox[c])]
      PROVE  Popped(outbox[c], outbox'[c]) /\ OutOthers(c)
  <2>1. Tail(outbox[c]) \in Seq(Frames)  BY <1>4 DEF Popped
  <2>2. outbox'[c] = Tail(outbox[c])  BY <1>2, <1>3, <1>6
  <2> QED  BY <1>2, <1>3, <1>4, <1>6, <2>1, <2>2 DEF OutOthers
<1>7. CASE Drops(c) /\ UNCHANGED <<acked, nacked, resent>>  BY <1>1, <1>2, <1>7
<1>8. CASE /\ f.kind \in {"page", "delta"}
           /\ client' = [client EXCEPT !.have = @ \cup f.seqs, !.cursor = SaveCursor(f.cursor)]
           /\ outbox' = [outbox EXCEPT ![c] = Tail(@)]
           /\ UNCHANGED history
  <2>1. client.cursor \in Nat /\ client.cursor <= Len(log) /\ Len(log) \in Nat /\ Len(log) <= MaxLog
    BY ClientTypes, ShapeLen DEF Base, Links
  <2>2. f.cursor \in Nat /\ f.cursor <= Len(log) /\ f.seqs \in SUBSET (1..MaxLog)
    BY <1>4, <1>5, FrameTypes DEF FrameOK
  <2>3. SaveCursor(f.cursor) \in 0..Len(log)
        /\ SaveCursor(f.cursor) = IF client.cursor > f.cursor THEN client.cursor ELSE f.cursor
    BY <2>1, <2>2, LargerIs
  <2>4. SaveCursor(f.cursor) \in 0..MaxLog  BY <2>1, <2>3, SyncLimitAssumption
  <2> DEFINE k == SaveCursor(f.cursor)
             x == f.seqs
  <2>5. client' = [client EXCEPT !.have = client.have \cup x, !.cursor = k]  BY <1>8
  <2>6. k \in 0..MaxLog /\ x \in SUBSET (1..MaxLog)  BY <2>2, <2>4
  <2> HIDE DEF k, x, f
  <2>7. /\ client' \in ClientState /\ client'.sock = c /\ client'.have = client.have \cup x
        /\ client'.cursor = k /\ client'.pending = client.pending
    BY <1>3, <2>5, <2>6 DEF ClientState
  <2>8. Pops(c)  BY <1>6, <1>8, <2>7 DEF Pops, history
  <2>9. Data(c)  BY <1>4, <1>8, <2>3, <2>7 DEF Data, history, k, x
  <2> QED  BY <1>1, <1>2, <2>8, <2>9
<1>9. CASE /\ f.kind \in {"ack", "nack"}
           /\ client' = [client EXCEPT !.pending = @ \ {f.req}]
           /\ acked' = IF f.kind = "ack" THEN acked \cup {f.req} ELSE acked
           /\ nacked' = IF f.kind = "nack" /\ f.req \in client.pending
                        THEN nacked \cup {f.req} ELSE nacked
           /\ outbox' = [outbox EXCEPT ![c] = Tail(@)]
           /\ UNCHANGED <<abandoned, resent>>
  <2> DEFINE x == client.pending \ {f.req}
  <2>1. client' = [client EXCEPT !.pending = x]  BY <1>9
  <2>2. x \in SUBSET Own  BY ClientTypes DEF Base
  <2> HIDE DEF x
  <2>3. /\ client' \in ClientState /\ client'.sock = c /\ client'.have = client.have
        /\ client'.cursor = client.cursor /\ client'.pending = x
    BY <1>3, <2>1, <2>2 DEF ClientState
  <2>4. Pops(c)  BY <1>6, <1>9, <2>3 DEF Pops
  <2>5. Answer(c)  BY <1>4, <1>9, <2>3 DEF Answer, x
  <2> QED  BY <1>1, <1>2, <2>4, <2>5
<1> QED  BY <1>1, <1>7, <1>8, <1>9

LEMMA ReceivesBase == ASSUME Base, Receives PROVE Base'
<1> DEFINE c == client.sock
<1>1. /\ c \in Conns /\ UNCHANGED <<log, due, conn, inbox>>
      /\ \/ Drops(c) /\ UNCHANGED <<acked, nacked, resent>>
         \/ Pops(c) /\ (Data(c) \/ Answer(c))
  BY ReceivesDoes
<1>2. CASE Drops(c) /\ UNCHANGED <<acked, nacked, resent>>  BY <1>1, <1>2, DropsBase
<1>3. CASE Pops(c) /\ (Data(c) \/ Answer(c))
  <2>1. /\ client' \in ClientState /\ client'.sock = c /\ Popped(outbox[c], outbox'[c]) /\ OutOthers(c)
    BY <1>3 DEF Pops
  <2>2. OutboxOK(outbox'[c], Len(log)) /\ FrameOK(outbox[c][1], Len(log))
        /\ outbox[c][1] \in Frames /\ outbox[c] # <<>>
    <3>1. OutboxOK(outbox'[c], Len(log)) /\ FrameOK(outbox[c][1], Len(log))
          /\ outbox[c][1] \in Frames
      BY <1>1, <2>1, BaseOf, PopOutbox DEF Popped
    <3>2. Len(outbox[c]) # 0  BY <2>1 DEF Popped
    <3> QED  BY <3>1, <3>2
  <2>3. /\ client.cursor \in Nat /\ client.cursor <= Len(log) /\ Len(log) \in Nat
        /\ IsFiniteSet(client.pending) /\ client.pending \subseteq Own
        /\ acked \subseteq Own /\ nacked \subseteq Own
    BY ClientTypes, ShapeLen DEF Base, Links, Shape
  <2>4. outbox[c][1].cursor \in Nat /\ outbox[c][1].cursor <= Len(log)
    BY <2>2, FrameTypes DEF FrameOK
  <2>5. /\ IsFiniteSet(client'.pending) /\ client'.cursor <= Len(log) /\ client.cursor <= client'.cursor
        /\ client'.cursor \in Nat /\ acked' \in SUBSET Own /\ nacked' \in SUBSET Own
    <3>1. CASE Data(c)
      <4>1. client'.cursor = IF client.cursor > outbox[c][1].cursor THEN client.cursor
                             ELSE outbox[c][1].cursor
        BY <3>1 DEF Data
      <4>2. client'.pending = client.pending /\ acked' = acked /\ nacked' = nacked
        BY <3>1 DEF Data
      <4>3. client'.cursor <= Len(log) /\ client.cursor <= client'.cursor /\ client'.cursor \in Nat
        BY <2>3, <2>4, <4>1
      <4> QED  BY <2>3, <4>2, <4>3
    <3>2. CASE Answer(c)
      <4>1. outbox[c][1].req \in Own  BY <2>2, <3>2 DEF Answer, FrameOK
      <4>2. client'.pending \subseteq client.pending /\ client'.cursor = client.cursor
        BY <3>2 DEF Answer
      <4>3. IsFiniteSet(client'.pending)  BY <2>3, <4>2, FS_Subset
      <4>4. acked' \in SUBSET Own /\ nacked' \in SUBSET Own  BY <2>3, <3>2, <4>1 DEF Answer
      <4> QED  BY <2>3, <4>2, <4>3, <4>4
    <3> QED  BY <1>3, <3>1, <3>2
  <2>6. inbox' \in [Conns -> Seq(Frames)] /\ outbox' \in [Conns -> Seq(Frames)]
    BY <1>1, <2>1 DEF Base, Shape, OutOthers
  <2>7. ASSUME NEW e \in Conns
        PROVE  /\ InboxOK(inbox'[e], conn[e], Len(log))
               /\ OutboxOK(outbox'[e], Len(log))
               /\ conn[e].pc = "unused" => outbox'[e] = <<>>
               /\ e = client'.sock => AsksBehind(inbox'[e], client'.cursor)
    <3>1. inbox'[e] = inbox[e] /\ InboxOK(inbox[e], conn[e], Len(log))  BY <1>1, BaseOf
    <3>2. ASSUME e = client'.sock PROVE AsksBehind(inbox[e], client'.cursor)
      <4>1. AsksBehind(inbox[e], client.cursor) /\ inbox[e] \in Seq(Frames)  BY <2>1, <3>2, BaseOf
      <4>2. \A i \in 1..Len(inbox[e]) : inbox[e][i].cursor \in Nat
        BY <4>1, ElementOfSeq, FrameTypes
      <4>3. \A i \in 1..Len(inbox[e]) : inbox[e][i].cursor <= client.cursor => inbox[e][i].cursor <= client'.cursor
        BY <2>3, <2>5, <4>2
      <4> QED  BY <4>1, <4>3 DEF AsksBehind
    <3>3. OutboxOK(outbox'[e], Len(log)) /\ (conn[e].pc = "unused" => outbox'[e] = <<>>)
      <4>1. CASE e = c  BY <2>2, <4>1, BaseOf
      <4>2. CASE e # c
        <5>1. outbox'[e] = outbox[e]  BY <2>1, <4>2 DEF OutOthers
        <5> QED  BY <5>1, BaseOf
      <4> QED  BY <4>1, <4>2
    <3> QED  BY <3>1, <3>2, <3>3
  <2> QED  BY <1>1, <2>1, <2>5, <2>6, <2>7, ClientKeeps
<1> QED  BY <1>1, <1>2, <1>3

LEMMA CutDoes ==
    ASSUME Base, Cut
    PROVE  /\ client.sock \in Conns /\ Drops(client.sock)
           /\ UNCHANGED <<log, due, conn, inbox, acked, nacked, resent>>
BY ClientTypes DEF Base, Cut, IsOpen, logVars

LEMMA CrashDoes ==
    ASSUME Base, Crash
    PROVE  /\ client' \in ClientState /\ client'.sock = NoConn /\ client'.cursor = client.cursor
           /\ client'.have = client.have /\ client'.pending = client.pending
           /\ due' = {} /\ UNCHANGED <<log, acked, nacked, resent>>
           /\ inbox' = [c \in Conns |-> <<>>] /\ outbox' = [c \in Conns |-> <<>>]
           /\ conn' \in [Conns -> ConnState]
           /\ \A c \in Conns : conn'[c] = Gone \/ (conn'[c] = conn[c] /\ ~Live(c))
           /\ abandoned' = abandoned \cup
                ((due \cup IF IsOpen THEN InFlight(client.sock) ELSE {}) \cap (1..client.cursor))
<1>1. /\ Lose(due) /\ client' = [client EXCEPT !.sock = NoConn]
      /\ abandoned' = abandoned \cup
           ((due \cup IF IsOpen THEN InFlight(client.sock) ELSE {}) \cap (1..client.cursor))
      /\ conn' = [c \in Conns |-> IF Live(c) THEN Gone ELSE conn[c]]
      /\ inbox' = [c \in Conns |-> <<>>] /\ outbox' = [c \in Conns |-> <<>>]
      /\ UNCHANGED <<acked, nacked, resent>>
  BY DEF Crash, Gone
<1>2. client \in ClientState  BY DEF Base, Shape
<1>3. /\ client' \in ClientState /\ client'.sock = NoConn /\ client'.cursor = client.cursor
      /\ client'.have = client.have /\ client'.pending = client.pending
  BY <1>1, <1>2 DEF ClientState
<1>4. due' = {} /\ UNCHANGED log  BY <1>1 DEF Lose
<1>5. \A c \in Conns : conn[c] \in ConnState /\ Gone \in ConnState  BY BaseOf, GoneFields
<1>6. /\ conn' \in [Conns -> ConnState]
      /\ \A c \in Conns : conn'[c] = Gone \/ (conn'[c] = conn[c] /\ ~Live(c))
  <2> HIDE DEF Gone, Live
  <2> QED  BY <1>1, <1>5
<1> QED  BY <1>1, <1>3, <1>4, <1>6

LEMMA CrashBase == ASSUME Base, Crash PROVE Base'
<1>1. /\ client' \in ClientState /\ client'.sock = NoConn /\ client'.cursor = client.cursor
      /\ client'.pending = client.pending
      /\ due' = {} /\ UNCHANGED <<log, acked, nacked>>
      /\ inbox' = [c \in Conns |-> <<>>] /\ outbox' = [c \in Conns |-> <<>>]
      /\ conn' \in [Conns -> ConnState]
      /\ \A c \in Conns : conn'[c] = Gone \/ conn'[c] = conn[c]
  BY CrashDoes
<1>2. <<>> \in Seq(Frames) /\ Len(<<>>) = 0  BY EmptySeq
<1>3. inbox' \in [Conns -> Seq(Frames)] /\ outbox' \in [Conns -> Seq(Frames)]
      /\ \A c \in Conns : inbox'[c] = <<>> /\ outbox'[c] = <<>>
  BY <1>1, <1>2
<1>4. Shape'
  <2>1. due' \in SUBSET (1..Len(log'))  BY <1>1
  <2> QED  BY <1>1, <1>3, <2>1 DEF Base, Shape
<1>5. Len(log) \in Nat  BY ShapeLen DEF Base
<1>6. HandlerOK(Gone, Len(log))  BY <1>5, GoneFields DEF HandlerOK
<1>7. \A c \in Conns : HandlerOK(conn'[c], Len(log))  BY <1>1, <1>6, BaseOf
<1>8. \A m, n : InboxOK(<<>>, m, n) /\ AsksBehind(<<>>, n) /\ OutboxOK(<<>>, n)
  BY <1>2 DEF InboxOK, AsksBehind, OutboxOK
<1>9. client'.cursor <= Len(log')  BY <1>1 DEF Base, Links
<1>10. Links'  BY <1>1, <1>3, <1>7, <1>8, <1>9 DEF Links
<1> QED  BY <1>4, <1>10 DEF Base

LEMMA BaseStart == Init => Base
<1> SUFFICES ASSUME Init PROVE Base  OBVIOUS
<1>1. /\ log = <<>> /\ due = {} /\ conn = [c \in Conns |-> Unused]
      /\ client = [sock |-> NoConn, cursor |-> 0, have |-> {}, pending |-> {}]
      /\ inbox = [c \in Conns |-> <<>>] /\ outbox = [c \in Conns |-> <<>>]
      /\ acked = {} /\ nacked = {}
  BY DEF Init, LogInit
<1>2. <<>> \in Seq(Frames) /\ Len(<<>>) = 0 /\ <<>> \in Seq(Requests)  BY EmptySeq
<1>3. 0 \in 0..MaxLog /\ {} \in SUBSET (1..MaxLog) /\ 0 <= MaxLog  BY SyncLimitAssumption
<1>4. /\ client.sock = NoConn /\ client.cursor = 0 /\ client.pending = {}
  BY <1>1
<1>5. client \in ClientState  BY <1>1, <1>3 DEF ClientState
<1>6. Shape
  <2>1. IsFiniteSet(client.pending)  BY <1>4, FS_EmptySet
  <2>2. Len(log) <= MaxLog /\ log \in Seq(Requests)  BY <1>1, <1>2, <1>3
  <2>3. conn \in [Conns -> ConnState]  BY <1>1, UnusedFields
  <2>4. inbox \in [Conns -> Seq(Frames)] /\ outbox \in [Conns -> Seq(Frames)]  BY <1>1, <1>2
  <2> QED  BY <1>1, <1>5, <2>1, <2>2, <2>3, <2>4 DEF Shape
<1>7. HandlerOK(Unused, 0)  BY UnusedFields DEF HandlerOK
<1>8. \A m, n : InboxOK(<<>>, m, n) /\ AsksBehind(<<>>, n) /\ OutboxOK(<<>>, n)
  BY <1>2 DEF InboxOK, AsksBehind, OutboxOK
<1>9. Len(log) = 0 /\ \A c \in Conns : conn[c] = Unused /\ inbox[c] = <<>> /\ outbox[c] = <<>>
  BY <1>1, <1>2
<1>10. Links  BY <1>4, <1>7, <1>8, <1>9 DEF Links
<1> QED  BY <1>6, <1>10 DEF Base

LEMMA BaseNext == Base /\ [Next]_vars => Base'
<1> SUFFICES ASSUME Base, [Next]_vars PROVE Base'  OBVIOUS
<1>1. ASSUME NEW c \in Conns,
             Connect(c) \/ TaskStep(c) \/ SessionRefused(c) \/ RefuseSubscribe(c)
               \/ SubscribeRefused(c) \/ ReadFails(c) \/ AppendRefused(c) \/ Unregister(c)
      PROVE  Base'
  <2>1. CASE TaskStep(c)
    BY <2>1, TakeHelloBase, TakeTooEarlyBase, TakeSubscribeBase, TakeAppendBase, SessionValidBase,
       ReadPageBase, SendPageBase, LookupBase, StoreAppendBase, FanOutOwnBase, AckAppendBase
       DEF TaskStep
  <2> QED  BY <1>1, <2>1, ConnectBase, SessionRefusedBase, RefuseSubscribeBase,
              SubscribeRefusedBase, ReadFailsBase, AppendRefusedBase, UnregisterBase
<1>2. CASE Cut
  BY <1>2, CutDoes, DropsBase
<1>3. CASE UNCHANGED vars
  <2>1. UNCHANGED <<log, due, client, conn, inbox, outbox, acked, nacked>>
    BY <1>3 DEF vars, logVars, linkVars, history
  <2> QED  BY <2>1 DEF Base, Shape, Links
<1> QED  BY <1>1, <1>2, <1>3, RefuseHelloBase, ClientAppendsBase, ReceivesBase, CrashBase,
            OtherStoresBase, OtherTellsBase, OtherLostBase DEF Next

LEMMA BaseInvariant == Spec => []Base
BY BaseStart, BaseNext, PTL DEF Spec


-----------------------------------------------------------------------------
(* What the client misses is on its way.                                   *)

(* Queue q brings event s, or takes the cursor over it. *)
Brings(q, s) == \E i \in 1..Len(q) : s \in q[i].seqs
Reaches(q, s) == \E i \in 1..Len(q) : s <= q[i].cursor

(* What the handler of a connection that is m still has to put on a page. *)
Pends(m, n) ==
    IF m.pc \in {"subscribe", "read"} THEN (m.cursor + 1)..n
    ELSE IF m.pc = "page" THEN m.page ELSE {}

(* The client has event s, or it is recorded as lost. *)
Kept == client.have \cup abandoned

(* The connection is m, q is on its way to the client, K is kept, D is due, *)
(* the client's cursor is at k and n events are stored.  Registered, the    *)
(* connection brings everything that is not kept; not registered, it takes  *)
(* the cursor over nothing that is neither kept nor brought.                *)
WayOK(K, q, m, D, k, n) ==
    \A s \in 1..n :
       /\ m.sub /\ ~m.closing => s \in K \/ Brings(q, s) \/ s \in Pends(m, n) \/ s \in D
       /\ ~(m.sub /\ ~m.closing) /\ (s <= k \/ Reaches(q, s)) => s \in K \/ Brings(q, s)

WayInv ==
    /\ client.sock = NoConn => \A s \in 1..client.cursor : s \in Kept
    /\ \A c \in Conns : c = client.sock =>
          WayOK(Kept, outbox[c], conn[c], due, client.cursor, Len(log))

LEMMA PopWay ==
    ASSUME NEW q, NEW p, Popped(q, p), NEW s
    PROVE  /\ Brings(q, s) <=> Brings(p, s) \/ s \in q[1].seqs
           /\ Reaches(q, s) <=> Reaches(p, s) \/ s <= q[1].cursor
<1>1. \A i \in 1..Len(q) : i = 1 \/ (i - 1 \in 1..Len(p) /\ p[i - 1] = q[i])
  <2> SUFFICES ASSUME NEW i \in 1..Len(q), i # 1 PROVE i - 1 \in 1..Len(p) /\ p[i - 1] = q[i]
    OBVIOUS
  <2>1. i - 1 \in 1..Len(p) /\ (i - 1) + 1 = i  BY DEF Popped
  <2>2. p[i - 1] = q[(i - 1) + 1]  BY <2>1 DEF Popped
  <2> QED  BY <2>1, <2>2
<1>2. 1 \in 1..Len(q) /\ \A i \in 1..Len(p) : i + 1 \in 1..Len(q) /\ p[i] = q[i + 1]  BY DEF Popped
<1> QED  BY <1>1, <1>2 DEF Brings, Reaches

LEMMA PushWay ==
    ASSUME NEW q, NEW p, NEW f, Pushed(q, p, f), NEW s
    PROVE  /\ Brings(p, s) <=> Brings(q, s) \/ s \in f.seqs
           /\ Reaches(p, s) <=> Reaches(q, s) \/ s <= f.cursor
<1>1. \A i \in 1..Len(p) : (i \in 1..Len(q) /\ p[i] = q[i]) \/ p[i] = f  BY DEF Pushed
<1>2. \A i \in 1..Len(q) : i \in 1..Len(p) /\ p[i] = q[i]  BY DEF Pushed
<1>3. Len(p) \in 1..Len(p) /\ p[Len(p)] = f  BY DEF Pushed
<1> QED  BY <1>1, <1>2, <1>3 DEF Brings, Reaches

LEMMA QuietWay ==
    ASSUME NEW q, NEW p, Quietly(q, p), NEW s \in Nat \ {0}
    PROVE  (Brings(p, s) <=> Brings(q, s)) /\ (Reaches(p, s) <=> Reaches(q, s))
<1>1. \A i \in 1..Len(p) : (i \in 1..Len(q) /\ p[i] = q[i]) \/ (p[i].seqs = {} /\ p[i].cursor = 0)
  BY DEF Quietly
<1>2. \A i \in 1..Len(q) : i \in 1..Len(p) /\ p[i] = q[i]  BY DEF Quietly
<1>3. ~(s <= 0) OBVIOUS
<1> QED  BY <1>1, <1>2, <1>3 DEF Brings, Reaches

LEMMA EmptyWay == \A s : ~Brings(<<>>, s) /\ ~Reaches(<<>>, s)
BY DEF Brings, Reaches

LEMMA MoreKept ==
    ASSUME NEW K, NEW L, K \subseteq L, NEW q, NEW m, NEW D, NEW k, NEW n, WayOK(K, q, m, D, k, n)
    PROVE  WayOK(L, q, m, D, k, n)
BY DEF WayOK

(* The queue carries the same and the handler owes the same. *)
LEMMA SameWay ==
    ASSUME NEW K, NEW L, K \subseteq L, NEW q, NEW p, NEW m, NEW l, NEW D, NEW k, NEW n \in Nat,
           WayOK(K, q, m, D, k, n),
           \A s \in 1..n : (Brings(p, s) <=> Brings(q, s)) /\ (Reaches(p, s) <=> Reaches(q, s)),
           (m.sub /\ ~m.closing) <=> (l.sub /\ ~l.closing), Pends(l, n) = Pends(m, n)
    PROVE  WayOK(L, p, l, D, k, n)
BY DEF WayOK

(* What c carries, is about to carry, and leaves behind. *)
LEMMA CarriedIs == ASSUME NEW c, NEW s PROVE s \in Carried(c) <=> Brings(outbox[c], s)
BY DEF Carried, Brings

LEMMA BacklogIs ==
    ASSUME Base, NEW c \in Conns
    PROVE  /\ Pends(conn[c], Len(log)) \subseteq Backlog(c)
           /\ conn[c].sub => Backlog(c) = Pends(conn[c], Len(log))
<1>1. CASE conn[c].pc \in {"subscribe", "read"}
  <2>1. Backlog(c) = (conn[c].cursor + 1)..Len(log)  BY <1>1 DEF Backlog
  <2> QED  BY <1>1, <2>1 DEF Pends
<1>2. CASE conn[c].pc = "page"
  <2>1. Backlog(c) = conn[c].page  BY <1>2 DEF Backlog
  <2> QED  BY <1>2, <2>1 DEF Pends
<1>3. CASE conn[c].pc \notin {"subscribe", "read", "page"}
  <2>1. Pends(conn[c], Len(log)) = {}  BY <1>3 DEF Pends
  <2>2. ASSUME conn[c].sub PROVE Backlog(c) = {}
    <3>1. conn[c].hello  BY <2>2, BaseOf DEF HandlerOK
    <3>2. Queued(c, "subscribe") = {}
      BY <2>2, BaseOf DEF Queued, InboxOK
    <3>3. Backlog(c) = UNION {(inbox[c][i].cursor + 1)..Len(log) : i \in Queued(c, "subscribe")}
      BY <1>3, <3>1 DEF Backlog
    <3> QED  BY <3>2, <3>3
  <2> QED  BY <2>1, <2>2
<1> QED  BY <1>1, <1>2, <1>3

LEMMA InFlightHas ==
    ASSUME Base, NEW c \in Conns, NEW s,
           Brings(outbox[c], s) \/ s \in Pends(conn[c], Len(log)) \/ (conn[c].sub /\ s \in due)
    PROVE  s \in InFlight(c)
BY CarriedIs, BacklogIs DEF InFlight

LEMMA ReachCovers ==
    ASSUME Base, NEW c \in Conns, NEW s \in Nat \ {0}, s <= client.cursor \/ Reaches(outbox[c], s)
    PROVE  s \in 1..Reach(c)
<1> DEFINE S == {client.cursor} \cup {outbox[c][i].cursor : i \in 1..Len(outbox[c])}
<1>1. Len(log) \in Nat /\ client.cursor \in Nat /\ client.cursor <= Len(log)
  BY ShapeLen, ClientTypes DEF Base, Links
<1>2. \A i \in 1..Len(outbox[c]) : outbox[c][i].cursor \in Nat /\ outbox[c][i].cursor <= Len(log)
  <2>1. outbox[c] \in Seq(Frames) /\ OutboxOK(outbox[c], Len(log))  BY BaseOf
  <2>2. \A i \in 1..Len(outbox[c]) : outbox[c][i] \in Frames /\ FrameOK(outbox[c][i], Len(log))
    BY <2>1, ElementOfSeq DEF OutboxOK
  <2> QED  BY <2>2, FrameTypes DEF FrameOK
<1>3. S \in SUBSET (0..Len(log)) /\ S # {}  BY <1>1, <1>2
<1>4. Reach(c) = LastOf(S)  BY DEF Reach
<1>5. \E o \in S : s <= o  BY DEF Reaches
<1> HIDE DEF S
<1>6. LastOf(S) \in S /\ \A o \in S : o <= LastOf(S)  BY <1>1, <1>3, MaxExists
<1>7. PICK o \in S : s <= o  BY <1>5
<1>8. o \in Nat /\ LastOf(S) \in Nat /\ o <= LastOf(S)
  <2>1. o \in 0..Len(log)  BY <1>3
  <2>2. LastOf(S) \in 0..Len(log)  BY <1>3, <1>6
  <2>3. o <= LastOf(S)  BY <1>6
  <2> QED  BY <1>1, <2>1, <2>2, <2>3
<1>9. s <= LastOf(S)  BY <1>7, <1>8
<1> QED  BY <1>4, <1>8, <1>9

(* A registered connection that gives up leaves behind, on record, what the *)
(* cursor may pass.                                                         *)
LEMMA LeftBehindHas ==
    ASSUME Base, NEW c \in Conns, c = client.sock, conn[c].sub, NEW s \in Nat \ {0},
           s \in Pends(conn[c], Len(log)) \/ s \in due, ~Brings(outbox[c], s),
           s <= client.cursor \/ Reaches(outbox[c], s)
    PROVE  s \in LeftBehind(c)
<1>1. s \in InFlight(c)  BY InFlightHas
<1>2. s \notin Carried(c)  BY CarriedIs
<1>3. s \in 1..Reach(c)  BY ReachCovers
<1> QED  BY <1>1, <1>2, <1>3 DEF LeftBehind

LEMMA WayOf ==
    ASSUME WayInv, NEW c \in Conns, c = client.sock
    PROVE  WayOK(Kept, outbox[c], conn[c], due, client.cursor, Len(log))
BY DEF WayInv

(* A step of connection c's task that tells and stores nothing. *)
LEMMA TaskWay ==
    ASSUME Base, WayInv, NEW c \in Conns, OutOthers(c), \A e \in Conns : e # c => conn'[e] = conn[e],
           UNCHANGED <<log, due, client>>, abandoned \subseteq abandoned',
           c = client.sock =>
             WayOK(Kept', outbox'[c], conn'[c], due, client.cursor, Len(log))
    PROVE  WayInv'
<1>1. Kept \subseteq Kept'  BY DEF Kept
<1>2. ASSUME NEW e \in Conns, e = client.sock
      PROVE  WayOK(Kept', outbox'[e], conn'[e], due, client.cursor, Len(log))
  <2>1. CASE e = c  BY <1>2, <2>1
  <2>2. CASE e # c
    <3>1. outbox'[e] = outbox[e] /\ conn'[e] = conn[e]  BY <2>2 DEF OutOthers
    <3>2. WayOK(Kept, outbox[e], conn[e], due, client.cursor, Len(log))  BY <1>2, WayOf
    <3>3. WayOK(Kept', outbox[e], conn[e], due, client.cursor, Len(log))  BY <1>1, <3>2, MoreKept
    <3> QED  BY <3>1, <3>3
  <2> QED  BY <2>1, <2>2
<1>3. client.sock = NoConn => \A s \in 1..client.cursor : s \in Kept'  BY <1>1 DEF WayInv
<1> QED  BY <1>2, <1>3 DEF WayInv

LEMMA QuietTaskWay ==
    ASSUME Base, WayInv, NEW c \in Conns, OutOthers(c), \A e \in Conns : e # c => conn'[e] = conn[e],
           UNCHANGED <<log, due, client>>, abandoned \subseteq abandoned',
           \A s \in 1..Len(log) : /\ Brings(outbox'[c], s) <=> Brings(outbox[c], s)
                                  /\ Reaches(outbox'[c], s) <=> Reaches(outbox[c], s),
           (conn[c].sub /\ ~conn[c].closing) <=> (conn'[c].sub /\ ~conn'[c].closing),
           Pends(conn'[c], Len(log)) = Pends(conn[c], Len(log))
    PROVE  WayInv'
<1>1. Kept \subseteq Kept'  BY DEF Kept
<1>2. Len(log) \in Nat  BY BaseOf
<1>3. ASSUME c = client.sock
      PROVE  WayOK(Kept', outbox'[c], conn'[c], due, client.cursor, Len(log))
  <2>1. WayOK(Kept, outbox[c], conn[c], due, client.cursor, Len(log))  BY <1>3, WayOf
  <2> QED  BY <1>1, <1>2, <2>1, SameWay
<1> QED  BY <1>3, TaskWay

LEMMA TakeHelloWay == ASSUME Base, WayInv, NEW c \in Conns, TakeHello(c) PROVE WayInv'
<1>1. UNCHANGED <<log, due, client, outbox, abandoned>>
  BY DEF TakeHello, logVars, history
<1>2. Turns(c, conn[c].pc, TRUE, conn[c].sub, conn[c].closing, conn[c].req,
            conn[c].cursor, conn[c].page)
  BY BaseOf, TakeHelloTurns
<1>3. OutOthers(c) /\ outbox'[c] = outbox[c]  BY <1>1, BaseOf, OutSame
<1>4. Pends(conn'[c], Len(log)) = Pends(conn[c], Len(log))  BY <1>2 DEF Turns, Pends
<1> QED  BY <1>1, <1>2, <1>3, <1>4, QuietTaskWay DEF Turns

LEMMA QuietSame ==
    ASSUME Base, NEW c \in Conns, Quietly(outbox[c], outbox'[c])
    PROVE  \A s \in 1..Len(log) : /\ Brings(outbox'[c], s) <=> Brings(outbox[c], s)
                                  /\ Reaches(outbox'[c], s) <=> Reaches(outbox[c], s)
<1>1. \A s \in 1..Len(log) : s \in Nat \ {0}  BY BaseOf
<1> QED  BY <1>1, QuietWay

LEMMA RefuseHelloWay ==
    ASSUME Base, WayInv, NEW c \in Conns, NEW closes \in BOOLEAN, RefuseHello(c, closes)
    PROVE  WayInv'
<1>1. UNCHANGED <<log, due, client, abandoned>> /\ Takes(c, "hello")
  BY DEF RefuseHello, logVars, history
<1>2. Turns(c, conn[c].pc, conn[c].hello, conn[c].sub, closes, conn[c].req,
            conn[c].cursor, conn[c].page)
  BY BaseOf, RefuseHelloTurns
<1>3. inbox[c][1].kind = "hello" /\ 1 \in 1..Len(inbox[c])  BY <1>1, BaseOf, TakesHead
<1>4. ~conn[c].sub  BY <1>3, BaseOf DEF InboxOK, HandlerOK
<1>5. OutOthers(c) /\ Quietly(outbox[c], outbox'[c])  BY RefuseHelloOut
<1>6. Pends(conn'[c], Len(log)) = Pends(conn[c], Len(log))  BY <1>2 DEF Turns, Pends
<1>7. conn'[c].sub = conn[c].sub /\ \A e \in Conns : e # c => conn'[e] = conn[e]  BY <1>2 DEF Turns
<1> QED  BY <1>1, <1>4, <1>5, <1>6, <1>7, QuietSame, QuietTaskWay

LEMMA TakeTooEarlyWay == ASSUME Base, WayInv, NEW c \in Conns, TakeTooEarly(c) PROVE WayInv'
<1>1. UNCHANGED <<log, due, client, conn, abandoned>>
  BY DEF TakeTooEarly, logVars, history
<1>2. OutOthers(c) /\ Quietly(outbox[c], outbox'[c])  BY TakeTooEarlyOut
<1> QED  BY <1>1, <1>2, QuietSame, QuietTaskWay

LEMMA RefuseSubscribeWay == ASSUME Base, WayInv, NEW c \in Conns, RefuseSubscribe(c) PROVE WayInv'
<1>1. UNCHANGED <<log, due, client, conn, outbox>> /\ abandoned \subseteq abandoned'
  BY DEF RefuseSubscribe, logVars
<1>2. OutOthers(c) /\ outbox'[c] = outbox[c]  BY <1>1, BaseOf, OutSame
<1> QED  BY <1>1, <1>2, QuietTaskWay

(* Registered for what is after a cursor the client has reached. *)
LEMMA TakeSubscribeWay == ASSUME Base, WayInv, NEW c \in Conns, TakeSubscribe(c) PROVE WayInv'
<1>1. Takes(c, "subscribe") /\ conn[c].hello /\ UNCHANGED <<log, due, client, outbox, abandoned>>
  BY DEF TakeSubscribe, logVars, history
<1>2. Turns(c, "subscribe", conn[c].hello, TRUE, conn[c].closing, conn[c].req,
            inbox[c][1].cursor, conn[c].page)
  BY BaseOf, TakeSubscribeTurns
<1>3. inbox[c][1].kind = "subscribe" /\ 1 \in 1..Len(inbox[c]) /\ inbox[c][1] \in Frames
  BY <1>1, BaseOf, TakesHead
<1>4. ~conn[c].sub /\ ~conn[c].closing  BY <1>1, <1>3, BaseOf DEF InboxOK
<1>5. OutOthers(c) /\ outbox'[c] = outbox[c]  BY <1>1, BaseOf, OutSame
<1>6. /\ conn'[c].sub /\ ~conn'[c].closing
      /\ Pends(conn'[c], Len(log)) = (inbox[c][1].cursor + 1)..Len(log)
      /\ \A e \in Conns : e # c => conn'[e] = conn[e]
  BY <1>2, <1>4 DEF Turns, Pends
<1>7. ASSUME c = client.sock
      PROVE  WayOK(Kept', outbox'[c], conn'[c], due, client.cursor, Len(log))
  <2>1. inbox[c][1].cursor <= client.cursor  BY <1>3, <1>7, BaseOf DEF AsksBehind
  <2>2. inbox[c][1].cursor \in Nat /\ client.cursor \in Nat /\ Len(log) \in Nat
    BY <1>3, FrameTypes, ClientTypes, ShapeLen DEF Base
  <2>3. ASSUME NEW s \in 1..Len(log)
        PROVE  s <= client.cursor \/ s \in (inbox[c][1].cursor + 1)..Len(log)
    BY <2>1, <2>2
  <2>4. ASSUME NEW s \in 1..Len(log), s <= client.cursor
        PROVE  s \in Kept \/ Brings(outbox[c], s)
    BY <1>4, <1>7, <2>4, WayOf DEF WayOK
  <2>5. Kept' = Kept  BY <1>1 DEF Kept
  <2> QED  BY <1>5, <1>6, <2>3, <2>4, <2>5 DEF WayOK
<1> QED  BY <1>1, <1>5, <1>6, <1>7, TaskWay

LEMMA TakeAppendWay == ASSUME Base, WayInv, NEW c \in Conns, TakeAppend(c) PROVE WayInv'
<1>1. UNCHANGED <<log, due, client, outbox, abandoned>> /\ Takes(c, "append")
  BY DEF TakeAppend, logVars, history
<1>2. Turns(c, "append", conn[c].hello, conn[c].sub, conn[c].closing, inbox[c][1].req,
            conn[c].cursor, conn[c].page)
  BY BaseOf, TakeAppendTurns
<1>3. OutOthers(c) /\ outbox'[c] = outbox[c]  BY <1>1, BaseOf, OutSame
<1>4. conn[c].pc = "idle"  BY <1>1 DEF Takes
<1>5. Pends(conn'[c], Len(log)) = Pends(conn[c], Len(log))  BY <1>2, <1>4 DEF Turns, Pends
<1> QED  BY <1>1, <1>2, <1>3, <1>5, QuietTaskWay DEF Turns

(* The connection gives up; LeftBehind is recorded. *)
LEMMA GivesUpWay ==
    ASSUME Base, WayInv, NEW c \in Conns, OutOthers(c), Quietly(outbox[c], outbox'[c]),
           \A e \in Conns : e # c => conn'[e] = conn[e], ~conn'[c].sub \/ conn'[c].closing,
           UNCHANGED <<log, due, client>>, abandoned' = abandoned \cup LeftBehind(c)
    PROVE  WayInv'
<1>1. ASSUME c = client.sock
      PROVE  WayOK(Kept', outbox'[c], conn'[c], due, client.cursor, Len(log))
  <2> SUFFICES ASSUME NEW s \in 1..Len(log), s <= client.cursor \/ Reaches(outbox'[c], s)
               PROVE  s \in Kept' \/ Brings(outbox'[c], s)
    BY DEF WayOK
  <2>1. /\ Brings(outbox'[c], s) <=> Brings(outbox[c], s)
        /\ Reaches(outbox'[c], s) <=> Reaches(outbox[c], s)
    BY QuietSame
  <2>2. WayOK(Kept, outbox[c], conn[c], due, client.cursor, Len(log))  BY <1>1, WayOf
  <2>3. s \in Nat \ {0}  BY BaseOf
  <2>4. Kept' = Kept \cup LeftBehind(c)  BY DEF Kept
  <2>5. CASE conn[c].sub /\ ~conn[c].closing
    <3>1. s \in Kept \/ Brings(outbox[c], s) \/ s \in Pends(conn[c], Len(log)) \/ s \in due
      BY <2>2, <2>5 DEF WayOK
    <3>2. s \in Kept \/ Brings(outbox[c], s) \/ s \in LeftBehind(c)
      BY <1>1, <2>1, <2>3, <2>5, <3>1, LeftBehindHas
    <3> QED  BY <2>1, <2>4, <3>2
  <2>6. CASE ~(conn[c].sub /\ ~conn[c].closing)
    <3>1. s \in Kept \/ Brings(outbox[c], s)  BY <2>1, <2>2, <2>6 DEF WayOK
    <3> QED  BY <2>1, <2>4, <3>1
  <2> QED  BY <2>5, <2>6
<1> QED  BY <1>1, TaskWay

LEMMA SessionRefusedWay == ASSUME Base, WayInv, NEW c \in Conns, SessionRefused(c) PROVE WayInv'
<1>1. UNCHANGED <<log, due, client>> /\ abandoned' = abandoned \cup LeftBehind(c)
  BY DEF SessionRefused, logVars
<1>2. Turns(c, "idle", conn[c].hello, conn[c].sub /\ conn[c].pc # "subscribe", TRUE, NoReq, 0, {})
  BY BaseOf, SessionRefusedTurns
<1>3. conn'[c].closing /\ \A e \in Conns : e # c => conn'[e] = conn[e]  BY <1>2 DEF Turns
<1> QED  BY <1>1, <1>3, SessionRefusedOut, GivesUpWay

LEMMA SubscribeRefusedWay == ASSUME Base, WayInv, NEW c \in Conns, SubscribeRefused(c) PROVE WayInv'
<1>1. UNCHANGED <<log, due, client, outbox>> /\ abandoned' = abandoned \cup LeftBehind(c)
  BY DEF SubscribeRefused, logVars, linkVars
<1>2. Turns(c, "idle", conn[c].hello, FALSE, conn[c].closing, NoReq, 0, {})
  BY BaseOf, SubscribeRefusedTurns
<1>3. ~conn'[c].sub /\ \A e \in Conns : e # c => conn'[e] = conn[e]  BY <1>2 DEF Turns
<1>4. OutOthers(c) /\ outbox'[c] = outbox[c]  BY <1>1, BaseOf, OutSame
<1>5. Quietly(outbox[c], outbox'[c])  BY <1>4, BaseOf, QuietlyRefl
<1> QED  BY <1>1, <1>3, <1>4, <1>5, GivesUpWay

LEMMA SessionValidWay == ASSUME Base, WayInv, NEW c \in Conns, SessionValid(c) PROVE WayInv'
<1>1. UNCHANGED <<log, due, client, outbox, abandoned>>
  BY DEF SessionValid, logVars, linkVars, history
<1>2. PICK p \in {"read", "lookup"} :
              /\ conn[c].pc = (IF p = "read" THEN "subscribe" ELSE "append")
              /\ Turns(c, p, conn[c].hello, conn[c].sub, conn[c].closing, conn[c].req,
                       conn[c].cursor, conn[c].page)
  BY SessionValidTurns
<1>3. OutOthers(c) /\ outbox'[c] = outbox[c]  BY <1>1, BaseOf, OutSame
<1>4. Pends(conn'[c], Len(log)) = Pends(conn[c], Len(log))
  <2>1. conn'[c].pc = p /\ conn'[c].cursor = conn[c].cursor /\ conn'[c].page = conn[c].page
    BY <1>2 DEF Turns
  <2>2. CASE p = "read"  BY <1>2, <2>1, <2>2 DEF Pends
  <2>3. CASE p = "lookup"  BY <1>2, <2>1, <2>3 DEF Pends
  <2> QED  BY <2>2, <2>3
<1> QED  BY <1>1, <1>2, <1>3, <1>4, QuietTaskWay DEF Turns

(* What is beyond the page is recorded. *)
LEMMA ReadPageWay == ASSUME Base, WayInv, NEW c \in Conns, ReadPage(c) PROVE WayInv'
<1> DEFINE page == FirstOf((conn[c].cursor + 1)..Len(log), PageSize)
<1>1. /\ conn[c].pc = "read" /\ UNCHANGED <<log, due, client, outbox>>
      /\ abandoned' = abandoned \cup
           IF c = client.sock THEN ((conn[c].cursor + 1)..Len(log)) \ conn'[c].page ELSE {}
  BY DEF ReadPage, logVars, linkVars
<1>2. Turns(c, "page", conn[c].hello, conn[c].sub, conn[c].closing, conn[c].req,
            conn[c].cursor, page)
  BY BaseOf, ReadPageTurns
<1> HIDE DEF page
<1>3. OutOthers(c) /\ outbox'[c] = outbox[c]  BY <1>1, BaseOf, OutSame
<1>4. /\ conn'[c].page = page /\ Pends(conn'[c], Len(log)) = page
      /\ conn'[c].sub = conn[c].sub /\ conn'[c].closing = conn[c].closing
      /\ \A e \in Conns : e # c => conn'[e] = conn[e]
  BY <1>2 DEF Turns, Pends
<1>5. Pends(conn[c], Len(log)) = (conn[c].cursor + 1)..Len(log)  BY <1>1 DEF Pends
<1>6. ASSUME c = client.sock
      PROVE  WayOK(Kept', outbox'[c], conn'[c], due, client.cursor, Len(log))
  <2>1. Kept' = Kept \cup (Pends(conn[c], Len(log)) \ Pends(conn'[c], Len(log)))
    BY <1>1, <1>4, <1>5, <1>6 DEF Kept
  <2>2. WayOK(Kept, outbox[c], conn[c], due, client.cursor, Len(log))  BY <1>6, WayOf
  <2> QED  BY <1>3, <1>4, <2>1, <2>2 DEF WayOK
<1>7. abandoned \subseteq abandoned'  BY <1>1
<1> QED  BY <1>1, <1>3, <1>4, <1>6, <1>7, TaskWay

LEMMA ReadFailsWay == ASSUME Base, WayInv, NEW c \in Conns, ReadFails(c) PROVE WayInv'
<1>1. /\ conn[c].pc = "read" /\ Goes(c, "page") /\ UNCHANGED <<log, due, client, outbox>>
      /\ abandoned' = abandoned \cup IF c = client.sock THEN Backlog(c) ELSE {}
  BY DEF ReadFails, logVars, linkVars
<1>2. Turns(c, "page", conn[c].hello, conn[c].sub, conn[c].closing, conn[c].req,
            conn[c].cursor, conn[c].page)
  BY <1>1, BaseOf, GoesTurns
<1>3. OutOthers(c) /\ outbox'[c] = outbox[c]  BY <1>1, BaseOf, OutSame
<1>4. /\ conn'[c].sub = conn[c].sub /\ conn'[c].closing = conn[c].closing
      /\ \A e \in Conns : e # c => conn'[e] = conn[e]
  BY <1>2 DEF Turns
<1>5. ASSUME c = client.sock
      PROVE  WayOK(Kept', outbox'[c], conn'[c], due, client.cursor, Len(log))
  <2>1. Kept \subseteq Kept' /\ Pends(conn[c], Len(log)) \subseteq Kept'
    BY <1>1, <1>5, BacklogIs DEF Kept
  <2>2. WayOK(Kept, outbox[c], conn[c], due, client.cursor, Len(log))  BY <1>5, WayOf
  <2> QED  BY <1>3, <1>4, <2>1, <2>2 DEF WayOK
<1>6. abandoned \subseteq abandoned'  BY <1>1
<1> QED  BY <1>1, <1>3, <1>4, <1>5, <1>6, TaskWay

LEMMA SendPageWay == ASSUME Base, WayInv, NEW c \in Conns, SendPage(c) PROVE WayInv'
<1>1. /\ conn[c].pc = "page" /\ conn' = [conn EXCEPT ![c] = Done(c)]
      /\ UNCHANGED <<log, due, client, abandoned>>
  BY DEF SendPage, logVars, history
<1>2. Turns(c, "idle", conn[c].hello, conn[c].sub, conn[c].closing, NoReq, 0, {})
  BY <1>1, BaseOf, DoneTurns
<1>3. conn[c].sub /\ ~conn[c].closing  BY <1>1, BaseOf DEF HandlerOK
<1>4. OutOthers(c) /\ Pushed(outbox[c], outbox'[c], PageFrame(c))  BY <1>3, SendPageOut
<1>5. PageFrame(c).seqs = conn[c].page  BY PageFrameOK
<1>6. /\ conn'[c].sub /\ ~conn'[c].closing /\ \A e \in Conns : e # c => conn'[e] = conn[e]
  BY <1>2, <1>3 DEF Turns
<1>7. Pends(conn[c], Len(log)) = conn[c].page  BY <1>1 DEF Pends
<1>8. ASSUME c = client.sock
      PROVE  WayOK(Kept', outbox'[c], conn'[c], due, client.cursor, Len(log))
  <2>1. Kept' = Kept  BY <1>1 DEF Kept
  <2>2. WayOK(Kept, outbox[c], conn[c], due, client.cursor, Len(log))  BY <1>8, WayOf
  <2>3. \A s : Brings(outbox'[c], s) <=> Brings(outbox[c], s) \/ s \in Pends(conn[c], Len(log))
    BY <1>4, <1>5, <1>7, PushWay
  <2> QED  BY <1>3, <1>6, <2>1, <2>2, <2>3 DEF WayOK
<1> QED  BY <1>1, <1>4, <1>6, <1>8, TaskWay

LEMMA DonePends ==
    ASSUME NEW c \in Conns, conn[c].pc \notin {"subscribe", "read", "page"},
           Turns(c, "idle", conn[c].hello, conn[c].sub, conn[c].closing, NoReq, 0, {})
    PROVE  /\ Pends(conn'[c], Len(log)) = Pends(conn[c], Len(log))
           /\ conn'[c].sub = conn[c].sub /\ conn'[c].closing = conn[c].closing
           /\ \A e \in Conns : e # c => conn'[e] = conn[e]
BY DEF Turns, Pends

LEMMA AppendRefusedWay == ASSUME Base, WayInv, NEW c \in Conns, AppendRefused(c) PROVE WayInv'
<1>1. /\ conn[c].pc \in {"lookup", "insert"} /\ conn' = [conn EXCEPT ![c] = Done(c)]
      /\ UNCHANGED <<log, due, client, abandoned>>
  BY DEF AppendRefused, logVars, history
<1>2. Turns(c, "idle", conn[c].hello, conn[c].sub, conn[c].closing, NoReq, 0, {})
  BY <1>1, BaseOf, DoneTurns
<1>3. conn[c].pc \notin {"subscribe", "read", "page"}  BY <1>1
<1> QED  BY <1>1, <1>2, <1>3, DonePends, AppendRefusedOut, QuietSame, QuietTaskWay

LEMMA LookupWay == ASSUME Base, WayInv, NEW c \in Conns, LookupRequest(c) PROVE WayInv'
<1>1. conn[c].pc = "lookup" /\ UNCHANGED <<log, due, client, outbox, abandoned>>
  BY DEF LookupRequest, logVars, linkVars, history
<1>2. PICK p \in {"ack", "insert"} :
         Turns(c, p, conn[c].hello, conn[c].sub, conn[c].closing, conn[c].req,
               conn[c].cursor, conn[c].page)
  BY LookupTurns
<1>3. OutOthers(c) /\ outbox'[c] = outbox[c]  BY <1>1, BaseOf, OutSame
<1>4. Pends(conn'[c], Len(log)) = Pends(conn[c], Len(log))  BY <1>1, <1>2 DEF Turns, Pends
<1> QED  BY <1>1, <1>2, <1>3, <1>4, QuietTaskWay DEF Turns

LEMMA AckAppendWay == ASSUME Base, WayInv, NEW c \in Conns, AckAppend(c) PROVE WayInv'
<1>1. /\ conn[c].pc = "ack" /\ conn' = [conn EXCEPT ![c] = Done(c)]
      /\ UNCHANGED <<log, due, client, abandoned>>
  BY DEF AckAppend, logVars, history
<1>2. Turns(c, "idle", conn[c].hello, conn[c].sub, conn[c].closing, NoReq, 0, {})
  BY <1>1, BaseOf, DoneTurns
<1>3. /\ OutOthers(c) /\ conn[c].req \in Own
      /\ conn[c].closing => outbox'[c] = outbox[c]
      /\ ~conn[c].closing => Pushed(outbox[c], outbox'[c], AckFrame(conn[c].req))
  BY AckAppendOut
<1>4. AckFrame(conn[c].req).seqs = {} /\ AckFrame(conn[c].req).cursor = 0
  BY <1>3, BaseOf, AckFrameOK
<1>5. ASSUME NEW s \in 1..Len(log)
      PROVE  /\ Brings(outbox'[c], s) <=> Brings(outbox[c], s)
             /\ Reaches(outbox'[c], s) <=> Reaches(outbox[c], s)
  <2>1. ~(s <= 0)  BY BaseOf
  <2> QED  BY <1>3, <1>4, <2>1, PushWay
<1>6. conn[c].pc \notin {"subscribe", "read", "page"}  BY <1>1
<1> QED  BY <1>1, <1>2, <1>3, <1>5, <1>6, DonePends, QuietTaskWay

LEMMA UnregisterWay == ASSUME Base, WayInv, NEW c \in Conns, Unregister(c) PROVE WayInv'
<1>1. /\ outbox' = [outbox EXCEPT ![c] = <<>>] /\ client.sock # c
      /\ UNCHANGED <<log, due, client, abandoned>>
  BY DEF Unregister, logVars, history
<1>2. Turns(c, "gone", FALSE, FALSE, FALSE, NoReq, 0, {})  BY BaseOf, UnregisterTurns
<1>3. <<>> \in Seq(Frames)  BY EmptySeq
<1>4. OutOthers(c)  BY <1>1, <1>3, ShapeOut DEF OutOthers, Base
<1> QED  BY <1>1, <1>2, <1>4, TaskWay DEF Turns

(* An event is stored: it is due, and no cursor is at it yet. *)
LEMMA StoreWay ==
    ASSUME Base, WayInv, NEW r \in Requests, Insert(r), Len(log) < MaxLog,
           UNCHANGED <<client, outbox, abandoned>>,
           \A e \in Conns : \/ conn'[e] = conn[e]
                            \/ /\ conn'[e].sub = conn[e].sub /\ conn'[e].closing = conn[e].closing
                               /\ Pends(conn[e], Len(log)) = {}
    PROVE  WayInv'
<1>1. /\ Len(log') = Len(log) + 1 /\ Len(log) \in Nat /\ due' = due \cup {Len(log')}
  BY InsertGrows DEF Base
<1>2. Kept' = Kept  BY DEF Kept
<1>3. ASSUME NEW e \in Conns, e = client.sock
      PROVE  WayOK(Kept, outbox[e], conn'[e], due', client.cursor, Len(log'))
  <2>1. WayOK(Kept, outbox[e], conn[e], due, client.cursor, Len(log))  BY <1>3, WayOf
  <2>2. Pends(conn[e], Len(log)) \subseteq Pends(conn'[e], Len(log'))
    <3>1. CASE conn'[e] = conn[e]
      <4>1. conn[e].cursor \in Nat  BY BaseOf, ConnTypes
      <4>2. (conn[e].cursor + 1)..Len(log) \subseteq (conn[e].cursor + 1)..Len(log')
        BY <1>1, <4>1
      <4> QED  BY <3>1, <4>2 DEF Pends
    <3> QED  BY <3>1
  <2>3. conn'[e].sub = conn[e].sub /\ conn'[e].closing = conn[e].closing  OBVIOUS
  <2>4. ASSUME NEW s \in 1..Len(log')
        PROVE  s \in 1..Len(log) \/ s = Len(log')
    BY <1>1
  <2>5. ~(Len(log') <= client.cursor) /\ ~Reaches(outbox[e], Len(log'))
    <3>1. client.cursor \in Nat /\ client.cursor <= Len(log)  BY ClientTypes DEF Base, Links
    <3>2. OutboxOK(outbox[e], Len(log)) /\ outbox[e] \in Seq(Frames)  BY BaseOf
    <3>3. \A i \in 1..Len(outbox[e]) : outbox[e][i].cursor \in Nat /\ outbox[e][i].cursor <= Len(log)
      BY <3>2, ElementOfSeq, FrameTypes DEF OutboxOK, FrameOK
    <3>4. \A i \in 1..Len(outbox[e]) : ~(Len(log') <= outbox[e][i].cursor)  BY <1>1, <3>3
    <3>5. ~(Len(log') <= client.cursor)  BY <1>1, <3>1
    <3> QED  BY <3>4, <3>5 DEF Reaches
  <2> QED  BY <1>1, <2>1, <2>2, <2>3, <2>4, <2>5 DEF WayOK
<1> QED  BY <1>2, <1>3 DEF WayInv

LEMMA StoreAppendWay == ASSUME Base, WayInv, NEW c \in Conns, StoreAppend(c) PROVE WayInv'
<1>1. /\ conn[c].pc = "insert" /\ Len(log) < MaxLog /\ Insert(conn[c].req)
      /\ UNCHANGED <<client, outbox, abandoned>>
  BY DEF StoreAppend, linkVars, history
<1>2. Turns(c, "tell", conn[c].hello, conn[c].sub, conn[c].closing, conn[c].req,
            Len(log) + 1, conn[c].page)
  BY BaseOf, StoreAppendTurns
<1>3. conn[c].req \in Requests  BY <1>1, BaseOf, OwnAssumption DEF HandlerOK
<1>4. Pends(conn[c], Len(log)) = {}  BY <1>1 DEF Pends
<1>5. /\ conn'[c].sub = conn[c].sub /\ conn'[c].closing = conn[c].closing
      /\ \A e \in Conns : e # c => conn'[e] = conn[e]
  BY <1>2 DEF Turns
<1> QED  BY <1>1, <1>3, <1>4, <1>5, StoreWay

LEMMA OtherStoresWay == ASSUME Base, WayInv, NEW r \in Requests \ Own, OtherStores(r) PROVE WayInv'
<1>1. Len(log) < MaxLog /\ Insert(r) /\ UNCHANGED <<client, conn, outbox, abandoned>>
  BY DEF OtherStores, linkVars, history
<1> QED  BY <1>1, StoreWay

(* An event goes to the write listener and is sent to whom it is due. *)
LEMMA TellWay ==
    ASSUME Base, WayInv, NEW s \in 1..Len(log), Broadcasts(s), due' = due \ {s},
           UNCHANGED <<log, client, abandoned>>,
           \A e \in Conns : /\ conn'[e].sub = conn[e].sub /\ conn'[e].closing = conn[e].closing
                            /\ Pends(conn'[e], Len(log)) = Pends(conn[e], Len(log))
    PROVE  WayInv'
<1>1. Kept' = Kept  BY DEF Kept
<1>2. ASSUME NEW e \in Conns, e = client.sock
      PROVE  WayOK(Kept, outbox'[e], conn'[e], due', client.cursor, Len(log))
  <2>1. WayOK(Kept, outbox[e], conn[e], due, client.cursor, Len(log))  BY <1>2, WayOf
  <2>2. CASE Served(e)
    <3>1. Pushed(outbox[e], outbox'[e], Delta(s)) /\ Delta(s).seqs = {s}
      BY <2>2, BroadcastOut, DeltaOK
    <3>2. \A o : Brings(outbox'[e], o) <=> Brings(outbox[e], o) \/ o = s  BY <3>1, PushWay
    <3>3. \A o \in 1..Len(log) : o \in Kept \/ Brings(outbox[e], o)
                                  \/ o \in Pends(conn[e], Len(log)) \/ o \in due
      BY <2>1, <2>2 DEF WayOK, Served
    <3>4. \A o \in 1..Len(log) : o \in Kept \/ Brings(outbox'[e], o)
                                  \/ o \in Pends(conn'[e], Len(log)) \/ o \in due'
      BY <3>2, <3>3
    <3>5. conn'[e].sub /\ ~conn'[e].closing  BY <2>2 DEF Served
    <3> QED  BY <3>4, <3>5 DEF WayOK
  <2>3. CASE ~Served(e)
    <3>1. outbox'[e] = outbox[e]  BY <2>3, BroadcastOut
    <3>2. ~(conn'[e].sub /\ ~conn'[e].closing) /\ ~(conn[e].sub /\ ~conn[e].closing)
      BY <2>3 DEF Served
    <3> QED  BY <2>1, <3>1, <3>2 DEF WayOK
  <2> QED  BY <2>2, <2>3
<1> QED  BY <1>1, <1>2 DEF WayInv

LEMMA FanOutOwnWay == ASSUME Base, WayInv, NEW c \in Conns, FanOutOwn(c) PROVE WayInv'
<1>1. /\ conn[c].cursor \in 1..Len(log) /\ conn[c].pc = "tell"
      /\ due' = due \ {conn[c].cursor} /\ Broadcasts(conn[c].cursor)
      /\ UNCHANGED <<log, client, abandoned>>
      /\ Turns(c, "ack", conn[c].hello, conn[c].sub, conn[c].closing, conn[c].req,
               conn[c].cursor, conn[c].page)
  BY FanOutOwnDoes
<1>2. Pends(conn'[c], Len(log)) = Pends(conn[c], Len(log))  BY <1>1 DEF Turns, Pends
<1>3. /\ conn'[c].sub = conn[c].sub /\ conn'[c].closing = conn[c].closing
      /\ \A e \in Conns : e # c => conn'[e] = conn[e]
  BY <1>1 DEF Turns
<1> QED  BY <1>1, <1>2, <1>3, TellWay

LEMMA OtherTellsWay == ASSUME Base, WayInv, NEW s \in due, OtherTells(s) PROVE WayInv'
BY OtherTellsDoes, TellWay

LEMMA OtherLostWay == ASSUME Base, WayInv, NEW s \in due, OtherLost(s) PROVE WayInv'
<1>1. /\ due' = due \ {s} /\ UNCHANGED <<log, client, conn, outbox>>
      /\ abandoned' = abandoned \cup
           IF IsOpen /\ s \notin Backlog(client.sock) \cup Carried(client.sock) THEN {s} ELSE {}
  BY DEF OtherLost, Lose, linkVars
<1>2. Kept \subseteq Kept'  BY <1>1 DEF Kept
<1>3. ASSUME NEW e \in Conns, e = client.sock
      PROVE  WayOK(Kept', outbox[e], conn[e], due', client.cursor, Len(log))
  <2>1. WayOK(Kept, outbox[e], conn[e], due, client.cursor, Len(log))  BY <1>3, WayOf
  <2>2. ASSUME conn[e].sub
        PROVE  s \in Kept' \/ Brings(outbox[e], s) \/ s \in Pends(conn[e], Len(log))
    <3>1. IsOpen  BY <1>3, ConnAssumption DEF IsOpen
    <3>2. s \in abandoned' \/ s \in Backlog(e) \/ s \in Carried(e)  BY <1>1, <1>3, <3>1
    <3> QED  BY <2>2, <3>2, BacklogIs, CarriedIs DEF Kept
  <2> QED  BY <1>1, <1>2, <2>1, <2>2 DEF WayOK
<1>4. client'.sock = NoConn => \A o \in 1..client'.cursor : o \in Kept'
  BY <1>1, <1>2 DEF WayInv
<1> QED  BY <1>1, <1>3, <1>4 DEF WayInv

(* The client's steps. *)
LEMMA ConnectWay == ASSUME Base, WayInv, NEW c \in Conns, Connect(c) PROVE WayInv'
<1>0. Shape  BY DEF Base
<1>1. /\ client.sock = NoConn /\ conn[c].pc = "unused"
      /\ client'.sock = c /\ client'.cursor = client.cursor /\ client'.have = client.have
      /\ UNCHANGED <<log, due, outbox, abandoned>>
  BY <1>0, ConnectDoes
<1>2. Turns(c, "idle", FALSE, FALSE, FALSE, NoReq, 0, {})  BY <1>0, ConnectTurns
<1>3. outbox'[c] = <<>>  BY <1>1, BaseOf
<1>4. Kept' = Kept /\ \A s \in 1..client.cursor : s \in Kept  BY <1>1 DEF Kept, WayInv
<1>5. ~conn'[c].sub  BY <1>2 DEF Turns
<1>6. WayOK(Kept, <<>>, conn'[c], due, client.cursor, Len(log))
  <2> SUFFICES ASSUME NEW s \in 1..Len(log), s <= client.cursor PROVE s \in Kept
    BY <1>5, EmptyWay DEF WayOK
  <2>1. client.cursor \in Nat  BY <1>0, ClientTypes
  <2>2. Len(log) \in Nat  BY <1>0, ShapeLen
  <2> QED  BY <1>4, <2>1, <2>2
<1>7. client'.sock # NoConn  BY <1>1, ConnAssumption
<1> QED  BY <1>1, <1>3, <1>4, <1>6, <1>7 DEF WayInv

LEMMA ClientAppendsWay == ASSUME Base, WayInv, NEW r \in Own, ClientAppends(r) PROVE WayInv'
<1>1. /\ client'.sock = client.sock /\ client'.cursor = client.cursor /\ client'.have = client.have
      /\ UNCHANGED <<log, due, conn, outbox, abandoned>>
  BY ClientAppendsDoes
<1>2. Kept' = Kept  BY <1>1 DEF Kept
<1> QED  BY <1>1, <1>2 DEF WayInv

(* What is in flight behind the cursor is recorded. *)
LEMMA InFlightOrKept ==
    ASSUME Base, WayInv, NEW c \in Conns, c = client.sock, NEW s \in 1..client.cursor
    PROVE  s \in Kept \/ s \in InFlight(c)
<1>1. WayOK(Kept, outbox[c], conn[c], due, client.cursor, Len(log))  BY WayOf
<1>2. client.cursor \in Nat /\ client.cursor <= Len(log) /\ Len(log) \in Nat
  BY ClientTypes, ShapeLen DEF Base, Links
<1>3. s \in 1..Len(log) /\ s <= client.cursor  BY <1>2
<1>4. s \in Kept \/ Brings(outbox[c], s) \/ (conn[c].sub /\ (s \in Pends(conn[c], Len(log)) \/ s \in due))
  BY <1>1, <1>3 DEF WayOK
<1> QED  BY <1>4, InFlightHas

LEMMA DropsWay ==
    ASSUME Base, WayInv, client.sock \in Conns, Drops(client.sock) PROVE WayInv'
<1>1. /\ client'.sock = NoConn /\ client'.cursor = client.cursor /\ client'.have = client.have
      /\ abandoned' = abandoned \cup (InFlight(client.sock) \cap (1..client.cursor))
  BY DropsDoes
<1>2. \A s \in 1..client.cursor : s \in Kept \/ s \in InFlight(client.sock)  BY InFlightOrKept
<1>3. \A s \in 1..client'.cursor : s \in Kept'  BY <1>1, <1>2 DEF Kept
<1> QED  BY <1>1, <1>3, ConnAssumption DEF WayInv

LEMMA CrashWay == ASSUME Base, WayInv, Crash PROVE WayInv'
<1>1. /\ client'.sock = NoConn /\ client'.cursor = client.cursor /\ client'.have = client.have
      /\ abandoned' = abandoned \cup
           ((due \cup IF IsOpen THEN InFlight(client.sock) ELSE {}) \cap (1..client.cursor))
  BY CrashDoes
<1>2. ASSUME NEW s \in 1..client.cursor PROVE s \in Kept'
  <2>1. CASE IsOpen
    <3>1. client.sock \in Conns  BY <2>1, ClientTypes DEF IsOpen, Base
    <3>2. s \in Kept \/ s \in InFlight(client.sock)  BY <3>1, InFlightOrKept
    <3> QED  BY <1>1, <2>1, <3>2 DEF Kept
  <2>2. CASE ~IsOpen  BY <1>1, <2>2 DEF IsOpen, WayInv, Kept
  <2> QED  BY <2>1, <2>2
<1> QED  BY <1>1, <1>2, ConnAssumption DEF WayInv

LEMMA ReceivesWay == ASSUME Base, WayInv, Receives PROVE WayInv'
<1> DEFINE c == client.sock
           f == outbox[c][1]
<1>1. /\ c \in Conns /\ UNCHANGED <<log, due, conn>>
      /\ Drops(c) \/ (Pops(c) /\ (Data(c) \/ Answer(c)))
  BY ReceivesDoes
<1>2. CASE Drops(c)  BY <1>1, <1>2, DropsWay
<1>3. CASE Pops(c) /\ (Data(c) \/ Answer(c))
  <2>1. client'.sock = c /\ Popped(outbox[c], outbox'[c]) /\ UNCHANGED abandoned  BY <1>3 DEF Pops
  <2>2. FrameOK(f, Len(log)) /\ f \in Frames  BY <1>1, <2>1, BaseOf, PopOutbox DEF Popped
  <2>3. client'.have = client.have \cup f.seqs
    BY <1>3, <2>2 DEF Data, Answer, FrameOK
  <2>4. client'.cursor = (IF client.cursor > f.cursor THEN client.cursor ELSE f.cursor)
        \/ client'.cursor = client.cursor
    BY <1>3 DEF Data, Answer
  <2>5. f.cursor \in Nat /\ client.cursor \in Nat /\ Len(log) \in Nat
    BY <2>2, FrameTypes, ClientTypes, ShapeLen DEF Base
  <2>6. \A s \in 1..Len(log) : s <= client'.cursor => s <= client.cursor \/ s <= f.cursor
    BY <2>4, <2>5
  <2>7. Kept' = Kept \cup f.seqs  BY <2>1, <2>3 DEF Kept
  <2>8. WayOK(Kept, outbox[c], conn[c], due, client.cursor, Len(log))  BY <1>1, WayOf
  <2>9. \A s : /\ Brings(outbox[c], s) <=> Brings(outbox'[c], s) \/ s \in f.seqs
               /\ Reaches(outbox[c], s) <=> Reaches(outbox'[c], s) \/ s <= f.cursor
    BY <2>1, PopWay
  <2> HIDE DEF f
  <2>10. WayOK(Kept', outbox'[c], conn[c], due, client'.cursor, Len(log))
    <3> SUFFICES ASSUME NEW s \in 1..Len(log)
                 PROVE  /\ conn[c].sub /\ ~conn[c].closing =>
                             s \in Kept' \/ Brings(outbox'[c], s) \/ s \in Pends(conn[c], Len(log))
                               \/ s \in due
                        /\ ~(conn[c].sub /\ ~conn[c].closing)
                             /\ (s <= client'.cursor \/ Reaches(outbox'[c], s)) =>
                               s \in Kept' \/ Brings(outbox'[c], s)
      BY DEF WayOK
    <3>1. /\ conn[c].sub /\ ~conn[c].closing =>
               s \in Kept \/ Brings(outbox[c], s) \/ s \in Pends(conn[c], Len(log)) \/ s \in due
          /\ ~(conn[c].sub /\ ~conn[c].closing)
               /\ (s <= client.cursor \/ Reaches(outbox[c], s)) => s \in Kept \/ Brings(outbox[c], s)
      BY <2>8 DEF WayOK
    <3>2. /\ Brings(outbox[c], s) <=> Brings(outbox'[c], s) \/ s \in f.seqs
          /\ Reaches(outbox[c], s) <=> Reaches(outbox'[c], s) \/ s <= f.cursor
          /\ s <= client'.cursor => s <= client.cursor \/ s <= f.cursor
          /\ s \in Kept' <=> s \in Kept \/ s \in f.seqs
      BY <2>6, <2>7, <2>9
    <3> QED  BY <3>1, <3>2
  <2>11. client'.sock # NoConn  BY <1>1, <2>1, ConnAssumption
  <2> QED  BY <1>1, <2>1, <2>10, <2>11 DEF WayInv
<1> QED  BY <1>1, <1>2, <1>3

LEMMA WayStart == Init => WayInv
BY ConnAssumption DEF Init, WayInv

LEMMA WayNext == Base /\ WayInv /\ [Next]_vars => WayInv'
<1> SUFFICES ASSUME Base, WayInv, [Next]_vars PROVE WayInv'  OBVIOUS
<1>1. ASSUME NEW c \in Conns,
             Connect(c) \/ TaskStep(c) \/ SessionRefused(c) \/ RefuseSubscribe(c)
               \/ SubscribeRefused(c) \/ ReadFails(c) \/ AppendRefused(c) \/ Unregister(c)
      PROVE  WayInv'
  <2>1. CASE TaskStep(c)
    BY <2>1, TakeHelloWay, TakeTooEarlyWay, TakeSubscribeWay, TakeAppendWay, SessionValidWay,
       ReadPageWay, SendPageWay, LookupWay, StoreAppendWay, FanOutOwnWay, AckAppendWay
       DEF TaskStep
  <2> QED  BY <1>1, <2>1, ConnectWay, SessionRefusedWay, RefuseSubscribeWay,
              SubscribeRefusedWay, ReadFailsWay, AppendRefusedWay, UnregisterWay
<1>2. CASE Cut  BY <1>2, CutDoes, DropsWay
<1>3. CASE UNCHANGED vars
  <2>1. UNCHANGED <<log, due, client, conn, outbox, abandoned>>
    BY <1>3 DEF vars, logVars, linkVars, history
  <2> QED  BY <2>1 DEF WayInv, Kept
<1> QED  BY <1>1, <1>2, <1>3, RefuseHelloWay, ClientAppendsWay, ReceivesWay, CrashWay,
            OtherStoresWay, OtherTellsWay, OtherLostWay DEF Next

LEMMA WayImplies == Base /\ WayInv => MissingIsOnItsWay
<1> SUFFICES ASSUME Base, WayInv, NEW s \in 1..client.cursor
             PROVE  s \in client.have \cup abandoned \cup (IF IsOpen THEN InFlight(client.sock) ELSE {})
  BY DEF MissingIsOnItsWay
<1>1. CASE IsOpen
  <2>1. client.sock \in Conns  BY <1>1, ClientTypes DEF IsOpen, Base
  <2> QED  BY <1>1, <2>1, InFlightOrKept DEF Kept
<1>2. CASE ~IsOpen  BY <1>2 DEF IsOpen, WayInv, Kept
<1> QED  BY <1>1, <1>2

LEMMA WayInvariant == Spec => []WayInv
BY WayStart, WayNext, BaseInvariant, PTL DEF Spec

(* Registering before the page is read closes the race with a write          *)
(* (gateway.rs, handle_subscribe): whatever is at or below the client's      *)
(* cursor is in its replica, on its way to it, or recorded as lost with a    *)
(* connection, an envelope or the rest of a page.                            *)
THEOREM NothingSlipsBehind == Spec => []MissingIsOnItsWay
BY WayImplies, BaseInvariant, WayInvariant, PTL

-----------------------------------------------------------------------------
(* An append that was sent once leaves one trace: a frame, or the handler   *)
(* that holds it, until it is stored.                                       *)

IsAppend(f, r) == f.kind = "append" /\ f.req = r
IsAck(f, r) == f.kind = "ack" /\ f.req = r
Sent(q, r) == \E i \in 1..Len(q) : IsAppend(q[i], r)
Holds(m, r) == m.pc \in {"append", "lookup", "insert"} /\ m.req = r
Tracks(q, m, r) == Sent(q, r) \/ Holds(m, r)
Single(q, m, r) ==
    /\ \A i, j \in 1..Len(q) : IsAppend(q[i], r) /\ IsAppend(q[j], r) => i = j
    /\ ~(Sent(q, r) /\ Holds(m, r))
Has(l, r) == \E s \in 1..Len(l) : l[s] = r

Known == client.pending \cup acked \cup nacked

TraceInv == \A r \in Own \ resent :
    /\ \A c, d \in Conns : Tracks(inbox[c], conn[c], r) /\ Tracks(inbox[d], conn[d], r) => c = d
    /\ \A c \in Conns : /\ Single(inbox[c], conn[c], r)
                        /\ Tracks(inbox[c], conn[c], r) => r \in Known /\ ~Has(log, r)
    /\ Has(log, r) => r \in Known

LEMMA TraceOf ==
    ASSUME TraceInv, NEW r \in Own \ resent, NEW c \in Conns
    PROVE  /\ Single(inbox[c], conn[c], r)
           /\ Tracks(inbox[c], conn[c], r) => r \in Known /\ ~Has(log, r)
           /\ Tracks(inbox[c], conn[c], r) =>
                \A d \in Conns : d # c => ~Tracks(inbox[d], conn[d], r)
           /\ Has(log, r) => r \in Known
BY DEF TraceInv

(* No connection has a trace that it had not. *)
LEMMA LessTrace ==
    ASSUME TraceInv, UNCHANGED log, resent \subseteq resent', Known \subseteq Known',
           \A r \in Own \ resent', e \in Conns :
              /\ Tracks(inbox'[e], conn'[e], r) => Tracks(inbox[e], conn[e], r)
              /\ Single(inbox[e], conn[e], r) => Single(inbox'[e], conn'[e], r)
    PROVE  TraceInv'
<1> SUFFICES ASSUME NEW r \in Own \ resent'
    PROVE  /\ \A c, d \in Conns : Tracks(inbox'[c], conn'[c], r) /\ Tracks(inbox'[d], conn'[d], r) => c = d
           /\ \A c \in Conns : /\ Single(inbox'[c], conn'[c], r)
                               /\ Tracks(inbox'[c], conn'[c], r) => r \in Known' /\ ~Has(log, r)
           /\ Has(log, r) => r \in Known'
  BY DEF TraceInv
<1>1. r \in Own \ resent  OBVIOUS
<1> QED  BY <1>1 DEF TraceInv

LEMMA TaskTrace ==
    ASSUME TraceInv, NEW c \in Conns, UNCHANGED <<log, resent, client, acked, nacked>>,
           \A e \in Conns : e # c => inbox'[e] = inbox[e] /\ conn'[e] = conn[e],
           \A r \in Own \ resent :
              /\ Tracks(inbox'[c], conn'[c], r) => Tracks(inbox[c], conn[c], r)
              /\ Single(inbox[c], conn[c], r) => Single(inbox'[c], conn'[c], r)
    PROVE  TraceInv'
<1>1. Known' = Known  BY DEF Known
<1>2. ASSUME NEW r \in Own \ resent', NEW e \in Conns
      PROVE  /\ Tracks(inbox'[e], conn'[e], r) => Tracks(inbox[e], conn[e], r)
             /\ Single(inbox[e], conn[e], r) => Single(inbox'[e], conn'[e], r)
  <2>1. CASE e = c  BY <2>1
  <2>2. CASE e # c  BY <2>2
  <2> QED  BY <2>1, <2>2
<1> QED  BY <1>1, <1>2, LessTrace

(* The handler goes on with the request it has, or ends. *)
LEMMA HandlerTrace ==
    ASSUME TraceInv, NEW c \in Conns, UNCHANGED <<log, resent, client, acked, nacked, inbox>>,
           \A e \in Conns : e # c => conn'[e] = conn[e],
           \A r \in Own : Holds(conn'[c], r) => Holds(conn[c], r)
    PROVE  TraceInv'
<1>1. \A r \in Own : /\ Tracks(inbox[c], conn'[c], r) => Tracks(inbox[c], conn[c], r)
                     /\ Single(inbox[c], conn[c], r) => Single(inbox[c], conn'[c], r)
  BY DEF Tracks, Single
<1> QED  BY <1>1, TaskTrace

LEMMA PopSent ==
    ASSUME NEW q, NEW p, Popped(q, p), NEW r
    PROVE  /\ Sent(q, r) <=> Sent(p, r) \/ IsAppend(q[1], r)
           /\ \A m : Single(q, m, r) =>
                /\ \A i, j \in 1..Len(p) : IsAppend(p[i], r) /\ IsAppend(p[j], r) => i = j
                /\ ~(IsAppend(q[1], r) /\ Sent(p, r))
<1>1. \A i \in 1..Len(q) : i = 1 \/ (i - 1 \in 1..Len(p) /\ p[i - 1] = q[i])
  <2> SUFFICES ASSUME NEW i \in 1..Len(q), i # 1 PROVE i - 1 \in 1..Len(p) /\ p[i - 1] = q[i]
    OBVIOUS
  <2>1. i - 1 \in 1..Len(p) /\ (i - 1) + 1 = i  BY DEF Popped
  <2>2. p[i - 1] = q[(i - 1) + 1]  BY <2>1 DEF Popped
  <2> QED  BY <2>1, <2>2
<1>2. 1 \in 1..Len(q) /\ \A i \in 1..Len(p) : i + 1 \in 1..Len(q) /\ p[i] = q[i + 1] /\ i + 1 # 1
  BY DEF Popped
<1>3. Sent(q, r) <=> Sent(p, r) \/ IsAppend(q[1], r)  BY <1>1, <1>2 DEF Sent
<1>4. ASSUME NEW m, Single(q, m, r)
      PROVE  /\ \A i, j \in 1..Len(p) : IsAppend(p[i], r) /\ IsAppend(p[j], r) => i = j
             /\ ~(IsAppend(q[1], r) /\ Sent(p, r))
  <2>1. ASSUME NEW i \in 1..Len(p), NEW j \in 1..Len(p), IsAppend(p[i], r), IsAppend(p[j], r)
        PROVE  i = j
    <3>1. i + 1 = j + 1  BY <1>2, <1>4, <2>1 DEF Single
    <3> QED  BY <3>1
  <2>2. ASSUME IsAppend(q[1], r), NEW i \in 1..Len(p), IsAppend(p[i], r) PROVE FALSE
    BY <1>2, <1>4, <2>2 DEF Single
  <2> QED  BY <2>1, <2>2 DEF Sent
<1> QED  BY <1>3, <1>4

(* The task takes a frame; its handler holds the frame's request or none. *)
LEMMA TakeTrace ==
    ASSUME TraceInv, Shape, NEW c \in Conns, NEW k, Takes(c, k),
           UNCHANGED <<log, resent, client, acked, nacked>>,
           \A e \in Conns : e # c => conn'[e] = conn[e],
           \A r \in Own : Holds(conn'[c], r) => IsAppend(inbox[c][1], r)
    PROVE  TraceInv'
<1>1. /\ Popped(inbox[c], inbox'[c]) /\ conn[c].pc = "idle"
      /\ \A e \in Conns : e # c => inbox'[e] = inbox[e]
  BY TakesHead
<1>2. ASSUME NEW r \in Own
      PROVE  /\ Tracks(inbox'[c], conn'[c], r) => Tracks(inbox[c], conn[c], r)
             /\ Single(inbox[c], conn[c], r) => Single(inbox'[c], conn'[c], r)
  <2>1. Sent(inbox[c], r) <=> Sent(inbox'[c], r) \/ IsAppend(inbox[c][1], r)  BY <1>1, PopSent
  <2>2. Tracks(inbox'[c], conn'[c], r) => Tracks(inbox[c], conn[c], r)  BY <2>1 DEF Tracks
  <2>3. ASSUME Single(inbox[c], conn[c], r) PROVE Single(inbox'[c], conn'[c], r)
    <3>1. /\ \A i, j \in 1..Len(inbox'[c]) :
               IsAppend(inbox'[c][i], r) /\ IsAppend(inbox'[c][j], r) => i = j
          /\ ~(IsAppend(inbox[c][1], r) /\ Sent(inbox'[c], r))
      BY <1>1, <2>3, PopSent
    <3> QED  BY <3>1 DEF Single
  <2> QED  BY <2>2, <2>3
<1> QED  BY <1>1, <1>2, TaskTrace

LEMMA IdleHolds == ASSUME NEW m, m.pc \notin {"append", "lookup", "insert"}, NEW r PROVE ~Holds(m, r)
BY DEF Holds

LEMMA TakeHelloTrace == ASSUME Base, TraceInv, NEW c \in Conns, TakeHello(c) PROVE TraceInv'
<1>1. Takes(c, "hello") /\ UNCHANGED <<log, resent, client, acked, nacked>>
  BY DEF TakeHello, logVars, history
<1>2. Turns(c, conn[c].pc, TRUE, conn[c].sub, conn[c].closing, conn[c].req,
            conn[c].cursor, conn[c].page)
  BY BaseOf, TakeHelloTurns
<1>3. conn'[c].pc = "idle" /\ \A e \in Conns : e # c => conn'[e] = conn[e]
  BY <1>1, <1>2 DEF Turns, Takes
<1> QED  BY <1>1, <1>3, BaseOf, IdleHolds, TakeTrace

LEMMA RefuseHelloTrace ==
    ASSUME Base, TraceInv, NEW c \in Conns, NEW closes \in BOOLEAN, RefuseHello(c, closes)
    PROVE  TraceInv'
<1>1. Takes(c, "hello") /\ UNCHANGED <<log, resent, client, acked, nacked>>
  BY DEF RefuseHello, logVars, history
<1>2. Turns(c, conn[c].pc, conn[c].hello, conn[c].sub, closes, conn[c].req,
            conn[c].cursor, conn[c].page)
  BY BaseOf, RefuseHelloTurns
<1>3. conn'[c].pc = "idle" /\ \A e \in Conns : e # c => conn'[e] = conn[e]
  BY <1>1, <1>2 DEF Turns, Takes
<1> QED  BY <1>1, <1>3, BaseOf, IdleHolds, TakeTrace

LEMMA TakeTooEarlyTrace == ASSUME Base, TraceInv, NEW c \in Conns, TakeTooEarly(c) PROVE TraceInv'
<1>1. /\ Takes(c, "subscribe") \/ Takes(c, "append")
      /\ UNCHANGED <<log, resent, client, conn, acked, nacked>>
  BY DEF TakeTooEarly, logVars, history
<1>2. PICK k : Takes(c, k)  BY <1>1
<1>3. conn'[c].pc = "idle"  BY <1>1, <1>2 DEF Takes
<1> QED  BY <1>1, <1>2, <1>3, BaseOf, IdleHolds, TakeTrace

LEMMA RefuseSubscribeTrace == ASSUME Base, TraceInv, NEW c \in Conns, RefuseSubscribe(c) PROVE TraceInv'
<1>1. Takes(c, "subscribe") /\ UNCHANGED <<log, resent, client, conn, acked, nacked>>
  BY DEF RefuseSubscribe, logVars
<1>3. conn'[c].pc = "idle"  BY <1>1 DEF Takes
<1> QED  BY <1>1, <1>3, BaseOf, IdleHolds, TakeTrace

LEMMA TakeSubscribeTrace == ASSUME Base, TraceInv, NEW c \in Conns, TakeSubscribe(c) PROVE TraceInv'
<1>1. Takes(c, "subscribe") /\ UNCHANGED <<log, resent, client, acked, nacked>>
  BY DEF TakeSubscribe, logVars, history
<1>2. Turns(c, "subscribe", conn[c].hello, TRUE, conn[c].closing, conn[c].req,
            inbox[c][1].cursor, conn[c].page)
  BY BaseOf, TakeSubscribeTurns
<1>3. conn'[c].pc = "subscribe" /\ \A e \in Conns : e # c => conn'[e] = conn[e]  BY <1>2 DEF Turns
<1> QED  BY <1>1, <1>3, BaseOf, IdleHolds, TakeTrace

LEMMA TakeAppendTrace == ASSUME Base, TraceInv, NEW c \in Conns, TakeAppend(c) PROVE TraceInv'
<1>1. Takes(c, "append") /\ UNCHANGED <<log, resent, client, acked, nacked>>
  BY DEF TakeAppend, logVars, history
<1>2. Turns(c, "append", conn[c].hello, conn[c].sub, conn[c].closing, inbox[c][1].req,
            conn[c].cursor, conn[c].page)
  BY BaseOf, TakeAppendTurns
<1>3. inbox[c][1].kind = "append"  BY <1>1, BaseOf, TakesHead
<1>4. conn'[c].req = inbox[c][1].req /\ \A e \in Conns : e # c => conn'[e] = conn[e]
  BY <1>2 DEF Turns
<1>5. \A r \in Own : Holds(conn'[c], r) => IsAppend(inbox[c][1], r)  BY <1>3, <1>4 DEF Holds, IsAppend
<1> QED  BY <1>1, <1>4, <1>5, BaseOf, TakeTrace

(* Steps of a handler that end it, or leave the request where it is. *)
LEMMA TurnsTrace ==
    ASSUME TraceInv, NEW c \in Conns, UNCHANGED <<log, resent, client, acked, nacked, inbox>>,
           NEW pc, NEW hello, NEW sub, NEW closing, NEW req, NEW cursor, NEW page,
           Turns(c, pc, hello, sub, closing, req, cursor, page),
           \/ pc \notin {"append", "lookup", "insert"}
           \/ req = conn[c].req /\ conn[c].pc \in {"append", "lookup", "insert"}
    PROVE  TraceInv'
<1>1. /\ conn'[c].pc = pc /\ conn'[c].req = req /\ \A e \in Conns : e # c => conn'[e] = conn[e]
  BY DEF Turns
<1>2. \A r \in Own : Holds(conn'[c], r) => Holds(conn[c], r)  BY <1>1 DEF Holds
<1> QED  BY <1>1, <1>2, HandlerTrace

LEMMA SessionRefusedTrace == ASSUME Base, TraceInv, NEW c \in Conns, SessionRefused(c) PROVE TraceInv'
<1>1. UNCHANGED <<log, resent, client, acked, nacked, inbox>>  BY DEF SessionRefused, logVars
<1>2. Turns(c, "idle", conn[c].hello, conn[c].sub /\ conn[c].pc # "subscribe", TRUE, NoReq, 0, {})
  BY BaseOf, SessionRefusedTurns
<1> QED  BY <1>1, <1>2, TurnsTrace

LEMMA SubscribeRefusedTrace ==
    ASSUME Base, TraceInv, NEW c \in Conns, SubscribeRefused(c) PROVE TraceInv'
<1>1. UNCHANGED <<log, resent, client, acked, nacked, inbox>>
  BY DEF SubscribeRefused, logVars, linkVars
<1>2. Turns(c, "idle", conn[c].hello, FALSE, conn[c].closing, NoReq, 0, {})
  BY BaseOf, SubscribeRefusedTurns
<1> QED  BY <1>1, <1>2, TurnsTrace

LEMMA SessionValidTrace == ASSUME Base, TraceInv, NEW c \in Conns, SessionValid(c) PROVE TraceInv'
<1>1. UNCHANGED <<log, resent, client, acked, nacked, inbox>>
  BY DEF SessionValid, logVars, linkVars, history
<1>2. PICK p \in {"read", "lookup"} :
              /\ conn[c].pc = (IF p = "read" THEN "subscribe" ELSE "append")
              /\ Turns(c, p, conn[c].hello, conn[c].sub, conn[c].closing, conn[c].req,
                       conn[c].cursor, conn[c].page)
  BY SessionValidTurns
<1>3. p \notin {"append", "lookup", "insert"} \/ conn[c].pc \in {"append", "lookup", "insert"}
  BY <1>2
<1> QED  BY <1>1, <1>2, <1>3, TurnsTrace

LEMMA ReadPageTrace == ASSUME Base, TraceInv, NEW c \in Conns, ReadPage(c) PROVE TraceInv'
<1>1. UNCHANGED <<log, resent, client, acked, nacked, inbox>>
  BY DEF ReadPage, logVars, linkVars
<1>2. PICK page : Turns(c, "page", conn[c].hello, conn[c].sub, conn[c].closing, conn[c].req,
                        conn[c].cursor, page)
  BY BaseOf, ReadPageTurns
<1> QED  BY <1>1, <1>2, TurnsTrace

LEMMA ReadFailsTrace == ASSUME Base, TraceInv, NEW c \in Conns, ReadFails(c) PROVE TraceInv'
<1>1. Goes(c, "page") /\ UNCHANGED <<log, resent, client, acked, nacked, inbox>>
  BY DEF ReadFails, logVars, linkVars
<1>2. Turns(c, "page", conn[c].hello, conn[c].sub, conn[c].closing, conn[c].req,
            conn[c].cursor, conn[c].page)
  BY <1>1, BaseOf, GoesTurns
<1> QED  BY <1>1, <1>2, TurnsTrace

LEMMA EndsTrace ==
    ASSUME Base, TraceInv, NEW c \in Conns, conn' = [conn EXCEPT ![c] = Done(c)],
           UNCHANGED <<log, resent, client, acked, nacked, inbox>>
    PROVE  TraceInv'
<1>1. Turns(c, "idle", conn[c].hello, conn[c].sub, conn[c].closing, NoReq, 0, {})
  BY BaseOf, DoneTurns
<1> QED  BY <1>1, TurnsTrace

LEMMA SendPageTrace == ASSUME Base, TraceInv, NEW c \in Conns, SendPage(c) PROVE TraceInv'
BY EndsTrace DEF SendPage, logVars, history
LEMMA AppendRefusedTrace == ASSUME Base, TraceInv, NEW c \in Conns, AppendRefused(c) PROVE TraceInv'
BY EndsTrace DEF AppendRefused, logVars, history
LEMMA AckAppendTrace == ASSUME Base, TraceInv, NEW c \in Conns, AckAppend(c) PROVE TraceInv'
BY EndsTrace DEF AckAppend, logVars, history

LEMMA LookupTrace == ASSUME Base, TraceInv, NEW c \in Conns, LookupRequest(c) PROVE TraceInv'
<1>1. conn[c].pc = "lookup" /\ UNCHANGED <<log, resent, client, acked, nacked, inbox>>
  BY DEF LookupRequest, logVars, linkVars, history
<1>2. PICK p \in {"ack", "insert"} :
         Turns(c, p, conn[c].hello, conn[c].sub, conn[c].closing, conn[c].req,
               conn[c].cursor, conn[c].page)
  BY LookupTurns
<1> QED  BY <1>1, <1>2, TurnsTrace

LEMMA FanOutOwnTrace == ASSUME Base, TraceInv, NEW c \in Conns, FanOutOwn(c) PROVE TraceInv'
<1>1. /\ UNCHANGED <<log, client, inbox, acked, nacked, resent>>
      /\ Turns(c, "ack", conn[c].hello, conn[c].sub, conn[c].closing, conn[c].req,
               conn[c].cursor, conn[c].page)
  BY FanOutOwnDoes
<1> QED  BY <1>1, TurnsTrace

LEMMA NothingTracks ==
    ASSUME NEW m, m.pc \notin {"append", "lookup", "insert"}, NEW r
    PROVE  ~Tracks(<<>>, m, r) /\ Single(<<>>, m, r)
BY DEF Tracks, Single, Sent, Holds

LEMMA UnregisterTrace == ASSUME Base, TraceInv, NEW c \in Conns, Unregister(c) PROVE TraceInv'
<1>1. /\ inbox' = [inbox EXCEPT ![c] = <<>>] /\ UNCHANGED <<log, resent, client, acked, nacked>>
  BY DEF Unregister, logVars, history
<1>2. Turns(c, "gone", FALSE, FALSE, FALSE, NoReq, 0, {})  BY BaseOf, UnregisterTurns
<1>3. conn'[c].pc = "gone" /\ \A e \in Conns : e # c => conn'[e] = conn[e]  BY <1>2 DEF Turns
<1>4. inbox \in [Conns -> Seq(Frames)]  BY DEF Base, Shape
<1>5. inbox'[c] = <<>> /\ \A e \in Conns : e # c => inbox'[e] = inbox[e]  BY <1>1, <1>4
<1>6. \A r : ~Tracks(inbox'[c], conn'[c], r) /\ Single(inbox'[c], conn'[c], r)
  BY <1>3, <1>5, NothingTracks
<1> QED  BY <1>1, <1>3, <1>5, <1>6, TaskTrace

LEMMA CrashTrace == ASSUME Base, TraceInv, Crash PROVE TraceInv'
<1>1. /\ client'.pending = client.pending /\ UNCHANGED <<log, acked, nacked, resent>>
      /\ inbox' = [c \in Conns |-> <<>>]
      /\ \A c \in Conns : conn'[c] = Gone \/ (conn'[c] = conn[c] /\ ~Live(c))
  BY CrashDoes
<1>2. \A c \in Conns : conn'[c].pc \in {"unused", "gone"} /\ inbox'[c] = <<>>
  BY <1>1, GoneFields DEF Live
<1>3. \A c \in Conns, r \in Own : ~Tracks(inbox'[c], conn'[c], r) /\ Single(inbox'[c], conn'[c], r)
  BY <1>2, NothingTracks
<1>4. Known' = Known  BY <1>1 DEF Known
<1> QED  BY <1>1, <1>3, <1>4, LessTrace

(* An event of another writer is stored, and nothing else happens. *)
LEMMA HasAppend ==
    ASSUME Shape, NEW r \in Requests, Insert(r), Len(log) < MaxLog, NEW o
    PROVE  Has(log', o) <=> Has(log, o) \/ o = r
<1>1. /\ Len(log') = Len(log) + 1 /\ Len(log) \in Nat
      /\ log'[Len(log')] = r /\ \A s \in 1..Len(log) : log'[s] = log[s]
  BY InsertGrows
<1>2. \A s \in 1..Len(log') : s \in 1..Len(log) \/ s = Len(log')  BY <1>1
<1>3. Len(log') \in 1..Len(log') /\ \A s \in 1..Len(log) : s \in 1..Len(log')  BY <1>1
<1> QED  BY <1>1, <1>2, <1>3 DEF Has

LEMMA OtherStoresTrace ==
    ASSUME Base, TraceInv, NEW o \in Requests \ Own, OtherStores(o) PROVE TraceInv'
<1>1. Len(log) < MaxLog /\ Insert(o) /\ UNCHANGED <<client, conn, inbox, acked, nacked, resent>>
  BY DEF OtherStores, linkVars, history
<1>2. \A r \in Own : Has(log', r) <=> Has(log, r)  BY <1>1, HasAppend DEF Base
<1>3. Known' = Known  BY <1>1 DEF Known
<1> QED  BY <1>1, <1>2, <1>3 DEF TraceInv

(* Stored, the append has no trace left. *)
LEMMA StoreAppendTrace == ASSUME Base, TraceInv, NEW c \in Conns, StoreAppend(c) PROVE TraceInv'
<1> DEFINE o == conn[c].req
<1>1. /\ conn[c].pc = "insert" /\ Len(log) < MaxLog /\ Insert(o)
      /\ UNCHANGED <<client, inbox, acked, nacked, resent>>
  BY DEF StoreAppend, linkVars, history
<1>2. Turns(c, "tell", conn[c].hello, conn[c].sub, conn[c].closing, conn[c].req,
            Len(log) + 1, conn[c].page)
  BY BaseOf, StoreAppendTurns
<1>3. conn'[c].pc = "tell" /\ \A e \in Conns : e # c => conn'[e] = conn[e]  BY <1>2 DEF Turns
<1>4. o \in Requests  BY <1>1, BaseOf, OwnAssumption DEF HandlerOK
<1>5. \A r : Has(log', r) <=> Has(log, r) \/ r = o  BY <1>1, <1>4, HasAppend DEF Base
<1>6. Known' = Known  BY <1>1 DEF Known
<1>7. Holds(conn[c], o)  BY <1>1 DEF Holds
<1> HIDE DEF o
<1>8. ASSUME NEW r \in Own \ resent, NEW e \in Conns
      PROVE  /\ Tracks(inbox[e], conn'[e], r) => Tracks(inbox[e], conn[e], r) /\ r # o
             /\ Single(inbox[e], conn[e], r) => Single(inbox[e], conn'[e], r)
  <2>1. CASE e = c
    <3>1. ~Holds(conn'[c], r)  BY <1>3 DEF Holds
    <3>2. r = o => ~Sent(inbox[c], r)  BY <1>7, TraceOf DEF Single
    <3> QED  BY <2>1, <3>1, <3>2 DEF Tracks, Single
  <2>2. CASE e # c
    <3>1. conn'[e] = conn[e]  BY <1>3, <2>2
    <3>2. r = o => ~Tracks(inbox[e], conn[e], r)  BY <1>7, <2>2, TraceOf DEF Tracks
    <3> QED  BY <3>1, <3>2
  <2> QED  BY <2>1, <2>2
<1>9. \A r \in Own \ resent : r = o => r \in Known  BY <1>7, TraceOf DEF Tracks
<1>10. ASSUME NEW r \in Own \ resent
      PROVE  /\ \A a, d \in Conns : Tracks(inbox[a], conn'[a], r) /\ Tracks(inbox[d], conn'[d], r) => a = d
             /\ \A a \in Conns : /\ Single(inbox[a], conn'[a], r)
                                 /\ Tracks(inbox[a], conn'[a], r) => r \in Known /\ ~Has(log', r)
             /\ Has(log', r) => r \in Known
  BY <1>5, <1>8, <1>9 DEF TraceInv
<1> QED  BY <1>1, <1>6, <1>10 DEF TraceInv

(* append: nothing was known of the request. *)
LEMMA PushSent ==
    ASSUME NEW q, NEW p, NEW f, Pushed(q, p, f), NEW r
    PROVE  /\ Sent(p, r) <=> Sent(q, r) \/ IsAppend(f, r)
           /\ \A m : Single(q, m, r) /\ (IsAppend(f, r) => ~Tracks(q, m, r)) => Single(p, m, r)
<1>1. \A i \in 1..Len(p) : (i \in 1..Len(q) /\ p[i] = q[i]) \/ (i = Len(p) /\ p[i] = f)  BY DEF Pushed
<1>2. \A i \in 1..Len(q) : i \in 1..Len(p) /\ p[i] = q[i]  BY DEF Pushed
<1>3. Len(p) \in 1..Len(p) /\ p[Len(p)] = f  BY DEF Pushed
<1>4. Sent(p, r) <=> Sent(q, r) \/ IsAppend(f, r)  BY <1>1, <1>2, <1>3 DEF Sent
<1>5. ASSUME NEW m, Single(q, m, r), IsAppend(f, r) => ~Tracks(q, m, r) PROVE Single(p, m, r)
  <2>1. CASE IsAppend(f, r)
    <3>1. ~Sent(q, r) /\ ~Holds(m, r)  BY <1>5, <2>1 DEF Tracks
    <3>2. \A i \in 1..Len(p) : IsAppend(p[i], r) => i = Len(p)  BY <1>1, <3>1 DEF Sent
    <3> QED  BY <3>1, <3>2 DEF Single
  <2>2. CASE ~IsAppend(f, r)
    <3>1. \A i \in 1..Len(p) : IsAppend(p[i], r) => i \in 1..Len(q) /\ IsAppend(q[i], r)  BY <1>1, <2>2
    <3> QED  BY <1>4, <1>5, <2>2, <3>1 DEF Single
  <2> QED  BY <2>1, <2>2
<1> QED  BY <1>4, <1>5

LEMMA ClientAppendsTrace == ASSUME Base, TraceInv, NEW o \in Own, ClientAppends(o) PROVE TraceInv'
<1>1. /\ o \notin Known /\ client'.pending = client.pending \cup {o}
      /\ \A e \in Conns : e # client.sock => inbox'[e] = inbox[e]
      /\ \A e \in Conns : e = client.sock => \E f \in Frames :
           Pushed(inbox[e], inbox'[e], f) /\ f.kind = "append" /\ f.req = o
      /\ UNCHANGED <<log, conn, acked, nacked, resent>>
  BY ClientAppendsDoes DEF Known
<1>2. Known' = Known \cup {o}  BY <1>1 DEF Known
<1>3. o \in Own \ resent => ~Has(log, o) /\ \A e \in Conns : ~Tracks(inbox[e], conn[e], o)
  BY <1>1 DEF TraceInv
<1>4. ASSUME NEW r \in Own \ resent, NEW e \in Conns
      PROVE  /\ Tracks(inbox'[e], conn[e], r) =>
                  Tracks(inbox[e], conn[e], r) \/ (r = o /\ e = client.sock)
             /\ Single(inbox'[e], conn[e], r)
  <2>1. Single(inbox[e], conn[e], r)  BY TraceOf
  <2>2. CASE e # client.sock
    <3>1. inbox'[e] = inbox[e]  BY <1>1, <2>2
    <3> QED  BY <2>1, <3>1
  <2>3. CASE e = client.sock
    <3>1. PICK f \in Frames : Pushed(inbox[e], inbox'[e], f) /\ f.kind = "append" /\ f.req = o
      BY <1>1, <2>3
    <3>2. IsAppend(f, r) => r = o  BY <3>1 DEF IsAppend
    <3>3. /\ Sent(inbox'[e], r) <=> Sent(inbox[e], r) \/ IsAppend(f, r)
          /\ Single(inbox'[e], conn[e], r)
      BY <1>3, <2>1, <3>1, <3>2, PushSent
    <3> QED  BY <2>3, <3>2, <3>3 DEF Tracks
  <2> QED  BY <2>2, <2>3
<1>5. ASSUME NEW r \in Own \ resent
      PROVE  /\ \A c, d \in Conns : Tracks(inbox'[c], conn[c], r) /\ Tracks(inbox'[d], conn[d], r) => c = d
             /\ \A c \in Conns : /\ Single(inbox'[c], conn[c], r)
                                 /\ Tracks(inbox'[c], conn[c], r) => r \in Known' /\ ~Has(log, r)
             /\ Has(log, r) => r \in Known'
  <2>1. CASE r = o  BY <1>2, <1>3, <1>4, <2>1
  <2>2. CASE r # o  BY <1>2, <1>4, <2>2 DEF TraceInv
  <2> QED  BY <2>1, <2>2
<1> QED  BY <1>1, <1>5 DEF TraceInv

(* What is sent again does not count as sent once. *)
LEMMA ConnectTrace == ASSUME Base, TraceInv, NEW c \in Conns, Connect(c) PROVE TraceInv'
<1>0. Shape  BY DEF Base
<1>1. /\ client'.pending = client.pending /\ resent' = resent \cup client.pending
      /\ UNCHANGED <<log, acked, nacked>>
  BY <1>0, ConnectDoes
<1>2. Turns(c, "idle", FALSE, FALSE, FALSE, NoReq, 0, {})  BY <1>0, ConnectTurns
<1>3. Opens(inbox'[c]) /\ \A e \in Conns : e # c => inbox'[e] = inbox[e]  BY <1>0, ConnectSends
<1>4. conn'[c].pc = "idle" /\ \A e \in Conns : e # c => conn'[e] = conn[e]  BY <1>2 DEF Turns
<1>5. ASSUME NEW r \in Own \ resent' PROVE \A i \in 1..Len(inbox'[c]) : ~IsAppend(inbox'[c][i], r)
  <2> SUFFICES ASSUME NEW i \in 1..Len(inbox'[c]), IsAppend(inbox'[c][i], r) PROVE FALSE  OBVIOUS
  <2>1. r \notin client.pending  BY <1>1
  <2>2. i = 1 \/ i = 2 \/ i > 2  BY <1>3, LenProperties DEF Opens
  <2>3. inbox'[c][i].kind = "append" /\ inbox'[c][i].req = r  BY DEF IsAppend
  <2> QED  BY <1>3, <2>1, <2>2, <2>3 DEF Opens
<1>6. ASSUME NEW r \in Own \ resent'
      PROVE  ~Tracks(inbox'[c], conn'[c], r) /\ Single(inbox'[c], conn'[c], r)
  BY <1>4, <1>5 DEF Tracks, Single, Sent, Holds
<1>7. Known' = Known  BY <1>1 DEF Known
<1>8. ASSUME NEW r \in Own \ resent', NEW e \in Conns
      PROVE  /\ Tracks(inbox'[e], conn'[e], r) => Tracks(inbox[e], conn[e], r)
             /\ Single(inbox[e], conn[e], r) => Single(inbox'[e], conn'[e], r)
  <2>1. CASE e = c  BY <1>6, <2>1
  <2>2. CASE e # c  BY <1>3, <1>4, <2>2
  <2> QED  BY <2>1, <2>2
<1> QED  BY <1>1, <1>7, <1>8, LessTrace

LEMMA DropsTrace ==
    ASSUME Base, TraceInv, NEW c \in Conns, Drops(c),
           UNCHANGED <<log, conn, inbox, acked, nacked, resent>>
    PROVE  TraceInv'
<1>1. client'.pending = client.pending  BY DropsDoes
<1>2. Known' = Known  BY <1>1 DEF Known
<1> QED  BY <1>2, LessTrace

LEMMA ReceivesTrace == ASSUME Base, TraceInv, Receives PROVE TraceInv'
<1> DEFINE c == client.sock
<1>1. /\ c \in Conns /\ UNCHANGED <<log, due, conn, inbox>>
      /\ \/ Drops(c) /\ UNCHANGED <<acked, nacked, resent>>
         \/ Pops(c) /\ (Data(c) \/ Answer(c))
  BY ReceivesDoes
<1>2. CASE Drops(c) /\ UNCHANGED <<acked, nacked, resent>>  BY <1>1, <1>2, DropsTrace
<1>3. CASE Pops(c) /\ (Data(c) \/ Answer(c))
  <2>1. UNCHANGED resent  BY <1>3 DEF Pops
  <2>2. Known \subseteq Known'
    <3>1. CASE Data(c)  BY <3>1 DEF Data, Known
    <3>2. CASE Answer(c)
      <4>1. outbox[c][1].kind \in {"ack", "nack"}  BY <3>2 DEF Answer
      <4>2. CASE outbox[c][1].kind = "ack"  BY <3>2, <4>2 DEF Answer, Known
      <4>3. CASE outbox[c][1].kind = "nack"  BY <3>2, <4>3 DEF Answer, Known
      <4> QED  BY <4>1, <4>2, <4>3
    <3> QED  BY <1>3, <3>1, <3>2
  <2> QED  BY <1>1, <2>1, <2>2, LessTrace
<1> QED  BY <1>1, <1>2, <1>3

LEMMA TraceStart == Init => TraceInv
<1> SUFFICES ASSUME Init PROVE TraceInv  OBVIOUS
<1>1. /\ log = <<>> /\ conn = [c \in Conns |-> Unused] /\ inbox = [c \in Conns |-> <<>>]
  BY DEF Init, LogInit
<1>2. \A c \in Conns : inbox[c] = <<>> /\ conn[c].pc = "unused"  BY <1>1, UnusedFields
<1>3. \A c \in Conns, r \in Own : ~Tracks(inbox[c], conn[c], r) /\ Single(inbox[c], conn[c], r)
  BY <1>2, NothingTracks
<1>4. \A r \in Own : ~Has(log, r)  BY <1>1 DEF Has
<1> QED  BY <1>3, <1>4 DEF TraceInv

LEMMA TraceNext == Base /\ TraceInv /\ [Next]_vars => TraceInv'
<1> SUFFICES ASSUME Base, TraceInv, [Next]_vars PROVE TraceInv'  OBVIOUS
<1>1. ASSUME NEW c \in Conns,
             Connect(c) \/ TaskStep(c) \/ SessionRefused(c) \/ RefuseSubscribe(c)
               \/ SubscribeRefused(c) \/ ReadFails(c) \/ AppendRefused(c) \/ Unregister(c)
      PROVE  TraceInv'
  <2>1. CASE TaskStep(c)
    BY <2>1, TakeHelloTrace, TakeTooEarlyTrace, TakeSubscribeTrace, TakeAppendTrace,
       SessionValidTrace, ReadPageTrace, SendPageTrace, LookupTrace, StoreAppendTrace,
       FanOutOwnTrace, AckAppendTrace
       DEF TaskStep
  <2> QED  BY <1>1, <2>1, ConnectTrace, SessionRefusedTrace, RefuseSubscribeTrace,
              SubscribeRefusedTrace, ReadFailsTrace, AppendRefusedTrace, UnregisterTrace
<1>2. CASE Cut  BY <1>2, CutDoes, DropsTrace
<1>3. ASSUME UNCHANGED <<log, client, conn, inbox, acked, nacked, resent>> PROVE TraceInv'
  BY <1>3 DEF TraceInv, Known
<1>4. CASE UNCHANGED vars
  BY <1>3, <1>4 DEF vars, logVars, linkVars, history
<1>5. ASSUME NEW s \in due, OtherTells(s) PROVE TraceInv'
  BY <1>3, <1>5, OtherTellsDoes
<1>6. ASSUME NEW s \in due, OtherLost(s) PROVE TraceInv'
  BY <1>3, <1>6 DEF OtherLost, Lose, linkVars
<1> QED  BY <1>1, <1>2, <1>4, <1>5, <1>6, RefuseHelloTrace, ClientAppendsTrace, ReceivesTrace,
            CrashTrace, OtherStoresTrace DEF Next

LEMMA TraceInvariant == Spec => []TraceInv
BY TraceStart, TraceNext, BaseInvariant, PTL DEF Spec

-----------------------------------------------------------------------------
(* An append that was sent once is told before it is acknowledged.          *)

AckIn(q, r) == \E i \in 1..Len(q) : IsAck(q[i], r)
Owes(q, m, r) == AckIn(q, r) \/ (m.pc = "ack" /\ m.req = r)
Settles(l, D, r) == Has(l, r) /\ \A s \in D : l[s] # r
Tells(m, l, r) ==
    m.pc = "tell" /\ m.req = r =>
       l[m.cursor] = r /\ \A s \in 1..Len(l) : l[s] = r => s = m.cursor

ToldInv == \A r \in Own \ resent :
    /\ \A c \in Conns : /\ Tells(conn[c], log, r)
                        /\ Owes(outbox[c], conn[c], r) => Settles(log, due, r)
    /\ r \in acked => Settles(log, due, r)

(* The delta of an append is ahead of its Ack. *)
InOrder(q, l, r) ==
    \A i \in 1..Len(q) : q[i].kind = "delta" =>
       \A s \in q[i].seqs : l[s] = r => \A j \in 1..Len(q) : j < i => ~IsAck(q[j], r)
NoDelta(q, l, r) == \A i \in 1..Len(q) : q[i].kind = "delta" => \A s \in q[i].seqs : l[s] # r

(* Nothing more is sent once the connection is closing, so the event of an  *)
(* Ack is there already.                                                    *)
OrderOK(q, m, l, K, A, r) ==
    /\ InOrder(q, l, r)
    /\ r \in A => NoDelta(q, l, r)
    /\ m.sub /\ m.closing /\ (r \in A \/ AckIn(q, r)) =>
          \A s \in 1..Len(l) : l[s] = r => s \in K \/ Brings(q, s)

OrderInv == \A r \in Own \ resent : \A c \in Conns : c = client.sock =>
    OrderOK(outbox[c], conn[c], log, Kept, acked, r)

(* A step of connection c's task that sends nothing but refusals, and after *)
(* which nothing is to be told or acknowledged.                             *)
Calm(c) ==
    /\ OutOthers(c) /\ Quietly(outbox[c], outbox'[c])
    /\ conn'[c].pc \notin {"tell", "ack"} /\ \A e \in Conns : e # c => conn'[e] = conn[e]
    /\ UNCHANGED <<log, due, client, acked, resent>> /\ abandoned \subseteq abandoned'
StaysOpen(c) == conn'[c].sub /\ conn'[c].closing => conn[c].sub /\ conn[c].closing

LEMMA QuietSelf ==
    ASSUME Base, NEW c \in Conns, UNCHANGED outbox
    PROVE  OutOthers(c) /\ Quietly(outbox[c], outbox'[c])
BY BaseOf, OutSame, QuietlyRefl

LEMMA TakeHelloCalm ==
    ASSUME Base, NEW c \in Conns, TakeHello(c) PROVE Calm(c) /\ StaysOpen(c)
<1>1. Takes(c, "hello") /\ UNCHANGED <<log, due, client, acked, resent, outbox, abandoned>>
  BY DEF TakeHello, logVars, history
<1>2. Turns(c, conn[c].pc, TRUE, conn[c].sub, conn[c].closing, conn[c].req,
            conn[c].cursor, conn[c].page)
  BY BaseOf, TakeHelloTurns
<1>3. conn[c].pc = "idle"  BY <1>1 DEF Takes
<1>4. conn'[c].pc \notin {"tell", "ack"} /\ StaysOpen(c) /\ \A e \in Conns : e # c => conn'[e] = conn[e]
  BY <1>2, <1>3 DEF Turns, StaysOpen
<1> QED  BY <1>1, <1>4, QuietSelf DEF Calm

LEMMA RefuseHelloCalm ==
    ASSUME Base, NEW c \in Conns, NEW closes \in BOOLEAN, RefuseHello(c, closes)
    PROVE  Calm(c) /\ StaysOpen(c)
<1>1. Takes(c, "hello") /\ UNCHANGED <<log, due, client, acked, resent, abandoned>>
  BY DEF RefuseHello, logVars, history
<1>2. Turns(c, conn[c].pc, conn[c].hello, conn[c].sub, closes, conn[c].req,
            conn[c].cursor, conn[c].page)
  BY BaseOf, RefuseHelloTurns
<1>3. inbox[c][1].kind = "hello" /\ 1 \in 1..Len(inbox[c]) /\ conn[c].pc = "idle"
  BY <1>1, BaseOf, TakesHead
<1>4. ~conn[c].sub  BY <1>3, BaseOf DEF InboxOK, HandlerOK
<1>5. conn'[c].pc \notin {"tell", "ack"} /\ StaysOpen(c) /\ \A e \in Conns : e # c => conn'[e] = conn[e]
  BY <1>2, <1>3, <1>4 DEF Turns, StaysOpen
<1> QED  BY <1>1, <1>5, RefuseHelloOut DEF Calm

LEMMA TakeTooEarlyCalm ==
    ASSUME Base, NEW c \in Conns, TakeTooEarly(c) PROVE Calm(c) /\ StaysOpen(c)
<1>1. /\ Takes(c, "subscribe") \/ Takes(c, "append")
      /\ UNCHANGED <<log, due, client, conn, acked, resent, abandoned>>
  BY DEF TakeTooEarly, logVars, history
<1>2. conn[c].pc = "idle"  BY <1>1 DEF Takes
<1> QED  BY <1>1, <1>2, TakeTooEarlyOut DEF Calm, StaysOpen

LEMMA RefuseSubscribeCalm ==
    ASSUME Base, NEW c \in Conns, RefuseSubscribe(c) PROVE Calm(c) /\ StaysOpen(c)
<1>1. /\ Takes(c, "subscribe") /\ UNCHANGED <<log, due, client, conn, outbox, acked, resent>>
      /\ abandoned \subseteq abandoned'
  BY DEF RefuseSubscribe, logVars
<1>2. conn[c].pc = "idle"  BY <1>1 DEF Takes
<1> QED  BY <1>1, <1>2, QuietSelf DEF Calm, StaysOpen

LEMMA TakeSubscribeCalm ==
    ASSUME Base, NEW c \in Conns, TakeSubscribe(c) PROVE Calm(c) /\ StaysOpen(c)
<1>1. /\ Takes(c, "subscribe") /\ conn[c].hello
      /\ UNCHANGED <<log, due, client, acked, resent, outbox, abandoned>>
  BY DEF TakeSubscribe, logVars, history
<1>2. Turns(c, "subscribe", conn[c].hello, TRUE, conn[c].closing, conn[c].req,
            inbox[c][1].cursor, conn[c].page)
  BY BaseOf, TakeSubscribeTurns
<1>3. inbox[c][1].kind = "subscribe" /\ 1 \in 1..Len(inbox[c])  BY <1>1, BaseOf, TakesHead
<1>4. ~conn[c].closing  BY <1>1, <1>3, BaseOf DEF InboxOK
<1>5. conn'[c].pc \notin {"tell", "ack"} /\ StaysOpen(c) /\ \A e \in Conns : e # c => conn'[e] = conn[e]
  BY <1>2, <1>4 DEF Turns, StaysOpen
<1> QED  BY <1>1, <1>5, QuietSelf DEF Calm

LEMMA TakeAppendCalm ==
    ASSUME Base, NEW c \in Conns, TakeAppend(c) PROVE Calm(c) /\ StaysOpen(c)
<1>1. UNCHANGED <<log, due, client, acked, resent, outbox, abandoned>>
  BY DEF TakeAppend, logVars, history
<1>2. Turns(c, "append", conn[c].hello, conn[c].sub, conn[c].closing, inbox[c][1].req,
            conn[c].cursor, conn[c].page)
  BY BaseOf, TakeAppendTurns
<1>5. conn'[c].pc \notin {"tell", "ack"} /\ StaysOpen(c) /\ \A e \in Conns : e # c => conn'[e] = conn[e]
  BY <1>2 DEF Turns, StaysOpen
<1> QED  BY <1>1, <1>5, QuietSelf DEF Calm

LEMMA SessionRefusedCalm ==
    ASSUME Base, NEW c \in Conns, SessionRefused(c)
    PROVE  Calm(c) /\ (conn[c].pc = "subscribe" => StaysOpen(c))
<1>1. /\ UNCHANGED <<log, due, client, acked, resent>> /\ abandoned \subseteq abandoned'
  BY DEF SessionRefused, logVars
<1>2. Turns(c, "idle", conn[c].hello, conn[c].sub /\ conn[c].pc # "subscribe", TRUE, NoReq, 0, {})
  BY BaseOf, SessionRefusedTurns
<1>3. /\ conn'[c].pc \notin {"tell", "ack"} /\ (conn[c].pc = "subscribe" => StaysOpen(c))
      /\ \A e \in Conns : e # c => conn'[e] = conn[e]
  BY <1>2 DEF Turns, StaysOpen
<1> QED  BY <1>1, <1>3, SessionRefusedOut DEF Calm

LEMMA SubscribeRefusedCalm ==
    ASSUME Base, NEW c \in Conns, SubscribeRefused(c) PROVE Calm(c) /\ StaysOpen(c)
<1>1. UNCHANGED <<log, due, client, acked, resent, outbox>> /\ abandoned \subseteq abandoned'
  BY DEF SubscribeRefused, logVars, linkVars
<1>2. Turns(c, "idle", conn[c].hello, FALSE, conn[c].closing, NoReq, 0, {})
  BY BaseOf, SubscribeRefusedTurns
<1>5. conn'[c].pc \notin {"tell", "ack"} /\ StaysOpen(c) /\ \A e \in Conns : e # c => conn'[e] = conn[e]
  BY <1>2 DEF Turns, StaysOpen
<1> QED  BY <1>1, <1>5, QuietSelf DEF Calm

LEMMA SessionValidCalm ==
    ASSUME Base, NEW c \in Conns, SessionValid(c) PROVE Calm(c) /\ StaysOpen(c)
<1>1. UNCHANGED <<log, due, client, acked, resent, outbox, abandoned>>
  BY DEF SessionValid, logVars, linkVars, history
<1>2. PICK p \in {"read", "lookup"} :
              Turns(c, p, conn[c].hello, conn[c].sub, conn[c].closing, conn[c].req,
                    conn[c].cursor, conn[c].page)
  BY SessionValidTurns
<1>5. conn'[c].pc \notin {"tell", "ack"} /\ StaysOpen(c) /\ \A e \in Conns : e # c => conn'[e] = conn[e]
  BY <1>2 DEF Turns, StaysOpen
<1> QED  BY <1>1, <1>5, QuietSelf DEF Calm

LEMMA ReadPageCalm ==
    ASSUME Base, NEW c \in Conns, ReadPage(c) PROVE Calm(c) /\ StaysOpen(c)
<1>1. UNCHANGED <<log, due, client, acked, resent, outbox>> /\ abandoned \subseteq abandoned'
  BY DEF ReadPage, logVars, linkVars
<1>2. PICK page : Turns(c, "page", conn[c].hello, conn[c].sub, conn[c].closing, conn[c].req,
                        conn[c].cursor, page)
  BY BaseOf, ReadPageTurns
<1>5. conn'[c].pc \notin {"tell", "ack"} /\ StaysOpen(c) /\ \A e \in Conns : e # c => conn'[e] = conn[e]
  BY <1>2 DEF Turns, StaysOpen
<1> QED  BY <1>1, <1>5, QuietSelf DEF Calm

LEMMA ReadFailsCalm ==
    ASSUME Base, NEW c \in Conns, ReadFails(c) PROVE Calm(c) /\ StaysOpen(c)
<1>1. /\ Goes(c, "page") /\ UNCHANGED <<log, due, client, acked, resent, outbox>>
      /\ abandoned \subseteq abandoned'
  BY DEF ReadFails, logVars, linkVars
<1>2. Turns(c, "page", conn[c].hello, conn[c].sub, conn[c].closing, conn[c].req,
            conn[c].cursor, conn[c].page)
  BY <1>1, BaseOf, GoesTurns
<1>5. conn'[c].pc \notin {"tell", "ack"} /\ StaysOpen(c) /\ \A e \in Conns : e # c => conn'[e] = conn[e]
  BY <1>2 DEF Turns, StaysOpen
<1> QED  BY <1>1, <1>5, QuietSelf DEF Calm

LEMMA AppendRefusedCalm ==
    ASSUME Base, NEW c \in Conns, AppendRefused(c) PROVE Calm(c) /\ StaysOpen(c)
<1>1. /\ conn' = [conn EXCEPT ![c] = Done(c)]
      /\ UNCHANGED <<log, due, client, acked, resent, abandoned>>
  BY DEF AppendRefused, logVars, history
<1>2. Turns(c, "idle", conn[c].hello, conn[c].sub, conn[c].closing, NoReq, 0, {})
  BY <1>1, BaseOf, DoneTurns
<1>5. conn'[c].pc \notin {"tell", "ack"} /\ StaysOpen(c) /\ \A e \in Conns : e # c => conn'[e] = conn[e]
  BY <1>2 DEF Turns, StaysOpen
<1> QED  BY <1>1, <1>5, AppendRefusedOut DEF Calm

-----------------------------------------------------------------------------
(* Told before acknowledged, step by step.                                 *)

LEMMA PopAck ==
    ASSUME NEW q, NEW p, Popped(q, p), NEW r, NEW l
    PROVE  /\ AckIn(q, r) <=> AckIn(p, r) \/ IsAck(q[1], r)
           /\ NoDelta(q, l, r) => NoDelta(p, l, r)
           /\ InOrder(q, l, r) => InOrder(p, l, r)
           /\ InOrder(q, l, r) /\ IsAck(q[1], r) => NoDelta(p, l, r)
<1>1. \A i \in 1..Len(q) : i = 1 \/ (i - 1 \in 1..Len(p) /\ p[i - 1] = q[i])
  <2> SUFFICES ASSUME NEW i \in 1..Len(q), i # 1 PROVE i - 1 \in 1..Len(p) /\ p[i - 1] = q[i]
    OBVIOUS
  <2>1. i - 1 \in 1..Len(p) /\ (i - 1) + 1 = i  BY DEF Popped
  <2>2. p[i - 1] = q[(i - 1) + 1]  BY <2>1 DEF Popped
  <2> QED  BY <2>1, <2>2
<1>2. /\ 1 \in 1..Len(q)
      /\ \A i \in 1..Len(p) : i + 1 \in 1..Len(q) /\ p[i] = q[i + 1] /\ i + 1 # 1 /\ 1 < i + 1
  BY DEF Popped
<1>3. AckIn(q, r) <=> AckIn(p, r) \/ IsAck(q[1], r)  BY <1>1, <1>2 DEF AckIn
<1>4. NoDelta(q, l, r) => NoDelta(p, l, r)  BY <1>2 DEF NoDelta
<1>5. ASSUME InOrder(q, l, r) PROVE InOrder(p, l, r)
  <2> SUFFICES ASSUME NEW i \in 1..Len(p), p[i].kind = "delta", NEW s \in p[i].seqs, l[s] = r,
                      NEW j \in 1..Len(p), j < i
               PROVE  ~IsAck(p[j], r)
    BY DEF InOrder
  <2>1. j + 1 < i + 1  BY DEF Popped
  <2> QED  BY <1>2, <1>5, <2>1 DEF InOrder
<1>6. ASSUME InOrder(q, l, r), IsAck(q[1], r) PROVE NoDelta(p, l, r)
  <2> SUFFICES ASSUME NEW i \in 1..Len(p), p[i].kind = "delta", NEW s \in p[i].seqs, l[s] = r
               PROVE  FALSE
    BY DEF NoDelta
  <2> QED  BY <1>2, <1>6 DEF InOrder
<1> QED  BY <1>3, <1>4, <1>5, <1>6

LEMMA PushAck ==
    ASSUME NEW q, NEW p, NEW f, Pushed(q, p, f), NEW r, NEW l
    PROVE  /\ AckIn(p, r) <=> AckIn(q, r) \/ IsAck(f, r)
           /\ NoDelta(q, l, r) /\ (f.kind = "delta" => \A s \in f.seqs : l[s] # r) => NoDelta(p, l, r)
           /\ InOrder(q, l, r) /\ (f.kind = "delta" /\ AckIn(q, r) => \A s \in f.seqs : l[s] # r)
                => InOrder(p, l, r)
<1>1. \A i \in 1..Len(p) : (i \in 1..Len(q) /\ p[i] = q[i]) \/ (i = Len(p) /\ p[i] = f)  BY DEF Pushed
<1>2. \A i \in 1..Len(q) : i \in 1..Len(p) /\ p[i] = q[i]  BY DEF Pushed
<1>3. Len(p) \in 1..Len(p) /\ p[Len(p)] = f  BY DEF Pushed
<1>4. AckIn(p, r) <=> AckIn(q, r) \/ IsAck(f, r)  BY <1>1, <1>2, <1>3 DEF AckIn
<1>5. NoDelta(q, l, r) /\ (f.kind = "delta" => \A s \in f.seqs : l[s] # r) => NoDelta(p, l, r)
  BY <1>1 DEF NoDelta
<1>6. ASSUME InOrder(q, l, r), f.kind = "delta" /\ AckIn(q, r) => \A s \in f.seqs : l[s] # r
      PROVE  InOrder(p, l, r)
  <2> SUFFICES ASSUME NEW i \in 1..Len(p), p[i].kind = "delta", NEW s \in p[i].seqs, l[s] = r,
                      NEW j \in 1..Len(p), j < i, IsAck(p[j], r)
               PROVE  FALSE
    BY DEF InOrder
  <2>1. j \in 1..Len(q) /\ p[j] = q[j]  BY DEF Pushed
  <2>2. CASE i \in 1..Len(q) /\ p[i] = q[i]  BY <1>6, <2>1, <2>2 DEF InOrder
  <2>3. CASE p[i] = f  BY <1>6, <2>1, <2>3 DEF AckIn
  <2> QED  BY <1>1, <2>2, <2>3
<1> QED  BY <1>4, <1>5, <1>6

LEMMA QuietAck ==
    ASSUME NEW q, NEW p, Quietly(q, p), NEW r, NEW l
    PROVE  /\ AckIn(p, r) => AckIn(q, r)
           /\ NoDelta(q, l, r) => NoDelta(p, l, r)
           /\ InOrder(q, l, r) => InOrder(p, l, r)
           /\ \A s : Brings(q, s) => Brings(p, s)
<1>1. \A i \in 1..Len(p) : (i \in 1..Len(q) /\ p[i] = q[i]) \/ p[i].kind \in {"nack", "close"}
  BY DEF Quietly
<1>2. \A i \in 1..Len(q) : i \in 1..Len(p) /\ p[i] = q[i]  BY DEF Quietly
<1>3. AckIn(p, r) => AckIn(q, r)  BY <1>1 DEF AckIn, IsAck
<1>4. NoDelta(q, l, r) => NoDelta(p, l, r)  BY <1>1 DEF NoDelta
<1>5. ASSUME InOrder(q, l, r) PROVE InOrder(p, l, r)
  <2> SUFFICES ASSUME NEW i \in 1..Len(p), p[i].kind = "delta", NEW s \in p[i].seqs, l[s] = r,
                      NEW j \in 1..Len(p), j < i, IsAck(p[j], r)
               PROVE  FALSE
    BY DEF InOrder
  <2>1. i \in 1..Len(q) /\ p[i] = q[i]  BY <1>1
  <2>2. j \in 1..Len(q) /\ p[j] = q[j]  BY <1>1 DEF IsAck
  <2> QED  BY <1>5, <2>1, <2>2 DEF InOrder
<1>6. \A s : Brings(q, s) => Brings(p, s)  BY <1>2 DEF Brings
<1> QED  BY <1>3, <1>4, <1>5, <1>6

(* Nothing is acknowledged that was not about to be. *)
LEMMA LessTold ==
    ASSUME ToldInv, UNCHANGED log, due' \subseteq due, resent \subseteq resent',
           \A r \in Own \ resent' :
              /\ \A e \in Conns : /\ Tells(conn[e], log, r) => Tells(conn'[e], log, r)
                                  /\ Owes(outbox'[e], conn'[e], r) => Owes(outbox[e], conn[e], r)
              /\ r \in acked' => r \in acked \/ \E e \in Conns : Owes(outbox[e], conn[e], r)
    PROVE  ToldInv'
<1> SUFFICES ASSUME NEW r \in Own \ resent'
             PROVE  /\ \A c \in Conns : /\ Tells(conn'[c], log, r)
                                        /\ Owes(outbox'[c], conn'[c], r) => Settles(log, due', r)
                    /\ r \in acked' => Settles(log, due', r)
  BY DEF ToldInv
<1>1. r \in Own \ resent  OBVIOUS
<1>2. Settles(log, due, r) => Settles(log, due', r)  BY DEF Settles
<1> QED  BY <1>1, <1>2 DEF ToldInv

LEMMA TaskTold ==
    ASSUME ToldInv, NEW c \in Conns, UNCHANGED <<log, due, resent, acked>>, OutOthers(c),
           \A e \in Conns : e # c => conn'[e] = conn[e],
           \A r \in Own \ resent :
              /\ Tells(conn[c], log, r) => Tells(conn'[c], log, r)
              /\ Owes(outbox'[c], conn'[c], r) => Owes(outbox[c], conn[c], r)
    PROVE  ToldInv'
<1>1. ASSUME NEW r \in Own \ resent', NEW e \in Conns
      PROVE  /\ Tells(conn[e], log, r) => Tells(conn'[e], log, r)
             /\ Owes(outbox'[e], conn'[e], r) => Owes(outbox[e], conn[e], r)
  <2>1. CASE e = c  BY <2>1
  <2>2. CASE e # c  BY <2>2 DEF OutOthers
  <2> QED  BY <2>1, <2>2
<1> QED  BY <1>1, LessTold

LEMMA CalmTold == ASSUME ToldInv, NEW c \in Conns, Calm(c) PROVE ToldInv'
<1>1. ASSUME NEW r
      PROVE  /\ Tells(conn'[c], log, r)
             /\ Owes(outbox'[c], conn'[c], r) => Owes(outbox[c], conn[c], r)
  <2>1. conn'[c].pc \notin {"tell", "ack"} /\ Quietly(outbox[c], outbox'[c])  BY DEF Calm
  <2>2. AckIn(outbox'[c], r) => AckIn(outbox[c], r)  BY <2>1, QuietAck
  <2> QED  BY <2>1, <2>2 DEF Tells, Owes
<1> QED  BY <1>1, TaskTold DEF Calm

LEMMA SendPageTold == ASSUME Base, ToldInv, NEW c \in Conns, SendPage(c) PROVE ToldInv'
<1>1. /\ conn[c].pc = "page" /\ conn' = [conn EXCEPT ![c] = Done(c)]
      /\ UNCHANGED <<log, due, resent, acked>>
  BY DEF SendPage, logVars, history
<1>2. Turns(c, "idle", conn[c].hello, conn[c].sub, conn[c].closing, NoReq, 0, {})
  BY <1>1, BaseOf, DoneTurns
<1>3. ~conn[c].closing  BY <1>1, BaseOf DEF HandlerOK
<1>4. OutOthers(c) /\ Pushed(outbox[c], outbox'[c], PageFrame(c)) /\ PageFrame(c).kind = "page"
  BY <1>3, SendPageOut, PageFrameOK
<1>5. \A r : AckIn(outbox'[c], r) => AckIn(outbox[c], r)  BY <1>4, PushAck DEF IsAck
<1>6. conn'[c].pc = "idle" /\ \A e \in Conns : e # c => conn'[e] = conn[e]  BY <1>2 DEF Turns
<1>7. \A r : /\ Tells(conn'[c], log, r)
             /\ Owes(outbox'[c], conn'[c], r) => Owes(outbox[c], conn[c], r)
  BY <1>5, <1>6 DEF Tells, Owes
<1> QED  BY <1>1, <1>4, <1>6, <1>7, TaskTold

LEMMA AckAppendTold == ASSUME Base, ToldInv, NEW c \in Conns, AckAppend(c) PROVE ToldInv'
<1>1. /\ conn[c].pc = "ack" /\ conn' = [conn EXCEPT ![c] = Done(c)]
      /\ UNCHANGED <<log, due, resent, acked>>
  BY DEF AckAppend, logVars, history
<1>2. Turns(c, "idle", conn[c].hello, conn[c].sub, conn[c].closing, NoReq, 0, {})
  BY <1>1, BaseOf, DoneTurns
<1>3. /\ OutOthers(c) /\ conn[c].req \in Own
      /\ conn[c].closing => outbox'[c] = outbox[c]
      /\ ~conn[c].closing => Pushed(outbox[c], outbox'[c], AckFrame(conn[c].req))
  BY AckAppendOut
<1>4. AckFrame(conn[c].req).req = conn[c].req  BY <1>3, BaseOf, AckFrameOK
<1>5. ASSUME NEW r PROVE AckIn(outbox'[c], r) => AckIn(outbox[c], r) \/ r = conn[c].req
  <2>1. CASE conn[c].closing  BY <1>3, <2>1
  <2>2. CASE ~conn[c].closing
    <3>1. AckIn(outbox'[c], r) => AckIn(outbox[c], r) \/ IsAck(AckFrame(conn[c].req), r)
      BY <1>3, <2>2, PushAck
    <3>2. IsAck(AckFrame(conn[c].req), r) => r = conn[c].req  BY <1>4 DEF IsAck
    <3> QED  BY <3>1, <3>2
  <2> QED  BY <2>1, <2>2
<1>6. conn'[c].pc = "idle" /\ \A e \in Conns : e # c => conn'[e] = conn[e]  BY <1>2 DEF Turns
<1>7. \A r : /\ Tells(conn'[c], log, r)
             /\ Owes(outbox'[c], conn'[c], r) => Owes(outbox[c], conn[c], r)
  BY <1>1, <1>5, <1>6 DEF Tells, Owes
<1> QED  BY <1>1, <1>3, <1>6, <1>7, TaskTold

(* The lookup of an append that was sent once finds nothing. *)
LEMMA LookupTold == ASSUME Base, TraceInv, ToldInv, NEW c \in Conns, LookupRequest(c) PROVE ToldInv'
<1>1. conn[c].pc = "lookup" /\ UNCHANGED <<log, due, resent, acked, outbox>>
  BY DEF LookupRequest, logVars, linkVars, history
<1>2. PICK p \in {"ack", "insert"} :
         /\ p = "ack" <=> \E s \in 1..Len(log) : log[s] = conn[c].req
         /\ Turns(c, p, conn[c].hello, conn[c].sub, conn[c].closing, conn[c].req,
                  conn[c].cursor, conn[c].page)
  BY LookupTurns
<1>3. OutOthers(c) /\ outbox'[c] = outbox[c]  BY <1>1, BaseOf, OutSame
<1>4. conn'[c].pc = p /\ conn'[c].req = conn[c].req /\ \A e \in Conns : e # c => conn'[e] = conn[e]
  BY <1>2 DEF Turns
<1>5. ASSUME NEW r \in Own \ resent
      PROVE  /\ Tells(conn'[c], log, r)
             /\ Owes(outbox'[c], conn'[c], r) => Owes(outbox[c], conn[c], r)
  <2>1. r = conn[c].req => ~Has(log, r)  BY <1>1, TraceOf DEF Tracks, Holds
  <2>2. r = conn[c].req => p = "insert"  BY <1>2, <2>1 DEF Has
  <2> QED  BY <1>2, <1>3, <1>4, <2>2 DEF Tells, Owes
<1> QED  BY <1>1, <1>3, <1>4, <1>5, TaskTold

LEMMA UnregisterTold == ASSUME Base, ToldInv, NEW c \in Conns, Unregister(c) PROVE ToldInv'
<1>1. /\ outbox' = [outbox EXCEPT ![c] = <<>>] /\ UNCHANGED <<log, due, resent, acked>>
  BY DEF Unregister, logVars, history
<1>2. Turns(c, "gone", FALSE, FALSE, FALSE, NoReq, 0, {})  BY BaseOf, UnregisterTurns
<1>3. <<>> \in Seq(Frames) /\ outbox \in [Conns -> Seq(Frames)]  BY EmptySeq, ShapeOut DEF Base
<1>4. OutOthers(c) /\ outbox'[c] = <<>>  BY <1>1, <1>3 DEF OutOthers
<1>5. conn'[c].pc = "gone" /\ \A e \in Conns : e # c => conn'[e] = conn[e]  BY <1>2 DEF Turns
<1>6. \A r : Tells(conn'[c], log, r) /\ ~Owes(outbox'[c], conn'[c], r)
  BY <1>4, <1>5 DEF Tells, Owes, AckIn
<1> QED  BY <1>1, <1>4, <1>5, <1>6, TaskTold

(* The event is told, and then the handler may acknowledge it. *)
LEMMA BroadcastAck ==
    ASSUME Base, NEW s \in 1..Len(log), Broadcasts(s), NEW e \in Conns, NEW r
    PROVE  AckIn(outbox'[e], r) => AckIn(outbox[e], r)
<1>1. CASE Served(e)
  <2>1. Pushed(outbox[e], outbox'[e], Delta(s)) /\ Delta(s).kind = "delta"
    BY <1>1, BroadcastOut, DeltaOK
  <2> QED  BY <2>1, PushAck DEF IsAck
<1>2. CASE ~Served(e)  BY <1>2, BroadcastOut
<1> QED  BY <1>1, <1>2

LEMMA FanOutOwnTold == ASSUME Base, ToldInv, NEW c \in Conns, FanOutOwn(c) PROVE ToldInv'
<1> DEFINE s == conn[c].cursor
<1>1. /\ s \in due /\ s \in 1..Len(log) /\ conn[c].pc = "tell"
      /\ due' = due \ {s} /\ Broadcasts(s) /\ UNCHANGED <<log, acked, resent>>
      /\ Turns(c, "ack", conn[c].hello, conn[c].sub, conn[c].closing, conn[c].req,
               conn[c].cursor, conn[c].page)
  BY FanOutOwnDoes
<1>2. conn'[c].pc = "ack" /\ conn'[c].req = conn[c].req /\ \A e \in Conns : e # c => conn'[e] = conn[e]
  BY <1>1 DEF Turns
<1>3. due \subseteq 1..Len(log)  BY DEF Base, Shape
<1>4. ASSUME NEW r \in Own \ resent
      PROVE  /\ \A e \in Conns : /\ Tells(conn'[e], log, r)
                                 /\ Owes(outbox'[e], conn'[e], r) => Settles(log, due', r)
             /\ r \in acked => Settles(log, due', r)
  <2>1. Settles(log, due, r) => Settles(log, due', r)  BY <1>1 DEF Settles
  <2>2. ASSUME r = conn[c].req PROVE Settles(log, due', r)
    <3>1. log[s] = r /\ \A o \in 1..Len(log) : log[o] = r => o = s
      BY <1>1, <2>2 DEF ToldInv, Tells
    <3> QED  BY <1>1, <1>3, <3>1 DEF Settles, Has
  <2>3. ASSUME NEW e \in Conns PROVE AckIn(outbox'[e], r) => AckIn(outbox[e], r)
    BY <1>1, BroadcastAck
  <2>4. ASSUME NEW e \in Conns, e # c
        PROVE  Tells(conn'[e], log, r) /\ (Owes(outbox'[e], conn'[e], r) => Settles(log, due', r))
    <3>1. conn'[e] = conn[e]  BY <1>2, <2>4
    <3>2. Tells(conn[e], log, r) /\ (Owes(outbox[e], conn[e], r) => Settles(log, due, r))
      BY DEF ToldInv
    <3> QED  BY <2>1, <2>3, <3>1, <3>2 DEF Owes
  <2>5. Tells(conn'[c], log, r)  BY <1>2 DEF Tells
  <2>6. Owes(outbox'[c], conn'[c], r) => Settles(log, due', r)
    <3>1. AckIn(outbox[c], r) => Settles(log, due, r)  BY DEF ToldInv, Owes
    <3> QED  BY <1>2, <2>1, <2>2, <2>3, <3>1 DEF Owes
  <2>7. r \in acked => Settles(log, due', r)  BY <2>1 DEF ToldInv
  <2> QED  BY <2>4, <2>5, <2>6, <2>7
<1> QED  BY <1>1, <1>4 DEF ToldInv

LEMMA OtherTellsTold == ASSUME Base, ToldInv, NEW s \in due, OtherTells(s) PROVE ToldInv'
<1>1. /\ s \in 1..Len(log) /\ due' = due \ {s} /\ Broadcasts(s)
      /\ UNCHANGED <<log, conn, acked, resent>>
  BY OtherTellsDoes
<1>2. \A e \in Conns, r \in Own : Owes(outbox'[e], conn'[e], r) => Owes(outbox[e], conn[e], r)
  BY <1>1, BroadcastAck DEF Owes
<1>3. due' \subseteq due  BY <1>1
<1> QED  BY <1>1, <1>2, <1>3, LessTold

LEMMA OtherLostTold == ASSUME Base, ToldInv, NEW s \in due, OtherLost(s) PROVE ToldInv'
<1>1. due' \subseteq due /\ UNCHANGED <<log, conn, outbox, acked, resent>>
  BY DEF OtherLost, Lose, linkVars
<1> QED  BY <1>1, LessTold

(* A new event: of a request nobody has acknowledged. *)
LEMMA StoreTold ==
    ASSUME Base, ToldInv, NEW o \in Requests, Insert(o), Len(log) < MaxLog,
           o \in Own \ resent => ~Has(log, o),
           UNCHANGED <<outbox, acked, resent>>,
           \A e \in Conns :
              \/ conn'[e] = conn[e]
              \/ conn'[e].pc = "tell" /\ conn'[e].req = o /\ conn'[e].cursor = Len(log')
    PROVE  ToldInv'
<1>1. /\ Len(log') = Len(log) + 1 /\ Len(log) \in Nat /\ due' = due \cup {Len(log')}
      /\ log'[Len(log')] = o /\ \A s \in 1..Len(log) : log'[s] = log[s]
  BY InsertGrows DEF Base
<1>2. \A s \in 1..Len(log') : s \in 1..Len(log) \/ s = Len(log')  BY <1>1
<1>3. \A r : Has(log', r) <=> Has(log, r) \/ r = o  BY HasAppend DEF Base
<1>4. due \subseteq 1..Len(log)  BY DEF Base, Shape
<1>5. ASSUME NEW r \in Own \ resent
      PROVE  Settles(log, due, r) => Settles(log', due', r)
  <2> SUFFICES ASSUME Settles(log, due, r) PROVE Settles(log', due', r)  OBVIOUS
  <2>1. Has(log, r) /\ r # o  BY DEF Settles
  <2>2. \A s \in due : log'[s] # r  BY <1>1, <1>4 DEF Settles
  <2> QED  BY <1>1, <1>3, <2>1, <2>2 DEF Settles
<1>6. ASSUME NEW r \in Own \ resent, NEW e \in Conns
      PROVE  /\ Tells(conn'[e], log', r)
             /\ Owes(outbox[e], conn'[e], r) => Settles(log', due', r)
  <2>1. Tells(conn[e], log, r) /\ (Owes(outbox[e], conn[e], r) => Settles(log, due, r))
    BY DEF ToldInv
  <2>2. CASE conn'[e] = conn[e]
    <3>1. ASSUME conn[e].pc = "tell", conn[e].req = r
          PROVE  log'[conn[e].cursor] = r /\ \A s \in 1..Len(log') : log'[s] = r => s = conn[e].cursor
      <4>1. log[conn[e].cursor] = r /\ \A s \in 1..Len(log) : log[s] = r => s = conn[e].cursor
        BY <2>1, <3>1 DEF Tells
      <4>2. conn[e].cursor \in 1..Len(log)
        <5>1. conn[e].cursor >= 1 /\ conn[e].cursor <= Len(log)  BY <3>1, BaseOf DEF HandlerOK
        <5>2. conn[e].cursor \in Nat  BY BaseOf, ConnTypes
        <5> QED  BY <1>1, <5>1, <5>2
      <4>3. r # o  BY <4>1, <4>2 DEF Has
      <4> QED  BY <1>1, <1>2, <4>1, <4>2, <4>3
    <3> QED  BY <1>5, <2>1, <2>2, <3>1 DEF Tells
  <2>3. CASE conn'[e].pc = "tell" /\ conn'[e].req = o /\ conn'[e].cursor = Len(log')
    <3>1. r = o => \A s \in 1..Len(log') : log'[s] = r => s = Len(log')  BY <1>1, <1>2 DEF Has
    <3>2. Tells(conn'[e], log', r)  BY <1>1, <2>3, <3>1 DEF Tells
    <3>3. Owes(outbox[e], conn'[e], r) => Owes(outbox[e], conn[e], r)  BY <2>3 DEF Owes
    <3> QED  BY <1>5, <2>1, <3>2, <3>3
  <2> QED  BY <2>2, <2>3
<1>7. \A r \in Own \ resent : r \in acked => Settles(log', due', r)  BY <1>5 DEF ToldInv
<1> QED  BY <1>6, <1>7 DEF ToldInv

LEMMA StoreAppendTold == ASSUME Base, TraceInv, ToldInv, NEW c \in Conns, StoreAppend(c) PROVE ToldInv'
<1>1. /\ conn[c].pc = "insert" /\ Len(log) < MaxLog /\ Insert(conn[c].req)
      /\ UNCHANGED <<outbox, acked, resent>>
  BY DEF StoreAppend, linkVars, history
<1>2. Turns(c, "tell", conn[c].hello, conn[c].sub, conn[c].closing, conn[c].req,
            Len(log) + 1, conn[c].page)
  BY BaseOf, StoreAppendTurns
<1>3. conn[c].req \in Requests  BY <1>1, BaseOf, OwnAssumption DEF HandlerOK
<1>4. Len(log') = Len(log) + 1  BY <1>1, <1>3, InsertGrows DEF Base
<1>5. /\ conn'[c].pc = "tell" /\ conn'[c].req = conn[c].req /\ conn'[c].cursor = Len(log')
      /\ \A e \in Conns : e # c => conn'[e] = conn[e]
  BY <1>2, <1>4 DEF Turns
<1>6. conn[c].req \in Own \ resent => ~Has(log, conn[c].req)  BY <1>1, TraceOf DEF Tracks, Holds
<1> QED  BY <1>1, <1>3, <1>5, <1>6, StoreTold

LEMMA OtherStoresTold == ASSUME Base, ToldInv, NEW o \in Requests \ Own, OtherStores(o) PROVE ToldInv'
<1>1. Len(log) < MaxLog /\ Insert(o) /\ UNCHANGED <<conn, outbox, acked, resent>>
  BY DEF OtherStores, linkVars, history
<1> QED  BY <1>1, StoreTold

LEMMA ConnectTold == ASSUME Base, ToldInv, NEW c \in Conns, Connect(c) PROVE ToldInv'
<1>0. Shape  BY DEF Base
<1>1. /\ resent' = resent \cup client.pending /\ UNCHANGED <<log, due, outbox, acked>>
  BY <1>0, ConnectDoes
<1>2. Turns(c, "idle", FALSE, FALSE, FALSE, NoReq, 0, {})  BY <1>0, ConnectTurns
<1>3. conn'[c].pc = "idle" /\ \A e \in Conns : e # c => conn'[e] = conn[e]  BY <1>2 DEF Turns
<1>4. ASSUME NEW r, NEW e \in Conns
      PROVE  /\ Tells(conn[e], log, r) => Tells(conn'[e], log, r)
             /\ Owes(outbox'[e], conn'[e], r) => Owes(outbox[e], conn[e], r)
  <2>1. CASE e = c  BY <1>1, <1>3, <2>1 DEF Tells, Owes
  <2>2. CASE e # c  BY <1>1, <1>3, <2>2
  <2> QED  BY <2>1, <2>2
<1>5. resent \subseteq resent' /\ due' \subseteq due  BY <1>1
<1> QED  BY <1>1, <1>4, <1>5, LessTold

LEMMA ClientAppendsTold == ASSUME Base, ToldInv, NEW r \in Own, ClientAppends(r) PROVE ToldInv'
<1>1. UNCHANGED <<log, due, conn, outbox, acked, resent>>  BY ClientAppendsDoes
<1> QED  BY <1>1 DEF ToldInv

LEMMA DropsTold ==
    ASSUME Base, ToldInv, NEW c \in Conns, Drops(c), UNCHANGED <<log, due, conn, acked, resent>>
    PROVE  ToldInv'
<1>1. outbox'[c] = <<>> /\ \A e \in Conns : e # c => outbox'[e] = outbox[e]  BY DropsDoes
<1>2. \A r : ~AckIn(<<>>, r)  BY DEF AckIn
<1>3. \A e \in Conns, r \in Own : Owes(outbox'[e], conn[e], r) => Owes(outbox[e], conn[e], r)
  BY <1>1, <1>2 DEF Owes
<1> QED  BY <1>3, LessTold

LEMMA CrashTold == ASSUME Base, ToldInv, Crash PROVE ToldInv'
<1>1. /\ due' = {} /\ UNCHANGED <<log, acked, resent>> /\ outbox' = [c \in Conns |-> <<>>]
      /\ \A c \in Conns : conn'[c] = Gone \/ (conn'[c] = conn[c] /\ ~Live(c))
  BY CrashDoes
<1>2. \A c \in Conns : conn'[c].pc \in {"unused", "gone"} /\ outbox'[c] = <<>>
  BY <1>1, GoneFields DEF Live
<1>3. \A r : ~AckIn(<<>>, r)  BY DEF AckIn
<1>4. \A c \in Conns, r \in Own : Tells(conn'[c], log, r) /\ ~Owes(outbox'[c], conn'[c], r)
  BY <1>2, <1>3 DEF Tells, Owes
<1> QED  BY <1>1, <1>4, LessTold

LEMMA ReceivesTold == ASSUME Base, ToldInv, Receives PROVE ToldInv'
<1> DEFINE c == client.sock
<1>1. /\ c \in Conns /\ UNCHANGED <<log, due, conn, inbox>>
      /\ \/ Drops(c) /\ UNCHANGED <<acked, nacked, resent>>
         \/ Pops(c) /\ (Data(c) \/ Answer(c))
  BY ReceivesDoes
<1>2. CASE Drops(c) /\ UNCHANGED <<acked, nacked, resent>>  BY <1>1, <1>2, DropsTold
<1>3. CASE Pops(c) /\ (Data(c) \/ Answer(c))
  <2>1. Popped(outbox[c], outbox'[c]) /\ OutOthers(c) /\ UNCHANGED resent  BY <1>3 DEF Pops
  <2>2. \A r : AckIn(outbox[c], r) <=> AckIn(outbox'[c], r) \/ IsAck(outbox[c][1], r)
    BY <2>1, PopAck
  <2>3. ASSUME NEW r \in acked' PROVE r \in acked \/ AckIn(outbox[c], r)
    <3>1. r \in acked \/ IsAck(outbox[c][1], r)
      BY <1>3, <2>3 DEF Data, Answer, IsAck
    <3> QED  BY <2>2, <3>1
  <2>4. ASSUME NEW e \in Conns, NEW r
        PROVE  Owes(outbox'[e], conn[e], r) => Owes(outbox[e], conn[e], r)
    <3>1. CASE e = c  BY <2>2, <3>1 DEF Owes
    <3>2. CASE e # c  BY <2>1, <3>2 DEF OutOthers
    <3> QED  BY <3>1, <3>2
  <2>5. \A r \in acked' : r \in acked \/ \E e \in Conns : Owes(outbox[e], conn[e], r)
    BY <1>1, <2>3 DEF Owes
  <2> QED  BY <1>1, <2>1, <2>4, <2>5, LessTold
<1> QED  BY <1>1, <1>2, <1>3

LEMMA ToldStart == Init => ToldInv
<1> SUFFICES ASSUME Init PROVE ToldInv  OBVIOUS
<1>1. /\ acked = {} /\ conn = [c \in Conns |-> Unused] /\ outbox = [c \in Conns |-> <<>>]
  BY DEF Init
<1>2. \A c \in Conns : outbox[c] = <<>> /\ conn[c].pc = "unused"  BY <1>1, UnusedFields
<1>3. \A r : ~AckIn(<<>>, r)  BY DEF AckIn
<1> QED  BY <1>1, <1>2, <1>3 DEF ToldInv, Tells, Owes

LEMMA ToldNext == Base /\ TraceInv /\ ToldInv /\ [Next]_vars => ToldInv'
<1> SUFFICES ASSUME Base, TraceInv, ToldInv, [Next]_vars PROVE ToldInv'  OBVIOUS
<1>1. ASSUME NEW c \in Conns,
             Connect(c) \/ TaskStep(c) \/ SessionRefused(c) \/ RefuseSubscribe(c)
               \/ SubscribeRefused(c) \/ ReadFails(c) \/ AppendRefused(c) \/ Unregister(c)
      PROVE  ToldInv'
  <2>1. CASE TaskStep(c)
    BY <2>1, TakeHelloCalm, TakeTooEarlyCalm, TakeSubscribeCalm, TakeAppendCalm, SessionValidCalm,
       ReadPageCalm, CalmTold, SendPageTold, LookupTold, StoreAppendTold, FanOutOwnTold, AckAppendTold
       DEF TaskStep
  <2> QED  BY <1>1, <2>1, ConnectTold, SessionRefusedCalm, RefuseSubscribeCalm, SubscribeRefusedCalm,
              ReadFailsCalm, AppendRefusedCalm, CalmTold, UnregisterTold
<1>2. ASSUME NEW c \in Conns, NEW closes \in BOOLEAN, RefuseHello(c, closes) PROVE ToldInv'
  BY <1>2, RefuseHelloCalm, CalmTold
<1>3. CASE Cut  BY <1>3, CutDoes, DropsTold
<1>4. CASE UNCHANGED vars
  <2>1. UNCHANGED <<log, due, conn, outbox, acked, resent>>
    BY <1>4 DEF vars, logVars, linkVars, history
  <2> QED  BY <2>1 DEF ToldInv
<1> QED  BY <1>1, <1>2, <1>3, <1>4, ClientAppendsTold, ReceivesTold, CrashTold,
            OtherStoresTold, OtherTellsTold, OtherLostTold DEF Next

LEMMA ToldInvariant == Spec => []ToldInv
BY ToldStart, ToldNext, BaseInvariant, TraceInvariant, PTL DEF Spec

-----------------------------------------------------------------------------
(* The delta is ahead of the Ack.                                          *)

LEMMA OrderOf ==
    ASSUME OrderInv, NEW r \in Own \ resent, NEW c \in Conns, c = client.sock
    PROVE  OrderOK(outbox[c], conn[c], log, Kept, acked, r)
BY DEF OrderInv

LEMMA MoreOrder ==
    ASSUME NEW K, NEW L, K \subseteq L, NEW q, NEW m, NEW l, NEW A, NEW r, OrderOK(q, m, l, K, A, r)
    PROVE  OrderOK(q, m, l, L, A, r)
BY DEF OrderOK

(* A step of connection c's task that stores nothing. *)
LEMMA TaskOrder ==
    ASSUME OrderInv, NEW c \in Conns, OutOthers(c), \A e \in Conns : e # c => conn'[e] = conn[e],
           UNCHANGED <<log, client, acked, resent>>, abandoned \subseteq abandoned',
           c = client.sock =>
             \A r \in Own \ resent : OrderOK(outbox'[c], conn'[c], log, Kept', acked, r)
    PROVE  OrderInv'
<1>1. Kept \subseteq Kept'  BY DEF Kept
<1>2. ASSUME NEW r \in Own \ resent, NEW e \in Conns, e = client.sock
      PROVE  OrderOK(outbox'[e], conn'[e], log, Kept', acked, r)
  <2>1. CASE e = c  BY <1>2, <2>1
  <2>2. CASE e # c
    <3>1. outbox'[e] = outbox[e] /\ conn'[e] = conn[e]  BY <2>2 DEF OutOthers
    <3>2. OrderOK(outbox[e], conn[e], log, Kept, acked, r)  BY <1>2, OrderOf
    <3>3. OrderOK(outbox[e], conn[e], log, Kept', acked, r)  BY <1>1, <3>2, MoreOrder
    <3> QED  BY <3>1, <3>3
  <2> QED  BY <2>1, <2>2
<1> QED  BY <1>2 DEF OrderInv

LEMMA CalmOrder == ASSUME OrderInv, NEW c \in Conns, Calm(c), StaysOpen(c) PROVE OrderInv'
<1>1. /\ OutOthers(c) /\ Quietly(outbox[c], outbox'[c]) /\ \A e \in Conns : e # c => conn'[e] = conn[e]
      /\ UNCHANGED <<log, client, acked, resent>> /\ abandoned \subseteq abandoned'
  BY DEF Calm
<1>2. Kept \subseteq Kept'  BY <1>1 DEF Kept
<1>3. ASSUME c = client.sock, NEW r \in Own \ resent
      PROVE  OrderOK(outbox'[c], conn'[c], log, Kept', acked, r)
  <2>1. OrderOK(outbox[c], conn[c], log, Kept, acked, r)  BY <1>3, OrderOf
  <2>2. /\ AckIn(outbox'[c], r) => AckIn(outbox[c], r)
        /\ NoDelta(outbox[c], log, r) => NoDelta(outbox'[c], log, r)
        /\ InOrder(outbox[c], log, r) => InOrder(outbox'[c], log, r)
        /\ \A s : Brings(outbox[c], s) => Brings(outbox'[c], s)
    BY <1>1, QuietAck
  <2> QED  BY <1>2, <2>1, <2>2 DEF OrderOK, StaysOpen
<1> QED  BY <1>1, <1>3, TaskOrder

(* The connection begins to close: what is acknowledged was told, and so it *)
(* is kept or on its way.                                                   *)
LEMMA SessionRefusedOrder ==
    ASSUME Base, WayInv, ToldInv, OrderInv, NEW c \in Conns, SessionRefused(c) PROVE OrderInv'
<1>1. Calm(c) /\ (conn[c].pc = "subscribe" => StaysOpen(c)) /\ conn[c].pc \in {"subscribe", "append"}
  BY SessionRefusedCalm DEF SessionRefused
<1>2. /\ OutOthers(c) /\ Quietly(outbox[c], outbox'[c]) /\ \A e \in Conns : e # c => conn'[e] = conn[e]
      /\ UNCHANGED <<log, client, acked, resent>> /\ abandoned \subseteq abandoned'
  BY <1>1 DEF Calm
<1>3. Turns(c, "idle", conn[c].hello, conn[c].sub /\ conn[c].pc # "subscribe", TRUE, NoReq, 0, {})
  BY BaseOf, SessionRefusedTurns
<1>4. conn'[c].sub => conn[c].sub  BY <1>3 DEF Turns
<1>5. Kept \subseteq Kept'  BY <1>2 DEF Kept
<1>6. CASE conn[c].pc = "subscribe"  BY <1>1, <1>6, CalmOrder
<1>7. CASE conn[c].pc = "append"
  <2>1. ASSUME c = client.sock, NEW r \in Own \ resent
        PROVE  OrderOK(outbox'[c], conn'[c], log, Kept', acked, r)
    <3>1. OrderOK(outbox[c], conn[c], log, Kept, acked, r)  BY <2>1, OrderOf
    <3>2. /\ AckIn(outbox'[c], r) => AckIn(outbox[c], r)
          /\ NoDelta(outbox[c], log, r) => NoDelta(outbox'[c], log, r)
          /\ InOrder(outbox[c], log, r) => InOrder(outbox'[c], log, r)
          /\ \A s : Brings(outbox[c], s) => Brings(outbox'[c], s)
      BY <1>2, QuietAck
    <3>3. ASSUME conn[c].sub, r \in acked \/ AckIn(outbox[c], r), NEW s \in 1..Len(log), log[s] = r
          PROVE  s \in Kept \/ Brings(outbox[c], s)
      <4>1. CASE conn[c].closing  BY <3>1, <3>3, <4>1 DEF OrderOK
      <4>2. CASE ~conn[c].closing
        <5>1. s \in Kept \/ Brings(outbox[c], s) \/ s \in Pends(conn[c], Len(log)) \/ s \in due
          BY <2>1, <3>3, <4>2, WayOf DEF WayOK
        <5>2. Pends(conn[c], Len(log)) = {}  BY <1>7 DEF Pends
        <5>3. s \notin due  BY <3>3 DEF ToldInv, Owes, Settles
        <5> QED  BY <5>1, <5>2, <5>3
      <4> QED  BY <4>1, <4>2
    <3> QED  BY <1>4, <1>5, <3>1, <3>2, <3>3 DEF OrderOK
  <2> QED  BY <1>2, <2>1, TaskOrder
<1> QED  BY <1>1, <1>6, <1>7

LEMMA SendPageOrder == ASSUME Base, OrderInv, NEW c \in Conns, SendPage(c) PROVE OrderInv'
<1>1. /\ conn[c].pc = "page" /\ conn' = [conn EXCEPT ![c] = Done(c)]
      /\ UNCHANGED <<log, client, resent, acked, abandoned>>
  BY DEF SendPage, logVars, history
<1>2. Turns(c, "idle", conn[c].hello, conn[c].sub, conn[c].closing, NoReq, 0, {})
  BY <1>1, BaseOf, DoneTurns
<1>3. ~conn[c].closing  BY <1>1, BaseOf DEF HandlerOK
<1>4. OutOthers(c) /\ Pushed(outbox[c], outbox'[c], PageFrame(c)) /\ PageFrame(c).kind = "page"
  BY <1>3, SendPageOut, PageFrameOK
<1>5. ~conn'[c].closing /\ \A e \in Conns : e # c => conn'[e] = conn[e]  BY <1>2, <1>3 DEF Turns
<1>6. ASSUME c = client.sock, NEW r \in Own \ resent
      PROVE  OrderOK(outbox'[c], conn'[c], log, Kept', acked, r)
  <2>1. OrderOK(outbox[c], conn[c], log, Kept, acked, r)  BY <1>6, OrderOf
  <2>2. /\ NoDelta(outbox[c], log, r) => NoDelta(outbox'[c], log, r)
        /\ InOrder(outbox[c], log, r) => InOrder(outbox'[c], log, r)
    BY <1>4, PushAck
  <2> QED  BY <1>5, <2>1, <2>2 DEF OrderOK
<1> QED  BY <1>1, <1>4, <1>5, <1>6, TaskOrder

LEMMA AckAppendOrder == ASSUME Base, OrderInv, NEW c \in Conns, AckAppend(c) PROVE OrderInv'
<1>1. /\ conn[c].pc = "ack" /\ conn' = [conn EXCEPT ![c] = Done(c)]
      /\ UNCHANGED <<log, client, resent, acked, abandoned>>
  BY DEF AckAppend, logVars, history
<1>2. Turns(c, "idle", conn[c].hello, conn[c].sub, conn[c].closing, NoReq, 0, {})
  BY <1>1, BaseOf, DoneTurns
<1>3. /\ OutOthers(c) /\ conn[c].req \in Own
      /\ conn[c].closing => outbox'[c] = outbox[c]
      /\ ~conn[c].closing => Pushed(outbox[c], outbox'[c], AckFrame(conn[c].req))
  BY AckAppendOut
<1>4. AckFrame(conn[c].req).kind = "ack"  BY <1>3, BaseOf, AckFrameOK
<1>5. /\ conn'[c].sub = conn[c].sub /\ conn'[c].closing = conn[c].closing
      /\ \A e \in Conns : e # c => conn'[e] = conn[e]
  BY <1>2 DEF Turns
<1>6. Kept' = Kept  BY <1>1 DEF Kept
<1>7. ASSUME c = client.sock, NEW r \in Own \ resent
      PROVE  OrderOK(outbox'[c], conn'[c], log, Kept', acked, r)
  <2>1. OrderOK(outbox[c], conn[c], log, Kept, acked, r)  BY <1>7, OrderOf
  <2>2. CASE conn[c].closing  BY <1>3, <1>5, <1>6, <2>1, <2>2 DEF OrderOK
  <2>3. CASE ~conn[c].closing
    <3>1. /\ NoDelta(outbox[c], log, r) => NoDelta(outbox'[c], log, r)
          /\ InOrder(outbox[c], log, r) => InOrder(outbox'[c], log, r)
      BY <1>3, <1>4, <2>3, PushAck
    <3> QED  BY <1>5, <2>1, <2>3, <3>1 DEF OrderOK
  <2> QED  BY <2>2, <2>3
<1> QED  BY <1>1, <1>3, <1>5, <1>7, TaskOrder

(* Steps after which the client's connection closes no sooner. *)
LEMMA SameOrder ==
    ASSUME OrderInv, NEW c \in Conns, UNCHANGED <<log, client, outbox, acked, resent, abandoned>>,
           \A e \in Conns : e # c => conn'[e] = conn[e], StaysOpen(c)
    PROVE  OrderInv'
<1>1. Kept' = Kept  BY DEF Kept
<1>2. ASSUME NEW r \in Own \ resent, NEW e \in Conns, e = client.sock
      PROVE  OrderOK(outbox[e], conn'[e], log, Kept, acked, r)
  <2>1. OrderOK(outbox[e], conn[e], log, Kept, acked, r)  BY <1>2, OrderOf
  <2>2. conn'[e].sub /\ conn'[e].closing => conn[e].sub /\ conn[e].closing  BY DEF StaysOpen
  <2> QED  BY <2>1, <2>2 DEF OrderOK
<1> QED  BY <1>1, <1>2 DEF OrderInv

LEMMA LookupOrder == ASSUME Base, OrderInv, NEW c \in Conns, LookupRequest(c) PROVE OrderInv'
<1>1. UNCHANGED <<log, client, outbox, acked, resent, abandoned>>
  BY DEF LookupRequest, logVars, linkVars, history
<1>2. PICK p \in {"ack", "insert"} :
         Turns(c, p, conn[c].hello, conn[c].sub, conn[c].closing, conn[c].req,
               conn[c].cursor, conn[c].page)
  BY LookupTurns
<1>3. StaysOpen(c) /\ \A e \in Conns : e # c => conn'[e] = conn[e]  BY <1>2 DEF Turns, StaysOpen
<1> QED  BY <1>1, <1>3, SameOrder

LEMMA UnregisterOrder == ASSUME Base, OrderInv, NEW c \in Conns, Unregister(c) PROVE OrderInv'
<1>1. /\ outbox' = [outbox EXCEPT ![c] = <<>>] /\ client.sock # c
      /\ UNCHANGED <<log, client, acked, resent, abandoned>>
  BY DEF Unregister, logVars, history
<1>2. Turns(c, "gone", FALSE, FALSE, FALSE, NoReq, 0, {})  BY BaseOf, UnregisterTurns
<1>3. <<>> \in Seq(Frames) /\ outbox \in [Conns -> Seq(Frames)]  BY EmptySeq, ShapeOut DEF Base
<1>4. OutOthers(c)  BY <1>1, <1>3 DEF OutOthers
<1>5. \A e \in Conns : e # c => conn'[e] = conn[e]  BY <1>2 DEF Turns
<1> QED  BY <1>1, <1>4, <1>5, TaskOrder

(* A delta is sent while its event is due, so its append is not acknowledged. *)
LEMMA TellOrder ==
    ASSUME Base, ToldInv, OrderInv, NEW s \in due, s \in 1..Len(log), Broadcasts(s),
           UNCHANGED <<log, client, acked, resent, abandoned>>,
           \A e \in Conns : conn'[e].sub = conn[e].sub /\ conn'[e].closing = conn[e].closing
    PROVE  OrderInv'
<1>1. Kept' = Kept  BY DEF Kept
<1>2. ASSUME NEW r \in Own \ resent, NEW e \in Conns, e = client.sock
      PROVE  OrderOK(outbox'[e], conn'[e], log, Kept, acked, r)
  <2>1. OrderOK(outbox[e], conn[e], log, Kept, acked, r)  BY <1>2, OrderOf
  <2>2. log[s] = r => r \notin acked /\ ~AckIn(outbox[e], r)  BY DEF ToldInv, Owes, Settles
  <2>3. CASE Served(e)
    <3>1. Pushed(outbox[e], outbox'[e], Delta(s)) /\ Delta(s).seqs = {s}
      BY <2>3, BroadcastOut, DeltaOK
    <3>2. /\ r \in acked /\ NoDelta(outbox[e], log, r) => NoDelta(outbox'[e], log, r)
          /\ InOrder(outbox[e], log, r) => InOrder(outbox'[e], log, r)
      BY <2>2, <3>1, PushAck
    <3>3. ~conn'[e].closing  BY <2>3 DEF Served
    <3> QED  BY <2>1, <3>2, <3>3 DEF OrderOK
  <2>4. CASE ~Served(e)
    <3>1. outbox'[e] = outbox[e]  BY <2>4, BroadcastOut
    <3> QED  BY <2>1, <3>1 DEF OrderOK
  <2> QED  BY <2>3, <2>4
<1> QED  BY <1>1, <1>2 DEF OrderInv

LEMMA FanOutOwnOrder == ASSUME Base, ToldInv, OrderInv, NEW c \in Conns, FanOutOwn(c) PROVE OrderInv'
<1>1. /\ conn[c].cursor \in due /\ conn[c].cursor \in 1..Len(log) /\ Broadcasts(conn[c].cursor)
      /\ UNCHANGED <<log, client, abandoned, acked, resent>>
      /\ Turns(c, "ack", conn[c].hello, conn[c].sub, conn[c].closing, conn[c].req,
               conn[c].cursor, conn[c].page)
  BY FanOutOwnDoes
<1>2. \A e \in Conns : conn'[e].sub = conn[e].sub /\ conn'[e].closing = conn[e].closing
  BY <1>1 DEF Turns
<1> QED  BY <1>1, <1>2, TellOrder

LEMMA OtherTellsOrder == ASSUME Base, ToldInv, OrderInv, NEW s \in due, OtherTells(s) PROVE OrderInv'
BY OtherTellsDoes, TellOrder

LEMMA OtherLostOrder == ASSUME Base, OrderInv, NEW s \in due, OtherLost(s) PROVE OrderInv'
<1>1. UNCHANGED <<log, client, conn, outbox, acked, resent>> /\ abandoned \subseteq abandoned'
  BY DEF OtherLost, Lose, linkVars
<1>2. Kept \subseteq Kept'  BY <1>1 DEF Kept
<1> QED  BY <1>1, <1>2, MoreOrder DEF OrderInv

(* What is on its way is about events that were there before. *)
LEMMA StoreOrder ==
    ASSUME Base, ToldInv, OrderInv, NEW o \in Requests, Insert(o), Len(log) < MaxLog,
           o \in Own \ resent => ~Has(log, o),
           UNCHANGED <<client, outbox, acked, resent, abandoned>>,
           \A e \in Conns : conn'[e].sub = conn[e].sub /\ conn'[e].closing = conn[e].closing
    PROVE  OrderInv'
<1>1. /\ Len(log') = Len(log) + 1 /\ Len(log) \in Nat
      /\ log'[Len(log')] = o /\ \A s \in 1..Len(log) : log'[s] = log[s]
  BY InsertGrows DEF Base
<1>2. \A s \in 1..Len(log') : s \in 1..Len(log) \/ s = Len(log')  BY <1>1
<1>3. Kept' = Kept  BY DEF Kept
<1>4. ASSUME NEW r \in Own \ resent, NEW e \in Conns, e = client.sock
      PROVE  OrderOK(outbox[e], conn'[e], log', Kept, acked, r)
  <2>1. OrderOK(outbox[e], conn[e], log, Kept, acked, r)  BY <1>4, OrderOf
  <2>2. \A i \in 1..Len(outbox[e]) : \A s \in outbox[e][i].seqs : log'[s] = log[s]
    BY <1>1, BaseOf DEF OutboxOK, FrameOK
  <2>3. /\ InOrder(outbox[e], log, r) => InOrder(outbox[e], log', r)
        /\ NoDelta(outbox[e], log, r) => NoDelta(outbox[e], log', r)
    BY <2>2 DEF InOrder, NoDelta
  <2>4. r \in acked \/ AckIn(outbox[e], r) => r # o  BY DEF ToldInv, Owes, Settles
  <2>5. r # o => \A s \in 1..Len(log') : log'[s] = r => s \in 1..Len(log) /\ log[s] = r
    BY <1>1, <1>2
  <2>6. conn'[e].sub = conn[e].sub /\ conn'[e].closing = conn[e].closing  OBVIOUS
  <2> QED  BY <2>1, <2>3, <2>4, <2>5, <2>6 DEF OrderOK
<1> QED  BY <1>3, <1>4 DEF OrderInv

LEMMA StoreAppendOrder ==
    ASSUME Base, TraceInv, ToldInv, OrderInv, NEW c \in Conns, StoreAppend(c) PROVE OrderInv'
<1>1. /\ conn[c].pc = "insert" /\ Len(log) < MaxLog /\ Insert(conn[c].req)
      /\ UNCHANGED <<client, outbox, acked, resent, abandoned>>
  BY DEF StoreAppend, linkVars, history
<1>2. Turns(c, "tell", conn[c].hello, conn[c].sub, conn[c].closing, conn[c].req,
            Len(log) + 1, conn[c].page)
  BY BaseOf, StoreAppendTurns
<1>3. conn[c].req \in Requests  BY <1>1, BaseOf, OwnAssumption DEF HandlerOK
<1>4. \A e \in Conns : conn'[e].sub = conn[e].sub /\ conn'[e].closing = conn[e].closing
  BY <1>2 DEF Turns
<1>5. conn[c].req \in Own \ resent => ~Has(log, conn[c].req)  BY <1>1, TraceOf DEF Tracks, Holds
<1> QED  BY <1>1, <1>3, <1>4, <1>5, StoreOrder

LEMMA OtherStoresOrder ==
    ASSUME Base, ToldInv, OrderInv, NEW o \in Requests \ Own, OtherStores(o) PROVE OrderInv'
<1>1. Len(log) < MaxLog /\ Insert(o) /\ UNCHANGED <<client, conn, outbox, acked, resent, abandoned>>
  BY DEF OtherStores, linkVars, history
<1> QED  BY <1>1, StoreOrder

LEMMA ConnectOrder == ASSUME Base, OrderInv, NEW c \in Conns, Connect(c) PROVE OrderInv'
<1>0. Shape  BY DEF Base
<1>1. conn[c].pc = "unused" /\ client'.sock = c /\ UNCHANGED outbox  BY <1>0, ConnectDoes
<1>2. Turns(c, "idle", FALSE, FALSE, FALSE, NoReq, 0, {})  BY <1>0, ConnectTurns
<1>3. outbox'[c] = <<>> /\ ~conn'[c].sub  BY <1>1, <1>2, BaseOf DEF Turns
<1>4. \A l, r : InOrder(<<>>, l, r) /\ NoDelta(<<>>, l, r)  BY DEF InOrder, NoDelta
<1>5. \A r, K, A, l : OrderOK(outbox'[c], conn'[c], l, K, A, r)  BY <1>3, <1>4 DEF OrderOK
<1> QED  BY <1>1, <1>5 DEF OrderInv

LEMMA ClientAppendsOrder == ASSUME Base, OrderInv, NEW r \in Own, ClientAppends(r) PROVE OrderInv'
<1>1. /\ client'.sock = client.sock /\ client'.have = client.have
      /\ UNCHANGED <<log, conn, outbox, acked, resent, abandoned>>
  BY ClientAppendsDoes
<1>2. Kept' = Kept  BY <1>1 DEF Kept
<1> QED  BY <1>1, <1>2 DEF OrderInv

(* The client takes the frame at the head: the delta first, then the Ack. *)
LEMMA ReceivesOrder == ASSUME Base, OrderInv, Receives PROVE OrderInv'
<1> DEFINE c == client.sock
           f == outbox[c][1]
<1>1. /\ c \in Conns /\ UNCHANGED <<log, due, conn, inbox>>
      /\ \/ Drops(c) /\ UNCHANGED <<acked, nacked, resent>>
         \/ Pops(c) /\ (Data(c) \/ Answer(c))
  BY ReceivesDoes
<1>2. CASE Drops(c)
  <2>1. client'.sock = NoConn  BY <1>1, <1>2, DropsDoes
  <2> QED  BY <2>1, ConnAssumption DEF OrderInv
<1>3. CASE Pops(c) /\ (Data(c) \/ Answer(c))
  <2>1. client'.sock = c /\ Popped(outbox[c], outbox'[c]) /\ UNCHANGED <<abandoned, resent>>
    BY <1>3 DEF Pops
  <2>2. FrameOK(f, Len(log))  BY <1>1, <2>1, BaseOf, PopOutbox
  <2>3. Kept' = Kept \cup f.seqs
    <3>1. client'.have = client.have \cup f.seqs  BY <1>3, <2>2 DEF Data, Answer, FrameOK
    <3> QED  BY <2>1, <3>1 DEF Kept
  <2>4. \A r : r \in acked' => r \in acked \/ IsAck(f, r)  BY <1>3 DEF Data, Answer, IsAck
  <2> HIDE DEF f
  <2>5. ASSUME NEW r \in Own \ resent
        PROVE  OrderOK(outbox'[c], conn[c], log, Kept', acked', r)
    <3>1. OrderOK(outbox[c], conn[c], log, Kept, acked, r)  BY <1>1, OrderOf
    <3>2. /\ AckIn(outbox[c], r) <=> AckIn(outbox'[c], r) \/ IsAck(f, r)
          /\ NoDelta(outbox[c], log, r) => NoDelta(outbox'[c], log, r)
          /\ InOrder(outbox[c], log, r) => InOrder(outbox'[c], log, r)
          /\ InOrder(outbox[c], log, r) /\ IsAck(f, r) => NoDelta(outbox'[c], log, r)
      BY <2>1, PopAck DEF f
    <3>3. \A s : Brings(outbox[c], s) => Brings(outbox'[c], s) \/ s \in Kept'
      BY <2>1, <2>3, PopWay DEF f
    <3> QED  BY <2>3, <2>4, <3>1, <3>2, <3>3 DEF OrderOK
  <2> QED  BY <1>1, <2>1, <2>5 DEF OrderInv
<1> QED  BY <1>1, <1>2, <1>3

LEMMA OrderStart == Init => OrderInv
<1> SUFFICES ASSUME Init PROVE OrderInv  OBVIOUS
<1>1. client.sock = NoConn  BY DEF Init
<1> QED  BY <1>1, ConnAssumption DEF OrderInv

LEMMA OrderNext ==
    Base /\ WayInv /\ TraceInv /\ ToldInv /\ OrderInv /\ [Next]_vars => OrderInv'
<1> SUFFICES ASSUME Base, WayInv, TraceInv, ToldInv, OrderInv, [Next]_vars PROVE OrderInv'  OBVIOUS
<1>1. ASSUME NEW c \in Conns,
             Connect(c) \/ TaskStep(c) \/ SessionRefused(c) \/ RefuseSubscribe(c)
               \/ SubscribeRefused(c) \/ ReadFails(c) \/ AppendRefused(c) \/ Unregister(c)
      PROVE  OrderInv'
  <2>1. CASE TaskStep(c)
    BY <2>1, TakeHelloCalm, TakeTooEarlyCalm, TakeSubscribeCalm, TakeAppendCalm, SessionValidCalm,
       ReadPageCalm, CalmOrder, SendPageOrder, LookupOrder, StoreAppendOrder, FanOutOwnOrder,
       AckAppendOrder
       DEF TaskStep
  <2> QED  BY <1>1, <2>1, ConnectOrder, SessionRefusedOrder, RefuseSubscribeCalm,
              SubscribeRefusedCalm, ReadFailsCalm, AppendRefusedCalm, CalmOrder, UnregisterOrder
<1>2. ASSUME NEW c \in Conns, NEW closes \in BOOLEAN, RefuseHello(c, closes) PROVE OrderInv'
  BY <1>2, RefuseHelloCalm, CalmOrder
<1>3. CASE Cut
  <2>1. client'.sock = NoConn  BY <1>3, CutDoes, DropsDoes
  <2> QED  BY <2>1, ConnAssumption DEF OrderInv
<1>4. CASE Crash
  <2>1. client'.sock = NoConn  BY <1>4, CrashDoes
  <2> QED  BY <2>1, ConnAssumption DEF OrderInv
<1>5. CASE UNCHANGED vars
  <2>1. UNCHANGED <<log, client, conn, outbox, acked, resent, abandoned>>
    BY <1>5 DEF vars, logVars, linkVars, history
  <2> QED  BY <2>1 DEF OrderInv, Kept
<1> QED  BY <1>1, <1>2, <1>3, <1>4, <1>5, ClientAppendsOrder, ReceivesOrder,
            OtherStoresOrder, OtherTellsOrder, OtherLostOrder DEF Next

LEMMA OrderInvariant == Spec => []OrderInv
BY OrderStart, OrderNext, BaseInvariant, WayInvariant, TraceInvariant, ToldInvariant, PTL DEF Spec

LEMMA OrderImplies == Base /\ WayInv /\ ToldInv /\ OrderInv => AckedIsVisible
<1> SUFFICES ASSUME Base, WayInv, ToldInv, OrderInv, PagedIn, NEW r \in acked \ resent
             PROVE  \E s \in 1..Len(log) : log[s] = r /\ s \in client.have \cup abandoned
  BY DEF AckedIsVisible
<1> DEFINE c == client.sock
<1>1. c \in Conns /\ r \in Own \ resent
  <2>1. c \in Conns  BY ClientTypes DEF Base, PagedIn, IsOpen
  <2>2. acked \subseteq Own  BY DEF Base, Shape
  <2> QED  BY <2>1, <2>2
<1>2. /\ conn[c].sub /\ Backlog(c) = {}
      /\ \A i \in 1..Len(outbox[c]) : outbox[c][i].kind # "page"
  BY DEF PagedIn
<1>3. PICK s \in 1..Len(log) : log[s] = r  BY <1>1 DEF ToldInv, Settles, Has
<1>4. s \notin due  BY <1>1, <1>3 DEF ToldInv, Settles
<1>5. OrderOK(outbox[c], conn[c], log, Kept, acked, r)  BY <1>1, OrderOf
<1>6. ~Brings(outbox[c], s)
  <2>1. NoDelta(outbox[c], log, r)  BY <1>5 DEF OrderOK
  <2>2. \A i \in 1..Len(outbox[c]) : s \notin outbox[c][i].seqs
    <3> SUFFICES ASSUME NEW i \in 1..Len(outbox[c]), s \in outbox[c][i].seqs PROVE FALSE  OBVIOUS
    <3>1. FrameOK(outbox[c][i], Len(log))  BY <1>1, BaseOf DEF OutboxOK
    <3>2. outbox[c][i].kind = "delta"  BY <1>2, <3>1 DEF FrameOK
    <3> QED  BY <1>3, <2>1, <3>2 DEF NoDelta
  <2> QED  BY <2>2 DEF Brings
<1>7. s \in Kept
  <2>1. CASE conn[c].closing  BY <1>2, <1>3, <1>5, <1>6, <2>1 DEF OrderOK
  <2>2. CASE ~conn[c].closing
    <3>1. s \in Kept \/ Brings(outbox[c], s) \/ s \in Pends(conn[c], Len(log)) \/ s \in due
      BY <1>1, <1>2, <2>2, WayOf DEF WayOK
    <3>2. Pends(conn[c], Len(log)) = {}  BY <1>1, <1>2, BacklogIs
    <3> QED  BY <1>4, <1>6, <3>1, <3>2
  <2> QED  BY <2>1, <2>2
<1> QED  BY <1>3, <1>7 DEF Kept

(* The fan-out of an append comes before its Ack on every connection         *)
(* (gateway.rs, handle_append; runtime.ts drops the overlay on Ack since     *)
(* "the real Delta takes over"): once a subscriber has its page, an append   *)
(* that was sent once and is acknowledged is in its replica.                 *)
THEOREM DeltaBeforeAck == Spec => []AckedIsVisible
BY OrderImplies, BaseInvariant, WayInvariant, ToldInvariant, OrderInvariant, PTL
=============================================================================
