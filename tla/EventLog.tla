------------------------------ MODULE EventLog ------------------------------
(***************************************************************************)
(* What the durable event log promises to the gateway, for one stream      *)
(* without a retention policy: the stored events are numbered 1, 2, 3, ... *)
(* without a hole, an event keeps its number and its request for ever, and *)
(* the write listener gets each at most once, after it is stored.          *)
(* StreamLog implements this specification; StreamSync is built on it.     *)
(***************************************************************************)
EXTENDS Naturals, Sequences

CONSTANT Requests   \* append requests: replica id and request id

VARIABLES
    log,   \* log[s]: the request whose event has sequence s
    due,   \* the sequences stored and not yet given to the write listener
    told   \* the sequences the write listener was given

logVars == <<log, due, told>>

LogTypeOK ==
    /\ log \in Seq(Requests)
    /\ due \in SUBSET (1..Len(log))
    /\ told \in SUBSET (1..Len(log))

LogInit == log = <<>> /\ due = {} /\ told = {}

(* An event is stored at the head. *)
Insert(r) ==
    /\ log' = Append(log, r)
    /\ due' = due \cup {Len(log) + 1}
    /\ UNCHANGED told

(* The write listener gets an event. *)
Tell(s) ==
    /\ s \in due
    /\ due' = due \ {s}
    /\ told' = told \cup {s}
    /\ UNCHANGED log

(* Calls end between storing and telling: an error, a dropped call, a crash. *)
Lose(lost) ==
    /\ due' = due \ lost
    /\ UNCHANGED <<log, told>>

LogNext == \/ \E r \in Requests : Insert(r)
           \/ \E s \in due : Tell(s)
           \/ \E lost \in SUBSET due : Lose(lost)

LogSpec == LogInit /\ [][LogNext]_logVars
=============================================================================
