--------------------------- MODULE StreamLogProofs ---------------------------
(***************************************************************************)
(* Proofs about StreamLog, for a stream without a retention policy and for *)
(* any number of tasks, requests and events: a request is answered with    *)
(* its own event, a follower misses none, the stream implements EventLog,  *)
(* and, for clients that wait for their answers and keys that are kept     *)
(* long enough, a request has one event per replay window.  (With          *)
(* retention a sequence may be used again once every event is gone, and    *)
(* none of this is claimed.)                                               *)
(***************************************************************************)
EXTENDS StreamLog, SequenceTheorems, FiniteSetTheorems, TLAPS

-----------------------------------------------------------------------------
(* The shape of the state.  The order of a cache is left open: nothing      *)
(* below depends on which entry is evicted.                                 *)

CacheOK(c) ==
    /\ DOMAIN c = {"present", "entries", "order"}
    /\ c.entries \in [Keys -> Entry]

CallOK(m) ==
    /\ DOMAIN m = {"pc", "key", "now", "seq", "id", "keyAt", "cache"}
    /\ m.pc \in {"idle", "lookup", "readEvent", "nextSequence", "insert", "upsert",
                 "restore", "notify"}
    /\ m.pc # "idle" => m.key \in Keys
    /\ m.now \in Int /\ m.seq \in Nat /\ m.keyAt \in Int
    /\ m.id \in EventIds \cup {NoEvent}
    /\ CacheOK(m.cache)

TasksOK == DOMAIN task = Tasks /\ \A t \in Tasks : CallOK(task[t])

Shape ==
    /\ events \in [EventIds -> EventRow]
    /\ keys \in [Keys -> KeyRow]
    /\ CacheOK(slot)
    /\ TasksOK
    /\ DOMAIN redactor = {"pc", "targets", "packed"}
    /\ redactor.packed \in EventIds \cup {NoEvent}
    /\ retainer = "idle"
    /\ clock \in Int
    /\ minted \in [EventIds -> Mint]
    /\ fanned \in [EventIds -> Nat]
    /\ DOMAIN answered = Keys

-----------------------------------------------------------------------------
(* The invariants.                                                         *)

(* The rows are those of the events minted, under their own sequence and    *)
(* with their own id inside, also after a redaction wrote over them.        *)
RowsInv == \A id \in EventIds :
    IF minted[id] = NotMinted THEN events[id].seq = 0
    ELSE /\ minted[id].key \in Keys
         /\ events[id].seq = minted[id].seq /\ events[id].seq # 0
         /\ events[id].packed = id

(* A sequence has one row, and there is no hole up to the head. *)
DenseInv ==
    /\ \A i, j \in Stored : events[i].seq = events[j].seq => i = j
    /\ HeadSequence \in Nat /\ UsedSequences = 1..HeadSequence

(* The redactor holds the tuple of the row it will write over. *)
RedactInv == redactor.pc = "write" =>
    redactor.packed \in Stored /\ events[redactor.packed].seq = FirstTarget

LogInv == RowsInv /\ DenseInv /\ RedactInv

(* An event that was created for the request, by what was minted. *)
Owns(mint, k, id) == id \in EventIds /\ mint[id].key = k

CacheOwns(mint, c) ==
    \A k \in Keys : c.entries[k].id # NoEvent => Owns(mint, k, c.entries[k].id)

CallOwns(mint, m) ==
    /\ m.pc \in {"readEvent", "upsert", "restore", "notify"} => Owns(mint, m.key, m.id)
    /\ CacheOwns(mint, m.cache)

KeysOwn(mint, table) ==
    \A k \in Keys : table[k].id # NoEvent => Owns(mint, k, table[k].id)
CallsOwn(mint, calls) == \A t \in Tasks : CallOwns(mint, calls[t])
AnswersOwn(mint, given) == \A k \in Keys : \A id \in given[k] : Owns(mint, k, id)

(* What a key row, a cache, a call or an answer has for a request is the    *)
(* request's.                                                               *)
OwnInv ==
    /\ KeysOwn(minted, keys)
    /\ CacheOwns(minted, slot)
    /\ CallsOwn(minted, task)
    /\ AnswersOwn(minted, answered)

(* A call about to insert has a sequence that is taken, or the next one;    *)
(* the follower's cursor is not ahead of the log.                           *)
SeqInv ==
    /\ \A t \in Tasks : task[t].pc = "insert" => task[t].seq \in 1..(HeadSequence + 1)
    /\ cursor \in Nat /\ cursor <= HeadSequence
    /\ FollowerMissesNothing

(* The calls that have stored their event and not told of it. *)
Storing == {t \in Tasks : task[t].pc \in {"upsert", "restore", "notify"}}

(* Each has an event of its own, and the listener has only heard of events. *)
DueInv ==
    /\ \A t, u \in Storing : task[t].id = task[u].id => t = u
    /\ \A id \in EventIds : fanned[id] > 0 => minted[id].key \in Keys

-----------------------------------------------------------------------------
(* The caches and the calls.                                               *)

(* The entries of the cache are those of the old one, but for the entry     *)
(* that was set and one that was evicted.                                   *)
EntriesFrom(new, old, k, entry) == \A x \in Keys :
    new.entries[x] \in {old.entries[x], NoEntry} \/ (x = k /\ new.entries[x] = entry)

LEMMA EmptyCaches ==
    /\ CacheOK(FreshCache) /\ CacheOK(NoCache)
    /\ \A k \in Keys : FreshCache.entries[k] = NoEntry /\ NoCache.entries[k] = NoEntry
<1>1. NoEntry \in Entry
  BY DEF NoEntry, Entry
<1>2. [k \in Keys |-> NoEntry] \in [Keys -> Entry]
  BY <1>1
<1>3. CacheOK(FreshCache) /\ FreshCache.entries = [k \in Keys |-> NoEntry]
  BY <1>2 DEF CacheOK, FreshCache
<1>4. NoCache = [FreshCache EXCEPT !.present = FALSE]
  BY DEF NoCache
<1> HIDE DEF FreshCache, NoCache
<1>5. CacheOK(NoCache) /\ NoCache.entries = FreshCache.entries
  BY <1>3, <1>4 DEF CacheOK
<1> QED
  BY <1>3, <1>5

LEMMA TouchedOK ==
    ASSUME NEW c, NEW k \in Keys, CacheOK(c)
    PROVE  CacheOK(Touched(c, k)) /\ Touched(c, k).entries = c.entries
<1> DEFINE o == MostRecent(c.order, k)
<1>1. CASE Caches(c, k)
  <2>1. Touched(c, k) = [c EXCEPT !.order = o]
    BY <1>1 DEF Touched
  <2> HIDE DEF o
  <2> QED
    BY <2>1 DEF CacheOK
<1>2. CASE ~Caches(c, k)
  BY <1>2 DEF Touched
<1> QED
  BY <1>1, <1>2

LEMMA WithEntryOK ==
    ASSUME NEW c, NEW k \in Keys, NEW e \in Entry, CacheOK(c)
    PROVE  /\ CacheOK(WithEntry(c, k, e))
           /\ EntriesFrom(WithEntry(c, k, e), c, k, e)
<1> DEFINE o == MostRecent(c.order, k)
           added == [c.entries EXCEPT ![k] = e]
           w == WithEntry(c, k, e)
<1>1. added \in [Keys -> Entry]
  BY DEF CacheOK
<1>2. \A x \in Keys : added[x] = c.entries[x] \/ (x = k /\ added[x] = e)
  BY DEF CacheOK
<1>3. CASE Len(o) <= Capacity
  <2>1. w = [present |-> c.present, entries |-> added, order |-> o]
    BY <1>3 DEF WithEntry
  <2> HIDE DEF o, added
  <2>2. w.entries = added /\ w.present = c.present /\ w.order = o
    BY <2>1
  <2> HIDE DEF w
  <2>3. CacheOK(w)
    BY <2>1, <2>2, <1>1 DEF CacheOK
  <2>4. EntriesFrom(w, c, k, e)
    BY <2>2, <1>2 DEF EntriesFrom
  <2> QED
    BY <2>3, <2>4 DEF w
<1>4. CASE ~(Len(o) <= Capacity)
  <2> DEFINE left == [added EXCEPT ![Head(o)] = NoEntry]
  <2>1. w = [present |-> c.present, order |-> Tail(o), entries |-> left]
    BY <1>4 DEF WithEntry
  <2>2. NoEntry \in Entry
    BY DEF NoEntry, Entry
  <2> DEFINE h == Head(o)
             tl == Tail(o)
  <2> HIDE DEF o, added
  <2>3. left = [added EXCEPT ![h] = NoEntry]
    OBVIOUS
  <2>4. w = [present |-> c.present, order |-> tl, entries |-> left]
    BY <2>1
  <2> HIDE DEF h, tl, left
  <2>5. left \in [Keys -> Entry] /\ \A x \in Keys : left[x] = added[x] \/ left[x] = NoEntry
    BY <1>1, <2>2, <2>3
  <2>6. w.entries = left /\ w.present = c.present /\ w.order = tl
    BY <2>4
  <2> HIDE DEF w
  <2>7. CacheOK(w)
    BY <2>4, <2>5, <2>6 DEF CacheOK
  <2>8. EntriesFrom(w, c, k, e)
    BY <2>5, <2>6, <1>2 DEF EntriesFrom
  <2> QED
    BY <2>7, <2>8 DEF w
<1> QED
  BY <1>3, <1>4

LEMMA RemembersOK ==
    ASSUME NEW c, NEW k \in Keys, NEW e \in Entry, CacheOK(c)
    PROVE  /\ CacheOK(Remembers(c, k, e))
           /\ EntriesFrom(Remembers(c, k, e), c, k, e)
<1>1. CASE c.present
  BY <1>1, WithEntryOK DEF Remembers
<1>2. CASE ~c.present
  BY <1>2 DEF Remembers, EntriesFrom
<1> QED
  BY <1>1, <1>2

(* Task t is now at m, the others are where they were. *)
Moves(t, m) == task' = [task EXCEPT ![t] = m]

LEMMA MovesTo ==
    ASSUME Shape, NEW t \in Tasks, NEW m, Moves(t, m)
    PROVE  /\ DOMAIN task' = Tasks
           /\ task'[t] = m
           /\ \A u \in Tasks : u # t => task'[u] = task[u]
  BY DEF Shape, TasksOK, Moves

LEMMA IdleOK == CallOK(Idle) /\ Idle.pc = "idle" /\ Idle.cache = NoCache
<1>1. Idle.cache = NoCache /\ Idle.pc = "idle" /\ Idle.now = 0 /\ Idle.seq = 0 /\ Idle.keyAt = 0
      /\ Idle.id = NoEvent
  BY DEF Idle
<1>2. DOMAIN Idle = {"pc", "key", "now", "seq", "id", "keyAt", "cache"}
  BY DEF Idle
<1> HIDE DEF Idle
<1> QED
  BY <1>1, <1>2, EmptyCaches DEF CallOK

(* What each step of append_event does to its call. *)

LEMMA MissesMoves ==
    ASSUME Shape, NEW t \in Tasks, NEW k \in Keys, AppendMisses(t, k)
    PROVE  \E m : /\ CallOK(m) /\ Moves(t, m)
                  /\ m.pc = "lookup" /\ m.key = k /\ m.cache.entries = slot.entries
                  /\ m.now = clock
<1> DEFINE m == [Idle EXCEPT !.pc = "lookup", !.key = k, !.now = clock,
                             !.cache = Touched(slot, k)]
<1>1. Moves(t, m)
  BY DEF AppendMisses, Moves
<1>2. CacheOK(Touched(slot, k)) /\ Touched(slot, k).entries = slot.entries
  BY TouchedOK DEF Shape
<1>3. /\ DOMAIN m = {"pc", "key", "now", "seq", "id", "keyAt", "cache"}
      /\ m.pc = "lookup" /\ m.key = k /\ m.now = clock /\ m.seq = 0
      /\ m.id = NoEvent /\ m.keyAt = 0 /\ m.cache = Touched(slot, k)
  BY DEF Idle
<1> HIDE DEF m
<1>4. CallOK(m)
  BY <1>2, <1>3 DEF CallOK, Shape
<1> QED
  BY <1>1, <1>2, <1>3, <1>4

(* The call goes on with the same request and cache. *)
GoesOn(t, m, pc) ==
    /\ CallOK(m) /\ Moves(t, m)
    /\ m.pc = pc /\ m.key = task[t].key /\ m.cache = task[t].cache
    /\ m.now = task[t].now

LEMMA LookupMoves ==
    ASSUME Shape, NEW t \in Tasks, LookupKey(t)
    PROVE  \E m : \/ /\ GoesOn(t, m, "readEvent")
                     /\ m.id = keys[m.key].id /\ m.id # NoEvent
                  \/ /\ GoesOn(t, m, "nextSequence")
                     /\ \/ keys[m.key].id = NoEvent
                        \/ ~WithinReplayWindow(keys[m.key].at, m.now)
<1> DEFINE me == task[t]
           row == keys[me.key]
<1>1. CallOK(me) /\ me.key \in Keys
  BY DEF Shape, TasksOK, CallOK, LookupKey
<1>2. row \in KeyRow
  BY <1>1 DEF Shape
<1>3. CASE /\ row.id # NoEvent
           /\ task' = [task EXCEPT ![t] = [@ EXCEPT !.pc = "readEvent", !.id = row.id,
                                                    !.keyAt = row.at]]
  <2> DEFINE m == [me EXCEPT !.pc = "readEvent", !.id = row.id, !.keyAt = row.at]
  <2>1. Moves(t, m)
    BY <1>3 DEF Moves, Shape, TasksOK
  <2>2. /\ DOMAIN m = DOMAIN me
        /\ m.pc = "readEvent" /\ m.key = me.key /\ m.now = me.now /\ m.seq = me.seq
        /\ m.id = row.id /\ m.keyAt = row.at /\ m.cache = me.cache
    BY <1>1 DEF CallOK
  <2> HIDE DEF m
  <2>3. CallOK(m)
    BY <1>1, <1>2, <2>2 DEF CallOK, KeyRow
  <2>4. GoesOn(t, m, "readEvent") /\ m.id = keys[m.key].id /\ m.id # NoEvent
    BY <2>1, <2>2, <2>3, <1>3 DEF GoesOn
  <2> QED
    BY <2>4
<1>4. CASE /\ row.id = NoEvent \/ ~WithinReplayWindow(row.at, task[t].now)
           /\ task' = [task EXCEPT ![t] = [@ EXCEPT !.pc = "nextSequence"]]
  <2> DEFINE m == [me EXCEPT !.pc = "nextSequence"]
  <2>1. Moves(t, m)
    BY <1>4 DEF Moves, Shape, TasksOK
  <2>2. /\ DOMAIN m = DOMAIN me
        /\ m.pc = "nextSequence" /\ m.key = me.key /\ m.now = me.now /\ m.seq = me.seq
        /\ m.id = me.id /\ m.keyAt = me.keyAt /\ m.cache = me.cache
    BY <1>1 DEF CallOK
  <2> HIDE DEF m
  <2>3. CallOK(m)
    BY <1>1, <2>2 DEF CallOK
  <2>4. GoesOn(t, m, "nextSequence") /\ m.key = me.key /\ m.now = me.now
    BY <2>1, <2>2, <2>3 DEF GoesOn
  <2> QED
    BY <1>4, <2>4
<1> QED
  BY <1>3, <1>4 DEF LookupKey, KeyRowOf

LEMMA EventGoneMoves ==
    ASSUME Shape, NEW t \in Tasks, task[t].pc = "readEvent",
           task' = [task EXCEPT ![t] = [@ EXCEPT !.pc = "nextSequence", !.id = NoEvent,
                                                 !.keyAt = 0]]
    PROVE  \E m : GoesOn(t, m, "nextSequence")
<1> DEFINE me == task[t]
           m == [me EXCEPT !.pc = "nextSequence", !.id = NoEvent, !.keyAt = 0]
<1>1. CallOK(me) /\ me.key \in Keys
  BY DEF Shape, TasksOK, CallOK
<1>2. Moves(t, m)
  BY DEF Moves, Shape, TasksOK
<1>3. /\ DOMAIN m = DOMAIN me
      /\ m.pc = "nextSequence" /\ m.key = me.key /\ m.now = me.now /\ m.seq = me.seq
      /\ m.id = NoEvent /\ m.keyAt = 0 /\ m.cache = me.cache
  BY <1>1 DEF CallOK
<1> HIDE DEF m
<1>4. CallOK(m)
  BY <1>1, <1>3 DEF CallOK
<1>5. GoesOn(t, m, "nextSequence")
  BY <1>2, <1>3, <1>4 DEF GoesOn
<1> QED
  BY <1>5

LEMMA NextSequenceMoves ==
    ASSUME Shape, HeadSequence \in Nat, NEW t \in Tasks, NextSequence(t)
    PROVE  \E m : GoesOn(t, m, "insert") /\ m.seq = HeadSequence + 1
<1> DEFINE me == task[t]
           m == [me EXCEPT !.pc = "insert", !.seq = HeadSequence + 1]
<1>1. CallOK(me) /\ me.key \in Keys
  BY DEF Shape, TasksOK, CallOK, NextSequence
<1>2. Moves(t, m)
  BY DEF Moves, Shape, TasksOK, NextSequence
<1>3. /\ DOMAIN m = DOMAIN me
      /\ m.pc = "insert" /\ m.key = me.key /\ m.now = me.now /\ m.seq = HeadSequence + 1
      /\ m.id = me.id /\ m.keyAt = me.keyAt /\ m.cache = me.cache
  BY <1>1 DEF CallOK
<1> HIDE DEF m
<1>4. CallOK(m)
  BY <1>1, <1>3 DEF CallOK
<1>5. GoesOn(t, m, "insert") /\ m.seq = HeadSequence + 1
  BY <1>2, <1>3, <1>4 DEF GoesOn
<1> QED
  BY <1>5

LEMMA InsertMoves ==
    ASSUME Shape, NEW t \in Tasks, NEW id \in EventIds, task[t].pc = "insert",
           task' = [task EXCEPT ![t] = [@ EXCEPT !.pc = "upsert", !.id = id]]
    PROVE  \E m : GoesOn(t, m, "upsert") /\ m.id = id
<1> DEFINE me == task[t]
           m == [me EXCEPT !.pc = "upsert", !.id = id]
<1>1. CallOK(me) /\ me.key \in Keys
  BY DEF Shape, TasksOK, CallOK
<1>2. Moves(t, m)
  BY DEF Moves, Shape, TasksOK
<1>3. /\ DOMAIN m = DOMAIN me
      /\ m.pc = "upsert" /\ m.key = me.key /\ m.now = me.now /\ m.seq = me.seq
      /\ m.id = id /\ m.keyAt = me.keyAt /\ m.cache = me.cache
  BY <1>1 DEF CallOK
<1> HIDE DEF m
<1>4. CallOK(m)
  BY <1>1, <1>3 DEF CallOK
<1>5. GoesOn(t, m, "upsert") /\ m.id = id
  BY <1>2, <1>3, <1>4 DEF GoesOn
<1> QED
  BY <1>5

LEMMA UpsertMoves ==
    ASSUME Shape, NEW t \in Tasks, UpsertKey(t)
    PROVE  \E m : GoesOn(t, m, "restore") /\ m.id = task[t].id
<1> DEFINE me == task[t]
           m == [me EXCEPT !.pc = "restore"]
<1>1. CallOK(me) /\ me.key \in Keys
  BY DEF Shape, TasksOK, CallOK, UpsertKey
<1>2. Moves(t, m)
  BY DEF Moves, Shape, TasksOK, UpsertKey
<1>3. /\ DOMAIN m = DOMAIN me
      /\ m.pc = "restore" /\ m.key = me.key /\ m.now = me.now /\ m.seq = me.seq
      /\ m.id = me.id /\ m.keyAt = me.keyAt /\ m.cache = me.cache
  BY <1>1 DEF CallOK
<1> HIDE DEF m
<1>4. CallOK(m)
  BY <1>1, <1>3 DEF CallOK
<1>5. GoesOn(t, m, "restore") /\ m.id = task[t].id
  BY <1>2, <1>3, <1>4 DEF GoesOn
<1> QED
  BY <1>5

LEMMA RestoreMoves ==
    ASSUME Shape, NEW t \in Tasks, RestoreCache(t)
    PROVE  \E m : /\ CallOK(m) /\ Moves(t, m) /\ m.pc = "notify" /\ m.key = task[t].key
                  /\ m.id = task[t].id /\ m.cache = NoCache /\ m.now = task[t].now
<1> DEFINE me == task[t]
           m == [me EXCEPT !.pc = "notify", !.cache = NoCache]
<1>1. CallOK(me) /\ me.key \in Keys
  BY DEF Shape, TasksOK, CallOK, RestoreCache
<1>2. Moves(t, m)
  BY DEF Moves, Shape, TasksOK, RestoreCache
<1>3. /\ DOMAIN m = DOMAIN me
      /\ m.pc = "notify" /\ m.key = me.key /\ m.now = me.now /\ m.seq = me.seq
      /\ m.id = me.id /\ m.keyAt = me.keyAt /\ m.cache = NoCache
  BY <1>1 DEF CallOK
<1> HIDE DEF m
<1>4. CallOK(m)
  BY <1>1, <1>3, EmptyCaches DEF CallOK
<1> QED
  BY <1>2, <1>3, <1>4

-----------------------------------------------------------------------------
(* Every step keeps the shape of the state.                                *)

LEMMA TasksKept ==
    ASSUME Shape, NEW t \in Tasks, NEW m, CallOK(m), Moves(t, m)
    PROVE  TasksOK'
<1>1. /\ DOMAIN task' = Tasks /\ task'[t] = m
      /\ \A u \in Tasks : u # t => task'[u] = task[u]
  BY MovesTo
<1>2. \A u \in Tasks : CallOK(task'[u])
  <2> SUFFICES ASSUME NEW u \in Tasks PROVE CallOK(task'[u])
    OBVIOUS
  <2>1. CASE u = t
    BY <2>1, <1>1
  <2>2. CASE u # t
    BY <2>2, <1>1 DEF Shape, TasksOK
  <2> QED
    BY <2>1, <2>2
<1> QED
  BY <1>1, <1>2 DEF TasksOK

LEMMA TasksSame == ASSUME Shape, task' = task PROVE TasksOK'
  BY DEF Shape, TasksOK

LEMMA EndsMoves ==
    ASSUME Shape, NEW t \in Tasks, NEW c, CacheOK(c), Ends(t, c)
    PROVE  Moves(t, Idle) /\ TasksOK' /\ slot' \in {slot, c} /\ CacheOK(slot')
<1>1. Moves(t, Idle)
  BY DEF Ends, Moves
<1>2. slot' \in {slot, c}
  BY DEF Ends, Restored
<1> QED
  BY <1>1, <1>2, TasksKept, IdleOK DEF Shape

(* The parts of the shape that the calls and the caches are not in. *)
RestOK ==
    /\ events \in [EventIds -> EventRow]
    /\ keys \in [Keys -> KeyRow]
    /\ DOMAIN redactor = {"pc", "targets", "packed"}
    /\ redactor.packed \in EventIds \cup {NoEvent}
    /\ retainer = "idle"
    /\ clock \in Int
    /\ minted \in [EventIds -> Mint]
    /\ fanned \in [EventIds -> Nat]
    /\ DOMAIN answered = Keys

LEMMA ShapeParts ==
    /\ Shape <=> (RestOK /\ TasksOK /\ CacheOK(slot))
    /\ Shape' <=> (RestOK' /\ TasksOK' /\ CacheOK(slot'))
  BY DEF Shape, RestOK

LEMMA EntryFor ==
    ASSUME Shape, NEW t \in Tasks
    PROVE  /\ CallOK(task[t]) /\ CacheOK(task[t].cache)
           /\ task[t].pc # "idle" => task[t].key \in Keys
           /\ [id |-> task[t].id, erased |-> FALSE, at |-> task[t].now] \in Entry
           /\ \A row \in EventRow :
                [id |-> row.packed, erased |-> row.erased, at |-> task[t].keyAt] \in Entry
<1>1. CallOK(task[t])
  BY DEF Shape, TasksOK
<1>2. \A row \in EventRow : row.packed \in EventIds \cup {NoEvent} /\ row.erased \in BOOLEAN
  BY DEF EventRow
<1>3. /\ task[t].id \in EventIds \cup {NoEvent} /\ task[t].now \in Int /\ task[t].keyAt \in Int
      /\ CacheOK(task[t].cache) /\ (task[t].pc # "idle" => task[t].key \in Keys)
  BY <1>1 DEF CallOK
<1> QED
  BY <1>1, <1>2, <1>3 DEF Entry

(* What a call that ends with a replay hands back, and what one that ends   *)
(* with a new event does.                                                   *)
LEMMA ReplayEnds ==
    ASSUME Shape, NEW t \in Tasks, task[t].pc = "readEvent", task[t].id \in Stored,
           Ends(t, Remembers(task[t].cache, task[t].key,
                     [id |-> events[task[t].id].packed, erased |-> events[task[t].id].erased,
                      at |-> task[t].keyAt]))
    PROVE  /\ Moves(t, Idle) /\ TasksOK' /\ CacheOK(slot')
           /\ slot' = slot \/ \E e : /\ e.id = events[task[t].id].packed
                                     /\ EntriesFrom(slot', task[t].cache, task[t].key, e)
<1> DEFINE e == [id |-> events[task[t].id].packed, erased |-> events[task[t].id].erased,
                 at |-> task[t].keyAt]
           c == Remembers(task[t].cache, task[t].key, e)
<1>1. events[task[t].id] \in EventRow
  BY DEF Shape, Stored
<1>2. e \in Entry /\ CacheOK(task[t].cache) /\ task[t].key \in Keys
  BY <1>1, EntryFor
<1>3. e.id = events[task[t].id].packed
  OBVIOUS
<1>4. Ends(t, Remembers(task[t].cache, task[t].key, e))
  OBVIOUS
<1> HIDE DEF e
<1>5. CacheOK(c) /\ EntriesFrom(c, task[t].cache, task[t].key, e)
  BY <1>2, RemembersOK
<1> HIDE DEF c
<1>6. Moves(t, Idle) /\ TasksOK' /\ slot' \in {slot, c} /\ CacheOK(slot')
  BY <1>4, <1>5, EndsMoves DEF c
<1> QED
  BY <1>3, <1>5, <1>6

LEMMA RestoreSlot ==
    ASSUME Shape, NEW t \in Tasks, RestoreCache(t)
    PROVE  /\ CacheOK(slot')
           /\ slot' = slot \/ \E e : /\ e.id = task[t].id
                                     /\ EntriesFrom(slot', task[t].cache, task[t].key, e)
<1> DEFINE e == [id |-> task[t].id, erased |-> FALSE, at |-> task[t].now]
           c == Remembers(task[t].cache, task[t].key, e)
<1>1. e \in Entry /\ CacheOK(task[t].cache) /\ task[t].key \in Keys
  BY EntryFor DEF RestoreCache
<1>2. e.id = task[t].id
  OBVIOUS
<1>3. slot' = Restored(Remembers(task[t].cache, task[t].key, e))
  BY DEF RestoreCache
<1> HIDE DEF e
<1>4. CacheOK(c) /\ EntriesFrom(c, task[t].cache, task[t].key, e)
  BY <1>1, RemembersOK
<1> HIDE DEF c
<1>5. slot' \in {slot, c}
  BY <1>3 DEF c, Restored
<1> QED
  BY <1>2, <1>4, <1>5 DEF Shape

LEMMA ShapeInit == Init => Shape
<1> SUFFICES ASSUME Init PROVE Shape
  OBVIOUS
<1>1. TasksOK
  BY IdleOK DEF Init, TasksOK
<1>2. CacheOK(slot)
  BY EmptyCaches DEF Init
<1>3. NoRow \in EventRow /\ NoKeyRow \in KeyRow /\ NotMinted \in Mint
  BY DEF NoRow, EventRow, NoKeyRow, KeyRow, NotMinted, Mint
<1>4. RestOK
  <2>1. DOMAIN redactor = {"pc", "targets", "packed"} /\ redactor.packed = NoEvent
    BY DEF Init, RedactorIdle
  <2> QED
    BY <1>3, <2>1 DEF Init, RestOK
<1> QED
  BY <1>1, <1>2, <1>4, ShapeParts

LEMMA RedactsRestOK ==
    ASSUME RedactsRest
    PROVE  /\ DOMAIN redactor' = {"pc", "targets", "packed"} /\ redactor'.packed = NoEvent
           /\ redactor'.pc # "write"
<1> DEFINE rest == redactor.targets \ {FirstTarget}
<1>1. redactor' = [pc |-> IF rest = {} THEN "idle" ELSE "read", targets |-> rest,
                   packed |-> NoEvent]
  BY DEF RedactsRest
<1> HIDE DEF rest
<1> QED
  BY <1>1

(* The rows and the rest of the state, under the steps that change them. *)
LEMMA RestNext ==
    ASSUME Retained = FALSE, Shape, [Next]_vars PROVE RestOK'
<1>0. RestOK /\ TasksOK
  BY ShapeParts
<1>1. ASSUME NEW t \in Tasks, NEW k \in Keys, AppendHitsCache(t, k) PROVE RestOK'
  BY <1>0, <1>1 DEF AppendHitsCache, RestOK, tableVars, jobVars
<1>2. ASSUME NEW t \in Tasks, NEW k \in Keys, AppendMisses(t, k) PROVE RestOK'
  BY <1>0, <1>2 DEF AppendMisses, RestOK, tableVars, jobVars, history
<1>3. ASSUME NEW t \in Tasks, LookupKey(t) PROVE RestOK'
  BY <1>0, <1>3 DEF LookupKey, RestOK, tableVars, jobVars, history
<1>4. ASSUME NEW t \in Tasks, ReadEvent(t) PROVE RestOK'
  <2>1. UNCHANGED <<events, keys, redactor, retainer, clock, minted, fanned>>
    BY <1>4 DEF ReadEvent, tableVars, jobVars
  <2>2. DOMAIN answered' = DOMAIN answered
    BY <1>4 DEF ReadEvent
  <2> QED
    BY <1>0, <2>1, <2>2 DEF RestOK
<1>5. ASSUME NEW t \in Tasks, NextSequence(t) PROVE RestOK'
  BY <1>0, <1>5 DEF NextSequence, RestOK, tableVars, jobVars, history
<1>6. ASSUME NEW t \in Tasks, InsertEvent(t) PROVE RestOK'
  <2>1. UNCHANGED <<keys, redactor, retainer, clock, fanned, answered>>
    BY <1>6 DEF InsertEvent, jobVars
  <2>2. CASE UNCHANGED <<events, minted>>
    BY <1>0, <2>1, <2>2 DEF RestOK
  <2>3. ASSUME NEW id \in EventIds,
               events' = [events EXCEPT ![id] = [seq |-> task[t].seq, packed |-> id,
                                                 erased |-> FALSE, at |-> task[t].now]],
               minted' = [minted EXCEPT ![id] = [key |-> task[t].key, at |-> task[t].now,
                                                 seq |-> task[t].seq]]
        PROVE  RestOK'
    <3> DEFINE row == [seq |-> task[t].seq, packed |-> id, erased |-> FALSE, at |-> task[t].now]
               mint == [key |-> task[t].key, at |-> task[t].now, seq |-> task[t].seq]
    <3>1. task[t].seq \in Nat /\ task[t].now \in Int /\ task[t].key \in Keys
      BY <1>0, <1>6 DEF TasksOK, CallOK, InsertEvent
    <3>2. row \in EventRow /\ mint \in Mint
      BY <3>1 DEF EventRow, Mint
    <3>3. events' = [events EXCEPT ![id] = row] /\ minted' = [minted EXCEPT ![id] = mint]
      BY <2>3
    <3> HIDE DEF row, mint
    <3> QED
      BY <1>0, <2>1, <3>2, <3>3 DEF RestOK
  <2> QED
    BY <1>6, <2>2, <2>3 DEF InsertEvent
<1>7. ASSUME NEW t \in Tasks, UpsertKey(t) PROVE RestOK'
  <2> DEFINE row == [id |-> task[t].id, at |-> task[t].now]
  <2>1. row \in KeyRow
    BY <1>0 DEF TasksOK, CallOK, KeyRow
  <2>2. keys' = [keys EXCEPT ![task[t].key] = row]
    BY <1>7 DEF UpsertKey
  <2> HIDE DEF row
  <2> QED
    BY <1>0, <1>7, <2>1, <2>2 DEF UpsertKey, RestOK, jobVars, history
<1>8. ASSUME NEW t \in Tasks, RestoreCache(t) PROVE RestOK'
  BY <1>0, <1>8 DEF RestoreCache, RestOK, tableVars, jobVars, history
<1>9. ASSUME NEW t \in Tasks, Notify(t) PROVE RestOK'
  <2>1. DOMAIN answered' = Keys
    BY <1>0, <1>9 DEF Notify, RestOK
  <2>2. \A id \in EventIds : fanned[id] + 1 \in Nat
    BY <1>0 DEF RestOK
  <2>3. fanned' = [fanned EXCEPT ![task[t].id] = fanned[task[t].id] + 1]
    BY <1>9 DEF Notify
  <2>4. fanned' \in [EventIds -> Nat]
    BY <1>0, <2>2, <2>3 DEF RestOK
  <2> QED
    BY <1>0, <1>9, <2>1, <2>4 DEF Notify, RestOK, tableVars, jobVars
<1>10. ASSUME NEW t \in Tasks, StatementFails(t) PROVE RestOK'
  BY <1>0, <1>10 DEF StatementFails, RestOK, tableVars, jobVars, history
<1>11. ASSUME NEW t \in Tasks, CallDropped(t) PROVE RestOK'
  BY <1>0, <1>11 DEF CallDropped, RestOK, tableVars, jobVars, history
<1>12. CASE Crash
  <2>1. DOMAIN redactor' = {"pc", "targets", "packed"} /\ redactor'.packed = NoEvent
    BY <1>12 DEF Crash, RedactorIdle
  <2> QED
    BY <1>0, <1>12, <2>1 DEF Crash, RestOK, tableVars, history
<1>13. CASE PruneStarts \/ PruneFails \/ PruneSwapsCache
  BY <1>0, <1>13 DEF PruneStarts, PruneFails, PruneSwapsCache, RestOK, tableVars, history
<1>14. CASE PruneDeletes
  <2>1. NoKeyRow \in KeyRow
    BY DEF NoKeyRow, KeyRow
  <2>2. PICK kept : keys' = [k \in Keys |-> IF k \in kept THEN keys[k] ELSE NoKeyRow]
    BY <1>14 DEF PruneDeletes
  <2> QED
    BY <1>0, <1>14, <2>1, <2>2 DEF PruneDeletes, RestOK, history
<1>15. CASE RetainByAge \/ RetainByCount
  BY <1>0, <1>15 DEF RetainByAge, RetainByCount, RestOK
<1>16. ASSUME NEW k \in Redacts, RedactLists(k) PROVE RestOK'
  <2>1. DOMAIN redactor' = {"pc", "targets", "packed"} /\ redactor'.packed = NoEvent
    BY <1>16 DEF RedactLists
  <2> QED
    BY <1>0, <1>16, <2>1 DEF RedactLists, RestOK, tableVars, history
<1>17. CASE RedactReads
  <2>1. UNCHANGED <<events, keys, retainer, clock, minted, fanned, answered>>
    BY <1>17 DEF RedactReads, tableVars, history
  <2>2. CASE RedactsRest
    BY <1>0, <2>1, <2>2, RedactsRestOK DEF RestOK
  <2>3. ASSUME NEW id \in Stored,
               redactor' = [redactor EXCEPT !.pc = "write", !.packed = events[id].packed]
        PROVE  RestOK'
    <3>1. events[id].packed \in EventIds \cup {NoEvent}
      BY <1>0 DEF Stored, RestOK, EventRow
    <3>2. /\ DOMAIN redactor' = DOMAIN redactor
          /\ redactor'.packed = events[id].packed
      BY <1>0, <2>3 DEF RestOK
    <3> QED
      BY <1>0, <2>1, <3>1, <3>2 DEF RestOK
  <2> QED
    BY <1>17, <2>2, <2>3 DEF RedactReads
<1>18. CASE RedactWrites
  <2>1. \A id \in EventIds :
          [events[id] EXCEPT !.packed = redactor.packed, !.erased = TRUE] \in EventRow
    BY <1>0 DEF RestOK, EventRow
  <2>2. events' \in [EventIds -> EventRow]
    BY <1>0, <1>18, <2>1 DEF RedactWrites, RestOK
  <2>3. UNCHANGED <<keys, retainer, clock, minted, fanned, answered>> /\ RedactsRest
    BY <1>18 DEF RedactWrites, history
  <2> QED
    BY <1>0, <2>2, <2>3, RedactsRestOK DEF RestOK
<1>19. CASE Read
  BY <1>0, <1>19 DEF Read, RestOK, tableVars, jobVars, history
<1>20. CASE Tick
  <2>1. clock' \in Int
    BY <1>0, <1>20 DEF Tick, RestOK
  <2> QED
    BY <1>0, <1>20, <2>1 DEF Tick, RestOK, tableVars, jobVars, history
<1>21. CASE UNCHANGED vars
  BY <1>0, <1>21 DEF vars, RestOK, tableVars, jobVars, history
<1> QED
  BY <1>1, <1>2, <1>3, <1>4, <1>5, <1>6, <1>7, <1>8, <1>9, <1>10, <1>11, <1>12, <1>13, <1>14,
     <1>15, <1>16, <1>17, <1>18, <1>19, <1>20, <1>21 DEF Next, AppendStep

LEMMA ShapeNext ==
    ASSUME Retained = FALSE, Shape, HeadSequence \in Nat, [Next]_vars PROVE Shape'
<1>0. RestOK'
  BY RestNext
<1> SUFFICES TasksOK' /\ CacheOK(slot')
  BY <1>0, ShapeParts
<1>a. CacheOK(slot) /\ CacheOK(FreshCache) /\ CacheOK(NoCache)
  BY EmptyCaches DEF Shape
<1>1. ASSUME NEW t \in Tasks, NEW k \in Keys, AppendHitsCache(t, k)
      PROVE  TasksOK' /\ CacheOK(slot')
  BY <1>a, <1>1, TouchedOK, TasksSame DEF AppendHitsCache
<1>2. ASSUME NEW t \in Tasks, NEW k \in Keys, AppendMisses(t, k)
      PROVE  TasksOK' /\ CacheOK(slot')
  <2>1. slot' = NoCache
    BY <1>2 DEF AppendMisses
  <2> QED
    BY <1>a, <1>2, <2>1, MissesMoves, TasksKept
<1>3. ASSUME NEW t \in Tasks, LookupKey(t) PROVE TasksOK' /\ CacheOK(slot')
  <2>1. slot' = slot
    BY <1>3 DEF LookupKey
  <2>2. \E m : CallOK(m) /\ Moves(t, m)
    BY <1>3, LookupMoves DEF GoesOn
  <2> QED
    BY <1>a, <2>1, <2>2, TasksKept
<1>4. ASSUME NEW t \in Tasks, ReadEvent(t) PROVE TasksOK' /\ CacheOK(slot')
  <2>1. CASE task[t].id \in Stored
    BY <1>4, <2>1, ReplayEnds DEF ReadEvent
  <2>2. CASE task[t].id \notin Stored
    <3>1. slot' = slot
      BY <1>4, <2>2 DEF ReadEvent
    <3>2. \E m : CallOK(m) /\ Moves(t, m)
      BY <1>4, <2>2, EventGoneMoves DEF ReadEvent, GoesOn
    <3> QED
      BY <1>a, <3>1, <3>2, TasksKept
  <2> QED
    BY <2>1, <2>2
<1>5. ASSUME NEW t \in Tasks, NextSequence(t) PROVE TasksOK' /\ CacheOK(slot')
  <2>1. slot' = slot
    BY <1>5 DEF NextSequence
  <2>2. \E m : CallOK(m) /\ Moves(t, m)
    BY <1>5, NextSequenceMoves DEF GoesOn
  <2> QED
    BY <1>a, <2>1, <2>2, TasksKept
<1>6. ASSUME NEW t \in Tasks, InsertEvent(t) PROVE TasksOK' /\ CacheOK(slot')
  <2>1. CASE Ends(t, task[t].cache)
    BY <2>1, EndsMoves, EntryFor
  <2>2. ASSUME NEW id \in EventIds, slot' = slot,
               task' = [task EXCEPT ![t] = [@ EXCEPT !.pc = "upsert", !.id = id]]
        PROVE  TasksOK' /\ CacheOK(slot')
    <3>1. \E m : CallOK(m) /\ Moves(t, m)
      BY <1>6, <2>2, InsertMoves DEF InsertEvent, GoesOn
    <3> QED
      BY <1>a, <2>2, <3>1, TasksKept
  <2> QED
    BY <1>6, <2>1, <2>2 DEF InsertEvent
<1>7. ASSUME NEW t \in Tasks, UpsertKey(t) PROVE TasksOK' /\ CacheOK(slot')
  <2>1. slot' = slot
    BY <1>7 DEF UpsertKey
  <2>2. \E m : CallOK(m) /\ Moves(t, m)
    BY <1>7, UpsertMoves DEF GoesOn
  <2> QED
    BY <1>a, <2>1, <2>2, TasksKept
<1>8. ASSUME NEW t \in Tasks, RestoreCache(t) PROVE TasksOK' /\ CacheOK(slot')
  <2>1. CacheOK(slot')
    BY <1>8, RestoreSlot
  <2>2. \E m : CallOK(m) /\ Moves(t, m)
    BY <1>8, RestoreMoves
  <2> QED
    BY <2>1, <2>2, TasksKept
<1>9. ASSUME NEW t \in Tasks, Notify(t) \/ CallDropped(t) PROVE TasksOK' /\ CacheOK(slot')
  <2>1. slot' = slot /\ Moves(t, Idle)
    BY <1>9 DEF Notify, CallDropped, Moves
  <2> QED
    BY <1>a, <2>1, IdleOK, TasksKept
<1>10. ASSUME NEW t \in Tasks, StatementFails(t) PROVE TasksOK' /\ CacheOK(slot')
  BY <1>10, EndsMoves, EntryFor DEF StatementFails
<1>11. CASE Crash
  <2>1. TasksOK'
    BY <1>11, IdleOK DEF Crash, TasksOK
  <2> QED
    BY <1>a, <1>11, <2>1 DEF Crash
<1>12. CASE PruneSwapsCache
  BY <1>a, <1>12, TasksSame DEF PruneSwapsCache
<1>13. CASE PruneStarts \/ PruneFails \/ PruneDeletes \/ RetainByAge \/ RetainByCount
            \/ RedactReads \/ RedactWrites \/ Read \/ Tick
  <2>1. slot' = slot /\ task' = task
    BY <1>13 DEF PruneStarts, PruneFails, PruneDeletes, RetainByAge, RetainByCount,
                 RedactReads, RedactWrites, Read, Tick
  <2> QED
    BY <1>a, <2>1, TasksSame
<1>14. ASSUME NEW k \in Redacts, RedactLists(k) PROVE TasksOK' /\ CacheOK(slot')
  BY <1>a, <1>14, TasksSame DEF RedactLists
<1>15. CASE UNCHANGED vars
  BY <1>a, <1>15, TasksSame DEF vars
<1> QED
  BY <1>1, <1>2, <1>3, <1>4, <1>5, <1>6, <1>7, <1>8, <1>9, <1>10, <1>11, <1>12, <1>13, <1>14,
     <1>15 DEF Next, AppendStep

-----------------------------------------------------------------------------
(* The log: every step but an INSERT leaves it as it is.                    *)

LEMMA HeadOf ==
    ASSUME NEW S, NEW h \in Nat, S = 1..h
    PROVE  (IF S = {} THEN 0 ELSE CHOOSE s \in S : \A other \in S : other <= s) = h
<1>1. CASE h = 0
  BY <1>1
<1>2. CASE h # 0
  <2>1. h \in S /\ \A other \in S : other <= h
    BY <1>2
  <2>2. \A s \in S : (\A other \in S : other <= s) => s = h
    BY <2>1
  <2> QED
    BY <2>1, <2>2
<1> QED
  BY <1>1, <1>2

LEMMA NextHead ==
    ASSUME NEW h \in Nat, UsedSequences' = 1..h PROVE HeadSequence' = h
  BY HeadOf DEF HeadSequence

(* Every row keeps its sequence and the id inside. *)
SameLog ==
    /\ \A id \in EventIds : /\ events'[id].seq = events[id].seq
                            /\ events'[id].packed = events[id].packed
    /\ minted' = minted

LEMMA LogKept ==
    ASSUME SameLog
    PROVE  /\ Stored' = Stored /\ UsedSequences' = UsedSequences
           /\ HeadSequence' = HeadSequence
<1>1. Stored' = Stored
  BY DEF SameLog, Stored
<1>2. UsedSequences' = UsedSequences
  BY <1>1 DEF SameLog, UsedSequences, Stored
<1> QED
  BY <1>1, <1>2 DEF HeadSequence

LEMMA RowsKept ==
    ASSUME RowsInv, DenseInv, SameLog PROVE RowsInv' /\ DenseInv'
<1>1. RowsInv'
  BY DEF RowsInv, SameLog
<1>2. DenseInv'
  BY LogKept DEF DenseInv, SameLog, Stored
<1> QED
  BY <1>1, <1>2

(* Task t stores event id under the next sequence. *)
Stores(t, id) ==
    /\ id \in EventIds /\ minted[id] = NotMinted
    /\ task[t].pc = "insert" /\ task[t].seq = HeadSequence + 1
    /\ events' = [events EXCEPT ![id] = [seq |-> task[t].seq, packed |-> id,
                                         erased |-> FALSE, at |-> task[t].now]]
    /\ minted' = [minted EXCEPT ![id] = [key |-> task[t].key, at |-> task[t].now,
                                         seq |-> task[t].seq]]
    /\ task' = [task EXCEPT ![t] = [@ EXCEPT !.pc = "upsert", !.id = id]]
    /\ UNCHANGED <<keys, slot, jobVars, readerVars, fanned, answered>>

LEMMA StoresEffect ==
    ASSUME Shape, LogInv, NEW t \in Tasks, NEW id, Stores(t, id)
    PROVE  /\ id \in EventIds /\ id \notin Stored
           /\ events'[id].seq = HeadSequence + 1 /\ events'[id].packed = id
           /\ \A i \in EventIds : i # id => events'[i] = events[i] /\ minted'[i] = minted[i]
           /\ minted'[id].key = task[t].key /\ minted'[id].seq = HeadSequence + 1
           /\ minted'[id].key \in Keys /\ minted'[id] # NotMinted
           /\ Stored' = Stored \cup {id}
           /\ UsedSequences' = 1..(HeadSequence + 1)
           /\ HeadSequence' = HeadSequence + 1
<1> DEFINE row == [seq |-> task[t].seq, packed |-> id, erased |-> FALSE, at |-> task[t].now]
           mint == [key |-> task[t].key, at |-> task[t].now, seq |-> task[t].seq]
<1>1. /\ row.seq = HeadSequence + 1 /\ row.packed = id
      /\ mint.key = task[t].key /\ mint.seq = HeadSequence + 1
  BY DEF Stores
<1>2. /\ events' = [events EXCEPT ![id] = row] /\ minted' = [minted EXCEPT ![id] = mint]
      /\ id \in EventIds /\ minted[id] = NotMinted
  BY DEF Stores
<1> HIDE DEF row, mint
<1>3. /\ events'[id] = row /\ minted'[id] = mint
      /\ \A i \in EventIds : i # id => events'[i] = events[i] /\ minted'[i] = minted[i]
  BY <1>2 DEF Shape
<1>4. id \notin Stored
  BY <1>2 DEF LogInv, RowsInv, Stored
<1>5. task[t].key \in Keys
  BY EntryFor DEF Stores
<1>6. NotMinted.key = NoKey
  BY DEF NotMinted
<1>7. mint # NotMinted
  BY <1>1, <1>5, <1>6, NoKeyAssumption
<1>8. HeadSequence \in Nat /\ UsedSequences = 1..HeadSequence
  BY DEF LogInv, DenseInv
<1>9. Stored' = Stored \cup {id}
  BY <1>1, <1>2, <1>3, <1>8 DEF Stored
<1>10. UsedSequences' = UsedSequences \cup {HeadSequence + 1}
  <2>1. UsedSequences' = {events'[i].seq : i \in Stored \cup {id}}
    BY <1>9 DEF UsedSequences
  <2>2. \A i \in Stored : events'[i].seq = events[i].seq
    BY <1>3, <1>4 DEF Stored
  <2> HIDE DEF Stored
  <2> QED
    BY <2>1, <2>2, <1>1, <1>3 DEF UsedSequences
<1>11. UsedSequences' = 1..(HeadSequence + 1)
  BY <1>8, <1>10
<1>12. HeadSequence' = HeadSequence + 1
  BY <1>8, <1>11, NextHead
<1> QED
  BY <1>1, <1>2, <1>3, <1>4, <1>5, <1>7, <1>9, <1>11, <1>12

LEMMA RedactKeeps ==
    ASSUME Shape, LogInv, RedactWrites PROVE SameLog
<1>1. redactor.packed \in Stored /\ events[redactor.packed].seq = FirstTarget
  BY DEF RedactWrites, LogInv, RedactInv
<1>2. minted' = minted
  BY DEF RedactWrites, history
<1>3. ASSUME NEW id \in EventIds
      PROVE  events'[id].seq = events[id].seq /\ events'[id].packed = events[id].packed
  <2>1. events'[id] = IF id \in Stored /\ events[id].seq = FirstTarget
                      THEN [events[id] EXCEPT !.packed = redactor.packed, !.erased = TRUE]
                      ELSE events[id]
    BY DEF RedactWrites
  <2>2. CASE id \in Stored /\ events[id].seq = FirstTarget
    <3>1. id = redactor.packed
      BY <1>1, <2>2 DEF LogInv, DenseInv
    <3>2. events[id].packed = id
      BY <2>2 DEF LogInv, RowsInv, Stored
    <3>3. events[id] \in EventRow
      BY DEF Shape
    <3>4. events'[id] = [events[id] EXCEPT !.packed = redactor.packed, !.erased = TRUE]
      BY <2>1, <2>2
    <3> QED
      BY <3>1, <3>2, <3>3, <3>4 DEF EventRow
  <2>3. CASE ~(id \in Stored /\ events[id].seq = FirstTarget)
    BY <2>1, <2>3
  <2> QED
    BY <2>2, <2>3
<1> QED
  BY <1>2, <1>3 DEF SameLog

LEMMA LogStep ==
    ASSUME Retained = FALSE, Shape, LogInv, SeqInv, [Next]_vars
    PROVE  SameLog \/ \E t \in Tasks : \E id : Stores(t, id)
<1>1. CASE events' = events /\ minted' = minted
  BY <1>1 DEF SameLog
<1>2. ASSUME NEW t \in Tasks, InsertEvent(t)
      PROVE  SameLog \/ \E id : Stores(t, id)
  <2>1. CASE UNCHANGED <<events, minted>>
    BY <2>1 DEF SameLog
  <2>2. CASE /\ task[t].seq \notin UsedSequences
             /\ \E id \in EventIds :
                  /\ NextEventId(id)
                  /\ events' = [events EXCEPT ![id] = [seq |-> task[t].seq, packed |-> id,
                                                       erased |-> FALSE, at |-> task[t].now]]
                  /\ minted' = [minted EXCEPT ![id] = [key |-> task[t].key, at |-> task[t].now,
                                                       seq |-> task[t].seq]]
                  /\ task' = [task EXCEPT ![t] = [@ EXCEPT !.pc = "upsert", !.id = id]]
             /\ UNCHANGED slot
    <3>1. /\ task[t].pc = "insert"
          /\ UNCHANGED <<keys, jobVars, readerVars, fanned, answered>>
      BY <1>2 DEF InsertEvent
    <3>2. task[t].seq = HeadSequence + 1
      BY <2>2, <3>1 DEF SeqInv, LogInv, DenseInv
    <3> QED
      BY <2>2, <3>1, <3>2 DEF Stores, NextEventId
  <2> QED
    BY <1>2, <2>1, <2>2 DEF InsertEvent
<1>3. CASE RedactWrites
  BY <1>3, RedactKeeps
<1>4. CASE RetainByAge \/ RetainByCount
  BY <1>4 DEF RetainByAge, RetainByCount, Shape
<1>5. ASSUME NEW t \in Tasks, NEW k \in Keys, AppendHitsCache(t, k) \/ AppendMisses(t, k)
      PROVE  events' = events /\ minted' = minted
  BY <1>5 DEF AppendHitsCache, AppendMisses, tableVars, history
<1>6. ASSUME NEW t \in Tasks, LookupKey(t) \/ NextSequence(t) \/ UpsertKey(t) \/ RestoreCache(t)
      PROVE  events' = events /\ minted' = minted
  BY <1>6 DEF LookupKey, NextSequence, UpsertKey, RestoreCache, tableVars, history
<1>7. ASSUME NEW t \in Tasks, Notify(t) \/ StatementFails(t) \/ CallDropped(t) \/ ReadEvent(t)
      PROVE  events' = events /\ minted' = minted
  BY <1>7 DEF Notify, StatementFails, CallDropped, ReadEvent, tableVars, history
<1>8. CASE Crash \/ PruneStarts \/ PruneDeletes \/ PruneFails \/ PruneSwapsCache
  BY <1>1, <1>8 DEF Crash, PruneStarts, PruneDeletes, PruneFails, PruneSwapsCache, tableVars, history
<1>9. CASE RedactReads \/ Read \/ Tick
  BY <1>1, <1>9 DEF RedactReads, Read, Tick, tableVars, history
<1>10. ASSUME NEW k \in Redacts, RedactLists(k) PROVE events' = events /\ minted' = minted
  BY <1>10 DEF RedactLists, tableVars, history
<1>11. CASE UNCHANGED vars
  BY <1>1, <1>11 DEF vars, tableVars, history
<1> QED
  BY <1>1, <1>2, <1>3, <1>4, <1>5, <1>6, <1>7, <1>8, <1>9, <1>10, <1>11 DEF Next, AppendStep

LEMMA StoresLog ==
    ASSUME Shape, LogInv, NEW t \in Tasks, NEW id, Stores(t, id)
    PROVE  LogInv'
<1>1. /\ id \in EventIds /\ id \notin Stored
      /\ events'[id].seq = HeadSequence + 1 /\ events'[id].packed = id
      /\ \A i \in EventIds : i # id => events'[i] = events[i] /\ minted'[i] = minted[i]
      /\ minted'[id].seq = HeadSequence + 1
      /\ minted'[id].key \in Keys /\ minted'[id] # NotMinted
      /\ Stored' = Stored \cup {id}
      /\ UsedSequences' = 1..(HeadSequence + 1)
      /\ HeadSequence' = HeadSequence + 1
  BY StoresEffect
<1>2. HeadSequence \in Nat /\ UsedSequences = 1..HeadSequence
  BY DEF LogInv, DenseInv
<1>3. RowsInv'
  BY <1>1, <1>2 DEF RowsInv, LogInv
<1>4. DenseInv'
  <2>1. \A i \in Stored : events'[i].seq = events[i].seq /\ events[i].seq # HeadSequence + 1
    <3> SUFFICES ASSUME NEW i \in Stored
                 PROVE  events'[i].seq = events[i].seq /\ events[i].seq # HeadSequence + 1
      OBVIOUS
    <3>1. events[i].seq \in UsedSequences
      BY DEF UsedSequences
    <3>2. i \in EventIds /\ i # id
      BY <1>1 DEF Stored
    <3> QED
      BY <1>1, <1>2, <3>1, <3>2
  <2>2. \A i, j \in Stored : events[i].seq = events[j].seq => i = j
    BY DEF LogInv, DenseInv
  <2> HIDE DEF Stored
  <2>3. \A i, j \in Stored \cup {id} : events'[i].seq = events'[j].seq => i = j
    BY <1>1, <2>1, <2>2
  <2> QED
    BY <1>1, <1>2, <2>3 DEF DenseInv
<1>5. RedactInv'
  <2>1. redactor' = redactor /\ FirstTarget' = FirstTarget
    BY DEF Stores, jobVars, FirstTarget
  <2>2. ASSUME redactor.pc = "write"
        PROVE  redactor.packed \in Stored' /\ events'[redactor.packed].seq = FirstTarget
    <3>1. redactor.packed \in Stored /\ events[redactor.packed].seq = FirstTarget
      BY <2>2 DEF LogInv, RedactInv
    <3> QED
      BY <1>1, <3>1 DEF Stored
  <2> QED
    BY <2>1, <2>2 DEF RedactInv
<1> QED
  BY <1>3, <1>4, <1>5 DEF LogInv

LEMMA RedactStep ==
    ASSUME Retained = FALSE, Shape, [Next]_vars
    PROVE  \/ redactor' = redactor
           \/ redactor'.pc # "write"
           \/ /\ UNCHANGED <<events, minted>>
              /\ \E id \in Stored :
                   /\ events[id].seq = FirstTarget
                   /\ redactor' = [redactor EXCEPT !.pc = "write", !.packed = events[id].packed]
<1>1. ASSUME NEW t \in Tasks, AppendStep(t) \/ StatementFails(t) \/ CallDropped(t)
      PROVE  redactor' = redactor
  BY <1>1 DEF AppendStep, LookupKey, ReadEvent, NextSequence, InsertEvent, UpsertKey,
              RestoreCache, Notify, StatementFails, CallDropped, jobVars
<1>2. ASSUME NEW t \in Tasks, NEW k \in Keys, AppendHitsCache(t, k) \/ AppendMisses(t, k)
      PROVE  redactor' = redactor
  BY <1>2 DEF AppendHitsCache, AppendMisses, jobVars
<1>3. CASE Crash
  BY <1>3 DEF Crash, RedactorIdle
<1>4. CASE PruneStarts \/ PruneDeletes \/ PruneFails \/ PruneSwapsCache \/ RetainByAge
           \/ RetainByCount \/ Read \/ Tick
  BY <1>4 DEF PruneStarts, PruneDeletes, PruneFails, PruneSwapsCache, RetainByAge,
              RetainByCount, Read, Tick, jobVars
<1>5. ASSUME NEW k \in Redacts, RedactLists(k) PROVE redactor'.pc # "write"
  BY <1>5 DEF RedactLists
<1>6. CASE RedactWrites
  BY <1>6, RedactsRestOK DEF RedactWrites
<1>7. CASE RedactReads
  <2>1. UNCHANGED <<events, minted>>
    BY <1>7 DEF RedactReads, tableVars, history
  <2> QED
    BY <1>7, <2>1, RedactsRestOK DEF RedactReads
<1>8. CASE UNCHANGED vars
  BY <1>8 DEF vars, jobVars
<1> QED
  BY <1>1, <1>2, <1>3, <1>4, <1>5, <1>6, <1>7, <1>8 DEF Next

LEMMA LogNext ==
    ASSUME Retained = FALSE, Shape, LogInv, SeqInv, [Next]_vars PROVE LogInv'
<1>1. ASSUME NEW t \in Tasks, NEW id, Stores(t, id) PROVE LogInv'
  BY <1>1, StoresLog
<1>2. CASE SameLog
  <2>1. RowsInv' /\ DenseInv' /\ Stored' = Stored
    BY <1>2, RowsKept, LogKept DEF LogInv
  <2>2. RedactInv'
    <3>1. CASE redactor' = redactor
      <4>1. FirstTarget' = FirstTarget
        BY <3>1 DEF FirstTarget
      <4> QED
        BY <1>2, <2>1, <3>1, <4>1 DEF LogInv, RedactInv, SameLog, Stored
    <3>2. CASE redactor'.pc # "write"
      BY <3>2 DEF RedactInv
    <3>3. ASSUME events' = events, NEW id \in Stored, events[id].seq = FirstTarget,
                 redactor' = [redactor EXCEPT !.pc = "write", !.packed = events[id].packed]
          PROVE  RedactInv'
      <4>1. events[id].packed = id
        BY DEF LogInv, RowsInv, Stored
      <4>2. redactor'.packed = id /\ redactor'.targets = redactor.targets
        BY <3>3, <4>1 DEF Shape
      <4>3. FirstTarget' = FirstTarget
        BY <4>2 DEF FirstTarget
      <4> QED
        BY <2>1, <3>3, <4>2, <4>3 DEF RedactInv
    <3> QED
      BY <3>1, <3>2, <3>3, RedactStep
  <2> QED
    BY <2>1, <2>2 DEF LogInv
<1> QED
  BY <1>1, <1>2, LogStep

LEMMA LogStart == Init => LogInv
<1> SUFFICES ASSUME Init PROVE LogInv
  OBVIOUS
<1>1. \A id \in EventIds : events[id].seq = 0 /\ minted[id] = NotMinted
  BY DEF Init, NoRow
<1>2. Stored = {} /\ UsedSequences = {}
  BY <1>1 DEF Stored, UsedSequences
<1>3. HeadSequence = 0
  BY <1>2 DEF HeadSequence
<1>4. redactor.pc = "idle"
  BY DEF Init, RedactorIdle
<1> QED
  BY <1>1, <1>2, <1>3, <1>4 DEF LogInv, RowsInv, DenseInv, RedactInv

-----------------------------------------------------------------------------
(* The follower.                                                           *)

LEMMA OneMoves ==
    ASSUME Shape, NEW t \in Tasks, NEW m, Moves(t, m),
           m.pc # "insert" \/ m.seq = HeadSequence + 1,
           NEW u \in Tasks, task'[u].pc = "insert"
    PROVE  task'[u] = task[u] \/ task'[u].seq = HeadSequence + 1
<1>1. task'[t] = m /\ (u # t => task'[u] = task[u])
  BY MovesTo
<1> QED
  BY <1>1

LEMMA InsertsNext ==
    ASSUME Retained = FALSE, Shape, HeadSequence \in Nat, [Next]_vars,
           NEW u \in Tasks, task'[u].pc = "insert"
    PROVE  task'[u] = task[u] \/ task'[u].seq = HeadSequence + 1
<1> DEFINE Goal == task'[u] = task[u] \/ task'[u].seq = HeadSequence + 1
<1>0. Idle.pc # "insert"
  BY IdleOK
<1>1. ASSUME NEW t \in Tasks, NEW k \in Keys, AppendMisses(t, k) PROVE Goal
  BY <1>1, MissesMoves, OneMoves
<1>2. ASSUME NEW t \in Tasks, LookupKey(t) PROVE Goal
  <2>1. \E m : Moves(t, m) /\ m.pc # "insert"
    BY <1>2, LookupMoves DEF GoesOn
  <2> QED
    BY <2>1, OneMoves
<1>3. ASSUME NEW t \in Tasks, ReadEvent(t) PROVE Goal
  <2>1. \E m : Moves(t, m) /\ m.pc # "insert"
    BY <1>0, <1>3, EventGoneMoves, ReplayEnds DEF ReadEvent, GoesOn
  <2> QED
    BY <2>1, OneMoves
<1>4. ASSUME NEW t \in Tasks, NextSequence(t) PROVE Goal
  <2>1. \E m : Moves(t, m) /\ m.seq = HeadSequence + 1
    BY <1>4, NextSequenceMoves DEF GoesOn
  <2> QED
    BY <2>1, OneMoves
<1>5. ASSUME NEW t \in Tasks, InsertEvent(t) PROVE Goal
  <2>1. CASE Ends(t, task[t].cache)
    <3>1. Moves(t, Idle)
      BY <2>1, EndsMoves, EntryFor
    <3> QED
      BY <1>0, <3>1, OneMoves
  <2>2. ASSUME NEW id \in EventIds,
               task' = [task EXCEPT ![t] = [@ EXCEPT !.pc = "upsert", !.id = id]]
        PROVE  Goal
    <3>1. \E m : Moves(t, m) /\ m.pc # "insert"
      BY <1>5, <2>2, InsertMoves DEF InsertEvent, GoesOn
    <3> QED
      BY <3>1, OneMoves
  <2> QED
    BY <1>5, <2>1, <2>2 DEF InsertEvent
<1>6. ASSUME NEW t \in Tasks, UpsertKey(t) PROVE Goal
  <2>1. \E m : Moves(t, m) /\ m.pc # "insert"
    BY <1>6, UpsertMoves DEF GoesOn
  <2> QED
    BY <2>1, OneMoves
<1>7. ASSUME NEW t \in Tasks, RestoreCache(t) PROVE Goal
  BY <1>7, RestoreMoves, OneMoves
<1>8. ASSUME NEW t \in Tasks, Notify(t) \/ CallDropped(t) \/ StatementFails(t) PROVE Goal
  <2>1. Moves(t, Idle)
    BY <1>8, EndsMoves, EntryFor DEF Notify, CallDropped, StatementFails, Moves
  <2> QED
    BY <1>0, <2>1, OneMoves
<1>9. CASE Crash
  BY <1>0, <1>9 DEF Crash
<1>10. CASE task' = task
  BY <1>10
<1>11. ASSUME NEW t \in Tasks, NEW k \in Keys, AppendHitsCache(t, k) PROVE task' = task
  BY <1>11 DEF AppendHitsCache
<1>12. CASE PruneStarts \/ PruneFails \/ PruneDeletes \/ PruneSwapsCache \/ RetainByAge
            \/ RetainByCount \/ RedactReads \/ RedactWrites \/ Read \/ Tick
  BY <1>10, <1>12 DEF PruneStarts, PruneFails, PruneDeletes, PruneSwapsCache, RetainByAge,
                      RetainByCount, RedactReads, RedactWrites, Read, Tick
<1>13. ASSUME NEW k \in Redacts, RedactLists(k) PROVE task' = task
  BY <1>13 DEF RedactLists
<1>14. CASE UNCHANGED vars
  BY <1>10, <1>14 DEF vars
<1> QED
  BY <1>1, <1>2, <1>3, <1>4, <1>5, <1>6, <1>7, <1>8, <1>9, <1>10, <1>11, <1>12, <1>13, <1>14
     DEF Next, AppendStep

LEMMA ReaderStep ==
    ASSUME [Next]_vars PROVE UNCHANGED readerVars \/ Read
  BY DEF Next, AppendStep, LookupKey, ReadEvent, NextSequence, InsertEvent, UpsertKey,
         RestoreCache, Notify, StatementFails, CallDropped, AppendHitsCache, AppendMisses,
         Crash, PruneStarts, PruneDeletes, PruneFails, PruneSwapsCache, RetainByAge,
         RetainByCount, RedactLists, RedactReads, RedactWrites, Tick, vars

LEMMA SeqNext ==
    ASSUME Retained = FALSE, Shape, LogInv, SeqInv, [Next]_vars PROVE SeqInv'
<1>1. HeadSequence \in Nat /\ UsedSequences = 1..HeadSequence
  BY DEF LogInv, DenseInv
<1>2. HeadSequence' \in Nat /\ HeadSequence <= HeadSequence'
  <2>1. SameLog => HeadSequence' = HeadSequence
    BY LogKept
  <2>2. (\E t \in Tasks : \E id : Stores(t, id)) => HeadSequence' = HeadSequence + 1
    BY StoresEffect
  <2>3. HeadSequence' \in {HeadSequence, HeadSequence + 1}
    BY <2>1, <2>2, LogStep
  <2> QED
    BY <1>1, <2>3
<1>3. ASSUME NEW u \in Tasks, task'[u].pc = "insert"
      PROVE  task'[u].seq \in 1..(HeadSequence' + 1)
  <2>1. task'[u] = task[u] \/ task'[u].seq = HeadSequence + 1
    BY <1>1, <1>3, InsertsNext
  <2> QED
    BY <1>1, <1>2, <1>3, <2>1 DEF SeqInv
<1>4. CASE Read
  <2>1. SameLog
    BY <1>4 DEF Read, SameLog, tableVars, history
  <2>2. Stored' = Stored /\ HeadSequence' = HeadSequence
    BY <2>1, LogKept
  <2>3. FollowerMissesNothing'
    <3> SUFFICES ASSUME NEW id \in Stored, events'[id].seq <= cursor'
                 PROVE  events'[id].packed \in seen'
      BY <2>2 DEF FollowerMissesNothing
    <3>1. events'[id] = events[id] /\ seen \subseteq seen'
      BY <1>4 DEF Read, tableVars
    <3>2. events[id].seq \in Nat
      BY DEF Stored, Shape, EventRow
    <3>3. CASE events[id].seq <= cursor
      BY <3>1, <3>3 DEF SeqInv, FollowerMissesNothing
    <3>4. CASE events[id].seq > cursor
      BY <1>4, <3>1, <3>4 DEF Read
    <3> QED
      BY <3>2, <3>3, <3>4 DEF SeqInv
  <2> QED
    BY <1>1, <1>3, <1>4, <2>2, <2>3 DEF SeqInv, Read
<1>5. CASE UNCHANGED readerVars
  <2>1. cursor' = cursor /\ seen' = seen
    BY <1>5 DEF readerVars
  <2>2. FollowerMissesNothing'
    <3>1. CASE SameLog
      BY <2>1, <3>1, LogKept DEF SeqInv, FollowerMissesNothing, SameLog, Stored
    <3>2. ASSUME NEW t \in Tasks, NEW id, Stores(t, id) PROVE FollowerMissesNothing'
      <4>1. /\ Stored' = Stored \cup {id} /\ events'[id].seq = HeadSequence + 1
            /\ \A i \in EventIds : i # id => events'[i] = events[i]
            /\ id \notin Stored
        BY <3>2, StoresEffect
      <4>2. \A i \in Stored : events'[i] = events[i]
        BY <4>1 DEF Stored
      <4>3. ~(HeadSequence + 1 <= cursor)
        BY <1>1 DEF SeqInv
      <4> HIDE DEF Stored
      <4> QED
        BY <2>1, <4>1, <4>2, <4>3 DEF SeqInv, FollowerMissesNothing
    <3> QED
      BY <3>1, <3>2, LogStep
  <2> QED
    BY <1>1, <1>2, <1>3, <2>1, <2>2 DEF SeqInv
<1> QED
  BY <1>4, <1>5, ReaderStep

LEMMA SeqStart == Init => SeqInv
<1> SUFFICES ASSUME Init PROVE SeqInv
  OBVIOUS
<1>1. Stored = {} /\ HeadSequence = 0
  <2>1. \A id \in EventIds : events[id].seq = 0
    BY DEF Init, NoRow
  <2>2. Stored = {} /\ UsedSequences = {}
    BY <2>1 DEF Stored, UsedSequences
  <2> QED
    BY <2>2 DEF HeadSequence
<1>2. \A t \in Tasks : task[t].pc = "idle"
  BY IdleOK DEF Init
<1>3. cursor = 0
  BY DEF Init
<1> QED
  BY <1>1, <1>2, <1>3 DEF SeqInv, FollowerMissesNothing

LEMMA StreamInvariant ==
    ASSUME Retained = FALSE
    PROVE  Spec => [](Shape /\ LogInv /\ SeqInv)
<1>1. Init => Shape /\ LogInv /\ SeqInv
  BY ShapeInit, LogStart, SeqStart
<1>2. Shape /\ LogInv /\ SeqInv /\ [Next]_vars => (Shape /\ LogInv /\ SeqInv)'
  <2> SUFFICES ASSUME Shape, LogInv, SeqInv, [Next]_vars PROVE (Shape /\ LogInv /\ SeqInv)'
    OBVIOUS
  <2>1. HeadSequence \in Nat
    BY DEF LogInv, DenseInv
  <2> QED
    BY <2>1, ShapeNext, LogNext, SeqNext
<1> QED
  BY <1>1, <1>2, PTL DEF Spec

(* On a stream without retention a follower that reads with an `after`      *)
(* cursor is given every event at or below it, whatever appends, retries,   *)
(* redactions and faults come between.                                      *)
THEOREM FollowerComplete ==
    ASSUME Retained = FALSE
    PROVE  Spec => []FollowerMissesNothing
<1>1. Shape /\ LogInv /\ SeqInv => FollowerMissesNothing
  BY DEF SeqInv
<1> QED
  BY <1>1, StreamInvariant, PTL

-----------------------------------------------------------------------------
(* The answers.                                                            *)

LEMMA EmptyOwns == ASSUME NEW mint PROVE CacheOwns(mint, FreshCache) /\ CacheOwns(mint, NoCache)
<1>1. NoEntry.id = NoEvent
  BY DEF NoEntry
<1> QED
  BY <1>1, EmptyCaches DEF CacheOwns

LEMMA IdleOwns == ASSUME NEW mint PROVE CallOwns(mint, Idle)
  BY EmptyOwns, IdleOK DEF CallOwns

LEMMA EntriesOwn ==
    ASSUME NEW mint, NEW old, NEW new, NEW k \in Keys, NEW e,
           CacheOwns(mint, old), EntriesFrom(new, old, k, e), Owns(mint, k, e.id)
    PROVE  CacheOwns(mint, new)
<1>1. NoEntry.id = NoEvent
  BY DEF NoEntry
<1> QED
  BY <1>1 DEF CacheOwns, EntriesFrom

LEMMA CallsOwnKept ==
    ASSUME Shape, OwnInv, NEW t \in Tasks, NEW m, Moves(t, m), CallOwns(minted, m)
    PROVE  CallsOwn(minted, task')
<1>1. task'[t] = m /\ \A u \in Tasks : u # t => task'[u] = task[u]
  BY MovesTo
<1> QED
  BY <1>1 DEF OwnInv, CallsOwn

(* What was minted for a request stays what it is. *)
Grows(old, new) == \A id \in EventIds : old[id].key \in Keys => new[id] = old[id]

LEMMA OwnsGrow ==
    ASSUME NEW old, NEW new, Grows(old, new)
    PROVE  /\ \A k \in Keys : \A id : Owns(old, k, id) => Owns(new, k, id)
           /\ \A c : CacheOwns(old, c) => CacheOwns(new, c)
<1>1. \A k \in Keys : \A id : Owns(old, k, id) => Owns(new, k, id)
  BY DEF Grows, Owns
<1> QED
  BY <1>1 DEF CacheOwns

LEMMA StoresOwn ==
    ASSUME Shape, LogInv, OwnInv, NEW t \in Tasks, NEW id, Stores(t, id)
    PROVE  OwnInv'
<1>0. NotMinted.key = NoKey
  BY DEF NotMinted
<1>1. /\ id \in EventIds /\ minted'[id].key = task[t].key
      /\ \A i \in EventIds : i # id => minted'[i] = minted[i]
      /\ minted[id] = NotMinted
  <2>1. minted[id] = NotMinted
    BY DEF Stores
  <2> QED
    BY <2>1, StoresEffect
<1>2. Grows(minted, minted')
  BY <1>0, <1>1, NoKeyAssumption DEF Grows
<1>3. /\ \A k \in Keys : \A i : Owns(minted, k, i) => Owns(minted', k, i)
      /\ \A c : CacheOwns(minted, c) => CacheOwns(minted', c)
  BY <1>2, OwnsGrow
<1>4. keys' = keys /\ slot' = slot /\ answered' = answered
  BY DEF Stores
<1>5. KeysOwn(minted', keys') /\ CacheOwns(minted', slot') /\ AnswersOwn(minted', answered')
  BY <1>3, <1>4 DEF OwnInv, KeysOwn, AnswersOwn
<1>6. CallsOwn(minted', task')
  <2>1. PICK m : GoesOn(t, m, "upsert") /\ m.id = id
    BY <1>1, InsertMoves DEF Stores
  <2>2. m.key = task[t].key /\ m.cache = task[t].cache /\ Moves(t, m)
    BY <2>1 DEF GoesOn
  <2>3. CallOwns(minted', m)
    BY <1>1, <1>3, <2>1, <2>2 DEF OwnInv, CallsOwn, CallOwns, Owns
  <2> SUFFICES ASSUME NEW u \in Tasks PROVE CallOwns(minted', task'[u])
    BY DEF CallsOwn
  <2>4. CASE u = t
    BY <2>2, <2>3, <2>4, MovesTo
  <2>5. CASE u # t
    <3>1. task'[u] = task[u]
      BY <2>2, <2>5, MovesTo
    <3>2. CallOwns(minted, task[u]) /\ (task[u].pc # "idle" => task[u].key \in Keys)
      BY EntryFor DEF OwnInv, CallsOwn
    <3> QED
      BY <1>3, <3>1, <3>2 DEF CallOwns
  <2> QED
    BY <2>4, <2>5
<1> QED
  BY <1>5, <1>6 DEF OwnInv

LEMMA OwnNext ==
    ASSUME Retained = FALSE, Shape, LogInv, SeqInv, OwnInv, [Next]_vars PROVE OwnInv'
<1>1. ASSUME NEW t \in Tasks, NEW id, Stores(t, id) PROVE OwnInv'
  BY <1>1, StoresOwn
<1>2. ASSUME SameLog PROVE OwnInv'
  <2>0. minted' = minted
    BY <1>2 DEF SameLog
  <2> SUFFICES /\ KeysOwn(minted, keys') /\ CacheOwns(minted, slot')
               /\ CallsOwn(minted, task') /\ AnswersOwn(minted, answered')
    BY <2>0 DEF OwnInv
  <2> DEFINE Goal == /\ KeysOwn(minted, keys') /\ CacheOwns(minted, slot')
                     /\ CallsOwn(minted, task') /\ AnswersOwn(minted, answered')
  <2>a. /\ KeysOwn(minted, keys) /\ CacheOwns(minted, slot) /\ CallsOwn(minted, task)
        /\ AnswersOwn(minted, answered) /\ CallOwns(minted, Idle) /\ DOMAIN answered = Keys
    BY IdleOwns DEF OwnInv, Shape
  <2>b. \A t \in Tasks : CacheOwns(minted, task[t].cache) /\ CallOwns(minted, task[t])
    BY <2>a DEF CallsOwn, CallOwns
  <2>1. ASSUME NEW t \in Tasks, NEW k \in Keys, AppendHitsCache(t, k) PROVE Goal
    <3>1. Owns(minted, k, slot.entries[k].id)
      BY <2>1, <2>a DEF AppendHitsCache, UsableHit, Caches, CacheOwns
    <3>2. AnswersOwn(minted, answered')
      BY <2>1, <2>a, <3>1 DEF AppendHitsCache, AnswersOwn
    <3>3. CacheOwns(minted, slot')
      BY <2>1, <2>a, TouchedOK DEF AppendHitsCache, CacheOwns, Shape
    <3> QED
      BY <2>1, <2>a, <3>2, <3>3 DEF AppendHitsCache, tableVars
  <2>2. ASSUME NEW t \in Tasks, NEW k \in Keys, AppendMisses(t, k) PROVE Goal
    <3>1. PICK m : /\ CallOK(m) /\ Moves(t, m) /\ m.pc = "lookup"
                   /\ m.cache.entries = slot.entries
      BY <2>2, MissesMoves
    <3>2. CallOwns(minted, m)
      BY <2>a, <3>1 DEF CallOwns, CacheOwns
    <3>3. CallsOwn(minted, task')
      BY <3>1, <3>2, CallsOwnKept
    <3> QED
      BY <2>2, <2>a, <3>3, EmptyOwns DEF AppendMisses, tableVars, history
  <2>3. ASSUME NEW t \in Tasks, LookupKey(t) PROVE Goal
    <3>1. PICK m : \/ GoesOn(t, m, "readEvent") /\ m.id = keys[m.key].id /\ m.id # NoEvent
                   \/ GoesOn(t, m, "nextSequence")
      BY <2>3, LookupMoves
    <3>2. /\ Moves(t, m) /\ m.cache = task[t].cache /\ m.key \in Keys
          /\ \/ m.id = keys[m.key].id /\ m.id # NoEvent
             \/ m.pc = "nextSequence"
      BY <3>1, EntryFor DEF GoesOn, CallOK
    <3>3. CallOwns(minted, m)
      BY <2>a, <2>b, <3>2 DEF CallOwns, KeysOwn
    <3>4. CallsOwn(minted, task')
      BY <3>2, <3>3, CallsOwnKept
    <3> QED
      BY <2>3, <2>a, <3>4 DEF LookupKey, tableVars, history
  <2>4. ASSUME NEW t \in Tasks, ReadEvent(t) PROVE Goal
    <3>0. keys' = keys /\ task[t].pc = "readEvent"
      BY <2>4 DEF ReadEvent, tableVars
    <3>1. CASE task[t].id \in Stored
      <4>1. events[task[t].id].packed = task[t].id
        BY <3>1 DEF LogInv, RowsInv, Stored
      <4>2. task[t].key \in Keys /\ Owns(minted, task[t].key, task[t].id)
        BY <2>b, <3>0, EntryFor DEF CallOwns
      <4>3. answered' = [answered EXCEPT ![task[t].key] = @ \cup {task[t].id}]
        BY <2>4, <3>1, <4>1 DEF ReadEvent
      <4>4. AnswersOwn(minted, answered')
        BY <2>a, <4>2, <4>3 DEF AnswersOwn
      <4>5. Moves(t, Idle) /\ (slot' = slot \/ \E e : /\ e.id = events[task[t].id].packed
                                   /\ EntriesFrom(slot', task[t].cache, task[t].key, e))
        BY <2>4, <3>1, ReplayEnds DEF ReadEvent
      <4>6. CacheOwns(minted, slot')
        BY <2>a, <2>b, <4>1, <4>2, <4>5, EntriesOwn
      <4>7. CallsOwn(minted, task')
        BY <2>a, <4>5, CallsOwnKept
      <4> QED
        BY <2>a, <3>0, <4>4, <4>6, <4>7
    <3>2. CASE task[t].id \notin Stored
      <4>1. slot' = slot /\ answered' = answered
        BY <2>4, <3>2 DEF ReadEvent
      <4>2. PICK m : GoesOn(t, m, "nextSequence")
        BY <2>4, <3>2, EventGoneMoves DEF ReadEvent
      <4>3. Moves(t, m) /\ CallOwns(minted, m)
        BY <2>b, <4>2 DEF GoesOn, CallOwns
      <4>4. CallsOwn(minted, task')
        BY <4>3, CallsOwnKept
      <4> QED
        BY <2>a, <3>0, <4>1, <4>4
    <3> QED
      BY <3>1, <3>2
  <2>5. ASSUME NEW t \in Tasks, NextSequence(t) PROVE Goal
    <3>1. HeadSequence \in Nat
      BY DEF LogInv, DenseInv
    <3>2. PICK m : GoesOn(t, m, "insert")
      BY <2>5, <3>1, NextSequenceMoves
    <3>3. Moves(t, m) /\ CallOwns(minted, m)
      BY <2>b, <3>2 DEF GoesOn, CallOwns
    <3>4. CallsOwn(minted, task')
      BY <3>3, CallsOwnKept
    <3> QED
      BY <2>5, <2>a, <3>4 DEF NextSequence, tableVars, history
  <2>6. ASSUME NEW t \in Tasks, Ends(t, task[t].cache), keys' = keys, answered' = answered
        PROVE  Goal
    <3>1. Moves(t, Idle) /\ slot' \in {slot, task[t].cache}
      BY <2>6, EndsMoves, EntryFor
    <3>2. CallsOwn(minted, task')
      BY <2>a, <3>1, CallsOwnKept
    <3> QED
      BY <2>a, <2>b, <2>6, <3>1, <3>2
  <2>7. ASSUME NEW t \in Tasks, UpsertKey(t) PROVE Goal
    <3>1. PICK m : GoesOn(t, m, "restore") /\ m.id = task[t].id
      BY <2>7, UpsertMoves
    <3>2. task[t].key \in Keys /\ Owns(minted, task[t].key, task[t].id)
      BY <2>7, <2>b, EntryFor DEF CallOwns, UpsertKey
    <3>3. Moves(t, m) /\ CallOwns(minted, m)
      BY <2>b, <3>1, <3>2 DEF GoesOn, CallOwns
    <3>4. CallsOwn(minted, task')
      BY <3>3, CallsOwnKept
    <3>5. KeysOwn(minted, keys')
      <4> DEFINE row == [id |-> task[t].id, at |-> task[t].now]
      <4>1. row.id = task[t].id
        OBVIOUS
      <4>2. keys' = [keys EXCEPT ![task[t].key] = row]
        BY <2>7 DEF UpsertKey
      <4> HIDE DEF row
      <4> QED
        BY <2>a, <3>2, <4>1, <4>2 DEF KeysOwn, Shape
    <3> QED
      BY <2>7, <2>a, <3>4, <3>5 DEF UpsertKey, history
  <2>8. ASSUME NEW t \in Tasks, RestoreCache(t) PROVE Goal
    <3>1. PICK m : /\ Moves(t, m) /\ m.pc = "notify" /\ m.key = task[t].key
                   /\ m.id = task[t].id /\ m.cache = NoCache
      BY <2>8, RestoreMoves
    <3>2. task[t].key \in Keys /\ Owns(minted, task[t].key, task[t].id)
      BY <2>8, <2>b, EntryFor DEF CallOwns, RestoreCache
    <3>3. CallOwns(minted, m)
      BY <3>1, <3>2, EmptyOwns DEF CallOwns
    <3>4. CallsOwn(minted, task')
      BY <3>1, <3>3, CallsOwnKept
    <3>5. slot' = slot \/ \E e : /\ e.id = task[t].id
                                 /\ EntriesFrom(slot', task[t].cache, task[t].key, e)
      BY <2>8, RestoreSlot
    <3>6. CacheOwns(minted, slot')
      BY <2>a, <2>b, <3>2, <3>5, EntriesOwn
    <3> QED
      BY <2>8, <2>a, <3>4, <3>6 DEF RestoreCache, tableVars, history
  <2>9. ASSUME NEW t \in Tasks, Notify(t) PROVE Goal
    <3>1. task[t].key \in Keys /\ Owns(minted, task[t].key, task[t].id)
      BY <2>9, <2>b, EntryFor DEF CallOwns, Notify
    <3>2. answered' = [answered EXCEPT ![task[t].key] = @ \cup {task[t].id}] /\ Moves(t, Idle)
      BY <2>9 DEF Notify, Moves
    <3>3. AnswersOwn(minted, answered')
      BY <2>a, <3>1, <3>2 DEF AnswersOwn
    <3>4. CallsOwn(minted, task')
      BY <2>a, <3>2, CallsOwnKept
    <3> QED
      BY <2>9, <2>a, <3>3, <3>4 DEF Notify, tableVars
  <2>10. ASSUME NEW t \in Tasks, CallDropped(t) PROVE Goal
    <3>1. Moves(t, Idle)
      BY <2>10 DEF CallDropped, Moves
    <3>2. CallsOwn(minted, task')
      BY <2>a, <3>1, CallsOwnKept
    <3> QED
      BY <2>10, <2>a, <3>2 DEF CallDropped, tableVars, history
  <2>11. ASSUME NEW t \in Tasks, StatementFails(t) PROVE Goal
    BY <2>6, <2>11 DEF StatementFails, tableVars, history
  <2>12. ASSUME NEW t \in Tasks, InsertEvent(t) PROVE Goal
    <3>1. CASE Ends(t, task[t].cache)
      BY <2>6, <2>12, <3>1 DEF InsertEvent
    <3>2. ASSUME NEW id \in EventIds, NextEventId(id),
                 minted' = [minted EXCEPT ![id] = [key |-> task[t].key, at |-> task[t].now,
                                                   seq |-> task[t].seq]]
          PROVE  FALSE
      <4>1. minted'[id].key = task[t].key /\ minted[id] = NotMinted
        BY <3>2 DEF Shape, NextEventId
      <4>2. task[t].key \in Keys
        BY <2>12, EntryFor DEF InsertEvent
      <4>3. NotMinted.key = NoKey
        BY DEF NotMinted
      <4> QED
        BY <2>0, <4>1, <4>2, <4>3, NoKeyAssumption
    <3> QED
      BY <2>12, <3>1, <3>2 DEF InsertEvent
  <2>13. CASE Crash
    <3>1. CallsOwn(minted, task')
      BY <2>13, <2>a DEF Crash, CallsOwn
    <3> QED
      BY <2>13, <2>a, <3>1, EmptyOwns DEF Crash, tableVars, history
  <2>14. CASE PruneDeletes
    <3>1. NoKeyRow.id = NoEvent
      BY DEF NoKeyRow
    <3>2. PICK kept : keys' = [k \in Keys |-> IF k \in kept THEN keys[k] ELSE NoKeyRow]
      BY <2>14 DEF PruneDeletes
    <3>3. KeysOwn(minted, keys')
      BY <2>a, <3>1, <3>2 DEF KeysOwn
    <3> QED
      BY <2>14, <2>a, <3>3 DEF PruneDeletes, history
  <2>15. CASE PruneSwapsCache
    BY <2>15, <2>a, EmptyOwns DEF PruneSwapsCache, tableVars, history
  <2>16. CASE PruneStarts \/ PruneFails \/ RetainByAge \/ RetainByCount \/ RedactReads
              \/ RedactWrites \/ Read \/ Tick
    BY <2>16, <2>a DEF PruneStarts, PruneFails, RetainByAge, RetainByCount, RedactReads,
                       RedactWrites, Read, Tick, tableVars, history
  <2>17. ASSUME NEW k \in Redacts, RedactLists(k) PROVE Goal
    BY <2>17, <2>a DEF RedactLists, tableVars, history
  <2>18. CASE UNCHANGED vars
    BY <2>18, <2>a DEF vars, tableVars, history
  <2> QED
    BY <2>1, <2>2, <2>3, <2>4, <2>5, <2>7, <2>8, <2>9, <2>10, <2>11, <2>12, <2>13, <2>14,
       <2>15, <2>16, <2>17, <2>18 DEF Next, AppendStep
<1> QED
  BY <1>1, <1>2, LogStep

LEMMA OwnStart == Init => OwnInv
<1> SUFFICES ASSUME Init PROVE OwnInv
  OBVIOUS
<1>1. KeysOwn(minted, keys)
  BY DEF Init, KeysOwn, NoKeyRow
<1>2. CallsOwn(minted, task) /\ CacheOwns(minted, slot)
  BY IdleOwns, EmptyOwns DEF Init, CallsOwn
<1> QED
  BY <1>1, <1>2 DEF OwnInv, Init, AnswersOwn

(* On a stream without retention a request is only ever answered with an    *)
(* event created for it, whichever of the front-cache, the key row and the  *)
(* INSERT the answer comes from and however caches changed hands.           *)
THEOREM OwnAnswers ==
    ASSUME Retained = FALSE
    PROVE  Spec => []AnswersOwnRequest
<1>1. Init => OwnInv
  BY OwnStart
<1>2. Shape /\ LogInv /\ SeqInv /\ OwnInv /\ [Next]_vars => OwnInv'
  BY OwnNext
<1>3. OwnInv => AnswersOwnRequest
  BY DEF OwnInv, AnswersOwn, AnswersOwnRequest, Owns
<1> QED
  BY <1>1, <1>2, <1>3, StreamInvariant, PTL DEF Spec

-----------------------------------------------------------------------------
(* The refinement.  No step but a successful INSERT adds to the calls that  *)
(* have an event to tell of.                                                *)

FewerStoring == \A u \in Storing' : u \in Storing /\ task'[u].id = task[u].id

LEMMA OneStores ==
    ASSUME Shape, NEW t \in Tasks, NEW m, Moves(t, m),
           m.pc \in {"upsert", "restore", "notify"} => t \in Storing /\ m.id = task[t].id
    PROVE  FewerStoring
<1>1. task'[t] = m /\ \A u \in Tasks : u # t => task'[u] = task[u]
  BY MovesTo
<1> QED
  BY <1>1 DEF FewerStoring, Storing

LEMMA StoringStep ==
    ASSUME Retained = FALSE, Shape, LogInv, SeqInv, [Next]_vars, minted' = minted
    PROVE  FewerStoring
<1>0. Idle.pc = "idle"
  BY IdleOK
<1>1. ASSUME NEW t \in Tasks, NEW m, Moves(t, m), m.pc \notin {"upsert", "restore", "notify"}
      PROVE  FewerStoring
  BY <1>1, OneStores
<1>2. ASSUME NEW t \in Tasks, NEW k \in Keys, AppendMisses(t, k) PROVE FewerStoring
  BY <1>1, <1>2, MissesMoves
<1>3. ASSUME NEW t \in Tasks, LookupKey(t) PROVE FewerStoring
  <2>1. \E m : Moves(t, m) /\ m.pc \notin {"upsert", "restore", "notify"}
    BY <1>3, LookupMoves DEF GoesOn
  <2> QED
    BY <1>1, <2>1
<1>4. ASSUME NEW t \in Tasks, ReadEvent(t) PROVE FewerStoring
  <2>1. \E m : Moves(t, m) /\ m.pc \notin {"upsert", "restore", "notify"}
    BY <1>0, <1>4, EventGoneMoves, ReplayEnds DEF ReadEvent, GoesOn
  <2> QED
    BY <1>1, <2>1
<1>5. ASSUME NEW t \in Tasks, NextSequence(t) PROVE FewerStoring
  <2>1. \E m : Moves(t, m) /\ m.pc \notin {"upsert", "restore", "notify"}
    BY <1>5, NextSequenceMoves DEF GoesOn, LogInv, DenseInv
  <2> QED
    BY <1>1, <2>1
<1>6. ASSUME NEW t \in Tasks, InsertEvent(t) PROVE FewerStoring
  <2>1. CASE Ends(t, task[t].cache)
    <3>1. Moves(t, Idle)
      BY <2>1, EndsMoves, EntryFor
    <3> QED
      BY <1>0, <1>1, <3>1
  <2>2. ASSUME NEW id \in EventIds, NextEventId(id),
               minted' = [minted EXCEPT ![id] = [key |-> task[t].key, at |-> task[t].now,
                                                 seq |-> task[t].seq]]
        PROVE  FALSE
    <3>1. minted'[id].key = task[t].key /\ minted[id] = NotMinted
      BY <2>2 DEF Shape, NextEventId
    <3>2. task[t].key \in Keys
      BY <1>6, EntryFor DEF InsertEvent
    <3>3. NotMinted.key = NoKey
      BY DEF NotMinted
    <3> QED
      BY <3>1, <3>2, <3>3, NoKeyAssumption
  <2> QED
    BY <1>6, <2>1, <2>2 DEF InsertEvent
<1>7. ASSUME NEW t \in Tasks, UpsertKey(t) PROVE FewerStoring
  <2>1. t \in Storing
    BY <1>7 DEF UpsertKey, Storing
  <2>2. \E m : Moves(t, m) /\ m.id = task[t].id
    BY <1>7, UpsertMoves DEF GoesOn
  <2> QED
    BY <2>1, <2>2, OneStores
<1>8. ASSUME NEW t \in Tasks, RestoreCache(t) PROVE FewerStoring
  <2>1. t \in Storing
    BY <1>8 DEF RestoreCache, Storing
  <2> QED
    BY <1>8, <2>1, RestoreMoves, OneStores
<1>9. ASSUME NEW t \in Tasks, Notify(t) \/ CallDropped(t) \/ StatementFails(t)
      PROVE  FewerStoring
  <2>1. Moves(t, Idle)
    BY <1>9, EndsMoves, EntryFor DEF Notify, CallDropped, StatementFails, Moves
  <2> QED
    BY <1>0, <1>1, <2>1
<1>10. CASE Crash
  BY <1>0, <1>10 DEF Crash, FewerStoring, Storing
<1>11. CASE task' = task
  BY <1>11 DEF FewerStoring, Storing
<1>12. ASSUME NEW t \in Tasks, NEW k \in Keys, AppendHitsCache(t, k) PROVE task' = task
  BY <1>12 DEF AppendHitsCache
<1>13. CASE PruneStarts \/ PruneFails \/ PruneDeletes \/ PruneSwapsCache \/ RetainByAge
            \/ RetainByCount \/ RedactReads \/ RedactWrites \/ Read \/ Tick
  BY <1>11, <1>13 DEF PruneStarts, PruneFails, PruneDeletes, PruneSwapsCache, RetainByAge,
                      RetainByCount, RedactReads, RedactWrites, Read, Tick
<1>14. ASSUME NEW k \in Redacts, RedactLists(k) PROVE task' = task
  BY <1>14 DEF RedactLists
<1>15. CASE UNCHANGED vars
  BY <1>11, <1>15 DEF vars
<1> QED
  BY <1>2, <1>3, <1>4, <1>5, <1>6, <1>7, <1>8, <1>9, <1>10, <1>11, <1>12, <1>13, <1>14, <1>15
     DEF Next, AppendStep

LEMMA FannedStep ==
    ASSUME [Next]_vars PROVE fanned' = fanned \/ \E t \in Tasks : Notify(t)
  BY DEF Next, AppendStep, LookupKey, ReadEvent, NextSequence, InsertEvent, UpsertKey,
         RestoreCache, StatementFails, CallDropped, AppendHitsCache, AppendMisses,
         Crash, PruneStarts, PruneDeletes, PruneFails, PruneSwapsCache, RetainByAge,
         RetainByCount, RedactLists, RedactReads, RedactWrites, Read, Tick, vars, history

(* An event a call has to tell of is in the log. *)
LEMMA StoringMinted ==
    ASSUME Shape, LogInv, OwnInv, NEW t \in Storing
    PROVE  /\ t \in Tasks /\ task[t].id \in Stored /\ minted[task[t].id].key \in Keys
           /\ minted[task[t].id].seq = events[task[t].id].seq
<1>1. t \in Tasks /\ task[t].pc \in {"upsert", "restore", "notify"}
  BY DEF Storing
<1>2. task[t].key \in Keys
  BY <1>1, EntryFor
<1>3. Owns(minted, task[t].key, task[t].id)
  BY <1>1 DEF OwnInv, CallsOwn, CallOwns
<1>4. NotMinted.key = NoKey
  BY DEF NotMinted
<1> QED
  BY <1>1, <1>2, <1>3, <1>4, NoKeyAssumption DEF Owns, LogInv, RowsInv, Stored

LEMMA DueNext ==
    ASSUME Retained = FALSE, Shape, LogInv, SeqInv, OwnInv, DueInv, [Next]_vars PROVE DueInv'
<1>1. ASSUME NEW t \in Tasks, NEW id, Stores(t, id) PROVE DueInv'
  <2>1. /\ id \in EventIds /\ id \notin Stored /\ minted'[id].key \in Keys
        /\ \A i \in EventIds : i # id => minted'[i] = minted[i]
    BY <1>1, StoresEffect
  <2>2. PICK m : Moves(t, m) /\ m.id = id
    <3>1. /\ task[t].pc = "insert"
          /\ task' = [task EXCEPT ![t] = [@ EXCEPT !.pc = "upsert", !.id = id]]
      BY <1>1 DEF Stores
    <3>2. \E m : GoesOn(t, m, "upsert") /\ m.id = id
      BY <2>1, <3>1, InsertMoves
    <3> QED
      BY <3>2 DEF GoesOn
  <2>3. task'[t].id = id /\ \A u \in Tasks : u # t => task'[u] = task[u]
    BY <2>2, MovesTo
  <2>4. \A u \in Storing' : u # t => u \in Storing /\ task'[u].id = task[u].id /\ task'[u].id # id
    <3> SUFFICES ASSUME NEW u \in Storing', u # t
                 PROVE  u \in Storing /\ task'[u].id = task[u].id /\ task'[u].id # id
      OBVIOUS
    <3>1. u \in Storing /\ task'[u] = task[u]
      BY <2>3 DEF Storing
    <3> QED
      BY <2>1, <3>1, StoringMinted
  <2>5. \A u, v \in Storing' : task'[u].id = task'[v].id => u = v
    BY <2>3, <2>4 DEF DueInv
  <2>6. fanned' = fanned
    BY <1>1 DEF Stores
  <2> QED
    BY <2>1, <2>5, <2>6 DEF DueInv
<1>2. ASSUME minted' = minted PROVE DueInv'
  <2>1. \A u, v \in Storing' : task'[u].id = task'[v].id => u = v
    BY <1>2, StoringStep DEF FewerStoring, DueInv
  <2>2. \A id \in EventIds : fanned'[id] > 0 => minted[id].key \in Keys
    <3>1. CASE fanned' = fanned
      BY <3>1 DEF DueInv
    <3>2. ASSUME NEW t \in Tasks, Notify(t), NEW id \in EventIds, fanned'[id] > 0
          PROVE  minted[id].key \in Keys
      <4>1. minted[task[t].id].key \in Keys
        BY <3>2, StoringMinted DEF Notify, Storing
      <4>2. CASE id = task[t].id
        BY <4>1, <4>2
      <4>3. CASE id # task[t].id
        <5>1. fanned'[id] = fanned[id]
          BY <3>2, <4>3 DEF Notify, Shape
        <5> QED
          BY <3>2, <5>1 DEF DueInv
      <4> QED
        BY <4>2, <4>3
    <3> QED
      BY <3>1, <3>2, FannedStep
  <2> QED
    BY <1>2, <2>1, <2>2 DEF DueInv
<1> QED
  BY <1>1, <1>2, LogStep DEF SameLog

LEMMA DueStart == Init => DueInv
<1> SUFFICES ASSUME Init PROVE DueInv
  OBVIOUS
<1>1. Storing = {}
  BY IdleOK DEF Init, Storing
<1> QED
  BY <1>1 DEF Init, DueInv

(* The log of EventLog, as StreamLog has it. *)
LogBar == [s \in 1..HeadSequence |-> minted[EventAt(s)].key]
DueBar == {minted[task[t].id].seq : t \in Storing}
ToldBar == {minted[id].seq : id \in {i \in EventIds : fanned[i] > 0}}

LEMMA EventAtIs ==
    /\ DenseInv => \A i \in Stored : \A s : events[i].seq = s => EventAt(s) = i
    /\ DenseInv' => \A i \in Stored' : \A s : events'[i].seq = s => EventAt(s)' = i
<1>1. ASSUME DenseInv, NEW i \in Stored, NEW s, events[i].seq = s PROVE EventAt(s) = i
  BY <1>1 DEF DenseInv, EventAt
<1>2. ASSUME DenseInv', NEW i \in Stored', NEW s, events'[i].seq = s PROVE EventAt(s)' = i
  BY <1>2 DEF DenseInv, EventAt
<1> QED
  BY <1>1, <1>2

LEMMA SequenceTaken ==
    ASSUME DenseInv, NEW s \in 1..HeadSequence
    PROVE  \E i \in Stored : events[i].seq = s
  BY DEF DenseInv, UsedSequences

LEMMA LogBarKept ==
    ASSUME LogInv, SameLog PROVE LogBar' = LogBar
<1>1. DenseInv /\ DenseInv' /\ Stored' = Stored /\ HeadSequence' = HeadSequence
  BY RowsKept, LogKept DEF LogInv
<1>2. ASSUME NEW s \in 1..HeadSequence PROVE minted'[EventAt(s)'].key = minted[EventAt(s)].key
  <2>1. PICK i \in Stored : events[i].seq = s
    BY <1>1, SequenceTaken
  <2>2. events'[i].seq = s
    BY <2>1 DEF SameLog, Stored
  <2>3. EventAt(s) = i /\ EventAt(s)' = i
    BY <1>1, <2>1, <2>2, EventAtIs
  <2> QED
    BY <2>3 DEF SameLog
<1> QED
  BY <1>1, <1>2 DEF LogBar

LEMMA AppendIs ==
    ASSUME NEW S, NEW n \in Nat, NEW f \in [1..n -> S], NEW x \in S
    PROVE  /\ [s \in 1..(n + 1) |-> IF s <= n THEN f[s] ELSE x] = Append(f, x)
           /\ Len(f) = n
<1> DEFINE g == [s \in 1..(n + 1) |-> IF s <= n THEN f[s] ELSE x]
<1>1. f \in Seq(S) /\ Len(f) = n
  OBVIOUS
<1>2. g \in [1..(n + 1) -> S] /\ n + 1 \in Nat
  OBVIOUS
<1>3. g \in Seq(S) /\ Len(g) = n + 1
  BY <1>2
<1>4. /\ Append(f, x) \in Seq(S) /\ Len(Append(f, x)) = n + 1
      /\ \A s \in 1..n : Append(f, x)[s] = f[s]
      /\ Append(f, x)[n + 1] = x
  BY <1>1, AppendProperties
<1>5. \A s \in 1..(n + 1) : g[s] = Append(f, x)[s]
  BY <1>4
<1>6. g = Append(f, x)
  BY <1>3, <1>4, <1>5, SeqEqual
<1> QED
  BY <1>1, <1>6

LEMMA LogBarGrows ==
    ASSUME Shape, LogInv, NEW t \in Tasks, NEW id, Stores(t, id)
    PROVE  /\ LogBar' = Append(LogBar, task[t].key)
           /\ Len(LogBar) = HeadSequence /\ task[t].key \in Keys
<1>1. /\ id \in EventIds /\ id \notin Stored
      /\ events'[id].seq = HeadSequence + 1
      /\ \A i \in EventIds : i # id => events'[i] = events[i] /\ minted'[i] = minted[i]
      /\ minted'[id].key = task[t].key /\ minted'[id].key \in Keys
      /\ Stored' = Stored \cup {id}
      /\ HeadSequence' = HeadSequence + 1
  BY StoresEffect
<1>2. DenseInv /\ DenseInv' /\ HeadSequence \in Nat
  BY StoresLog DEF LogInv, DenseInv
<1>3. ASSUME NEW s \in 1..HeadSequence
      PROVE  /\ minted'[EventAt(s)'].key = minted[EventAt(s)].key
             /\ minted[EventAt(s)].key \in Keys
  <2>1. PICK i \in Stored : events[i].seq = s
    BY <1>2, SequenceTaken
  <2>2. i \in EventIds /\ i # id /\ i \in Stored'
    BY <1>1 DEF Stored
  <2>3. events'[i].seq = s /\ minted'[i] = minted[i]
    BY <1>1, <2>1, <2>2
  <2>4. EventAt(s) = i /\ EventAt(s)' = i
    BY <1>2, <2>1, <2>2, <2>3, EventAtIs
  <2>5. minted[i].key \in Keys
    BY <2>2 DEF Stored, LogInv, RowsInv
  <2> QED
    BY <2>3, <2>4, <2>5
<1>4. ASSUME NEW h, h = HeadSequence + 1 PROVE minted'[EventAt(h)'].key = task[t].key
  <2>1. EventAt(h)' = id
    BY <1>1, <1>2, <1>4, EventAtIs
  <2> QED
    BY <1>1, <2>1
<1>5. LogBar \in [1..HeadSequence -> Keys]
  BY <1>3 DEF LogBar
<1>6. LogBar' = [s \in 1..(HeadSequence + 1) |-> minted'[EventAt(s)'].key]
  BY <1>1 DEF LogBar
<1>7. \A s \in 1..(HeadSequence + 1) :
        minted'[EventAt(s)'].key = IF s <= HeadSequence THEN LogBar[s] ELSE task[t].key
  <2> SUFFICES ASSUME NEW s \in 1..(HeadSequence + 1)
               PROVE  minted'[EventAt(s)'].key
                        = IF s <= HeadSequence THEN LogBar[s] ELSE task[t].key
    OBVIOUS
  <2>1. CASE s = HeadSequence + 1
    BY <1>2, <1>4, <2>1
  <2>2. CASE s # HeadSequence + 1
    <3>1. s \in 1..HeadSequence
      BY <1>2, <2>2
    <3>2. LogBar[s] = minted[EventAt(s)].key
      BY <3>1 DEF LogBar
    <3> QED
      BY <1>2, <1>3, <3>1, <3>2
  <2> QED
    BY <2>1, <2>2
<1>8. LogBar' = [s \in 1..(HeadSequence + 1) |->
                   IF s <= HeadSequence THEN LogBar[s] ELSE task[t].key]
  BY <1>6, <1>7
<1> QED
  BY <1>1, <1>2, <1>5, <1>8, AppendIs

LEMMA ToldKept ==
    ASSUME Shape, DueInv, fanned' = fanned,
           \A id \in EventIds : minted[id].key \in Keys => minted'[id] = minted[id]
    PROVE  ToldBar' = ToldBar
<1>1. \A id \in EventIds : fanned[id] > 0 => minted'[id] = minted[id]
  BY DEF DueInv
<1> QED
  BY <1>1 DEF ToldBar

(* A successful INSERT is an Insert. *)
LEMMA StoresInserts ==
    ASSUME Shape, LogInv, OwnInv, DueInv, NEW t \in Tasks, NEW id, Stores(t, id)
    PROVE  /\ LogBar' = Append(LogBar, task[t].key) /\ task[t].key \in Keys
           /\ DueBar' = DueBar \cup {Len(LogBar) + 1}
           /\ ToldBar' = ToldBar
<1>1. /\ id \in EventIds /\ id \notin Stored /\ minted'[id].seq = HeadSequence + 1
      /\ \A i \in EventIds : i # id => minted'[i] = minted[i]
  BY StoresEffect
<1>2. /\ LogBar' = Append(LogBar, task[t].key) /\ task[t].key \in Keys
      /\ Len(LogBar) = HeadSequence
  BY LogBarGrows
<1>3. NotMinted.key = NoKey
  BY DEF NotMinted
<1>4. minted[id] = NotMinted /\ fanned' = fanned /\ task[t].pc = "insert"
      /\ task' = [task EXCEPT ![t] = [@ EXCEPT !.pc = "upsert", !.id = id]]
  BY DEF Stores
<1>5. ToldBar' = ToldBar
  BY <1>1, <1>3, <1>4, NoKeyAssumption, ToldKept
<1>6. \E m : GoesOn(t, m, "upsert") /\ m.id = id
  BY <1>1, <1>4, InsertMoves
<1>7. PICK m : Moves(t, m) /\ m.id = id /\ m.pc = "upsert"
  BY <1>6 DEF GoesOn
<1>8. /\ task'[t].id = id /\ task'[t].pc = "upsert"
      /\ \A u \in Tasks : u # t => task'[u] = task[u]
  BY <1>7, MovesTo
<1>9. Storing' = Storing \cup {t} /\ t \notin Storing
  BY <1>4, <1>8 DEF Storing
<1>10. \A u \in Storing : task'[u].id = task[u].id /\ minted'[task[u].id] = minted[task[u].id]
  <2> SUFFICES ASSUME NEW u \in Storing
               PROVE  task'[u].id = task[u].id /\ minted'[task[u].id] = minted[task[u].id]
    OBVIOUS
  <2>1. u \in Tasks /\ task[u].id \in Stored
    BY StoringMinted
  <2>2. u # t
    BY <1>9
  <2> QED
    BY <1>1, <1>8, <2>1, <2>2 DEF Stored
<1>11. DueBar' = {minted'[task'[u].id].seq : u \in Storing \cup {t}}
  BY <1>9 DEF DueBar
<1>12. DueBar' = DueBar \cup {HeadSequence + 1}
  <2>1. minted'[task'[t].id].seq = HeadSequence + 1
    BY <1>1, <1>8
  <2>2. \A u \in Storing : minted'[task'[u].id].seq = minted[task[u].id].seq
    BY <1>10
  <2> QED
    BY <1>11, <2>1, <2>2 DEF DueBar
<1> QED
  BY <1>2, <1>5, <1>12

(* The write listener's call is a Tell. *)
LEMMA NotifyTells ==
    ASSUME Shape, LogInv, OwnInv, DueInv, NEW t \in Tasks, Notify(t)
    PROVE  /\ LogBar' = LogBar
           /\ \E s \in DueBar : DueBar' = DueBar \ {s} /\ ToldBar' = ToldBar \cup {s}
<1>1. /\ SameLog /\ minted' = minted /\ Moves(t, Idle)
      /\ fanned' = [fanned EXCEPT ![task[t].id] = @ + 1] /\ task[t].pc = "notify"
  BY DEF Notify, SameLog, tableVars, Moves
<1>2. t \in Storing
  BY <1>1 DEF Storing
<1>3. LogBar' = LogBar
  BY <1>1, LogBarKept
<1>4. Idle.pc = "idle"
  BY IdleOK
<1>5. task'[t] = Idle /\ \A u \in Tasks : u # t => task'[u] = task[u]
  BY <1>1, MovesTo
<1>6. Storing' = Storing \ {t} /\ \A u \in Storing' : task'[u].id = task[u].id
  BY <1>4, <1>5 DEF Storing
<1>7. PICK s : s = minted[task[t].id].seq
  OBVIOUS
<1>8. s \in DueBar
  BY <1>2, <1>7 DEF DueBar
<1>9. \A u \in Storing : minted[task[u].id].seq = s => u = t
  <2> SUFFICES ASSUME NEW u \in Storing, minted[task[u].id].seq = s PROVE u = t
    OBVIOUS
  <2>1. events[task[u].id].seq = events[task[t].id].seq /\ task[u].id \in Stored
        /\ task[t].id \in Stored
    BY <1>2, <1>7, StoringMinted
  <2>2. task[u].id = task[t].id
    BY <2>1 DEF LogInv, DenseInv
  <2> QED
    BY <1>2, <2>2 DEF DueInv
<1>10. DueBar' = {minted[task[u].id].seq : u \in Storing \ {t}}
  BY <1>1, <1>6 DEF DueBar
<1>11. DueBar' = DueBar \ {s}
  BY <1>7, <1>9, <1>10 DEF DueBar
<1>12. task[t].id \in EventIds
  BY <1>2, StoringMinted DEF Stored
<1>13. fanned'[task[t].id] > 0 /\ \A i \in EventIds : i # task[t].id => fanned'[i] = fanned[i]
  BY <1>1, <1>12 DEF Shape
<1>14. {i \in EventIds : fanned'[i] > 0} = {i \in EventIds : fanned[i] > 0} \cup {task[t].id}
  BY <1>12, <1>13
<1>15. ToldBar' = ToldBar \cup {s}
  BY <1>1, <1>7, <1>14 DEF ToldBar
<1> QED
  BY <1>3, <1>8, <1>11, <1>15

(* Every other step is a Lose. *)
LEMMA OthersLose ==
    ASSUME Retained = FALSE, Shape, LogInv, SeqInv, OwnInv, DueInv, [Next]_vars, SameLog,
           fanned' = fanned
    PROVE  LogBar' = LogBar /\ ToldBar' = ToldBar /\ DueBar' \subseteq DueBar
<1>1. minted' = minted
  BY DEF SameLog
<1>2. LogBar' = LogBar /\ ToldBar' = ToldBar
  BY <1>1, LogBarKept, ToldKept
<1>3. DueBar' \subseteq DueBar
  BY <1>1, StoringStep DEF FewerStoring, DueBar
<1> QED
  BY <1>2, <1>3

LEMMA RefinedStep ==
    ASSUME Retained = FALSE, Shape, LogInv, SeqInv, OwnInv, DueInv, [Next]_vars
    PROVE  Abstract!LogNext
<1>1. ASSUME NEW t \in Tasks, NEW id, Stores(t, id) PROVE Abstract!LogNext
  <2>1. /\ LogBar' = Append(LogBar, task[t].key) /\ task[t].key \in Keys
        /\ DueBar' = DueBar \cup {Len(LogBar) + 1}
        /\ ToldBar' = ToldBar
    BY <1>1, StoresInserts
  <2>2. PICK r \in Keys : r = task[t].key
    BY <2>1
  <2>3. Abstract!Insert(r)
    BY <2>1, <2>2 DEF Abstract!Insert, LogBar, DueBar, ToldBar, Storing
  <2> QED
    BY <2>3 DEF Abstract!LogNext
<1>2. ASSUME NEW t \in Tasks, Notify(t) PROVE Abstract!LogNext
  <2>1. LogBar' = LogBar
    BY <1>2, NotifyTells
  <2>2. PICK s \in DueBar : DueBar' = DueBar \ {s} /\ ToldBar' = ToldBar \cup {s}
    BY <1>2, NotifyTells
  <2>3. Abstract!Tell(s)
    BY <2>1, <2>2 DEF Abstract!Tell, LogBar, DueBar, ToldBar, Storing
  <2> QED
    BY <2>2, <2>3 DEF Abstract!LogNext, DueBar, Storing
<1>3. ASSUME SameLog, fanned' = fanned PROVE Abstract!LogNext
  <2>1. LogBar' = LogBar /\ ToldBar' = ToldBar /\ DueBar' \subseteq DueBar
    BY <1>3, OthersLose
  <2>2. DueBar' = DueBar \ (DueBar \ DueBar') /\ DueBar \ DueBar' \in SUBSET DueBar
    BY <2>1
  <2>3. PICK lost \in SUBSET DueBar : DueBar' = DueBar \ lost
    BY <2>2
  <2>4. Abstract!Lose(lost)
    BY <2>1, <2>3 DEF Abstract!Lose, LogBar, DueBar, ToldBar, Storing
  <2> QED
    BY <2>3, <2>4 DEF Abstract!LogNext, DueBar, Storing
<1> QED
  BY <1>1, <1>2, <1>3, LogStep, FannedStep

LEMMA RefinedStart == Init => Abstract!LogInit
<1> SUFFICES ASSUME Init PROVE Abstract!LogInit
  OBVIOUS
<1>1. HeadSequence = 0
  <2>1. \A id \in EventIds : events[id].seq = 0
    BY DEF Init, NoRow
  <2>2. Stored = {} /\ UsedSequences = {}
    BY <2>1 DEF Stored, UsedSequences
  <2> QED
    BY <2>2 DEF HeadSequence
<1>2. LogBar = <<>>
  BY <1>1 DEF LogBar
<1>3. Storing = {} /\ DueBar = {}
  BY IdleOK DEF Init, Storing, DueBar
<1>4. ToldBar = {}
  BY DEF Init, ToldBar
<1> QED
  BY <1>2, <1>3, <1>4 DEF Abstract!LogInit, LogBar, DueBar, ToldBar, Storing

(* Any number of calls racing on a stream without retention, with retries,  *)
(* prunes, redactions, failed statements, dropped calls and crashes,        *)
(* implements EventLog: numbers without a hole that are never given again,  *)
(* and a write listener that gets an event at most once, after it is        *)
(* stored.                                                                  *)
THEOREM StreamImplementsEventLog ==
    ASSUME Retained = FALSE
    PROVE  Spec => ImplementsEventLog
<1>1. Init => OwnInv /\ DueInv /\ Abstract!LogInit
  BY OwnStart, DueStart, RefinedStart
<1>2. Shape /\ LogInv /\ SeqInv /\ OwnInv /\ DueInv /\ [Next]_vars
        => OwnInv' /\ DueInv' /\ Abstract!LogNext
  BY OwnNext, DueNext, RefinedStep
<1> QED
  BY <1>1, <1>2, StreamInvariant, PTL DEF Spec, ImplementsEventLog, Abstract!LogSpec

-----------------------------------------------------------------------------
(* Idempotence within the replay window, for a client that does not repeat  *)
(* a request in flight, key rows that outlive the window by the longest     *)
(* call, and a cap on key rows that does not bite.                          *)

KeysOutlive ==
    /\ ReplayWindow > 0 /\ KeyRetention >= ReplayWindow + CallTime
    /\ Dialect = "postgres" \/ (IsFiniteSet(Keys) /\ Cardinality(Keys) <= MaxKeyRows)

(* The events minted so far. *)
Made == {id \in EventIds : minted[id].key \in Keys}

Busy(m) == m.pc # "idle"

(* Ids are handed out in order; nothing lies in the future; no call is      *)
(* older than CallTime.                                                     *)
OrderInv == \A i \in Made : \A j \in EventIds \ Made : i < j
TimeInv ==
    /\ \A i \in Made : minted[i].at <= clock
    /\ pruner.pc = "delete" => pruner.now \in Int /\ pruner.now <= clock
    /\ \A t \in Tasks : Busy(task[t]) => task[t].now <= clock /\ clock <= task[t].now + CallTime

(* One call at a time for a request. *)
AloneInv == \A t, u \in Tasks :
    (Busy(task[t]) /\ Busy(task[u]) /\ task[t].key = task[u].key) => t = u

(* A request's event is about to get its key row, or the request has a key  *)
(* row at least as new, or the event is older than the key retention.       *)
KnownInv == \A i \in Made :
    \/ \E t \in Tasks : task[t].pc = "upsert" /\ task[t].id = i
    \/ keys[minted[i].key].id # NoEvent /\ keys[minted[i].key].at >= minted[i].at
    \/ minted[i].at + KeyRetention < clock

(* The event of the request is from before the window of the call. *)
Before(m, i) == minted[i].key = m.key => minted[i].at + ReplayWindow < m.now

(* A call that goes on to store an event found none from its window, and    *)
(* what it stored is the newest of its request.                             *)
FreshInv == \A t \in Tasks :
    /\ task[t].pc \in {"nextSequence", "insert"} => \A i \in Made : Before(task[t], i)
    /\ task[t].pc = "upsert" =>
         /\ minted[task[t].id].at = task[t].now
         /\ \A i \in Made : i # task[t].id => Before(task[t], i)

OnceInv == \A i, j \in Made :
    (i < j /\ minted[i].key = minted[j].key) => minted[j].at > minted[i].at + ReplayWindow

WindowInv == OrderInv /\ TimeInv /\ AloneInv /\ KnownInv /\ FreshInv /\ OnceInv
FaultFree == faults \in Nat /\ (faults = 0 => WindowInv)

(* A call moves on and the tables, the clock and the pruner stay. *)
LEMMA MoveKeeps ==
    ASSUME Shape, WindowInv, NEW t \in Tasks, NEW m, Moves(t, m),
           task[t].pc # "upsert", m.pc # "upsert",
           minted' = minted, keys' = keys, clock' = clock, pruner' = pruner,
           Busy(m) => /\ m.now <= clock /\ clock <= m.now + CallTime
                      /\ \A u \in Tasks : u # t /\ Busy(task[u]) => task[u].key # m.key,
           m.pc \in {"nextSequence", "insert"} => \A i \in Made : Before(m, i)
    PROVE  WindowInv'
<1>1. task'[t] = m /\ \A u \in Tasks : u # t => task'[u] = task[u]
  BY MovesTo
<1>2. Made' = Made
  BY DEF Made
<1>3. OrderInv'
  BY <1>2 DEF WindowInv, OrderInv
<1>4. TimeInv'
  <2> SUFFICES ASSUME NEW u \in Tasks, Busy(task'[u])
               PROVE  task'[u].now <= clock /\ clock <= task'[u].now + CallTime
    BY <1>2 DEF WindowInv, TimeInv
  <2> QED
    BY <1>1 DEF WindowInv, TimeInv
<1>5. AloneInv'
  <2> SUFFICES ASSUME NEW u \in Tasks, NEW v \in Tasks, Busy(task'[u]), Busy(task'[v]),
                      task'[u].key = task'[v].key
               PROVE  u = v
    BY DEF AloneInv
  <2> QED
    BY <1>1 DEF WindowInv, AloneInv
<1>6. KnownInv'
  <2> SUFFICES ASSUME NEW i \in Made
               PROVE  \/ \E u \in Tasks : task'[u].pc = "upsert" /\ task'[u].id = i
                      \/ keys[minted[i].key].id # NoEvent /\ keys[minted[i].key].at >= minted[i].at
                      \/ minted[i].at + KeyRetention < clock
    BY <1>2 DEF KnownInv
  <2>1. ASSUME NEW u \in Tasks, task[u].pc = "upsert" PROVE task'[u] = task[u]
    BY <1>1, <2>1
  <2> QED
    BY <2>1 DEF WindowInv, KnownInv
<1>7. FreshInv'
  <2> SUFFICES ASSUME NEW u \in Tasks
               PROVE  /\ task'[u].pc \in {"nextSequence", "insert"}
                           => \A i \in Made : minted[i].key = task'[u].key
                                => minted[i].at + ReplayWindow < task'[u].now
                      /\ task'[u].pc = "upsert" =>
                           /\ minted[task'[u].id].at = task'[u].now
                           /\ \A i \in Made : i # task'[u].id =>
                                (minted[i].key = task'[u].key
                                  => minted[i].at + ReplayWindow < task'[u].now)
    BY <1>2 DEF FreshInv, Before
  <2>1. CASE u = t
    BY <1>1, <2>1 DEF Before
  <2>2. CASE u # t
    BY <1>1, <2>2 DEF WindowInv, FreshInv, Before
  <2> QED
    BY <2>1, <2>2
<1>8. OnceInv'
  BY <1>2 DEF WindowInv, OnceInv
<1> QED
  BY <1>3, <1>4, <1>5, <1>6, <1>7, <1>8 DEF WindowInv

(* The calls, the log and the key rows stay, the clock and the pruner move. *)
LEMMA ClockKeeps ==
    ASSUME Shape, WindowInv, task' = task, minted' = minted, keys' = keys,
           clock' \in Int, clock <= clock',
           \A t \in Tasks : Busy(task[t]) => clock' <= task[t].now + CallTime,
           pruner'.pc = "delete" => pruner'.now \in Int /\ pruner'.now <= clock'
    PROVE  WindowInv'
<1>1. Made' = Made
  BY DEF Made
<1>2. clock \in Int /\ KeyRetention \in Nat
  BY WindowAssumption DEF Shape
<1>3. \A i \in Made : minted[i].at \in Int
  BY DEF Made, Shape, Mint
<1>4. \A t \in Tasks : task[t].now \in Int
  BY DEF Shape, TasksOK, CallOK
<1>5. TimeInv'
  <2>1. \A i \in Made : minted[i].at <= clock'
    BY <1>2, <1>3 DEF WindowInv, TimeInv
  <2>2. \A t \in Tasks : Busy(task[t]) => task[t].now <= clock'
    BY <1>2, <1>4 DEF WindowInv, TimeInv
  <2> QED
    BY <1>1, <2>1, <2>2 DEF TimeInv
<1>6. KnownInv'
  <2>1. \A i \in Made : minted[i].at + KeyRetention < clock => minted[i].at + KeyRetention < clock'
    BY <1>2, <1>3
  <2> QED
    BY <1>1, <2>1 DEF WindowInv, KnownInv
<1>7. OrderInv' /\ AloneInv' /\ OnceInv'
  BY <1>1 DEF WindowInv, OrderInv, AloneInv, OnceInv
<1>8. FreshInv'
  BY <1>1 DEF WindowInv, FreshInv, Before
<1> QED
  BY <1>5, <1>6, <1>7, <1>8 DEF WindowInv

LEMMA MadeIsStored ==
    ASSUME LogInv PROVE Made = Stored /\ \A id \in EventIds : id \in Made <=> minted[id] # NotMinted
<1>1. NotMinted.key \notin Keys
  BY NoKeyAssumption DEF NotMinted
<1> QED
  BY <1>1 DEF Made, Stored, LogInv, RowsInv

LEMMA StoresWindow ==
    ASSUME Shape, LogInv, OwnInv, WindowInv, NEW t \in Tasks, NEW id, Stores(t, id),
           NextEventId(id), clock' = clock
    PROVE  WindowInv'
<1>1. /\ id \in EventIds
      /\ \A i \in EventIds : i # id => minted'[i] = minted[i]
      /\ minted'[id].key = task[t].key /\ minted'[id].key \in Keys
  BY StoresEffect
<1>2. minted'[id].at = task[t].now /\ minted[id] = NotMinted /\ task[t].pc = "insert"
  BY <1>1 DEF Stores, Shape
<1>3. task' = [task EXCEPT ![t] = [@ EXCEPT !.pc = "upsert", !.id = id]]
      /\ keys' = keys /\ pruner' = pruner
  BY DEF Stores, jobVars
<1>4. PICK m : GoesOn(t, m, "upsert") /\ m.id = id
  BY <1>1, <1>2, <1>3, InsertMoves
<1>5. /\ task'[t] = m /\ m.pc = "upsert" /\ m.id = id /\ m.key = task[t].key
      /\ m.now = task[t].now
      /\ \A u \in Tasks : u # t => task'[u] = task[u]
  BY <1>4, MovesTo DEF GoesOn
<1>6. id \notin Made /\ Made' = Made \cup {id} /\ \A i \in Made : minted'[i] = minted[i] /\ i # id
  <2>1. id \notin Made
    BY <1>1, <1>2, MadeIsStored
  <2> QED
    BY <1>1, <2>1 DEF Made
<1>7. \A i \in Made : Before(task[t], i)
  BY <1>2 DEF WindowInv, FreshInv
<1>8. \A i \in Made : i < id
  BY <1>1, <1>6 DEF WindowInv, OrderInv
<1>9. OrderInv'
  <2> SUFFICES ASSUME NEW i \in Made \cup {id}, NEW j \in EventIds \ (Made \cup {id})
               PROVE  i < j
    BY <1>6 DEF OrderInv
  <2>1. CASE i = id
    <3>1. minted[j] = NotMinted
      BY MadeIsStored
    <3>2. id <= j /\ id # j
      BY <3>1 DEF NextEventId
    <3> QED
      BY <1>1, <2>1, <3>2, EventIdsAssumption
  <2>2. CASE i \in Made
    BY <2>2 DEF WindowInv, OrderInv
  <2> QED
    BY <2>1, <2>2
<1>10. TimeInv'
  <2>1. \A u \in Tasks : Busy(task'[u]) => task'[u].now <= clock /\ clock <= task'[u].now + CallTime
    BY <1>2, <1>5 DEF WindowInv, TimeInv, Busy
  <2>2. \A i \in Made \cup {id} : minted'[i].at <= clock
    BY <1>2, <1>6 DEF WindowInv, TimeInv, Busy
  <2> QED
    BY <1>3, <1>6, <2>1, <2>2 DEF TimeInv, WindowInv
<1>11. AloneInv'
  <2> SUFFICES ASSUME NEW u \in Tasks, NEW v \in Tasks, Busy(task'[u]), Busy(task'[v]),
                      task'[u].key = task'[v].key
               PROVE  u = v
    BY DEF AloneInv
  <2>1. \A x \in Tasks : task'[x].key = task[x].key /\ (Busy(task'[x]) => Busy(task[x]))
    BY <1>2, <1>5 DEF Busy
  <2> QED
    BY <2>1 DEF WindowInv, AloneInv
<1>12. KnownInv'
  <2> SUFFICES ASSUME NEW i \in Made \cup {id}
               PROVE  \/ \E u \in Tasks : task'[u].pc = "upsert" /\ task'[u].id = i
                      \/ /\ keys[minted'[i].key].id # NoEvent
                         /\ keys[minted'[i].key].at >= minted'[i].at
                      \/ minted'[i].at + KeyRetention < clock
    BY <1>3, <1>6 DEF KnownInv
  <2>1. CASE i = id
    BY <1>5, <2>1
  <2>2. CASE i \in Made
    <3>1. minted'[i] = minted[i]
      BY <1>6, <2>2
    <3>2. \A u \in Tasks : task[u].pc = "upsert" => task'[u] = task[u]
      BY <1>2, <1>5
    <3> QED
      BY <2>2, <3>1, <3>2 DEF WindowInv, KnownInv
  <2> QED
    BY <2>1, <2>2
<1>13. FreshInv'
  <2> SUFFICES ASSUME NEW u \in Tasks
               PROVE  /\ task'[u].pc \in {"nextSequence", "insert"}
                           => \A i \in Made \cup {id} : minted'[i].key = task'[u].key
                                => minted'[i].at + ReplayWindow < task'[u].now
                      /\ task'[u].pc = "upsert" =>
                           /\ minted'[task'[u].id].at = task'[u].now
                           /\ \A i \in Made \cup {id} : i # task'[u].id =>
                                (minted'[i].key = task'[u].key
                                  => minted'[i].at + ReplayWindow < task'[u].now)
    BY <1>6 DEF FreshInv, Before
  <2>1. CASE u = t
    BY <1>2, <1>5, <1>6, <1>7, <2>1 DEF Before
  <2>2. CASE u # t
    <3>1. task'[u] = task[u]
      BY <1>5, <2>2
    <3>2. Busy(task[u]) => task[u].key # minted'[id].key
      BY <1>1, <1>2, <2>2 DEF WindowInv, AloneInv, Busy
    <3>3. CASE task[u].pc \in {"nextSequence", "insert"}
      BY <1>6, <3>1, <3>2, <3>3 DEF WindowInv, FreshInv, Before, Busy
    <3>4. CASE task[u].pc = "upsert"
      <4>1. task[u].id \in Made
        BY <3>4, StoringMinted, MadeIsStored DEF Storing
      <4> QED
        BY <1>6, <3>1, <3>2, <3>4, <4>1 DEF WindowInv, FreshInv, Before, Busy
    <3> QED
      BY <3>1, <3>3, <3>4
  <2> QED
    BY <2>1, <2>2
<1>14. OnceInv'
  <2> SUFFICES ASSUME NEW i \in Made \cup {id}, NEW j \in Made \cup {id}, i < j,
                      minted'[i].key = minted'[j].key
               PROVE  minted'[j].at > minted'[i].at + ReplayWindow
    BY <1>6 DEF OnceInv
  <2>0. i \in Nat /\ j \in Nat
    BY <1>1, EventIdsAssumption DEF Made
  <2>1. CASE i \in Made /\ j \in Made
    BY <1>6, <2>1 DEF WindowInv, OnceInv
  <2>2. CASE j = id /\ i \in Made
    <3>1. minted[i].at \in Int /\ task[t].now \in Int
      BY <2>2 DEF Made, Shape, Mint, TasksOK, CallOK
    <3>2. minted[i].at + ReplayWindow < task[t].now
      BY <1>1, <1>6, <1>7, <2>2 DEF Before
    <3> QED
      BY <1>2, <1>6, <2>2, <3>1, <3>2, WindowAssumption
  <2>3. CASE i = id
    BY <1>8, <2>0, <2>3
  <2> QED
    BY <2>1, <2>2, <2>3
<1> QED
  BY <1>9, <1>10, <1>11, <1>12, <1>13, <1>14 DEF WindowInv

LEMMA UpsertWindow ==
    ASSUME Shape, LogInv, OwnInv, WindowInv, NEW t \in Tasks, UpsertKey(t)
    PROVE  WindowInv'
<1>1. PICK m : GoesOn(t, m, "restore") /\ m.id = task[t].id
  BY UpsertMoves
<1>2. /\ task'[t] = m /\ m.pc = "restore" /\ m.key = task[t].key
      /\ m.now = task[t].now /\ task[t].pc = "upsert"
      /\ \A u \in Tasks : u # t => task'[u] = task[u]
  BY <1>1, MovesTo DEF GoesOn, UpsertKey
<1>3. minted' = minted /\ clock' = clock /\ pruner' = pruner
  BY DEF UpsertKey, history, jobVars
<1>4. Made' = Made
  BY <1>3 DEF Made
<1>5. task[t].id \in Made /\ task[t].key \in Keys
  BY <1>2, StoringMinted, MadeIsStored, EntryFor DEF Storing
<1>6. OrderInv' /\ OnceInv'
  BY <1>3, <1>4 DEF WindowInv, OrderInv, OnceInv
<1>7. TimeInv'
  <2>1. \A u \in Tasks : Busy(task'[u]) => task'[u].now <= clock /\ clock <= task'[u].now + CallTime
    BY <1>2 DEF WindowInv, TimeInv, Busy
  <2> QED
    BY <1>3, <1>4, <2>1 DEF WindowInv, TimeInv
<1>8. AloneInv'
  <2> SUFFICES ASSUME NEW u \in Tasks, NEW v \in Tasks, Busy(task'[u]), Busy(task'[v]),
                      task'[u].key = task'[v].key
               PROVE  u = v
    BY DEF AloneInv
  <2>1. \A x \in Tasks : task'[x].key = task[x].key /\ (Busy(task'[x]) => Busy(task[x]))
    BY <1>2 DEF Busy
  <2> QED
    BY <2>1 DEF WindowInv, AloneInv
<1>9. KnownInv'
  <2> SUFFICES ASSUME NEW i \in Made
               PROVE  \/ \E u \in Tasks : task'[u].pc = "upsert" /\ task'[u].id = i
                      \/ /\ keys'[minted[i].key].id # NoEvent
                         /\ keys'[minted[i].key].at >= minted[i].at
                      \/ minted[i].at + KeyRetention < clock
    BY <1>3, <1>4 DEF KnownInv
  <2> DEFINE row == [id |-> task[t].id, at |-> task[t].now]
  <2>1. row.id = task[t].id /\ row.at = task[t].now
    OBVIOUS
  <2>2. keys' = [keys EXCEPT ![task[t].key] = row]
    BY DEF UpsertKey
  <2> HIDE DEF row
  <2>3. minted[i].key \in Keys /\ minted[i].at \in Int
    BY DEF Made, Shape, Mint
  <2>4. CASE minted[i].key = task[t].key
    <3>1. keys'[minted[i].key] = row
      BY <1>5, <2>2, <2>4 DEF Shape
    <3>2. row.id # NoEvent
      BY <1>5, <2>1, EventIdsAssumption DEF Made, NoEvent
    <3>3. CASE i = task[t].id
      <4>1. minted[i].at = task[t].now
        BY <1>2, <3>3 DEF WindowInv, FreshInv
      <4> QED
        BY <2>1, <2>3, <3>1, <3>2, <4>1
    <3>4. CASE i # task[t].id
      <4>1. minted[i].at + ReplayWindow < task[t].now
        BY <1>2, <2>4, <3>4 DEF WindowInv, FreshInv, Before
      <4>2. task[t].now \in Int
        BY DEF Shape, TasksOK, CallOK
      <4>3. task[t].now >= minted[i].at
        BY <2>3, <4>1, <4>2, WindowAssumption
      <4> QED
        BY <2>1, <3>1, <3>2, <4>3
    <3> QED
      BY <3>3, <3>4
  <2>5. CASE minted[i].key # task[t].key
    <3>1. keys'[minted[i].key] = keys[minted[i].key]
      BY <2>2, <2>3, <2>5 DEF Shape
    <3>2. ASSUME NEW u \in Tasks, task[u].pc = "upsert", task[u].id = i PROVE task'[u] = task[u]
      <4>1. CASE u = t
        <5>1. Owns(minted, task[t].key, task[t].id)
          BY <1>2 DEF OwnInv, CallsOwn, CallOwns
        <5> QED
          BY <2>5, <3>2, <4>1, <5>1 DEF Owns
      <4>2. CASE u # t
        BY <1>2, <4>2
      <4> QED
        BY <4>1, <4>2
    <3> QED
      BY <3>1, <3>2 DEF WindowInv, KnownInv
  <2> QED
    BY <2>4, <2>5
<1>10. FreshInv'
  <2> SUFFICES ASSUME NEW u \in Tasks
               PROVE  /\ task'[u].pc \in {"nextSequence", "insert"}
                           => \A i \in Made : minted[i].key = task'[u].key
                                => minted[i].at + ReplayWindow < task'[u].now
                      /\ task'[u].pc = "upsert" =>
                           /\ minted[task'[u].id].at = task'[u].now
                           /\ \A i \in Made : i # task'[u].id =>
                                (minted[i].key = task'[u].key
                                  => minted[i].at + ReplayWindow < task'[u].now)
    BY <1>3, <1>4 DEF FreshInv, Before
  <2>1. CASE u = t
    BY <1>2, <2>1
  <2>2. CASE u # t
    BY <1>2, <2>2 DEF WindowInv, FreshInv, Before
  <2> QED
    BY <2>1, <2>2
<1> QED
  BY <1>6, <1>7, <1>8, <1>9, <1>10 DEF WindowInv

(* A call that finds no key row, or one from beyond the window, may store   *)
(* an event.                                                                *)
LEMMA LookupWindow ==
    ASSUME KeysOutlive, Shape, LogInv, OwnInv, WindowInv, NEW t \in Tasks, LookupKey(t)
    PROVE  WindowInv'
<1>1. PICK m : \/ GoesOn(t, m, "readEvent")
               \/ /\ GoesOn(t, m, "nextSequence")
                  /\ \/ keys[m.key].id = NoEvent
                     \/ ~WithinReplayWindow(keys[m.key].at, m.now)
  BY LookupMoves
<1>2. /\ Moves(t, m) /\ m.key = task[t].key /\ m.now = task[t].now
      /\ m.pc \in {"readEvent", "nextSequence"}
  BY <1>1 DEF GoesOn
<1>3. minted' = minted /\ keys' = keys /\ clock' = clock /\ pruner' = pruner
      /\ task[t].pc = "lookup"
  BY DEF LookupKey, tableVars, history, jobVars
<1>4. /\ m.now <= clock /\ clock <= m.now + CallTime
      /\ \A u \in Tasks : u # t /\ Busy(task[u]) => task[u].key # m.key
  BY <1>2, <1>3 DEF WindowInv, TimeInv, AloneInv, Busy
<1>5. ASSUME m.pc = "nextSequence", NEW i \in Made PROVE Before(m, i)
  <2> SUFFICES ASSUME minted[i].key = m.key PROVE minted[i].at + ReplayWindow < m.now
    BY DEF Before
  <2>1. /\ minted[i].at \in Int /\ m.now \in Int /\ m.key \in Keys /\ clock \in Int
        /\ KeyRetention \in Nat /\ ReplayWindow \in Nat /\ CallTime \in Nat
    BY <1>2, WindowAssumption, StreamBoundsAssumption DEF Made, Shape, Mint, TasksOK, CallOK
  <2>2. keys[m.key].at \in Int
    BY <2>1 DEF Shape, KeyRow
  <2>3. KeyRetention >= ReplayWindow + CallTime /\ ReplayWindow > 0
    BY DEF KeysOutlive
  <2>4. ~\E u \in Tasks : task[u].pc = "upsert" /\ task[u].id = i
    <3> SUFFICES ASSUME NEW u \in Tasks, task[u].pc = "upsert", task[u].id = i PROVE FALSE
      OBVIOUS
    <3>1. Owns(minted, task[u].key, task[u].id)
      BY DEF OwnInv, CallsOwn, CallOwns
    <3>2. task[u].key = m.key /\ Busy(task[u]) /\ u # t
      BY <1>3, <3>1 DEF Owns, Busy
    <3> QED
      BY <1>4, <3>2
  <2>5. CASE minted[i].at + KeyRetention < clock
    BY <1>4, <2>1, <2>3, <2>5
  <2>6. CASE keys[m.key].id # NoEvent /\ keys[m.key].at >= minted[i].at
    <3>1. ~WithinReplayWindow(keys[m.key].at, m.now)
      BY <1>1, <1>5, <2>6 DEF GoesOn
    <3>2. m.now - keys[m.key].at > ReplayWindow
      BY <2>1, <2>2, <3>1 DEF WithinReplayWindow
    <3> QED
      BY <2>1, <2>2, <2>6, <3>2
  <2> QED
    BY <2>4, <2>5, <2>6 DEF WindowInv, KnownInv
<1>6. m.pc # "upsert" /\ m.pc # "insert"
  BY <1>2
<1> QED
  BY <1>2, <1>3, <1>4, <1>5, <1>6, MoveKeeps

(* The age pass deletes what is older than the key retention, the cap pass  *)
(* nothing.                                                                 *)
LEMMA PruneWindow ==
    ASSUME KeysOutlive, Shape, WindowInv, PruneDeletes PROVE WindowInv'
<1>1. PICK dropped \in SUBSET (KeyRows \ TooOld(pruner.now)) :
         /\ CapPass((KeyRows \ TooOld(pruner.now)) \ dropped, dropped)
         /\ dropped # {} => Dialect = "sqlite"
         /\ keys' = [k \in Keys |-> IF k \in (KeyRows \ TooOld(pruner.now)) \ dropped
                                    THEN keys[k] ELSE NoKeyRow]
  BY DEF PruneDeletes
<1>a. pruner'.pc # "delete"
  <2>1. PICK more : pruner' = [pc |-> IF more THEN "swap" ELSE "idle", now |-> 0]
    BY DEF PruneDeletes
  <2> QED
    BY <2>1
<1>2. dropped = {}
  <2>1. CASE Dialect = "postgres"
    BY <1>1, <2>1
  <2>2. CASE IsFiniteSet(Keys) /\ Cardinality(Keys) <= MaxKeyRows
    <3> DEFINE kept == (KeyRows \ TooOld(pruner.now)) \ dropped
    <3>1. kept \cup dropped \subseteq Keys /\ dropped \subseteq Keys
      BY <1>1 DEF KeyRows
    <3> HIDE DEF kept
    <3>2. /\ IsFiniteSet(kept \cup dropped) /\ IsFiniteSet(dropped)
          /\ Cardinality(kept \cup dropped) <= Cardinality(Keys)
          /\ Cardinality(Keys) \in Nat /\ Cardinality(kept \cup dropped) \in Nat
      BY <2>2, <3>1, FS_Subset, FS_CardinalityType
    <3>3. ~(Cardinality(kept \cup dropped) > MaxKeyRows)
      BY <2>2, <3>2, LimitAssumption
    <3>4. Cardinality(dropped) = 0
      BY <1>1, <3>3 DEF CapPass, kept
    <3> QED
      BY <3>2, <3>4, FS_EmptySet
  <2> QED
    BY <2>1, <2>2 DEF KeysOutlive
<1>3. minted' = minted /\ task' = task /\ clock' = clock /\ pruner.pc = "delete"
  BY DEF PruneDeletes, history
<1>4. Made' = Made
  BY <1>3 DEF Made
<1>5. OrderInv' /\ AloneInv' /\ OnceInv'
  BY <1>3, <1>4 DEF WindowInv, OrderInv, AloneInv, OnceInv
<1>6. TimeInv'
  BY <1>a, <1>3, <1>4 DEF WindowInv, TimeInv
<1>7. FreshInv'
  BY <1>3, <1>4 DEF WindowInv, FreshInv, Before
<1>8. KnownInv'
  <2> SUFFICES ASSUME NEW i \in Made
               PROVE  \/ \E t \in Tasks : task[t].pc = "upsert" /\ task[t].id = i
                      \/ /\ keys'[minted[i].key].id # NoEvent
                         /\ keys'[minted[i].key].at >= minted[i].at
                      \/ minted[i].at + KeyRetention < clock
    BY <1>3, <1>4 DEF KnownInv
  <2>1. minted[i].key \in Keys /\ minted[i].at \in Int
    BY DEF Made, Shape, Mint
  <2>2. PICK k \in Keys : k = minted[i].key
    BY <2>1
  <2>3. CASE keys[k].id # NoEvent /\ keys[k].at >= minted[i].at
    <3>1. k \in KeyRows
      BY <2>3 DEF KeyRows
    <3>2. CASE k \in TooOld(pruner.now)
      <4>1. keys[k].at < pruner.now - KeyRetention
        BY <3>2 DEF TooOld
      <4>2. pruner.now \in Int /\ pruner.now <= clock /\ clock \in Int
        BY <1>3 DEF WindowInv, TimeInv, Shape
      <4>3. keys[k].at \in Int /\ KeyRetention \in Nat
        BY WindowAssumption DEF Shape, KeyRow
      <4> QED
        BY <2>1, <2>3, <4>1, <4>2, <4>3
    <3>3. CASE k \notin TooOld(pruner.now)
      <4>1. keys'[k] = keys[k]
        BY <1>1, <1>2, <3>1, <3>3
      <4> QED
        BY <2>2, <2>3, <4>1
    <3> QED
      BY <3>2, <3>3
  <2> QED
    BY <2>2, <2>3 DEF WindowInv, KnownInv
<1> QED
  BY <1>5, <1>6, <1>7, <1>8 DEF WindowInv

(* Every step without a fault keeps the window. *)
LEMMA CallWindow ==
    ASSUME Overlaps = FALSE, KeysOutlive, Shape, LogInv, SeqInv, OwnInv, WindowInv,
           NEW t \in Tasks, (\E k \in Keys : AppendMisses(t, k)) \/ AppendStep(t)
    PROVE  WindowInv'
<1>0. CallTime \in Nat /\ clock \in Int
  BY StreamBoundsAssumption DEF Shape
<1>1. ASSUME NEW k \in Keys, AppendMisses(t, k) PROVE WindowInv'
  <2>1. PICK m : CallOK(m) /\ Moves(t, m) /\ m.pc = "lookup" /\ m.key = k /\ m.now = clock
    BY <1>1, MissesMoves
  <2>2. /\ minted' = minted /\ keys' = keys /\ clock' = clock /\ pruner' = pruner
        /\ task[t].pc = "idle" /\ \A other \in Tasks : task[other].key # k
    BY <1>1 DEF AppendMisses, MaySend, tableVars, history, jobVars
  <2>3. m.now <= clock /\ clock <= m.now + CallTime
    BY <1>0, <2>1
  <2> QED
    BY <2>1, <2>2, <2>3, MoveKeeps
<1>2. CASE LookupKey(t)
  BY <1>2, LookupWindow
<1>3. CASE ReadEvent(t)
  <2>1. /\ minted' = minted /\ keys' = keys /\ clock' = clock /\ pruner' = pruner
        /\ task[t].pc = "readEvent"
    BY <1>3 DEF ReadEvent, tableVars, jobVars
  <2>2. task[t].key \in Keys /\ Owns(minted, task[t].key, task[t].id)
    BY <2>1, EntryFor DEF OwnInv, CallsOwn, CallOwns
  <2>3. task[t].id \in Made
    BY <2>2 DEF Owns, Made
  <2>4. task[t].id \in Stored
    BY <2>3, MadeIsStored
  <2>5. Moves(t, Idle)
    BY <1>3, <2>1, <2>4, ReplayEnds DEF ReadEvent
  <2> QED
    BY <2>1, <2>5, IdleOK, MoveKeeps DEF Busy
<1>4. CASE NextSequence(t)
  <2>1. HeadSequence \in Nat
    BY DEF LogInv, DenseInv
  <2>2. PICK m : GoesOn(t, m, "insert")
    BY <1>4, <2>1, NextSequenceMoves
  <2>3. /\ minted' = minted /\ keys' = keys /\ clock' = clock /\ pruner' = pruner
        /\ task[t].pc = "nextSequence"
    BY <1>4 DEF NextSequence, tableVars, history, jobVars
  <2>4. Moves(t, m) /\ m.pc = "insert" /\ m.key = task[t].key /\ m.now = task[t].now
    BY <2>2 DEF GoesOn
  <2>5. \A i \in Made : Before(m, i)
    BY <2>3, <2>4 DEF WindowInv, FreshInv, Before
  <2>6. /\ m.now <= clock /\ clock <= m.now + CallTime
        /\ \A u \in Tasks : u # t /\ Busy(task[u]) => task[u].key # m.key
    BY <2>3, <2>4 DEF WindowInv, TimeInv, AloneInv, Busy
  <2> QED
    BY <2>3, <2>4, <2>5, <2>6, MoveKeeps
<1>5. CASE InsertEvent(t)
  <2>1. keys' = keys /\ clock' = clock /\ pruner' = pruner /\ task[t].pc = "insert"
        /\ UNCHANGED <<jobVars, readerVars, fanned, answered>>
    BY <1>5 DEF InsertEvent, jobVars
  <2>2. CASE task[t].seq \in UsedSequences
    <3>1. Ends(t, task[t].cache) /\ minted' = minted
      BY <1>5, <2>2 DEF InsertEvent
    <3>2. Moves(t, Idle)
      BY <3>1, EntryFor, EndsMoves
    <3> QED
      BY <2>1, <3>1, <3>2, IdleOK, MoveKeeps DEF Busy
  <2>3. CASE task[t].seq \notin UsedSequences
    <3>1. task[t].seq = HeadSequence + 1
      BY <2>1, <2>3 DEF SeqInv, LogInv, DenseInv
    <3>2. PICK id \in EventIds :
             /\ NextEventId(id)
             /\ events' = [events EXCEPT ![id] = [seq |-> task[t].seq, packed |-> id,
                                                  erased |-> FALSE, at |-> task[t].now]]
             /\ minted' = [minted EXCEPT ![id] = [key |-> task[t].key, at |-> task[t].now,
                                                  seq |-> task[t].seq]]
             /\ task' = [task EXCEPT ![t] = [@ EXCEPT !.pc = "upsert", !.id = id]]
      BY <1>5, <2>3 DEF InsertEvent
    <3>3. slot' = slot
      BY <1>5, <2>3 DEF InsertEvent
    <3>4. Stores(t, id)
      BY <2>1, <3>1, <3>2, <3>3 DEF Stores, NextEventId
    <3> QED
      BY <2>1, <3>2, <3>4, StoresWindow
  <2> QED
    BY <2>2, <2>3
<1>6. CASE UpsertKey(t)
  BY <1>6, UpsertWindow
<1>7. CASE RestoreCache(t)
  <2>1. PICK m : Moves(t, m) /\ m.pc = "notify" /\ m.key = task[t].key /\ m.now = task[t].now
    BY <1>7, RestoreMoves
  <2>2. /\ minted' = minted /\ keys' = keys /\ clock' = clock /\ pruner' = pruner
        /\ task[t].pc = "restore"
    BY <1>7 DEF RestoreCache, tableVars, history, jobVars
  <2>3. /\ m.now <= clock /\ clock <= m.now + CallTime
        /\ \A u \in Tasks : u # t /\ Busy(task[u]) => task[u].key # m.key
    BY <2>1, <2>2 DEF WindowInv, TimeInv, AloneInv, Busy
  <2> QED
    BY <2>1, <2>2, <2>3, MoveKeeps
<1>8. CASE Notify(t)
  <2>1. /\ minted' = minted /\ keys' = keys /\ clock' = clock /\ pruner' = pruner
        /\ task[t].pc = "notify" /\ Moves(t, Idle)
    BY <1>8 DEF Notify, Moves, tableVars, jobVars
  <2> QED
    BY <2>1, IdleOK, MoveKeeps DEF Busy
<1> QED
  BY <1>1, <1>2, <1>3, <1>4, <1>5, <1>6, <1>7, <1>8 DEF AppendStep

LEMMA WindowNext ==
    ASSUME Retained = FALSE, Overlaps = FALSE, KeysOutlive, Shape, LogInv, SeqInv, OwnInv,
           FaultFree, [Next]_vars
    PROVE  FaultFree'
<1>0. faults \in Nat /\ (faults = 0 => WindowInv)
  BY DEF FaultFree
<1>1. CASE faults' = faults + 1
  BY <1>0, <1>1 DEF FaultFree
<1>2. CASE faults' = faults
  <2> SUFFICES ASSUME WindowInv PROVE WindowInv'
    BY <1>0, <1>2 DEF FaultFree
  <2>0. /\ clock \in Int
        /\ \A t \in Tasks : task[t].now \in Int
        /\ \A t \in Tasks : Busy(task[t]) => clock <= task[t].now + CallTime
        /\ pruner.pc = "delete" => pruner.now \in Int /\ pruner.now <= clock
        /\ CallTime \in Nat
    BY StreamBoundsAssumption DEF Shape, TasksOK, CallOK, WindowInv, TimeInv
  <2>1. ASSUME task' = task, minted' = minted, keys' = keys, clock' = clock, pruner' = pruner
        PROVE  WindowInv'
    <3>1. clock <= clock'
      BY <2>0, <2>1
    <3> QED
      BY <2>0, <2>1, <3>1, ClockKeeps
  <2>2. ASSUME task' = task, minted' = minted, keys' = keys, clock' = clock,
               pruner'.pc = "delete" => pruner'.now = clock
        PROVE  WindowInv'
    <3>1. clock <= clock' /\ clock' \in Int /\ (pruner'.pc = "delete" => pruner'.now <= clock')
      BY <2>0, <2>2
    <3> QED
      BY <2>0, <2>2, <3>1, ClockKeeps
  <2>3. ASSUME NEW t \in Tasks, NEW k \in Keys, AppendHitsCache(t, k) PROVE WindowInv'
    BY <2>1, <2>3 DEF AppendHitsCache, tableVars, jobVars
  <2>4. ASSUME NEW t \in Tasks, (\E k \in Keys : AppendMisses(t, k)) \/ AppendStep(t)
        PROVE  WindowInv'
    BY <2>4, CallWindow
  <2>5. ASSUME NEW t \in Tasks, StatementFails(t) \/ CallDropped(t) PROVE FALSE
    BY <1>0, <1>2, <2>5 DEF StatementFails, CallDropped
  <2>6. ASSUME Crash PROVE FALSE
    BY <1>0, <1>2, <2>6 DEF Crash
  <2>7. CASE PruneStarts
    BY <2>2, <2>7 DEF PruneStarts, tableVars, history
  <2>8. CASE PruneDeletes
    BY <2>8, PruneWindow
  <2>9. CASE PruneFails \/ PruneSwapsCache
    <3>1. pruner'.pc = "idle"
      BY <2>9 DEF PruneFails, PruneSwapsCache
    <3>2. task' = task /\ minted' = minted /\ keys' = keys /\ clock' = clock
      BY <2>9 DEF PruneFails, PruneSwapsCache, tableVars, history
    <3> QED
      BY <2>2, <3>1, <3>2
  <2>10. ASSUME RetainByAge \/ RetainByCount PROVE FALSE
    BY <2>10 DEF RetainByAge, RetainByCount, Shape
  <2>11. ASSUME NEW k \in Redacts, RedactLists(k) PROVE WindowInv'
    BY <2>1, <2>11 DEF RedactLists, tableVars, history
  <2>12. CASE RedactReads \/ RedactWrites
    BY <2>1, <2>12 DEF RedactReads, RedactWrites, tableVars, history
  <2>13. CASE Read
    BY <2>1, <2>13 DEF Read, tableVars, jobVars, history
  <2>14. CASE Tick
    <3>1. /\ clock' = clock + 1 /\ task' = task /\ minted' = minted /\ keys' = keys
          /\ pruner' = pruner
          /\ \A t \in Tasks : task[t].pc # "idle" => clock < task[t].now + CallTime
      BY <2>14 DEF Tick, tableVars, jobVars, history
    <3>2. clock' \in Int /\ clock <= clock' /\ (pruner.pc = "delete" => pruner.now <= clock')
      BY <2>0, <3>1
    <3>3. \A t \in Tasks : Busy(task[t]) => clock' <= task[t].now + CallTime
      BY <2>0, <3>1 DEF Busy
    <3> QED
      BY <2>0, <3>1, <3>2, <3>3, ClockKeeps
  <2>15. CASE UNCHANGED vars
    BY <2>1, <2>15 DEF vars, tableVars, jobVars, history
  <2> QED
    BY <2>3, <2>4, <2>5, <2>6, <2>7, <2>8, <2>9, <2>10, <2>11, <2>12, <2>13, <2>14, <2>15 DEF Next
<1>3. faults' \in {faults, faults + 1}
  <2>1. ASSUME NEW t \in Tasks, NEW k \in Keys, AppendHitsCache(t, k) \/ AppendMisses(t, k)
        PROVE  faults' = faults
    BY <2>1 DEF AppendHitsCache, AppendMisses
  <2>2. ASSUME NEW t \in Tasks, AppendStep(t) PROVE faults' = faults
    BY <2>2 DEF AppendStep, LookupKey, ReadEvent, NextSequence, InsertEvent, UpsertKey,
                RestoreCache, Notify
  <2>3. ASSUME NEW t \in Tasks, StatementFails(t) \/ CallDropped(t) PROVE faults' = faults + 1
    BY <2>3 DEF StatementFails, CallDropped
  <2>4. CASE Crash
    BY <2>4 DEF Crash
  <2>5. CASE PruneStarts \/ PruneDeletes \/ PruneFails \/ PruneSwapsCache
    BY <2>5 DEF PruneStarts, PruneDeletes, PruneFails, PruneSwapsCache
  <2>6. CASE RetainByAge \/ RetainByCount \/ RedactReads \/ RedactWrites \/ Read \/ Tick
    BY <2>6 DEF RetainByAge, RetainByCount, RedactReads, RedactWrites, Read, Tick
  <2>7. ASSUME NEW k \in Redacts, RedactLists(k) PROVE faults' = faults
    BY <2>7 DEF RedactLists
  <2>8. CASE UNCHANGED vars
    BY <2>8 DEF vars
  <2> QED
    BY <2>1, <2>2, <2>3, <2>4, <2>5, <2>6, <2>7, <2>8 DEF Next
<1> QED
  BY <1>1, <1>2, <1>3

LEMMA WindowStart == Init => FaultFree
<1> SUFFICES ASSUME Init PROVE FaultFree
  OBVIOUS
<1>1. NotMinted.key \notin Keys
  BY NoKeyAssumption DEF NotMinted
<1>2. Made = {}
  BY <1>1 DEF Init, Made
<1>3. \A t \in Tasks : task[t].pc = "idle"
  BY IdleOK DEF Init
<1>4. pruner.pc = "idle"
  BY DEF Init
<1>5. OrderInv /\ TimeInv /\ AloneInv /\ KnownInv /\ FreshInv /\ OnceInv
  BY <1>2, <1>3, <1>4 DEF OrderInv, TimeInv, AloneInv, KnownInv, FreshInv, OnceInv, Busy
<1> QED
  BY <1>5 DEF FaultFree, WindowInv, Init

(* On a stream without retention, for a client that repeats a request only  *)
(* once its last call is over, and with key rows that outlive the window:   *)
(* as long as no fault cuts an append in two, append_event never stores two *)
(* events of one request from within one replay window, whatever prunes,    *)
(* redactions and appends of others run in between.                         *)
THEOREM OncePerReplayWindow ==
    ASSUME Retained = FALSE, Overlaps = FALSE, KeysOutlive
    PROVE  Spec => []OncePerWindow
<1>1. Init => OwnInv /\ FaultFree
  BY OwnStart, WindowStart
<1>2. Shape /\ LogInv /\ SeqInv /\ OwnInv /\ FaultFree /\ [Next]_vars => OwnInv' /\ FaultFree'
  BY OwnNext, WindowNext
<1>3. LogInv /\ FaultFree => OncePerWindow
  <2>1. ReplayWindow > 0
    BY DEF KeysOutlive
  <2> QED
    BY <2>1, MadeIsStored DEF FaultFree, WindowInv, OnceInv, OncePerWindow
<1> QED
  BY <1>1, <1>2, <1>3, StreamInvariant, PTL DEF Spec
=============================================================================
