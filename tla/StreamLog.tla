----------------------------- MODULE StreamLog -----------------------------
(***************************************************************************)
(* One stream of the durable event log: FrickStore::append_event,          *)
(* StreamStore::append, the idempotency front-cache, the prune of          *)
(* idempotency_keys, per-stream retention, redaction, and a follower       *)
(* reading with an `after` cursor (crates/frick-store/src/stores/stream.rs *)
(* and facade.rs), in one process.  No transaction spans the statements of *)
(* an append, so each statement is a step: on SQLite another worker thread *)
(* may run its statement between two of them, on Postgres any client may.  *)
(* SQLite calls never yield, so only on Postgres is a call dropped at an   *)
(* await.                                                                  *)
(***************************************************************************)
EXTENDS IdempotencyCache, FiniteSets

CONSTANTS
    Dialect,       \* the SQL driver
    NoKey,         \* no request
    Tasks,         \* the tasks calling append_event
    ReplayWindow,  \* replay_window_ms; 0 disables the bound
    KeyRetention,  \* idempotency_key_retention_ms, or the tenant's retentionMs
    MaxKeyRows,    \* idempotency_key_max_rows
    MaxAge,        \* the stream's max_age_ms; 0 is none
    MaxEvents,     \* the stream's max_events; a large number is none
    Retained,      \* does the stream's type have a retention policy?
    Overlaps,      \* may a client repeat a request that is still in flight?
    Redacts,       \* the requests whose events are redacted
    CallTime,      \* bound: no append takes longer than this
    MaxTime,       \* bound: the clock stops here
    MaxFaults      \* bound: statement errors, dropped calls and crashes

ASSUME DialectAssumption == Dialect \in {"sqlite", "postgres"}
ASSUME NoKeyAssumption == NoKey \notin Keys
ASSUME WindowAssumption == ReplayWindow \in Nat /\ KeyRetention \in Nat
ASSUME LimitAssumption == /\ MaxKeyRows \in Nat /\ MaxAge \in Nat
                          /\ MaxEvents \in Nat /\ Retained \in BOOLEAN
                          /\ Overlaps \in BOOLEAN /\ Redacts \subseteq Keys
ASSUME StreamBoundsAssumption == CallTime \in Nat /\ MaxTime \in Nat
                                 /\ MaxFaults \in Nat

VARIABLES
    events,    \* events[id]: the row whose event_id column is id
    keys,      \* keys[k]: the idempotency_keys row of k
    slot,      \* the Mutex<Option<cache>> of the store
    task,      \* task[t]: where append_event is and its locals
    pruner,    \* prune in progress: its step and its now
    retainer,  \* prune_retention in progress: its step
    redactor,  \* redact_by_field in progress
    cursor,    \* the follower's `after` cursor
    seen,      \* the events the follower has been given
    clock,     \* wall-clock time
    faults,    \* faults so far
    minted,    \* history: minted[id]: request, time and sequence of event id
    fanned,    \* history: how often the write listener got event id
    answered   \* history: answered[k] are the events k was answered with

tableVars == <<events, keys>>
jobVars == <<pruner, retainer, redactor>>
readerVars == <<cursor, seen>>
history == <<minted, fanned, answered>>
vars == <<tableVars, slot, task, jobVars, readerVars, clock, faults, history>>

NoRow == [seq |-> 0, packed |-> NoEvent, erased |-> FALSE, at |-> 0]
NoKeyRow == [id |-> NoEvent, at |-> 0]
NotMinted == [key |-> NoKey, at |-> 0, seq |-> 0]
Idle == [pc |-> "idle", key |-> NoKey, now |-> 0, seq |-> 0, id |-> NoEvent,
         keyAt |-> 0, cache |-> NoCache]
RedactorIdle == [pc |-> "idle", targets |-> {}, packed |-> NoEvent]

(* A row of stream_events.  `packed` is the event id inside the packed      *)
(* tuple, which is what a reader is given; it starts as the row's own id.   *)
EventRow == [seq : Nat, packed : EventIds \cup {NoEvent}, erased : BOOLEAN, at : Int]
KeyRow == [id : EventIds \cup {NoEvent}, at : Int]
Mint == [key : Keys \cup {NoKey}, at : Int, seq : Nat]

TypeOK ==
    /\ events \in [EventIds -> EventRow]
    /\ keys \in [Keys -> KeyRow]
    /\ slot \in Cache
    /\ task \in [Tasks -> [pc : {"idle", "lookup", "readEvent", "nextSequence",
                                 "insert", "upsert", "restore", "notify"},
                           key : Keys \cup {NoKey}, now : Int, seq : Nat,
                           id : EventIds \cup {NoEvent}, keyAt : Int,
                           cache : Cache]]
    /\ pruner \in [pc : {"idle", "delete", "swap"}, now : Int]
    /\ retainer \in {"idle", "count"}
    /\ redactor \in [pc : {"idle", "read", "write"}, targets : SUBSET Nat,
                     packed : EventIds \cup {NoEvent}]
    /\ cursor \in Nat
    /\ seen \in SUBSET (EventIds \cup {NoEvent})
    /\ clock \in 0..MaxTime /\ faults \in 0..MaxFaults
    /\ minted \in [EventIds -> Mint]
    /\ fanned \in [EventIds -> Nat]
    /\ answered \in [Keys -> SUBSET (EventIds \cup {NoEvent})]

Init ==
    /\ events = [id \in EventIds |-> NoRow]
    /\ keys = [k \in Keys |-> NoKeyRow]
    /\ slot = FreshCache
    /\ task = [t \in Tasks |-> Idle]
    /\ pruner = [pc |-> "idle", now |-> 0]
    /\ retainer = "idle"
    /\ redactor = RedactorIdle
    /\ cursor = 0 /\ seen = {}
    /\ clock = 0 /\ faults = 0
    /\ minted = [id \in EventIds |-> NotMinted]
    /\ fanned = [id \in EventIds |-> 0]
    /\ answered = [k \in Keys |-> {}]

-----------------------------------------------------------------------------
(* Helpers.                                                                *)

Stored == {id \in EventIds : events[id].seq # 0}
UsedSequences == {events[id].seq : id \in Stored}
HeadSequence == IF UsedSequences = {} THEN 0
                ELSE CHOOSE s \in UsedSequences : \A other \in UsedSequences : other <= s

(* Mutant of WithinReplayWindow: the window is one tick short.              *)
WithinShorterWindow(at, now) == now - at < ReplayWindow

(* within_replay_window. *)
WithinReplayWindow(at, now) == ReplayWindow = 0 \/ now - at <= ReplayWindow

(* The generator never repeats an id.  The code draws it when the call      *)
(* starts; nothing sees it before the INSERT, where the model draws it.     *)
NextEventId(id) == /\ minted[id] = NotMinted
                   /\ \A other \in EventIds :
                         minted[other] = NotMinted => id <= other

(* Where the cache goes when a call ends: into the slot if it is empty,     *)
(* otherwise it is dropped.                                                 *)
Restored(cache) == IF slot.present THEN slot ELSE cache

-----------------------------------------------------------------------------
(* append_event.                                                           *)

(* The client sends the request, or repeats it. *)
MaySend(t, k) ==
    /\ task[t].pc = "idle"
    /\ Overlaps \/ \A other \in Tasks : task[other].key # k

UsableHit(k) == /\ slot.present /\ Caches(slot, k)
                /\ WithinReplayWindow(slot.entries[k].at, clock)

(* The front-cache answers without an await: take, get and restore are one  *)
(* step.                                                                    *)
AppendHitsCache(t, k) ==
    /\ MaySend(t, k)
    /\ UsableHit(k)
    /\ slot' = Touched(slot, k)
    /\ answered' = [answered EXCEPT ![k] = @ \cup {slot.entries[k].id}]
    /\ UNCHANGED <<tableVars, task, jobVars, readerVars, clock, faults, minted, fanned>>

(* A miss: the call keeps the cache it took out of the slot, if there was   *)
(* one, over every await that follows.                                      *)
AppendMisses(t, k) ==
    /\ MaySend(t, k)
    /\ ~UsableHit(k)
    /\ task' = [task EXCEPT ![t] = [Idle EXCEPT !.pc = "lookup", !.key = k,
                                    !.now = clock, !.cache = Touched(slot, k)]]
    /\ slot' = NoCache
    /\ UNCHANGED <<tableVars, jobVars, readerVars, clock, faults, history>>

(* Mutant of KeyRowOf: the SELECT forgets the replica and may match the row *)
(* of another replica's request.                                            *)
AnyKeyRow(k) ==
    IF keys[k].id # NoEvent \/ \A other \in Keys : keys[other].id = NoEvent
    THEN keys[k]
    ELSE keys[CHOOSE other \in Keys : keys[other].id # NoEvent]

(* The SELECT on idempotency_keys. *)
KeyRowOf(k) == keys[k]

(* read_idempotent_event: the key row ... *)
LookupKey(t) ==
    /\ task[t].pc = "lookup"
    /\ LET row == KeyRowOf(task[t].key) IN
       \/ /\ row.id # NoEvent
          /\ WithinReplayWindow(row.at, task[t].now)
          /\ task' = [task EXCEPT ![t] = [@ EXCEPT !.pc = "readEvent", !.id = row.id,
                                                   !.keyAt = row.at]]
       \/ /\ row.id = NoEvent \/ ~WithinReplayWindow(row.at, task[t].now)
          /\ task' = [task EXCEPT ![t] = [@ EXCEPT !.pc = "nextSequence"]]
    /\ UNCHANGED <<tableVars, slot, jobVars, readerVars, clock, faults, history>>

(* The call hands its cache back and is over. *)
Ends(t, cache) ==
    /\ slot' = Restored(cache)
    /\ task' = [task EXCEPT ![t] = Idle]

Remembers(cache, k, entry) ==
    IF cache.present THEN WithEntry(cache, k, entry) ELSE cache

(* ... and, in a statement of its own, the event it points at.  Found, it   *)
(* is cached under the created_at of the key row and answers the call; an   *)
(* event that is gone makes the request a new one.                          *)
ReadEvent(t) ==
    /\ task[t].pc = "readEvent"
    /\ LET me  == task[t]
           row == events[me.id] IN
       \/ /\ me.id \in Stored
          /\ answered' = [answered EXCEPT ![me.key] = @ \cup {row.packed}]
          /\ Ends(t, Remembers(me.cache, me.key,
                     [id |-> row.packed, erased |-> row.erased, at |-> me.keyAt]))
       \/ /\ me.id \notin Stored
          /\ task' = [task EXCEPT ![t] = [@ EXCEPT !.pc = "nextSequence",
                                                   !.id = NoEvent, !.keyAt = 0]]
          /\ UNCHANGED <<slot, answered>>
    /\ UNCHANGED <<tableVars, jobVars, readerVars, clock, faults, minted, fanned>>

(* next_sequence: COALESCE(MAX(sequence), 0) + 1. *)
NextSequence(t) ==
    /\ task[t].pc = "nextSequence"
    /\ task' = [task EXCEPT ![t] = [@ EXCEPT !.pc = "insert",
                                             !.seq = HeadSequence + 1]]
    /\ UNCHANGED <<tableVars, slot, jobVars, readerVars, clock, faults, history>>

(* Mutant of InsertEvent: INSERT OR REPLACE.                                *)
InsertsOrReplaces(t) ==
    /\ task[t].pc = "insert"
    /\ \E id \in EventIds :
         /\ NextEventId(id)
         /\ events' = [i \in EventIds |->
              IF i = id THEN [seq |-> task[t].seq, packed |-> id, erased |-> FALSE,
                              at |-> task[t].now]
              ELSE IF events[i].seq = task[t].seq THEN NoRow ELSE events[i]]
         /\ minted' = [minted EXCEPT ![id] = [key |-> task[t].key, at |-> task[t].now,
                                              seq |-> task[t].seq]]
         /\ task' = [task EXCEPT ![t] = [@ EXCEPT !.pc = "upsert", !.id = id]]
    /\ UNCHANGED <<slot, keys, jobVars, readerVars, clock, faults, fanned, answered>>

(* The INSERT.  A sequence another call took meanwhile is a primary-key     *)
(* error: the cache goes back and the caller gets the error, nothing        *)
(* retries.                                                                 *)
InsertEvent(t) ==
    /\ task[t].pc = "insert"
    /\ LET me == task[t] IN
       \/ /\ me.seq \in UsedSequences
          /\ Ends(t, me.cache)
          /\ UNCHANGED <<events, minted>>
       \/ /\ me.seq \notin UsedSequences
          /\ \E id \in EventIds :
               /\ NextEventId(id)
               /\ events' = [events EXCEPT ![id] = [seq |-> me.seq, packed |-> id,
                                                    erased |-> FALSE, at |-> me.now]]
               /\ minted' = [minted EXCEPT ![id] = [key |-> me.key, at |-> me.now,
                                                    seq |-> me.seq]]
               /\ task' = [task EXCEPT ![t] = [@ EXCEPT !.pc = "upsert", !.id = id]]
          /\ UNCHANGED slot
    /\ UNCHANGED <<keys, jobVars, readerVars, clock, faults, fanned, answered>>

(* The UPSERT of the key row: a row from beyond the window is rewritten.    *)
UpsertKey(t) ==
    /\ task[t].pc = "upsert"
    /\ keys' = [keys EXCEPT ![task[t].key] = [id |-> task[t].id, at |-> task[t].now]]
    /\ task' = [task EXCEPT ![t] = [@ EXCEPT !.pc = "restore"]]
    /\ UNCHANGED <<events, slot, jobVars, readerVars, clock, faults, history>>

(* The created event is cached and the cache restored, ... *)
RestoreCache(t) ==
    /\ task[t].pc = "restore"
    /\ LET me == task[t] IN
       /\ slot' = Restored(Remembers(me.cache, me.key,
                     [id |-> me.id, erased |-> FALSE, at |-> me.now]))
       /\ task' = [task EXCEPT ![t] = [@ EXCEPT !.pc = "notify", !.cache = NoCache]]
    /\ UNCHANGED <<tableVars, jobVars, readerVars, clock, faults, history>>

(* Mutant of Notify: the write listener is forgotten.                       *)
AnswersWithoutNotifying(t) ==
    /\ task[t].pc = "notify"
    /\ answered' = [answered EXCEPT ![task[t].key] = @ \cup {task[t].id}]
    /\ task' = [task EXCEPT ![t] = Idle]
    /\ UNCHANGED <<tableVars, slot, jobVars, readerVars, clock, faults, minted, fanned>>

(* ... and, after the search projector's statements, the write listener     *)
(* gets the event and the client its answer.                                *)
Notify(t) ==
    /\ task[t].pc = "notify"
    /\ fanned' = [fanned EXCEPT ![task[t].id] = @ + 1]
    /\ answered' = [answered EXCEPT ![task[t].key] = @ \cup {task[t].id}]
    /\ task' = [task EXCEPT ![t] = Idle]
    /\ UNCHANGED <<tableVars, slot, jobVars, readerVars, clock, faults, minted>>

-----------------------------------------------------------------------------
(* Faults.                                                                 *)

(* A statement of the append fails: `append?` after the restore. *)
StatementFails(t) ==
    /\ faults < MaxFaults
    /\ task[t].pc \in {"lookup", "readEvent", "nextSequence", "insert", "upsert"}
    /\ Ends(t, task[t].cache)
    /\ faults' = faults + 1
    /\ UNCHANGED <<tableVars, jobVars, readerVars, clock, history>>

(* The client disconnects and the call's future is dropped at an await; the *)
(* cache it had taken goes with it and the slot stays empty.                *)
CallDropped(t) ==
    /\ Dialect = "postgres"
    /\ faults < MaxFaults
    /\ task[t].pc \notin {"idle", "restore"}
    /\ task' = [task EXCEPT ![t] = Idle]
    /\ faults' = faults + 1
    /\ UNCHANGED <<tableVars, slot, jobVars, readerVars, clock, history>>

(* The process dies and starts again on the same file. *)
Crash ==
    /\ faults < MaxFaults
    /\ task' = [t \in Tasks |-> Idle]
    /\ slot' = FreshCache
    /\ pruner' = [pc |-> "idle", now |-> 0]
    /\ retainer' = "idle"
    /\ redactor' = RedactorIdle
    /\ faults' = faults + 1
    /\ UNCHANGED <<tableVars, readerVars, clock, history>>

-----------------------------------------------------------------------------
(* prune of idempotency_keys.                                              *)

PruneStarts ==
    /\ pruner.pc = "idle"
    /\ pruner' = [pc |-> "delete", now |-> clock]
    /\ UNCHANGED <<tableVars, slot, task, retainer, redactor, readerVars, clock,
                   faults, history>>

KeyRows == {k \in Keys : keys[k].id # NoEvent}
TooOld(now) == {k \in KeyRows : keys[k].at < now - KeyRetention}

(* The cap pass deletes the `overflow` oldest rows by created_at; ties go   *)
(* by rowid, which the model leaves open.                                   *)
CapPass(kept, dropped) ==
    /\ Cardinality(dropped) = IF Cardinality(kept \cup dropped) > MaxKeyRows
                              THEN Cardinality(kept \cup dropped) - MaxKeyRows ELSE 0
    /\ \A d \in dropped, k \in kept : keys[d].at <= keys[k].at

(* RunResult::changes of a DELETE without RETURNING: the Postgres driver    *)
(* counts the rows the statement returned, which are none.                  *)
Changes(deleted) == IF Dialect = "sqlite" THEN Cardinality(deleted) ELSE 0

(* The transaction: the age pass, then the cap pass.  The cache is rebuilt  *)
(* only if `changes` says that a row was deleted.                           *)
PruneDeletes ==
    /\ pruner.pc = "delete"
    /\ \E dropped \in SUBSET (KeyRows \ TooOld(pruner.now)) :
         LET kept == (KeyRows \ TooOld(pruner.now)) \ dropped IN
         /\ CapPass(kept, dropped)
         /\ dropped # {} => Dialect = "sqlite"
         /\ keys' = [k \in Keys |-> IF k \in kept THEN keys[k] ELSE NoKeyRow]
         /\ pruner' = [pc |-> IF Changes(KeyRows \ kept) > 0 THEN "swap" ELSE "idle",
                       now |-> 0]
    /\ UNCHANGED <<events, slot, task, retainer, redactor, readerVars, clock,
                   faults, history>>

(* The cap pass names SQLite's rowid, a column Postgres does not have: with *)
(* more rows than the cap the transaction is rolled back, age pass and all, *)
(* and safe_prune logs the error.                                           *)
PruneFails ==
    /\ pruner.pc = "delete"
    /\ Dialect = "postgres"
    /\ Cardinality(KeyRows \ TooOld(pruner.now)) > MaxKeyRows
    /\ pruner' = [pc |-> "idle", now |-> 0]
    /\ UNCHANGED <<tableVars, slot, task, retainer, redactor, readerVars, clock,
                   faults, history>>

PruneSwapsCache ==
    /\ pruner.pc = "swap"
    /\ slot' = FreshCache
    /\ pruner' = [pc |-> "idle", now |-> 0]
    /\ UNCHANGED <<tableVars, task, retainer, redactor, readerVars, clock, faults,
                   history>>

-----------------------------------------------------------------------------
(* prune_retention of this stream's type: two statements.                  *)

RetainByAge ==
    /\ retainer = "idle"
    /\ Retained
    /\ retainer' = "count"
    /\ events' = [id \in EventIds |->
                    IF MaxAge > 0 /\ events[id].at < clock - MaxAge
                    THEN NoRow ELSE events[id]]
    /\ UNCHANGED <<keys, slot, task, pruner, redactor, readerVars, clock, faults,
                   history>>

RetainByCount ==
    /\ retainer = "count"
    /\ retainer' = "idle"
    /\ events' = [id \in EventIds |->
                    IF events[id].seq <= HeadSequence - MaxEvents
                    THEN NoRow ELSE events[id]]
    /\ UNCHANGED <<keys, slot, task, pruner, redactor, readerVars, clock, faults,
                   history>>

-----------------------------------------------------------------------------
(* redact_by_field: list the author's events, then for each a SELECT and    *)
(* an UPDATE by sequence.  The front-cache is not told.                     *)

AuthoredBy(k) == {id \in Stored : /\ minted[events[id].packed].key = k
                                  /\ ~events[id].erased}

RedactLists(k) ==
    /\ redactor.pc = "idle"
    /\ AuthoredBy(k) # {}
    /\ redactor' = [pc |-> "read", targets |-> {events[id].seq : id \in AuthoredBy(k)},
                    packed |-> NoEvent]
    /\ UNCHANGED <<tableVars, slot, task, pruner, retainer, readerVars, clock, faults,
                   history>>

FirstTarget == CHOOSE s \in redactor.targets : \A other \in redactor.targets : s <= other

(* The redactor goes on with the targets left. *)
RedactsRest ==
    LET rest == redactor.targets \ {FirstTarget} IN
    redactor' = [pc |-> IF rest = {} THEN "idle" ELSE "read", targets |-> rest,
                 packed |-> NoEvent]

RedactReads ==
    /\ redactor.pc = "read"
    /\ \/ /\ FirstTarget \notin UsedSequences
          /\ RedactsRest
       \/ \E id \in Stored :
            /\ events[id].seq = FirstTarget
            /\ redactor' = [redactor EXCEPT !.pc = "write", !.packed = events[id].packed]
    /\ UNCHANGED <<tableVars, slot, task, pruner, retainer, readerVars, clock, faults,
                   history>>

(* The tuple that was read, without its payload, is written over whatever   *)
(* row has the sequence by now.                                             *)
RedactWrites ==
    /\ redactor.pc = "write"
    /\ events' = [id \in EventIds |->
                    IF id \in Stored /\ events[id].seq = FirstTarget
                    THEN [events[id] EXCEPT !.packed = redactor.packed, !.erased = TRUE]
                    ELSE events[id]]
    /\ RedactsRest
    /\ UNCHANGED <<keys, slot, task, pruner, retainer, readerVars, clock, faults,
                   history>>

-----------------------------------------------------------------------------
(* A follower reads everything after its cursor and moves the cursor to the *)
(* last sequence it was given.                                              *)
Read ==
    /\ \E id \in Stored : events[id].seq > cursor
    /\ seen' = seen \cup {events[id].packed : id \in {i \in Stored : events[i].seq > cursor}}
    /\ cursor' = HeadSequence
    /\ UNCHANGED <<tableVars, slot, task, jobVars, clock, faults, history>>

Tick == /\ clock < MaxTime
        /\ \A t \in Tasks : task[t].pc # "idle" => clock < task[t].now + CallTime
        /\ clock' = clock + 1
        /\ UNCHANGED <<tableVars, slot, task, jobVars, readerVars, faults, history>>

AppendStep(t) == \/ LookupKey(t) \/ ReadEvent(t) \/ NextSequence(t) \/ InsertEvent(t)
                 \/ UpsertKey(t) \/ RestoreCache(t) \/ Notify(t)

Next == \/ \E t \in Tasks : \/ \E k \in Keys : AppendHitsCache(t, k) \/ AppendMisses(t, k)
                            \/ AppendStep(t)
                            \/ StatementFails(t) \/ CallDropped(t)
        \/ Crash
        \/ PruneStarts \/ PruneDeletes \/ PruneFails \/ PruneSwapsCache
        \/ RetainByAge \/ RetainByCount
        \/ \E k \in Redacts : RedactLists(k)
        \/ RedactReads \/ RedactWrites
        \/ Read
        \/ Tick

Spec == Init /\ [][Next]_vars

(* A call that started is polled until it returns (the runtime schedules    *)
(* every ready task and the driver answers every statement).                    *)
LiveSpec == Spec /\ \A t \in Tasks : WF_vars(AppendStep(t))

-----------------------------------------------------------------------------
(* Properties.                                                             *)

(* A request is only ever answered with an event that was created for it:   *)
(* neither the key rows, nor a cache that changed hands, nor a redaction    *)
(* that wrote over a row hands one client the event of another.             *)
AnswersOwnRequest ==
    \A k \in Keys : \A id \in answered[k] :
        id \in EventIds /\ minted[id].key = k

(* A follower never misses an event: whatever lies at or below its cursor   *)
(* it has been given, so no append lands behind a cursor, whatever races    *)
(* between reading MAX(sequence) and the INSERT.                            *)
FollowerMissesNothing ==
    \A id \in Stored : events[id].seq <= cursor => events[id].packed \in seen

(* threat-model.md:253-254: "The append path is idempotent on (requestId,   *)
(* replicaId): a duplicate submission returns the original event": as long  *)
(* as no fault cuts an append in two, the stream holds no two events of one *)
(* request from within one replay window.                                   *)
OncePerWindow ==
    faults = 0 =>
        \A i, j \in Stored :
            (i < j /\ minted[i].key = minted[j].key)
                => ReplayWindow > 0 /\ minted[j].at > minted[i].at + ReplayWindow

(* The events as EventLog has them: by sequence, with the request each was  *)
(* created for; due are those whose append has not notified yet.            *)
EventAt(s) == CHOOSE id \in Stored : events[id].seq = s
Abstract == INSTANCE EventLog WITH
    Requests <- Keys,
    log <- [s \in 1..HeadSequence |-> minted[EventAt(s)].key],
    due <- {minted[task[t].id].seq : t \in {u \in Tasks : task[u].pc \in {"upsert", "restore", "notify"}}},
    told <- {minted[id].seq : id \in {i \in EventIds : fanned[i] > 0}}

(* The appends, retries, prunes, redactions and faults of a stream without  *)
(* retention only ever do what EventLog allows: sequences have no hole, an  *)
(* event is never renumbered, replaced or given to another request, and the *)
(* write listener never gets an event that is not stored or twice.          *)
ImplementsEventLog == Abstract!LogSpec

(* Every durable event reaches the write listener, unless a fault came      *)
(* between: the retry of a call that died after the UPSERT is a replay and  *)
(* never fans out.                                                          *)
DurableIsFannedOut ==
    \A id \in EventIds : minted[id] # NotMinted ~> (fanned[id] = 1 \/ faults > 0)
=============================================================================
