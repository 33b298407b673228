----------------------------- MODULE JobWorker -----------------------------
(***************************************************************************)
(* The durable job queue at work: callers of `enqueue`, any number of      *)
(* JobWorkers (crates/frick-server/src/jobs/worker.rs) polling one table,  *)
(* and legacy `nextJob` callers.  Each step is one SQL statement or one    *)
(* await of the code, so every interleaving of workers, enqueuers and the  *)
(* clock is a behaviour.  A worker may be aborted between any two steps    *)
(* (JobWorkerHandle::stop aborts the task, a panic or a crash ends it) and *)
(* any write may fail; both are logged at most (MaxAborts, MaxLost).       *)
(***************************************************************************)
EXTENDS JobStore

CONSTANTS
    Callers,      \* tasks calling enqueue
    Requests,     \* the [key, type, maxAttempts] they ask for
    Handled,      \* the job types that have a registered handler
    LegacyTypes,  \* the job types popped with nextJob
    BatchSize,    \* claim_batch_size
    MaxTime,      \* bound: the clock stops here
    MaxLost,      \* bound: lost writes per behaviour
    MaxAborts     \* bound: aborts per behaviour

ASSUME RequestsAssumption ==
    Requests \subseteq [key : Keys \cup {NoKey}, type : Types,
                         maxAttempts : MaxAttempts]
ASSUME BatchAssumption == BatchSize \in Nat
ASSUME BoundsAssumption == MaxTime \in Nat /\ MaxLost \in Nat /\ MaxAborts \in Nat

VARIABLES
    call,      \* call[c]: caller c's enqueue, its step, input and answer
    pc,        \* pc[w]: the step of worker w inside poll_once
    batch,     \* batch[w]: the claimed jobs of this tick not yet finished
    current,   \* current[w]: the job run_job is working on
    tickNow,   \* tickNow[w]: the now_ms of this tick
    verdict,   \* verdict[w]: may the failure be retried
    seen,      \* seen[w]: the row fail's SELECT returned
    lost,      \* lost writes so far
    aborts     \* aborts so far

vars == <<jobs, clock, call, pc, batch, current, tickNow, verdict, seen, lost, aborts>>
faultVars == <<lost, aborts>>
workerVars == <<pc, batch, current, tickNow, verdict, seen>>

NoJob == -1
NothingSeen == [attempts |-> 0, maxAttempts |-> CHOOSE m \in MaxAttempts : TRUE]
(* What is kept of a call that has returned: its key. *)
Asked(key) == [key |-> key, type |-> CHOOSE t \in Types : TRUE,
               availableAt |-> 0, maxAttempts |-> CHOOSE m \in MaxAttempts : TRUE]
(* available_at defaults to the now_ms of the call. *)
InputNow(request) == [key |-> request.key, type |-> request.type,
                      availableAt |-> clock, maxAttempts |-> request.maxAttempts]

TypeOK ==
    /\ TableOK
    /\ clock \in 0..MaxTime
    /\ call \in [Callers -> [step : {"idle", "insert", "ok", "error"},
                             input : EnqueueInput,
                             answer : JobIds \cup {NoJob}]]
    /\ pc \in [Workers -> {"idle", "handle", "complete", "failRead", "failWrite"}]
    /\ batch \in [Workers -> SUBSET JobIds]
    /\ current \in [Workers -> JobIds \cup {NoJob}]
    /\ tickNow \in [Workers -> Int]
    /\ verdict \in [Workers -> BOOLEAN]
    /\ seen \in [Workers -> [attempts : Nat, maxAttempts : MaxAttempts]]
    /\ lost \in 0..MaxLost
    /\ aborts \in 0..MaxAborts

Init ==
    /\ jobs = EmptyTable
    /\ clock = 0
    /\ call = [c \in Callers |-> [step |-> "idle", input |-> Asked(NoKey),
                                  answer |-> NoJob]]
    /\ pc = [w \in Workers |-> "idle"]
    /\ batch = [w \in Workers |-> {}]
    /\ current = [w \in Workers |-> NoJob]
    /\ tickNow = [w \in Workers |-> 0]
    /\ verdict = [w \in Workers |-> FALSE]
    /\ seen = [w \in Workers |-> NothingSeen]
    /\ lost = 0 /\ aborts = 0

-----------------------------------------------------------------------------
(* enqueue: a lookup by key, then, in a statement of its own, the INSERT.  *)

(* A row with the key answers the call, whatever its status. *)
EnqueueFindsRow(c, request) ==
    /\ call[c].step # "insert"
    /\ request.key # NoKey
    /\ \E id \in RowsWithKey(request.key) :
         call' = [call EXCEPT ![c] = [step |-> "ok", input |-> Asked(request.key),
                                      answer |-> id]]
    /\ UNCHANGED <<jobs, clock, workerVars, faultVars>>

EnqueueMisses(c, request) ==
    /\ call[c].step # "insert"
    /\ request.key = NoKey \/ RowsWithKey(request.key) = {}
    /\ call' = [call EXCEPT ![c] = [step |-> "insert", input |-> InputNow(request),
                                    answer |-> NoJob]]
    /\ UNCHANGED <<jobs, clock, workerVars, faultVars>>

(* The INSERT either adds a row or meets a key another caller inserted since *)
(* the lookup: the unique-index error is the caller's, nobody retries.       *)
EnqueueInserts(c) ==
    /\ call[c].step = "insert"
    /\ \/ /\ IndexAccepts(call[c].input.key)
          /\ \E id \in JobIds :
               /\ NextId(id)
               /\ InsertRow(id, call[c].input)
               /\ call' = [call EXCEPT ![c] = [step |-> "ok", answer |-> id,
                                 input |-> Asked(call[c].input.key)]]
       \/ /\ ~IndexAccepts(call[c].input.key)
          /\ call' = [call EXCEPT ![c] = [step |-> "error", answer |-> NoJob,
                            input |-> Asked(call[c].input.key)]]
          /\ UNCHANGED jobs
    /\ UNCHANGED <<clock, workerVars, faultVars>>

-----------------------------------------------------------------------------
(* poll_once and run_job. *)

(* The claim of a tick.  now_ms is read once and threads through every call *)
(* the tick makes.  A claim that matches nothing ends the tick at once.     *)
PollOnce(w) ==
    /\ pc[w] = "idle" /\ batch[w] = {}
    /\ \E claimed \in SUBSET Claimable(Types, clock) \ {{}} :
         /\ IsClaimBatch(claimed, Types, BatchSize, clock)
         /\ ClaimRows(claimed, w)
         /\ batch' = [batch EXCEPT ![w] = claimed]
    /\ tickNow' = [tickNow EXCEPT ![w] = clock]
    /\ UNCHANGED <<clock, call, pc, current, verdict, seen, faultVars>>

(* The UPDATE of claim went through, but one returned row cannot be decoded *)
(* (map_row) or the answer is lost: the whole claim is an error, the tick   *)
(* ends and nobody knows the rows are running.                              *)
ClaimLost(w) ==
    /\ lost < MaxLost
    /\ pc[w] = "idle" /\ batch[w] = {}
    /\ \E claimed \in SUBSET Claimable(Types, clock) \ {{}} :
         /\ IsClaimBatch(claimed, Types, BatchSize, clock)
         /\ ClaimRows(claimed, w)
    /\ lost' = lost + 1
    /\ UNCHANGED <<clock, call, workerVars, aborts>>

(* run_job resolves the handler; without one the job fails for good. *)
RunJob(w) ==
    /\ pc[w] = "idle"
    /\ \E id \in batch[w] :
         /\ current' = [current EXCEPT ![w] = id]
         /\ \/ /\ jobs[id].type \in Handled
               /\ pc' = [pc EXCEPT ![w] = "handle"]
               /\ UNCHANGED verdict
            \/ /\ jobs[id].type \notin Handled
               /\ pc' = [pc EXCEPT ![w] = "failRead"]
               /\ verdict' = [verdict EXCEPT ![w] = FALSE]
    /\ UNCHANGED <<jobs, clock, call, batch, tickNow, seen, faultVars>>

(* handler.handle(ctx).await comes back: Ok, or Err with its retryable flag. *)
HandlerReturns(w) ==
    /\ pc[w] = "handle"
    /\ \/ /\ pc' = [pc EXCEPT ![w] = "complete"]
          /\ UNCHANGED verdict
       \/ /\ pc' = [pc EXCEPT ![w] = "failRead"]
          /\ \E retryable \in BOOLEAN :
               verdict' = [verdict EXCEPT ![w] = retryable]
    /\ UNCHANGED <<jobs, clock, call, batch, current, tickNow, seen, faultVars>>

(* The worker keeps the jobs in `rest`, is between two of them, and the     *)
(* locals of run_job and fail are gone (they get their initial values).     *)
BetweenJobs(w, rest) ==
    /\ pc' = [pc EXCEPT ![w] = "idle"]
    /\ batch' = [batch EXCEPT ![w] = rest]
    /\ current' = [current EXCEPT ![w] = NoJob]
    /\ verdict' = [verdict EXCEPT ![w] = FALSE]
    /\ seen' = [seen EXCEPT ![w] = NothingSeen]
    /\ tickNow' = [tickNow EXCEPT ![w] = IF rest = {} THEN 0 ELSE @]

(* The job leaves the worker's hands: the for loop of poll_once moves on. *)
NextInBatch(w) == BetweenJobs(w, batch[w] \ {current[w]})

CompleteJob(w) ==
    /\ pc[w] = "complete"
    /\ CompleteRow(current[w])
    /\ NextInBatch(w)
    /\ UNCHANGED <<clock, call, faultVars>>

(* fail reads the row ... *)
FailReads(w) ==
    /\ pc[w] = "failRead"
    /\ seen' = [seen EXCEPT ![w] = [attempts |-> jobs[current[w]].attempts,
                                    maxAttempts |-> jobs[current[w]].maxAttempts]]
    /\ pc' = [pc EXCEPT ![w] = "failWrite"]
    /\ UNCHANGED <<jobs, clock, call, batch, current, tickNow, verdict, faultVars>>

(* ... and then writes what it decided on the row it read. *)
FailWrites(w) ==
    /\ pc[w] = "failWrite"
    /\ FailRow(current[w], seen[w], verdict[w], tickNow[w])
    /\ NextInBatch(w)
    /\ UNCHANGED <<clock, call, faultVars>>

(* A store error in complete or fail is logged and swallowed. *)
WriteLost(w) ==
    /\ lost < MaxLost
    /\ pc[w] \in {"complete", "failRead", "failWrite"}
    /\ NextInBatch(w)
    /\ lost' = lost + 1
    /\ UNCHANGED <<jobs, clock, call, aborts>>

(* The task is aborted or its process dies, and a worker with the same id   *)
(* starts over: whatever the tick had claimed is forgotten.                 *)
Abort(w) ==
    /\ aborts < MaxAborts
    /\ batch[w] # {}
    /\ BetweenJobs(w, {})
    /\ aborts' = aborts + 1
    /\ UNCHANGED <<jobs, clock, call, lost>>

(* nextJob: claim one job of the type and hand its payload to the caller. *)
NextJob(type) ==
    /\ \E id \in Claimable({type}, clock) :
         /\ IsClaimBatch({id}, {type}, 1, clock)
         /\ ClaimRows({id}, Legacy)
    /\ UNCHANGED <<clock, call, workerVars, faultVars>>

Tick == /\ clock < MaxTime
        /\ clock' = clock + 1
        /\ UNCHANGED <<jobs, call, workerVars, faultVars>>

-----------------------------------------------------------------------------

WorkerStep(w) == \/ PollOnce(w) \/ RunJob(w) \/ HandlerReturns(w)
                 \/ CompleteJob(w) \/ FailReads(w) \/ FailWrites(w)

Fault(w) == ClaimLost(w) \/ WriteLost(w) \/ Abort(w)

CallerStep(c) ==
    \/ \E request \in Requests : \/ EnqueueFindsRow(c, request)
                                \/ EnqueueMisses(c, request)
    \/ EnqueueInserts(c)

Next == \/ \E c \in Callers : CallerStep(c)
        \/ \E w \in Workers : WorkerStep(w) \/ Fault(w)
        \/ \E type \in LegacyTypes : NextJob(type)
        \/ Tick

(* Fairness.  A started worker's loop ticks forever and runs every job it   *)
(* claimed to the end (MissedTickBehavior::Skip delays ticks, it never      *)
(* stops them); handlers return; time passes.  Callers owe nothing.         *)
Fairness == /\ \A w \in Workers : WF_vars(WorkerStep(w))
            /\ WF_vars(Tick)

Spec == Init /\ [][Next]_vars
LiveSpec == Spec /\ Fairness

-----------------------------------------------------------------------------
(* Properties.                                                             *)

(* A running row no worker is working on and no nextJob caller took: its    *)
(* worker was aborted or the write that ended the job was lost.             *)
Orphan(id) == /\ jobs[id].status = "running"
              /\ jobs[id].claimedBy # Legacy
              /\ \A w \in Workers : id \notin batch[w]

Settled(id) == jobs[id].status \in Terminal

(* "two workers polling concurrently each see a disjoint slice" (claim): no *)
(* job is in the hands of two workers, across re-arms, aborts and lost      *)
(* writes, although complete and fail never ask who claimed the row.        *)
ExclusiveExecution ==
    \A v, w \in Workers : v # w => batch[v] \cap batch[w] = {}

(* A job is never run more often than its max_attempts allows: claim counts *)
(* without looking at the budget, so this rests on fail, which decides from *)
(* a row it read earlier.  The first run is always granted, even to a       *)
(* max_attempts of zero.                                                    *)
AttemptBudget ==
    \A id \in JobIds : \/ jobs[id].attempts <= jobs[id].maxAttempts
                       \/ jobs[id].attempts <= 1

(* A ready row has an attempt left, so that claim may count without asking. *)
ReadyHasBudget ==
    \A id \in JobIds : jobs[id].status = "ready" =>
        jobs[id].attempts = 0 \/ jobs[id].attempts < jobs[id].maxAttempts

(* What a worker believes of the rows it holds stays true while handlers    *)
(* run and others poll: they are running, the one in work is among them,    *)
(* and what fail read of it is still what the table says when fail writes.  *)
HeldRowsAreRunning ==
    \A w \in Workers :
        /\ \A id \in batch[w] : jobs[id].status = "running"
        /\ pc[w] # "idle" => current[w] \in batch[w]
        /\ pc[w] = "failWrite" =>
             seen[w] = [attempts |-> jobs[current[w]].attempts,
                        maxAttempts |-> jobs[current[w]].maxAttempts]

(* Two enqueues that were answered with the same idempotency key were       *)
(* answered with the same row, whatever raced between lookup and INSERT.    *)
SameKeySameJob ==
    \A c, d \in Callers :
        (/\ call[c].step = "ok" /\ call[d].step = "ok"
         /\ call[c].input.key = call[d].input.key
         /\ call[c].input.key # NoKey) => call[c].answer = call[d].answer

(* A completed or dead-lettered row is never written again: fail's UPDATE   *)
(* has no status in its WHERE, so a late fail would bring it back.          *)
TerminalIsFinal ==
    [][\A id \in JobIds : Settled(id) => jobs'[id] = jobs[id]]_vars

(* Every job of a handled type is finally completed or dead-lettered, or    *)
(* orphaned by a fault, or its next attempt lies beyond the model's clock:  *)
(* nothing else stops it.                                                   *)
JobsSettle ==
    \A id \in JobIds : (jobs[id].status = "ready" /\ jobs[id].type \in Handled)
        ~> \/ Settled(id)
           \/ Orphan(id) /\ lost + aborts > 0
           \/ jobs[id].availableAt > MaxTime
=============================================================================
