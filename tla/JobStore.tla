------------------------------ MODULE JobStore ------------------------------
(***************************************************************************)
(* The `jobs` table of crates/frick-store/src/stores/job.rs and the four   *)
(* statements that write it: enqueue's INSERT, claim's UPDATE, complete's  *)
(* UPDATE and fail's two UPDATEs.  Every operator below is one SQL         *)
(* statement and is atomic; what happens between two statements of a       *)
(* method is the business of the modules that use this one (JobWorker,     *)
(* RecurringScheduler).                                                    *)
(*                                                                         *)
(* Data abstraction.  Time is in minutes: the backoff base of 60 s is 1    *)
(* and its cap of 5 min is 5.  `packed`, the error code and the error      *)
(* message are dropped.  A key stands for the whole unique-index tuple     *)
(* (app_id, tenant_id, job_type, idempotency_key).  `failed_at` is kept as *)
(* `failedAt` (-1 for NULL) because it dates the last failure.             *)
(***************************************************************************)
EXTENDS Integers, FiniteSets

CONSTANTS
    JobIds,       \* the row ids the table may hand out
    Keys,         \* idempotency keys
    Types,        \* job types
    Workers,      \* the worker_id strings of JobWorkers
    MaxAttempts,  \* the max_attempts values callers pass
    NoKey,        \* idempotency_key IS NULL
    Nobody,       \* claimed_by IS NULL
    Legacy        \* the worker id `legacy:<tenant>` of nextJob

ASSUME JobIdsAssumption == JobIds \subseteq Nat
ASSUME MaxAttemptsAssumption == MaxAttempts \subseteq Int /\ MaxAttempts # {}
ASSUME TypesAssumption == Types # {}
ASSUME NamesAssumption == /\ NoKey \notin Keys
                          /\ Nobody \notin Workers
                          /\ Legacy \notin Workers
                          /\ Nobody # Legacy

VARIABLES
    jobs,     \* the table: one row for every id, status "none" = no row
    clock     \* wall-clock time, which the statements are given

Terminal == {"completed", "dead_lettered"}

Row == [status      : {"none", "ready", "running"} \cup Terminal,
        key         : Keys \cup {NoKey},
        type        : Types,
        availableAt : Int,
        attempts    : Nat,
        maxAttempts : MaxAttempts,
        claimedBy   : Workers \cup {Nobody, Legacy},
        failedAt    : Int]

TableOK == jobs \in [JobIds -> Row]

(* What a caller of `enqueue` passes. *)
EnqueueInput == [key : Keys \cup {NoKey}, type : Types,
                 availableAt : Int, maxAttempts : MaxAttempts]

Present(id) == jobs[id].status # "none"

EmptyTable == [id \in JobIds |->
    [status |-> "none", key |-> NoKey, type |-> CHOOSE t \in Types : TRUE,
     availableAt |-> 0, attempts |-> 0,
     maxAttempts |-> CHOOSE m \in MaxAttempts : TRUE,
     claimedBy |-> Nobody, failedAt |-> -1]]

-----------------------------------------------------------------------------

(* job_backoff_ms: min(60 s * 2^(max(1, attempt) - 1), 5 min), in minutes.  *)
(* The exponents 0, 1 and 2 stay under the cap, every other one is capped.  *)
JobBackoff(attempt) == IF attempt <= 1 THEN 1
                       ELSE IF attempt = 2 THEN 2
                       ELSE IF attempt = 3 THEN 4 ELSE 5

(* find_by_idempotency_key: the rows, in ANY status, carrying the key. *)
RowsWithKey(key) == {id \in JobIds : Present(id) /\ jobs[id].key = key}

(* The id the next INSERT gets: ids are handed out in increasing order and  *)
(* rows are never deleted.                                                  *)
NextId(id) == /\ ~Present(id)
              /\ \A other \in JobIds : other < id => Present(other)

(* Mutant of IndexAccepts: the unique index is missing. *)
IndexMissing(key) == TRUE

(* The unique index lets a NULL key through and refuses a key it holds. *)
IndexAccepts(key) == key = NoKey \/ RowsWithKey(key) = {}

(* enqueue's INSERT: a fresh row, ready, with no attempt spent. *)
InsertRow(id, input) ==
    jobs' = [jobs EXCEPT ![id] = [status |-> "ready",
                                  key |-> input.key,
                                  type |-> input.type,
                                  availableAt |-> input.availableAt,
                                  attempts |-> 0,
                                  maxAttempts |-> input.maxAttempts,
                                  claimedBy |-> Nobody,
                                  failedAt |-> -1]]

(* Mutant of Claimable: running rows are taken over without any lease. *)
ClaimableOrRunning(types, now) ==
    {id \in JobIds : /\ jobs[id].status \in {"ready", "running"}
                     /\ jobs[id].availableAt <= now
                     /\ jobs[id].type \in types}

(* The rows claim's sub-SELECT matches. *)
Claimable(types, now) ==
    {id \in JobIds : /\ jobs[id].status = "ready"
                     /\ jobs[id].availableAt <= now
                     /\ jobs[id].type \in types}

(* ORDER BY available_at ASC, id ASC *)
Before(a, b) == \/ jobs[a].availableAt < jobs[b].availableAt
                \/ jobs[a].availableAt = jobs[b].availableAt /\ a < b

(* LIMIT n: `batch` is the first n matching rows, or all of them. *)
IsClaimBatch(batch, types, limit, now) ==
    /\ batch \subseteq Claimable(types, now)
    /\ Cardinality(batch) <= limit
    /\ \A a \in batch, b \in Claimable(types, now) \ batch : Before(a, b)
    /\ Cardinality(batch) = limit \/ batch = Claimable(types, now)

(* claim's UPDATE ... RETURNING: one statement, the attempt is spent here. *)
ClaimRows(batch, worker) ==
    jobs' = [id \in JobIds |->
               IF id \in batch
               THEN [jobs[id] EXCEPT !.status = "running",
                                     !.claimedBy = worker,
                                     !.attempts = @ + 1]
               ELSE jobs[id]]

(* complete's UPDATE: refused only for a dead-lettered row; it asks neither *)
(* who claimed the row nor whether it is still running.                     *)
CompleteRow(id) ==
    jobs' = [jobs EXCEPT ![id].status =
               IF @ = "dead_lettered" THEN @ ELSE "completed"]

(* Mutant of Retries: neither the flag nor the budget is looked at. *)
RetriesAlways(row, retryable) == row.attempts > 0

(* The decision fail takes on the row it read. *)
Retries(row, retryable) == retryable /\ row.attempts < row.maxAttempts

(* Mutants of FailRow: dead letters get the synthetic `failed` status; the   *)
(* re-armed row stays 'running'.                                             *)
FailsAsFailed(id, seen, retryable, now) ==
    jobs' = [jobs EXCEPT ![id] =
               IF Retries(seen, retryable)
               THEN [@ EXCEPT !.status = "ready",
                              !.availableAt = now + JobBackoff(seen.attempts),
                              !.failedAt = now,
                              !.claimedBy = Nobody]
               ELSE [@ EXCEPT !.status = "failed", !.failedAt = now]]
FailsStillRunning(id, seen, retryable, now) ==
    jobs' = [jobs EXCEPT ![id] =
               IF Retries(seen, retryable)
               THEN [@ EXCEPT !.availableAt = now + JobBackoff(seen.attempts),
                              !.failedAt = now, !.claimedBy = Nobody]
               ELSE [@ EXCEPT !.status = "dead_lettered", !.failedAt = now]]

(* fail's UPDATE, on the row `seen` by its earlier SELECT: re-arm with      *)
(* backoff, or dead-letter (claimed_by stays).  WHERE id = ? and nothing    *)
(* else.                                                                    *)
FailRow(id, seen, retryable, now) ==
    jobs' = [jobs EXCEPT ![id] =
               IF Retries(seen, retryable)
               THEN [@ EXCEPT !.status = "ready",
                              !.availableAt = now + JobBackoff(seen.attempts),
                              !.failedAt = now,
                              !.claimedBy = Nobody]
               ELSE [@ EXCEPT !.status = "dead_lettered",
                              !.failedAt = now]]

=============================================================================
