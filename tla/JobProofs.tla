------------------------------ MODULE JobProofs ------------------------------
(***************************************************************************)
(* Proofs about the jobs table under its two users, the queue's callers    *)
(* and workers (JobWorker) and the schedulers (RecurringScheduler), for    *)
(* every number of processes, jobs, keys and faults.                       *)
(*                                                                         *)
(* IInv is the inductive invariant of the queue.  AttemptBudget alone is   *)
(* not inductive: claim spends an attempt without looking at the budget,   *)
(* so ready rows must have one left (ReadyHasBudget); fail re-arms on the  *)
(* row it read earlier, so that row must still be current when it writes   *)
(* (HeldRowsAreRunning); and this holds because nobody else holds the row  *)
(* (ExclusiveExecution).  KeyInv adds that keys are unique and that an     *)
(* answer has the key that was asked for.                                  *)
(*                                                                         *)
(* SchedulerInv is that of the schedulers: keys are unique, and each spec  *)
(* and target of a tick is still to do, was skipped because of a failure,  *)
(* or has its row; rows do not vanish.                                     *)
(***************************************************************************)
EXTENDS JobWorker, RecurringScheduler, FiniteSetTheorems, TLAPS

IInv == /\ TypeOK
        /\ HeldRowsAreRunning
        /\ ExclusiveExecution
        /\ ReadyHasBudget
        /\ AttemptBudget

USE JobIdsAssumption, MaxAttemptsAssumption, TypesAssumption, NamesAssumption,
    RequestsAssumption, BatchAssumption, BoundsAssumption

(* job_backoff_ms stays between its base and its cap. *)
LEMMA BackoffBounds ==
    ASSUME NEW attempt \in Int
    PROVE  JobBackoff(attempt) \in 1..5
BY DEF JobBackoff

(* The empty table and the idle processes satisfy the invariant. *)
LEMMA InitInv == Init => IInv
<1> SUFFICES ASSUME Init PROVE IInv
  OBVIOUS
<1>1. TypeOK
  <2>1. (CHOOSE t \in Types : TRUE) \in Types
    OBVIOUS
  <2>2. (CHOOSE m \in MaxAttempts : TRUE) \in MaxAttempts
    OBVIOUS
  <2>3. TableOK
    BY <2>1, <2>2 DEF Init, TableOK, EmptyTable, Row, Terminal
  <2>4. Asked(NoKey) \in EnqueueInput
    BY <2>1, <2>2 DEF Asked, EnqueueInput
  <2> QED
    BY <2>2, <2>3, <2>4 DEF Init, TypeOK, NothingSeen
<1>2. HeldRowsAreRunning /\ ExclusiveExecution
  BY DEF Init, HeldRowsAreRunning, ExclusiveExecution
<1>3. ReadyHasBudget /\ AttemptBudget
  BY DEF Init, EmptyTable, ReadyHasBudget, AttemptBudget
<1> QED
  BY <1>1, <1>2, <1>3 DEF IInv

(* A step that leaves the table and the workers alone keeps the invariant. *)
LEMMA CallerStepInv ==
    ASSUME IInv, NEW c \in Callers, CallerStep(c)
    PROVE  IInv'
<1> USE DEF IInv
<1>0. ASSUME NEW key \in Keys \cup {NoKey} PROVE Asked(key) \in EnqueueInput
  BY <1>0 DEF Asked, EnqueueInput
<1>1. CASE \E request \in Requests : EnqueueFindsRow(c, request)
  <2> PICK request \in Requests : EnqueueFindsRow(c, request)
    BY <1>1
  <2>1. request.key \in Keys \cup {NoKey}
    OBVIOUS
  <2>2. TypeOK'
    BY <1>0, <2>1 DEF TypeOK, TableOK, EnqueueFindsRow, RowsWithKey, workerVars, faultVars
  <2> QED
    BY <2>2 DEF EnqueueFindsRow, workerVars, HeldRowsAreRunning,
                ExclusiveExecution, ReadyHasBudget, AttemptBudget
<1>2. CASE \E request \in Requests : EnqueueMisses(c, request)
  <2> PICK request \in Requests : EnqueueMisses(c, request)
    BY <1>2
  <2>1. InputNow(request) \in EnqueueInput
    BY DEF TypeOK, InputNow, EnqueueInput
  <2>2. TypeOK'
    BY <2>1 DEF TypeOK, TableOK, EnqueueMisses, workerVars, faultVars
  <2> QED
    BY <2>2 DEF EnqueueMisses, workerVars, HeldRowsAreRunning,
                ExclusiveExecution, ReadyHasBudget, AttemptBudget
<1>3. CASE EnqueueInserts(c)
  <2>1. call[c].input \in EnqueueInput /\ call[c].input.key \in Keys \cup {NoKey}
    BY DEF TypeOK, EnqueueInput
  <2>2. Asked(call[c].input.key) \in EnqueueInput
    BY <1>0, <2>1
  <2>3. CASE UNCHANGED jobs
    <3>1. \E answer \in JobIds \cup {NoJob}, step \in {"ok", "error"} :
            call' = [call EXCEPT ![c] = [step |-> step, answer |-> answer,
                                         input |-> Asked(call[c].input.key)]]
      BY <1>3 DEF EnqueueInserts
    <3>2. TypeOK'
      BY <1>3, <2>2, <2>3, <3>1 DEF TypeOK, TableOK, EnqueueInserts, workerVars, faultVars
    <3> QED
      BY <1>3, <2>3, <3>2 DEF EnqueueInserts, workerVars, HeldRowsAreRunning,
                ExclusiveExecution, ReadyHasBudget, AttemptBudget
  <2>4. ASSUME NEW id \in JobIds, NextId(id), InsertRow(id, call[c].input),
               call' = [call EXCEPT ![c] = [step |-> "ok", answer |-> id,
                                            input |-> Asked(call[c].input.key)]]
        PROVE  IInv'
    <3>1. jobs[id].status = "none"
      BY <2>4 DEF NextId, Present
    <3>2. TableOK'
      BY <2>1, <2>4 DEF TypeOK, TableOK, InsertRow, EnqueueInput, Row
    <3>3. TypeOK'
      BY <1>3, <2>2, <2>4, <3>2 DEF TypeOK, EnqueueInserts, workerVars, faultVars
    <3>4. HeldRowsAreRunning'
      BY <1>3, <2>4, <3>1 DEF TypeOK, TableOK, HeldRowsAreRunning, InsertRow,
                              EnqueueInserts, workerVars
    <3>5. ExclusiveExecution'
      BY <1>3 DEF ExclusiveExecution, EnqueueInserts, workerVars
    <3>6. ReadyHasBudget' /\ AttemptBudget'
      BY <2>4 DEF TypeOK, TableOK, ReadyHasBudget, AttemptBudget, InsertRow
    <3> QED
      BY <3>3, <3>4, <3>5, <3>6
  <2> QED
    BY <1>3, <2>3, <2>4 DEF EnqueueInserts
<1> QED
  BY <1>1, <1>2, <1>3 DEF CallerStep

(* What claim makes of one row, field by field. *)
LEMMA ClaimedRow ==
    ASSUME NEW row \in Row, NEW by \in Workers \cup {Legacy}, NEW next,
           next = [row EXCEPT !.status = "running", !.claimedBy = by,
                              !.attempts = @ + 1]
    PROVE  /\ next \in Row
           /\ next.status = "running"
           /\ next.attempts = row.attempts + 1
           /\ next.maxAttempts = row.maxAttempts
<1>1. next = [status |-> "running", key |-> row.key, type |-> row.type,
              availableAt |-> row.availableAt, attempts |-> row.attempts + 1,
              maxAttempts |-> row.maxAttempts, claimedBy |-> by,
              failedAt |-> row.failedAt]
  BY DEF Row
<1> QED
  BY <1>1 DEF Row

(* claim turns ready rows into running ones with one attempt more, and no   *)
(* other row changes: rows in a worker's hands are not touched.             *)
LEMMA ClaimInv ==
    ASSUME IInv, NEW types, NEW now, NEW by \in Workers \cup {Legacy},
           NEW claimed \in SUBSET Claimable(types, now), ClaimRows(claimed, by)
    PROVE  /\ TableOK'
           /\ ReadyHasBudget' /\ AttemptBudget'
           /\ \A w \in Workers : \A id \in batch[w] :
                id \notin claimed /\ jobs'[id] = jobs[id]
           /\ \A id \in claimed : jobs'[id].status = "running"
<1> USE DEF IInv
<1>1. \A id \in claimed : id \in JobIds /\ jobs[id].status = "ready"
  BY DEF Claimable
<1>2. \A id \in JobIds : jobs[id] \in Row
  BY DEF TypeOK, TableOK
<1> DEFINE After(id) == IF id \in claimed
                       THEN [jobs[id] EXCEPT !.status = "running",
                                             !.claimedBy = by, !.attempts = @ + 1]
                       ELSE jobs[id]
<1>3. jobs' = [id \in JobIds |-> After(id)]
  BY DEF ClaimRows
<1>4. \A id \in JobIds :
        /\ After(id) \in Row
        /\ id \in claimed => /\ After(id).status = "running"
                             /\ After(id).attempts = jobs[id].attempts + 1
                             /\ After(id).maxAttempts = jobs[id].maxAttempts
        /\ id \notin claimed => After(id) = jobs[id]
  BY <1>2, ClaimedRow
<1> HIDE DEF After
<1>5. \A id \in JobIds : jobs'[id] = After(id)
  BY <1>3
<1>6. TableOK'
  BY <1>3, <1>4 DEF TableOK
<1>7. ReadyHasBudget'
  BY <1>4, <1>5 DEF ReadyHasBudget
<1>8. AttemptBudget'
  <2> SUFFICES ASSUME NEW id \in JobIds
               PROVE  \/ jobs'[id].attempts <= jobs'[id].maxAttempts
                      \/ jobs'[id].attempts <= 1
    BY DEF AttemptBudget
  <2>1. jobs[id].attempts \in Nat /\ jobs[id].maxAttempts \in Int
    BY <1>2 DEF Row
  <2>2. CASE id \in claimed
    BY <1>1, <1>4, <1>5, <2>1, <2>2 DEF ReadyHasBudget
  <2>3. CASE id \notin claimed
    BY <1>4, <1>5, <2>3 DEF AttemptBudget
  <2> QED
    BY <2>2, <2>3
<1>9. \A w \in Workers : \A id \in batch[w] :
        id \in JobIds /\ id \notin claimed
  BY <1>1 DEF TypeOK, HeldRowsAreRunning
<1> QED
  BY <1>1, <1>4, <1>5, <1>6, <1>7, <1>8, <1>9

(* The claims: a worker's, a lost one, and nextJob's. *)
LEMMA PollInv ==
    ASSUME IInv, NEW w \in Workers, PollOnce(w) \/ ClaimLost(w)
    PROVE  IInv'
<1> USE DEF IInv
<1>1. PICK claimed \in SUBSET Claimable(Types, clock) : ClaimRows(claimed, w)
                     /\ (batch' = batch \/ batch' = [batch EXCEPT ![w] = claimed])
                     /\ batch[w] = {} /\ pc[w] = "idle"
  BY DEF PollOnce, ClaimLost, workerVars
<1>2. /\ TableOK' /\ ReadyHasBudget' /\ AttemptBudget'
      /\ \A v \in Workers : \A id \in batch[v] :
            id \notin claimed /\ jobs'[id] = jobs[id]
      /\ \A id \in claimed : jobs'[id].status = "running"
  BY <1>1, ClaimInv
<1>3. claimed \subseteq JobIds
  BY DEF Claimable
<1>4. TypeOK'
  <2>1. CASE PollOnce(w)
    BY <1>1, <1>2, <1>3, <2>1 DEF TypeOK, PollOnce, faultVars
  <2>2. CASE ClaimLost(w)
    BY <1>2, <2>2 DEF TypeOK, ClaimLost, workerVars
  <2> QED
    BY <2>1, <2>2
<1>5. pc' = pc /\ current' = current /\ seen' = seen
  BY DEF PollOnce, ClaimLost, workerVars
<1>6. \A v \in Workers : batch'[v] = batch[v] \/ (v = w /\ batch'[v] = claimed)
  BY <1>1 DEF TypeOK
<1>7. HeldRowsAreRunning'
  <2> SUFFICES ASSUME NEW v \in Workers
      PROVE /\ \A id \in batch'[v] : jobs'[id].status = "running"
            /\ pc'[v] # "idle" => current'[v] \in batch'[v]
            /\ pc'[v] = "failWrite" =>
                 seen'[v] = [attempts |-> jobs'[current'[v]].attempts,
                             maxAttempts |-> jobs'[current'[v]].maxAttempts]
    BY DEF HeldRowsAreRunning
  <2>1. CASE batch'[v] = batch[v]
    <3>1. pc[v] # "idle" => jobs'[current[v]] = jobs[current[v]]
      BY <1>2 DEF HeldRowsAreRunning
    <3>2. /\ \A id \in batch[v] : jobs[id].status = "running"
          /\ pc[v] # "idle" => current[v] \in batch[v]
          /\ pc[v] = "failWrite" =>
               seen[v] = [attempts |-> jobs[current[v]].attempts,
                          maxAttempts |-> jobs[current[v]].maxAttempts]
      BY DEF HeldRowsAreRunning
    <3> QED
      BY <1>2, <1>5, <2>1, <3>1, <3>2
  <2>2. CASE v = w /\ batch'[v] = claimed
    BY <1>1, <1>2, <1>5, <2>2
  <2> QED
    BY <1>6, <2>1, <2>2
<1>8. ExclusiveExecution'
  <2> SUFFICES ASSUME NEW u \in Workers, NEW v \in Workers, u # v
               PROVE  batch'[u] \cap batch'[v] = {}
    BY DEF ExclusiveExecution
  <2> QED
    BY <1>2, <1>6 DEF ExclusiveExecution
<1> QED
  BY <1>2, <1>4, <1>7, <1>8

LEMMA NextJobInv ==
    ASSUME IInv, NEW type, NextJob(type)
    PROVE  IInv'
<1> USE DEF IInv
<1>1. PICK id \in Claimable({type}, clock) : ClaimRows({id}, Legacy)
  BY DEF NextJob
<1>2. /\ TableOK' /\ ReadyHasBudget' /\ AttemptBudget'
      /\ \A v \in Workers : \A held \in batch[v] : jobs'[held] = jobs[held]
  <2> DEFINE claimed == {id}
  <2>1. claimed \in SUBSET Claimable({type}, clock) /\ ClaimRows(claimed, Legacy)
    BY <1>1
  <2> QED
    BY <2>1, ClaimInv
<1>3. TypeOK'
  BY <1>2 DEF TypeOK, NextJob, workerVars, faultVars
<1>4. HeldRowsAreRunning' /\ ExclusiveExecution'
  <2>1. batch' = batch /\ pc' = pc /\ current' = current /\ seen' = seen
    BY DEF NextJob, workerVars
  <2>2. HeldRowsAreRunning'
    <3>1. \A v \in Workers : pc[v] # "idle" => jobs'[current[v]] = jobs[current[v]]
      BY <1>2 DEF HeldRowsAreRunning
    <3> SUFFICES ASSUME NEW v \in Workers
        PROVE /\ \A held \in batch[v] : jobs'[held].status = "running"
              /\ pc[v] # "idle" => current[v] \in batch[v]
              /\ pc[v] = "failWrite" =>
                   seen[v] = [attempts |-> jobs'[current[v]].attempts,
                              maxAttempts |-> jobs'[current[v]].maxAttempts]
      BY <2>1 DEF HeldRowsAreRunning
    <3>2. /\ \A held \in batch[v] : jobs[held].status = "running"
          /\ pc[v] # "idle" => current[v] \in batch[v]
          /\ pc[v] = "failWrite" =>
               seen[v] = [attempts |-> jobs[current[v]].attempts,
                          maxAttempts |-> jobs[current[v]].maxAttempts]
      BY DEF HeldRowsAreRunning
    <3>3. \A held \in batch[v] : jobs'[held] = jobs[held]
      BY <1>2
    <3> QED
      BY <3>1, <3>2, <3>3
  <2> QED
    BY <2>1, <2>2 DEF ExclusiveExecution
<1> QED
  BY <1>2, <1>3, <1>4

(* Steps inside run_job that do not touch the table. *)
LEMMA RunInv ==
    ASSUME IInv, NEW w \in Workers, RunJob(w) \/ HandlerReturns(w) \/ FailReads(w)
    PROVE  IInv'
<1> USE DEF IInv
<1>1. CASE RunJob(w)
  <2>1. TypeOK'
    BY <1>1 DEF TypeOK, TableOK, RunJob, faultVars
  <2>2. HeldRowsAreRunning'
    BY <1>1 DEF TypeOK, HeldRowsAreRunning, RunJob
  <2> QED
    BY <1>1, <2>1, <2>2 DEF RunJob, ExclusiveExecution, ReadyHasBudget, AttemptBudget
<1>2. CASE HandlerReturns(w)
  <2>1. TypeOK'
    BY <1>2 DEF TypeOK, TableOK, HandlerReturns, faultVars
  <2>2. HeldRowsAreRunning'
    BY <1>2 DEF TypeOK, HeldRowsAreRunning, HandlerReturns
  <2> QED
    BY <1>2, <2>1, <2>2 DEF HandlerReturns, ExclusiveExecution, ReadyHasBudget, AttemptBudget
<1>3. CASE FailReads(w)
  <2>0. current[w] \in JobIds /\ jobs[current[w]] \in Row
    BY <1>3 DEF TypeOK, TableOK, HeldRowsAreRunning, FailReads
  <2>1. TypeOK'
    BY <1>3, <2>0 DEF TypeOK, TableOK, Row, FailReads, faultVars
  <2>2. HeldRowsAreRunning'
    BY <1>3 DEF TypeOK, HeldRowsAreRunning, FailReads
  <2> QED
    BY <1>3, <2>1, <2>2 DEF FailReads, ExclusiveExecution, ReadyHasBudget, AttemptBudget
<1> QED
  BY <1>1, <1>2, <1>3

(* When a worker lets go of rows and the table changes at most in the row   *)
(* it was working on, the other workers' rows are as they were.             *)
LEMMA LetGoInv ==
    ASSUME IInv, NEW w \in Workers, NEW rest \in SUBSET batch[w],
           BetweenJobs(w, rest),
           \A id \in JobIds : id \notin batch[w] \/ id \in rest => jobs'[id] = jobs[id]
    PROVE  HeldRowsAreRunning' /\ ExclusiveExecution'
<1> USE DEF IInv
<1>1. batch' = [batch EXCEPT ![w] = rest] /\ pc' = [pc EXCEPT ![w] = "idle"]
  BY DEF BetweenJobs
<1>2. ExclusiveExecution'
  BY <1>1 DEF TypeOK, ExclusiveExecution
<1>3. ASSUME NEW v \in Workers
      PROVE /\ \A id \in batch'[v] : jobs'[id].status = "running"
            /\ pc'[v] # "idle" => current'[v] \in batch'[v]
            /\ pc'[v] = "failWrite" =>
                 seen'[v] = [attempts |-> jobs'[current'[v]].attempts,
                             maxAttempts |-> jobs'[current'[v]].maxAttempts]
  <2>1. CASE v = w
    <3>1. batch'[v] = rest /\ pc'[v] = "idle"
      BY <1>1, <2>1 DEF TypeOK
    <3>2. \A id \in rest : id \in JobIds /\ jobs'[id] = jobs[id]
                           /\ jobs[id].status = "running"
      BY DEF TypeOK, HeldRowsAreRunning
    <3> QED
      BY <3>1, <3>2
  <2>2. CASE v # w
    <3>1. batch'[v] = batch[v] /\ pc'[v] = pc[v] /\ current'[v] = current[v]
          /\ seen'[v] = seen[v]
      BY <2>2 DEF TypeOK, BetweenJobs
    <3>2. \A id \in batch[v] : id \in JobIds /\ jobs'[id] = jobs[id]
      BY <2>2 DEF TypeOK, ExclusiveExecution
    <3>3. pc[v] # "idle" => jobs'[current[v]] = jobs[current[v]]
      BY <3>2 DEF HeldRowsAreRunning
    <3>4. /\ \A id \in batch[v] : jobs[id].status = "running"
          /\ pc[v] # "idle" => current[v] \in batch[v]
          /\ pc[v] = "failWrite" =>
               seen[v] = [attempts |-> jobs[current[v]].attempts,
                          maxAttempts |-> jobs[current[v]].maxAttempts]
      BY DEF HeldRowsAreRunning
    <3> QED
      BY <3>1, <3>2, <3>3, <3>4
  <2> QED
    BY <2>1, <2>2
<1>4. HeldRowsAreRunning'
  BY <1>3 DEF HeldRowsAreRunning
<1> QED
  BY <1>2, <1>4

(* What BetweenJobs does to the worker's variables is well typed. *)
LEMMA LetGoType ==
    ASSUME IInv, NEW w \in Workers, NEW rest \in SUBSET batch[w],
           BetweenJobs(w, rest)
    PROVE  /\ pc' \in [Workers -> {"idle", "handle", "complete", "failRead", "failWrite"}]
           /\ batch' \in [Workers -> SUBSET JobIds]
           /\ current' \in [Workers -> JobIds \cup {NoJob}]
           /\ tickNow' \in [Workers -> Int]
           /\ verdict' \in [Workers -> BOOLEAN]
           /\ seen' \in [Workers -> [attempts : Nat, maxAttempts : MaxAttempts]]
<1>1. NothingSeen \in [attempts : Nat, maxAttempts : MaxAttempts]
  BY DEF NothingSeen
<1> QED
  BY <1>1 DEF IInv, TypeOK, BetweenJobs

(* The two writes that end a job. *)
LEMMA EndsInv ==
    ASSUME IInv, NEW w \in Workers, CompleteJob(w) \/ FailWrites(w)
    PROVE  IInv'
<1> USE DEF IInv
<1> DEFINE job == current[w]
           rest == batch[w] \ {job}
<1>1. job \in batch[w] /\ job \in JobIds /\ jobs[job] \in Row /\ jobs[job].status = "running"
  BY DEF TypeOK, TableOK, HeldRowsAreRunning, CompleteJob, FailWrites
<1>2. BetweenJobs(w, rest) /\ rest \in SUBSET batch[w]
  BY DEF CompleteJob, FailWrites, NextInBatch
<1>3. \A id \in JobIds : id # job => jobs'[id] = jobs[id]
  BY DEF TypeOK, TableOK, CompleteJob, FailWrites, CompleteRow, FailRow
<1>4. /\ jobs' \in [JobIds -> Row]
      /\ jobs'[job].attempts = jobs[job].attempts
      /\ jobs'[job].maxAttempts = jobs[job].maxAttempts
      /\ jobs'[job].status = "ready" => jobs[job].attempts < jobs[job].maxAttempts
  <2>1. CASE CompleteJob(w)
    BY <1>1, <2>1 DEF TypeOK, TableOK, Row, Terminal, CompleteJob, CompleteRow
  <2>2. CASE FailWrites(w)
    <3>1. seen[w] = [attempts |-> jobs[job].attempts,
                     maxAttempts |-> jobs[job].maxAttempts]
      BY <2>2 DEF FailWrites, HeldRowsAreRunning
    <3>2. tickNow[w] + JobBackoff(seen[w].attempts) \in Int /\ tickNow[w] \in Int
      <4>1. seen[w].attempts \in Int /\ tickNow[w] \in Int
        BY DEF TypeOK
      <4> QED
        BY <4>1, BackoffBounds
    <3>3. CASE Retries(seen[w], verdict[w])
      <4> DEFINE next == [jobs[job] EXCEPT !.status = "ready",
                            !.availableAt = tickNow[w] + JobBackoff(seen[w].attempts),
                            !.failedAt = tickNow[w], !.claimedBy = Nobody]
      <4>1. jobs' = [jobs EXCEPT ![job] = next]
        BY <2>2, <3>3 DEF FailWrites, FailRow
      <4>2. /\ next \in Row
            /\ next.attempts = jobs[job].attempts
            /\ next.maxAttempts = jobs[job].maxAttempts
        <5>1. PICK row \in Row, at \in Int, now \in Int :
                row = jobs[job] /\ now = tickNow[w]
                /\ at = tickNow[w] + JobBackoff(seen[w].attempts)
          BY <1>1, <3>2
        <5>2. next = [row EXCEPT !.status = "ready", !.availableAt = at,
                                 !.failedAt = now, !.claimedBy = Nobody]
          BY <5>1
        <5> HIDE DEF next, job
        <5>3. next = [status |-> "ready", key |-> row.key, type |-> row.type,
                      availableAt |-> at, attempts |-> row.attempts,
                      maxAttempts |-> row.maxAttempts, claimedBy |-> Nobody,
                      failedAt |-> now]
          BY <5>2 DEF Row
        <5> QED
          BY <5>1, <5>3 DEF Row
      <4>3. jobs[job].attempts < jobs[job].maxAttempts
        BY <3>1, <3>3 DEF Retries
      <4> HIDE DEF next
      <4> QED
        BY <1>1, <4>1, <4>2, <4>3 DEF TypeOK, TableOK
    <3>4. CASE ~Retries(seen[w], verdict[w])
      BY <1>1, <2>2, <3>1, <3>2, <3>4
         DEF TypeOK, TableOK, Row, Terminal, FailWrites, FailRow
    <3> QED
      BY <3>3, <3>4
  <2> QED
    BY <2>1, <2>2
<1>5. TypeOK'
  BY <1>2, <1>4, LetGoType DEF TypeOK, TableOK, CompleteJob, FailWrites, faultVars
<1>6. HeldRowsAreRunning' /\ ExclusiveExecution'
  BY <1>1, <1>2, <1>3, LetGoInv
<1>7. ReadyHasBudget' /\ AttemptBudget'
  BY <1>3, <1>4 DEF ReadyHasBudget, AttemptBudget
<1> QED
  BY <1>5, <1>6, <1>7

(* A lost write and an abort forget rows and leave the table alone. *)
LEMMA FaultInv ==
    ASSUME IInv, NEW w \in Workers, WriteLost(w) \/ Abort(w)
    PROVE  IInv'
<1> USE DEF IInv
<1>1. PICK rest \in SUBSET batch[w] : BetweenJobs(w, rest)
  BY DEF WriteLost, Abort, NextInBatch
<1>2. jobs' = jobs /\ clock' = clock /\ call' = call
      /\ lost' \in 0..MaxLost /\ aborts' \in 0..MaxAborts
  BY DEF TypeOK, WriteLost, Abort
<1>3. TypeOK'
  BY <1>1, <1>2, LetGoType DEF TypeOK, TableOK
<1>4. HeldRowsAreRunning' /\ ExclusiveExecution'
  BY <1>1, <1>2, LetGoInv
<1> QED
  BY <1>2, <1>3, <1>4 DEF ReadyHasBudget, AttemptBudget

(* IInv is inductive. *)
LEMMA NextInv == IInv /\ [Next]_vars => IInv'
<1> SUFFICES ASSUME IInv, [Next]_vars PROVE IInv'
  OBVIOUS
<1>1. CASE \E c \in Callers : CallerStep(c)
  BY <1>1, CallerStepInv
<1>2. CASE \E w \in Workers : WorkerStep(w) \/ Fault(w)
  BY <1>2, PollInv, RunInv, EndsInv, FaultInv DEF WorkerStep, Fault
<1>3. CASE \E type \in LegacyTypes : NextJob(type)
  BY <1>3, NextJobInv
<1>4. CASE Tick
  BY <1>4 DEF IInv, Tick, workerVars, faultVars, TypeOK, TableOK, HeldRowsAreRunning,
              ExclusiveExecution, ReadyHasBudget, AttemptBudget
<1>5. CASE UNCHANGED vars
  BY <1>5 DEF IInv, vars, TypeOK, TableOK, HeldRowsAreRunning,
              ExclusiveExecution, ReadyHasBudget, AttemptBudget
<1> QED
  BY <1>1, <1>2, <1>3, <1>4, <1>5 DEF Next

LEMMA InvHolds == Spec => []IInv
<1> QED
  BY InitInv, NextInv, PTL DEF Spec

(* Every reachable state of the job queue is well typed. *)
THEOREM TypeCorrect == Spec => []TypeOK
<1>1. IInv => TypeOK
  BY DEF IInv
<1> QED
  BY <1>1, InvHolds, PTL

(* No job is ever in the hands of two workers (JobStore::claim). *)
THEOREM Exclusive == Spec => []ExclusiveExecution
<1>1. IInv => ExclusiveExecution
  BY DEF IInv
<1> QED
  BY <1>1, InvHolds, PTL

(* No job is run more often than max_attempts allows, beyond its first run. *)
THEOREM Budget == Spec => []AttemptBudget
<1>1. IInv => AttemptBudget
  BY DEF IInv
<1> QED
  BY <1>1, InvHolds, PTL

(* From the invariant, a step leaves completed and dead-lettered rows alone: *)
(* inserts go to absent rows, claims to ready ones, and the writes that end  *)
(* a job to the running row its worker holds.                                *)
LEMMA TerminalStep ==
    ASSUME IInv, [Next]_vars, NEW id \in JobIds, Settled(id)
    PROVE  jobs'[id] = jobs[id]
<1> USE DEF IInv
<1>0. jobs \in [JobIds -> Row] /\ jobs[id].status \in Terminal
  BY DEF TypeOK, TableOK, Settled
<1>1. CASE UNCHANGED jobs
  BY <1>1
<1>2. ASSUME NEW c \in Callers, NEW new \in JobIds, NextId(new),
             InsertRow(new, call[c].input)
      PROVE  jobs'[id] = jobs[id]
  BY <1>0, <1>2 DEF InsertRow, NextId, Present, Terminal
<1>3. ASSUME NEW types, NEW now, NEW by, NEW claimed \in SUBSET Claimable(types, now),
             ClaimRows(claimed, by)
      PROVE  jobs'[id] = jobs[id]
  BY <1>0, <1>3 DEF ClaimRows, Claimable, Terminal
<1>4. ASSUME NEW w \in Workers, CompleteJob(w) \/ FailWrites(w)
      PROVE  jobs'[id] = jobs[id]
  <2>1. jobs[current[w]].status = "running"
    BY <1>4 DEF HeldRowsAreRunning, CompleteJob, FailWrites
  <2>2. current[w] # id
    BY <1>0, <2>1 DEF Terminal
  <2> QED
    BY <1>0, <1>4, <2>2 DEF CompleteJob, FailWrites, CompleteRow, FailRow
<1>5. CASE \E c \in Callers : CallerStep(c)
  BY <1>1, <1>2, <1>5 DEF CallerStep, EnqueueFindsRow, EnqueueMisses, EnqueueInserts
<1>6. CASE \E w \in Workers : PollOnce(w) \/ ClaimLost(w)
  <2>1. PICK w \in Workers, claimed \in SUBSET Claimable(Types, clock) :
          ClaimRows(claimed, w)
    BY <1>6 DEF PollOnce, ClaimLost
  <2> QED
    BY <1>3, <2>1
<1>7. CASE \E type \in LegacyTypes : NextJob(type)
  <2> PICK type \in LegacyTypes : NextJob(type)
    BY <1>7
  <2>1. PICK claimed \in SUBSET Claimable({type}, clock) : ClaimRows(claimed, Legacy)
    BY DEF NextJob
  <2> QED
    BY <1>3, <2>1
<1>8. CASE \E w \in Workers : RunJob(w) \/ HandlerReturns(w) \/ FailReads(w)
                              \/ WriteLost(w) \/ Abort(w)
  BY <1>1, <1>8 DEF RunJob, HandlerReturns, FailReads, WriteLost, Abort
<1>9. CASE Tick \/ UNCHANGED vars
  BY <1>1, <1>9 DEF Tick, vars
<1> QED
  BY <1>4, <1>5, <1>6, <1>7, <1>8, <1>9 DEF Next, WorkerStep, Fault

(* A completed or dead-lettered job row is never written again, although     *)
(* complete and fail (JobStore) check neither the owner nor, in fail, the    *)
(* status of the row.                                                        *)
THEOREM TerminalFinal == Spec => TerminalIsFinal
<1>1. IInv /\ [Next]_vars => [\A id \in JobIds : Settled(id) => jobs'[id] = jobs[id]]_vars
  BY TerminalStep
<1> QED
  BY <1>1, InvHolds, PTL DEF Spec, TerminalIsFinal

-----------------------------------------------------------------------------
(* Idempotency keys.                                                       *)

(* The unique index keeps a key to one row, and an answered enqueue that    *)
(* had a key was answered with the row of that key.                         *)
UniqueKeys ==
    \A i, j \in JobIds : (/\ Present(i) /\ Present(j)
                          /\ jobs[i].key = jobs[j].key /\ jobs[i].key # NoKey) => i = j
HasKey(table, id, key) == /\ id \in JobIds /\ table[id].status # "none"
                          /\ table[id].key = key
AnswersHaveKey ==
    \A c \in Callers : (call[c].step = "ok" /\ call[c].input.key # NoKey)
        => HasKey(jobs, call[c].answer, call[c].input.key)
KeyInv == UniqueKeys /\ AnswersHaveKey

(* The table has the same rows, with the same keys. *)
SameRows == \A id \in JobIds : /\ Present(id)' <=> Present(id)
                               /\ jobs'[id].key = jobs[id].key

LEMMA SameRowsKeep ==
    ASSUME SameRows PROVE UniqueKeys => UniqueKeys'
  BY DEF UniqueKeys, SameRows

LEMMA SameRowsHaveKey ==
    ASSUME SameRows PROVE \A id, key : HasKey(jobs, id, key) => HasKey(jobs', id, key)
  BY DEF HasKey, SameRows, Present

(* Everything that is not an INSERT. *)
LEMMA StepSameRows ==
    ASSUME IInv, [Next]_vars
    PROVE  SameRows \/ \E c \in Callers : EnqueueInserts(c)
<1> USE DEF IInv
<1>0. jobs \in [JobIds -> Row]
  BY DEF TypeOK, TableOK
<1>1. ASSUME UNCHANGED jobs PROVE SameRows
  BY <1>1 DEF SameRows, Present
<1>2. ASSUME NEW types, NEW now, NEW by, NEW claimed \in SUBSET Claimable(types, now),
             ClaimRows(claimed, by)
      PROVE  SameRows
  <2> SUFFICES ASSUME NEW id \in JobIds
               PROVE  (Present(id)' <=> Present(id)) /\ jobs'[id].key = jobs[id].key
    BY DEF SameRows
  <2>1. CASE id \in claimed
    <3>1. jobs'[id] = [jobs[id] EXCEPT !.status = "running", !.claimedBy = by,
                                       !.attempts = @ + 1]
      BY <1>2, <2>1 DEF ClaimRows
    <3>2. jobs'[id].status = "running" /\ jobs'[id].key = jobs[id].key
      BY <1>0, <3>1 DEF Row
    <3>3. jobs[id].status = "ready"
      BY <2>1 DEF Claimable
    <3> QED
      BY <3>2, <3>3 DEF Present
  <2>2. CASE id \notin claimed
    BY <1>2, <2>2 DEF ClaimRows, Present
  <2> QED
    BY <2>1, <2>2
<1>3. ASSUME NEW w \in Workers, CompleteJob(w) \/ FailWrites(w) PROVE SameRows
  <2> SUFFICES ASSUME NEW id \in JobIds
               PROVE  (Present(id)' <=> Present(id)) /\ jobs'[id].key = jobs[id].key
    BY DEF SameRows
  <2>1. jobs[current[w]].status = "running" /\ current[w] \in JobIds
    BY <1>3 DEF HeldRowsAreRunning, TypeOK, CompleteJob, FailWrites
  <2>2. CASE id # current[w]
    BY <1>0, <1>3, <2>2 DEF CompleteJob, FailWrites, CompleteRow, FailRow, Present
  <2>3. CASE id = current[w]
    <3>1. CASE CompleteJob(w)
      BY <1>0, <2>1, <2>3, <3>1 DEF CompleteJob, CompleteRow, Present, Row
    <3>2. CASE FailWrites(w) /\ Retries(seen[w], verdict[w])
      <4>1. jobs'[id] = [jobs[id] EXCEPT !.status = "ready",
                           !.availableAt = tickNow[w] + JobBackoff(seen[w].attempts),
                           !.failedAt = tickNow[w], !.claimedBy = Nobody]
        BY <1>0, <2>3, <3>2 DEF FailWrites, FailRow
      <4>2. jobs'[id].status = "ready" /\ jobs'[id].key = jobs[id].key
        BY <1>0, <4>1 DEF Row
      <4> QED
        BY <2>1, <2>3, <4>2 DEF Present
    <3>3. CASE FailWrites(w) /\ ~Retries(seen[w], verdict[w])
      <4>1. jobs'[id] = [jobs[id] EXCEPT !.status = "dead_lettered", !.failedAt = tickNow[w]]
        BY <1>0, <2>3, <3>3 DEF FailWrites, FailRow
      <4>2. jobs'[id].status = "dead_lettered" /\ jobs'[id].key = jobs[id].key
        BY <1>0, <4>1 DEF Row
      <4> QED
        BY <2>1, <2>3, <4>2 DEF Present
    <3> QED
      BY <1>3, <3>1, <3>2, <3>3
  <2> QED
    BY <2>2, <2>3
<1>4. CASE \E w \in Workers : PollOnce(w) \/ ClaimLost(w)
  <2>1. PICK w \in Workers, claimed \in SUBSET Claimable(Types, clock) :
          ClaimRows(claimed, w)
    BY <1>4 DEF PollOnce, ClaimLost
  <2> QED
    BY <1>2, <2>1
<1>5. CASE \E type \in LegacyTypes : NextJob(type)
  <2> PICK type \in LegacyTypes : NextJob(type)
    BY <1>5
  <2>1. PICK claimed \in SUBSET Claimable({type}, clock) : ClaimRows(claimed, Legacy)
    BY DEF NextJob
  <2> QED
    BY <1>2, <2>1
<1>6. CASE \E w \in Workers : RunJob(w) \/ HandlerReturns(w) \/ FailReads(w)
                              \/ WriteLost(w) \/ Abort(w)
  BY <1>1, <1>6 DEF RunJob, HandlerReturns, FailReads, WriteLost, Abort
<1>7. CASE Tick \/ UNCHANGED vars
  BY <1>1, <1>7 DEF Tick, vars
<1>8. ASSUME NEW c \in Callers, CallerStep(c) PROVE SameRows \/ EnqueueInserts(c)
  <2>1. UNCHANGED jobs \/ EnqueueInserts(c)
    BY <1>8 DEF CallerStep, EnqueueFindsRow, EnqueueMisses
  <2> QED
    BY <1>1, <2>1
<1> QED
  BY <1>3, <1>4, <1>5, <1>6, <1>7, <1>8 DEF Next, WorkerStep, Fault

(* The INSERT takes an absent row and a key no row has. *)
LEMMA InsertKeys ==
    ASSUME IInv, KeyInv, NEW c \in Callers, EnqueueInserts(c) PROVE KeyInv'
<1> USE DEF IInv
<1>0. /\ call \in [Callers -> [step : {"idle", "insert", "ok", "error"},
                               input : EnqueueInput, answer : JobIds \cup {NoJob}]]
      /\ jobs \in [JobIds -> Row]
  BY DEF TypeOK, TableOK
<1> DEFINE key == call[c].input.key
<1>a. Asked(key).key = key
  BY DEF Asked
<1>1. CASE UNCHANGED jobs
  <2>0. SameRows
    BY <1>1 DEF SameRows, Present
  <2>1. ~IndexAccepts(key)
    <3>1. ASSUME NEW id \in JobIds, NextId(id), InsertRow(id, call[c].input) PROVE FALSE
      <4>1. jobs'[id].status = "ready"
        BY <1>0, <3>1 DEF InsertRow
      <4> QED
        BY <1>1, <3>1, <4>1 DEF NextId, Present
    <3> QED
      BY <3>1 DEF EnqueueInserts
  <2>2. call' = [call EXCEPT ![c] = [step |-> "error", answer |-> NoJob, input |-> Asked(key)]]
    BY <2>1 DEF EnqueueInserts
  <2>3. AnswersHaveKey'
    <3> SUFFICES ASSUME NEW d \in Callers, call'[d].step = "ok", call'[d].input.key # NoKey
                 PROVE  HasKey(jobs', call'[d].answer, call'[d].input.key)
      BY DEF AnswersHaveKey
    <3>1. d # c /\ call'[d] = call[d]
      BY <1>0, <2>2
    <3>2. HasKey(jobs, call[d].answer, call[d].input.key)
      BY <3>1 DEF KeyInv, AnswersHaveKey
    <3> QED
      BY <2>0, <3>1, <3>2, SameRowsHaveKey
  <2> QED
    BY <2>0, <2>3, SameRowsKeep DEF KeyInv
<1>2. ASSUME NEW id \in JobIds, NextId(id), InsertRow(id, call[c].input), IndexAccepts(key),
             call' = [call EXCEPT ![c] = [step |-> "ok", answer |-> id, input |-> Asked(key)]]
      PROVE  KeyInv'
  <2>1. ~Present(id)
    BY <1>2 DEF NextId
  <2>2. jobs'[id].key = key /\ jobs'[id].status = "ready"
        /\ \A i \in JobIds : i # id => jobs'[i] = jobs[i]
    BY <1>0, <1>2 DEF InsertRow
  <2>3. Present(id)' /\ \A i \in JobIds : i # id => (Present(i)' <=> Present(i))
    BY <2>2 DEF Present
  <2>4. key = NoKey \/ \A i \in JobIds : ~(Present(i) /\ jobs[i].key = key)
    BY <1>2 DEF IndexAccepts, RowsWithKey
  <2>5. UniqueKeys'
    <3> SUFFICES ASSUME NEW i \in JobIds, NEW j \in JobIds, Present(i)', Present(j)',
                        jobs'[i].key = jobs'[j].key, jobs'[i].key # NoKey
                 PROVE  i = j
      BY DEF UniqueKeys
    <3> HIDE DEF key
    <3> QED
      BY <2>2, <2>3, <2>4 DEF KeyInv, UniqueKeys
  <2>6. AnswersHaveKey'
    <3> SUFFICES ASSUME NEW d \in Callers, call'[d].step = "ok", call'[d].input.key # NoKey
                 PROVE  HasKey(jobs', call'[d].answer, call'[d].input.key)
      BY DEF AnswersHaveKey
    <3>1. CASE d = c
      <4>1. call'[d].answer = id /\ call'[d].input.key = key
        BY <1>0, <1>2, <1>a, <3>1
      <4> QED
        BY <2>2, <4>1 DEF HasKey
    <3>2. CASE d # c
      <4>1. call'[d] = call[d]
        BY <1>0, <1>2, <3>2
      <4>2. HasKey(jobs, call[d].answer, call[d].input.key)
        BY <4>1 DEF KeyInv, AnswersHaveKey
      <4>3. call[d].answer # id
        BY <2>1, <4>2 DEF HasKey, Present
      <4> QED
        BY <2>2, <4>1, <4>2, <4>3 DEF HasKey
    <3> QED
      BY <3>1, <3>2
  <2> QED
    BY <2>5, <2>6 DEF KeyInv
<1> QED
  BY <1>1, <1>2 DEF EnqueueInserts

(* A step with the same rows changes at most one answer, to a row it found. *)
LEMMA OthersKeys ==
    ASSUME IInv, KeyInv, [Next]_vars, SameRows,
           \A c \in Callers : ~EnqueueInserts(c)
    PROVE  KeyInv'
<1> USE DEF IInv
<1>0. call \in [Callers -> [step : {"idle", "insert", "ok", "error"},
                            input : EnqueueInput, answer : JobIds \cup {NoJob}]]
  BY DEF TypeOK
<1>1. ASSUME NEW d \in Callers, call'[d].step = "ok", call'[d].input.key # NoKey
      PROVE  HasKey(jobs, call'[d].answer, call'[d].input.key)
  <2>1. CASE call'[d] = call[d]
    BY <1>1, <2>1 DEF KeyInv, AnswersHaveKey
  <2>2. ASSUME NEW c \in Callers, NEW request \in Requests, EnqueueFindsRow(c, request)
        PROVE  HasKey(jobs, call'[d].answer, call'[d].input.key)
    <3>1. PICK id \in RowsWithKey(request.key) :
            call' = [call EXCEPT ![c] = [step |-> "ok", input |-> Asked(request.key),
                                         answer |-> id]]
      BY <2>2 DEF EnqueueFindsRow
    <3>2. Asked(request.key).key = request.key
      BY DEF Asked
    <3>3. CASE d = c
      <4>1. call'[d].answer = id /\ call'[d].input.key = request.key
        BY <1>0, <3>1, <3>2, <3>3
      <4> QED
        BY <3>1, <4>1 DEF RowsWithKey, HasKey, Present
    <3>4. CASE d # c
      BY <1>0, <2>1, <3>1, <3>4
    <3> QED
      BY <3>3, <3>4
  <2>3. ASSUME NEW c \in Callers, NEW request \in Requests, EnqueueMisses(c, request)
        PROVE  call'[d] = call[d]
    <3>1. call' = [call EXCEPT ![c] = [step |-> "insert", input |-> InputNow(request),
                                       answer |-> NoJob]]
      BY <2>3 DEF EnqueueMisses
    <3>2. d # c
      BY <1>0, <1>1, <3>1
    <3> QED
      BY <1>0, <3>1, <3>2
  <2>4. ASSUME NEW w \in Workers, WorkerStep(w) \/ Fault(w) PROVE call' = call
    BY <2>4 DEF WorkerStep, Fault, PollOnce, RunJob, HandlerReturns, CompleteJob, FailReads,
                FailWrites, ClaimLost, WriteLost, Abort
  <2>5. ASSUME NEW type \in LegacyTypes, NextJob(type) PROVE call' = call
    BY <2>5 DEF NextJob
  <2>6. CASE Tick \/ UNCHANGED vars
    BY <2>1, <2>6 DEF Tick, vars
  <2> QED
    BY <2>1, <2>2, <2>3, <2>4, <2>5, <2>6 DEF Next, CallerStep
<1>2. AnswersHaveKey'
  BY <1>1, SameRowsHaveKey DEF AnswersHaveKey
<1> QED
  BY <1>2, SameRowsKeep DEF KeyInv

(* Enqueues answered with the same key were answered with the same row:      *)
(* what JobStore::enqueue's unique index is for, when two callers both find  *)
(* no row and both try to insert one.                                        *)
THEOREM OneJobPerKey == Spec => []SameKeySameJob
<1>1. Init => KeyInv
  BY DEF Init, EmptyTable, KeyInv, UniqueKeys, AnswersHaveKey, Present
<1>2. IInv /\ KeyInv /\ [Next]_vars => KeyInv'
  BY StepSameRows, InsertKeys, OthersKeys
<1>3. KeyInv => SameKeySameJob
  <2> SUFFICES ASSUME KeyInv, NEW c \in Callers, NEW d \in Callers,
                      call[c].step = "ok", call[d].step = "ok",
                      call[c].input.key = call[d].input.key, call[c].input.key # NoKey
               PROVE  call[c].answer = call[d].answer
    BY DEF SameKeySameJob
  <2>1. /\ HasKey(jobs, call[c].answer, call[c].input.key)
        /\ HasKey(jobs, call[d].answer, call[c].input.key)
    BY DEF KeyInv, AnswersHaveKey
  <2> QED
    BY <2>1 DEF KeyInv, UniqueKeys, HasKey, Present
<1> QED
  BY <1>1, <1>2, <1>3, InvHolds, PTL DEF Spec

-----------------------------------------------------------------------------
(* The recurring scheduler.                                                *)

RowFields == {"status", "key", "type", "availableAt", "attempts", "maxAttempts",
              "claimedBy", "failedAt"}
TableShape == DOMAIN jobs = JobIds /\ \A id \in JobIds : DOMAIN jobs[id] = RowFields

TickFields == {"step", "now", "specs", "spec", "targets", "target", "skipped"}

(* The row of the key, whatever its status, in the table given. *)
HasRow(table, key) == \E id \in JobIds : HasKey(table, id, key)

(* What a tick has still to do for the spec and target, has skipped, or has *)
(* a row for.                                                               *)
Accounted(table, r, spec, target) ==
    \/ spec \in r.specs
    \/ r.step \in {"targets", "insert"} /\ spec = r.spec /\ target \in r.targets
    \/ r.step = "insert" /\ spec = r.spec /\ target = r.target
    \/ <<spec, target>> \in r.skipped
    \/ HasRow(table, KeyOf(spec, target, r.now))

TickInv(table, r) ==
    r.step # "idle" =>
        /\ DOMAIN r = TickFields
        /\ r.step \in {"specs", "targets", "insert", "done"}
        /\ r.step = "done" => r.specs = {}
        /\ \A spec \in Specs, target \in Targets : Accounted(table, r, spec, target)

TicksInv(table, ticks) == DOMAIN ticks = Nodes /\ \A n \in Nodes : TickInv(table, ticks[n])

SchedulerInv == TableShape /\ UniqueKeys /\ TicksInv(jobs, tick)

LEMMA HasRowIs == ASSUME NEW key PROVE HasRow(jobs, key) <=> RowsWithKey(key) # {}
  BY DEF HasRow, HasKey, RowsWithKey, Present

(* No row is ever lost, and no row loses its key. *)
RowsStay == \A id, key : HasKey(jobs, id, key) => HasKey(jobs', id, key)

LEMMA AccountedStays ==
    ASSUME RowsStay, NEW r, TickInv(jobs, r) PROVE TickInv(jobs', r)
  BY DEF RowsStay, TickInv, Accounted, HasRow

LEMMA TicksStay ==
    ASSUME RowsStay, TicksInv(jobs, tick), tick' = tick PROVE TicksInv(jobs', tick')
  BY AccountedStays DEF TicksInv

(* One node's tick moves to r. *)
LEMMA TickMoves ==
    ASSUME RowsStay, TicksInv(jobs, tick), NEW n \in Nodes, DOMAIN tick' = Nodes,
           \A m \in Nodes : m # n => tick'[m] = tick[m], TickInv(jobs', tick'[n])
    PROVE  TicksInv(jobs', tick')
<1> SUFFICES ASSUME NEW m \in Nodes PROVE TickInv(jobs', tick'[m])
  BY DEF TicksInv
<1>1. CASE m = n
  BY <1>1
<1>2. CASE m # n
  BY <1>2, AccountedStays DEF TicksInv
<1> QED
  BY <1>1, <1>2

LEMMA SameRowsStay == ASSUME SameRows PROVE RowsStay
  BY SameRowsHaveKey DEF RowsStay

LEMMA TableSame ==
    ASSUME TableShape, UniqueKeys, jobs' = jobs
    PROVE  TableShape' /\ UniqueKeys' /\ RowsStay
  BY DEF TableShape, UniqueKeys, RowsStay, Present, HasKey

(* The INSERT, which the unique index let through. *)
LEMMA InsertRowKeeps ==
    ASSUME TableShape, UniqueKeys, NEW id \in JobIds, NextId(id), NEW key, IndexAccepts(key),
           NEW type, NEW max, NEW at,
           InsertRow(id, [key |-> key, type |-> type, maxAttempts |-> max, availableAt |-> at])
    PROVE  TableShape' /\ UniqueKeys' /\ RowsStay /\ HasRow(jobs', key)
<1> DEFINE row == [status |-> "ready", key |-> key, type |-> type, availableAt |-> at,
                   attempts |-> 0, maxAttempts |-> max, claimedBy |-> Nobody, failedAt |-> -1]
<1>1. jobs' = [jobs EXCEPT ![id] = row]
  BY DEF InsertRow
<1>2. DOMAIN row = RowFields /\ row.key = key /\ row.status = "ready"
  BY DEF RowFields
<1> HIDE DEF row
<1>3. DOMAIN jobs' = JobIds /\ jobs'[id] = row /\ \A i \in JobIds : i # id => jobs'[i] = jobs[i]
  BY <1>1 DEF TableShape
<1>4. TableShape'
  BY <1>2, <1>3 DEF TableShape
<1>5. ~Present(id)
  BY DEF NextId
<1>6. key = NoKey \/ \A i \in JobIds : ~(Present(i) /\ jobs[i].key = key)
  BY DEF IndexAccepts, RowsWithKey
<1>7. UniqueKeys'
  <2> SUFFICES ASSUME NEW i \in JobIds, NEW j \in JobIds, Present(i)', Present(j)',
                      jobs'[i].key = jobs'[j].key, jobs'[i].key # NoKey
               PROVE  i = j
    BY DEF UniqueKeys
  <2> QED
    BY <1>2, <1>3, <1>6 DEF UniqueKeys, Present
<1>8. RowsStay
  BY <1>3, <1>5 DEF RowsStay, HasKey, Present
<1>9. HasRow(jobs', key)
  BY <1>2, <1>3 DEF HasRow, HasKey
<1> QED
  BY <1>4, <1>7, <1>8, <1>9

LEMMA WorkerRunsKeeps ==
    ASSUME TableShape, UniqueKeys, WorkerRuns PROVE TableShape' /\ UniqueKeys' /\ RowsStay
<1>1. PICK id \in JobIds, w \in Workers :
         \/ id \in Claimable(Types, clock) /\ ClaimRows({id}, w)
         \/ jobs[id].status = "running" /\ CompleteRow(id)
  BY DEF WorkerRuns
<1>2. /\ DOMAIN jobs' = JobIds /\ DOMAIN jobs'[id] = RowFields
      /\ \A i \in JobIds : i # id => jobs'[i] = jobs[i]
      /\ jobs'[id].key = jobs[id].key
      /\ jobs[id].status # "none" /\ jobs'[id].status # "none"
  <2>1. CASE id \in Claimable(Types, clock) /\ ClaimRows({id}, w)
    <3>1. jobs'[id] = [jobs[id] EXCEPT !.status = "running", !.claimedBy = w, !.attempts = @ + 1]
      BY <2>1 DEF ClaimRows
    <3>2. DOMAIN jobs' = JobIds /\ \A i \in JobIds : i # id => jobs'[i] = jobs[i]
      BY <2>1 DEF ClaimRows
    <3>3. jobs[id].status = "ready"
      BY <2>1 DEF Claimable
    <3>4. DOMAIN jobs'[id] = RowFields /\ jobs'[id].key = jobs[id].key
          /\ jobs'[id].status = "running"
      BY <3>1 DEF TableShape, RowFields
    <3> QED
      BY <3>2, <3>3, <3>4
  <2>2. CASE jobs[id].status = "running" /\ CompleteRow(id)
    <3>1. jobs'[id] = [jobs[id] EXCEPT !.status = "completed"]
      BY <2>2 DEF CompleteRow, TableShape
    <3>2. DOMAIN jobs' = JobIds /\ \A i \in JobIds : i # id => jobs'[i] = jobs[i]
      BY <2>2 DEF CompleteRow, TableShape
    <3>3. DOMAIN jobs'[id] = RowFields /\ jobs'[id].key = jobs[id].key
          /\ jobs'[id].status = "completed"
      BY <3>1 DEF TableShape, RowFields
    <3> QED
      BY <2>2, <3>2, <3>3
  <2> QED
    BY <1>1, <2>1, <2>2
<1>3. SameRows
  BY <1>2 DEF SameRows, Present
<1> QED
  BY <1>2, <1>3, SameRowsKeep, SameRowsStay DEF TableShape

(* What a step of a tick does to it. *)
LEMMA TickSteps ==
    ASSUME DOMAIN tick = Nodes, NEW n \in Nodes, tick[n].step # "idle" => DOMAIN tick[n] = TickFields,
           SchedulerStep(n)
    PROVE  /\ DOMAIN tick' = Nodes /\ \A m \in Nodes : m # n => tick'[m] = tick[m]
           /\ DOMAIN tick'[n] = TickFields
           /\ TickStarts(n) \/ (tick'[n].now = tick[n].now /\ tick[n].step # "idle")
<1>1. CASE TickStarts(n)
  <2> DEFINE r == [step |-> "specs", now |-> clock, specs |-> Specs,
                   spec |-> CHOOSE s \in Specs : TRUE,
                   targets |-> {}, target |-> CHOOSE t \in Targets : TRUE, skipped |-> {}]
  <2>1. tick' = [tick EXCEPT ![n] = r]
    BY <1>1 DEF TickStarts
  <2>2. DOMAIN r = TickFields
    BY DEF TickFields
  <2> HIDE DEF r
  <2> QED
    BY <1>1, <2>1, <2>2
<1>2. CASE ResolveTargets(n)
  <2>1. tick[n].step = "specs" /\ DOMAIN tick[n] = TickFields
    BY <1>2 DEF ResolveTargets
  <2>2. PICK spec :
          \/ tick' = [tick EXCEPT ![n].step = "targets", ![n].spec = spec,
                                  ![n].specs = @ \ {spec}, ![n].targets = Targets]
          \/ tick' = [tick EXCEPT ![n].specs = @ \ {spec},
                                  ![n].skipped = @ \cup ({spec} \X Targets)]
    BY <1>2 DEF ResolveTargets
  <2> QED
    BY <2>1, <2>2 DEF TickFields
<1>3. CASE LoopsOn(n)
  <2>1. tick[n].step # "idle" /\ DOMAIN tick[n] = TickFields
    BY <1>3 DEF LoopsOn
  <2>2. PICK s : tick' = [tick EXCEPT ![n].step = s]
    BY <1>3 DEF LoopsOn
  <2> QED
    BY <2>1, <2>2 DEF TickFields
<1>4. CASE EnqueueLooksUp(n)
  <2>1. tick[n].step # "idle" /\ DOMAIN tick[n] = TickFields
    BY <1>4 DEF EnqueueLooksUp
  <2>2. PICK s, t : tick' = [tick EXCEPT ![n].step = s, ![n].target = t, ![n].targets = @ \ {t}]
    BY <1>4 DEF EnqueueLooksUp
  <2> QED
    BY <2>1, <2>2 DEF TickFields
<1>5. CASE EnqueueInsertsJob(n)
  <2>1. tick[n].step # "idle" /\ DOMAIN tick[n] = TickFields
    BY <1>5 DEF EnqueueInsertsJob
  <2>2. PICK s : \/ tick' = [tick EXCEPT ![n].step = "targets"]
                 \/ tick' = [tick EXCEPT ![n].step = "targets", ![n].skipped = @ \cup s]
    BY <1>5 DEF EnqueueInsertsJob
  <2> QED
    BY <2>1, <2>2 DEF TickFields
<1> QED
  BY <1>1, <1>2, <1>3, <1>4, <1>5 DEF SchedulerStep

(* A spec's lookups, INSERTs, skips and failures account for its targets.   *)
LEMMA TickAccounts ==
    ASSUME SchedulerInv, RowsStay, NEW n \in Nodes, SchedulerStep(n),
           EnqueueInsertsJob(n) =>
               \/ HasRow(jobs', KeyOf(tick[n].spec, tick[n].target, tick[n].now))
               \/ tick'[n].skipped = tick[n].skipped \cup {<<tick[n].spec, tick[n].target>>}
    PROVE  TickInv(jobs', tick'[n])
<1>0. DOMAIN tick = Nodes /\ TickInv(jobs, tick[n]) /\ TickInv(jobs', tick[n])
  BY AccountedStays DEF SchedulerInv, TicksInv
<1>1. tick[n].step # "idle" => DOMAIN tick[n] = TickFields
  BY <1>0 DEF TickInv
<1>2. /\ DOMAIN tick'[n] = TickFields
      /\ TickStarts(n) \/ (tick'[n].now = tick[n].now /\ tick[n].step # "idle")
  BY <1>0, <1>1, TickSteps
<1> DEFINE Goal(r) == /\ r.step \in {"specs", "targets", "insert", "done"}
                      /\ r.step = "done" => r.specs = {}
                      /\ \A spec \in Specs, target \in Targets : Accounted(jobs', r, spec, target)
<1> SUFFICES Goal(tick'[n])
  BY <1>2 DEF TickInv
<1>3. CASE TickStarts(n)
  <2>1. tick'[n].step = "specs" /\ tick'[n].specs = Specs
    BY <1>0, <1>3 DEF TickStarts
  <2> QED
    BY <2>1 DEF Accounted
<1>4. ASSUME ~TickStarts(n)
      PROVE  /\ DOMAIN tick[n] = TickFields /\ tick[n].step # "idle" /\ tick'[n].now = tick[n].now
             /\ \A spec \in Specs, target \in Targets : Accounted(jobs', tick[n], spec, target)
  BY <1>0, <1>2, <1>4 DEF TickInv
<1>5. CASE ResolveTargets(n)
  <2>0. tick[n].step = "specs"
    BY <1>5 DEF ResolveTargets
  <2>a. ~TickStarts(n)
    BY <2>0 DEF TickStarts
  <2>1. PICK spec \in tick[n].specs :
          \/ tick' = [tick EXCEPT ![n].step = "targets", ![n].spec = spec,
                                  ![n].specs = @ \ {spec}, ![n].targets = Targets]
          \/ tick' = [tick EXCEPT ![n].specs = @ \ {spec},
                                  ![n].skipped = @ \cup ({spec} \X Targets)]
    BY <1>5 DEF ResolveTargets
  <2>2. CASE tick' = [tick EXCEPT ![n].step = "targets", ![n].spec = spec,
                                  ![n].specs = @ \ {spec}, ![n].targets = Targets]
    <3>1. /\ tick'[n].step = "targets" /\ tick'[n].spec = spec
          /\ tick'[n].specs = tick[n].specs \ {spec} /\ tick'[n].targets = Targets
          /\ tick'[n].skipped = tick[n].skipped
      BY <1>0, <1>4, <2>a, <2>2 DEF TickFields
    <3> QED
      BY <1>4, <2>0, <2>a, <3>1 DEF Accounted
  <2>3. CASE tick' = [tick EXCEPT ![n].specs = @ \ {spec},
                                  ![n].skipped = @ \cup ({spec} \X Targets)]
    <3>1. /\ tick'[n].step = "specs" /\ tick'[n].specs = tick[n].specs \ {spec}
          /\ tick'[n].skipped = tick[n].skipped \cup ({spec} \X Targets)
      BY <1>0, <1>4, <2>0, <2>a, <2>3 DEF TickFields
    <3> QED
      BY <1>4, <2>0, <2>a, <3>1 DEF Accounted
  <2> QED
    BY <2>1, <2>2, <2>3
<1>6. CASE LoopsOn(n)
  <2>a. ~TickStarts(n)
    BY <1>6 DEF LoopsOn, TickStarts
  <2>1. /\ tick'[n].spec = tick[n].spec /\ tick'[n].specs = tick[n].specs
        /\ tick'[n].skipped = tick[n].skipped
        /\ \/ tick[n].step = "targets" /\ tick[n].targets = {} /\ tick'[n].step = "specs"
           \/ tick[n].step = "specs" /\ tick[n].specs = {} /\ tick'[n].step = "done"
    BY <1>0, <1>4, <1>6, <2>a DEF LoopsOn, TickFields
  <2> QED
    BY <1>4, <2>a, <2>1 DEF Accounted
<1>7. CASE EnqueueLooksUp(n)
  <2>0. tick[n].step = "targets"
    BY <1>7 DEF EnqueueLooksUp
  <2>a. ~TickStarts(n)
    BY <2>0 DEF TickStarts
  <2>1. PICK target \in tick[n].targets, s \in {"targets", "insert"} :
          /\ s = IF RowsWithKey(KeyOf(tick[n].spec, target, tick[n].now)) # {}
                 THEN "targets" ELSE "insert"
          /\ tick' = [tick EXCEPT ![n].step = s, ![n].target = target,
                                  ![n].targets = @ \ {target}]
    BY <1>7 DEF EnqueueLooksUp
  <2>2. /\ tick'[n].step = s /\ tick'[n].target = target /\ tick'[n].spec = tick[n].spec
        /\ tick'[n].targets = tick[n].targets \ {target} /\ tick'[n].specs = tick[n].specs
        /\ tick'[n].skipped = tick[n].skipped
    BY <1>0, <1>4, <2>a, <2>1 DEF TickFields
  <2>3. s = "insert" \/ HasRow(jobs', KeyOf(tick[n].spec, target, tick[n].now))
    BY <2>1, HasRowIs DEF HasRow, RowsStay
  <2>4. s \in {"targets", "insert"}
    BY <2>1
  <2> QED
    BY <1>4, <2>0, <2>a, <2>2, <2>3, <2>4 DEF Accounted
<1>8. CASE EnqueueInsertsJob(n)
  <2>0. tick[n].step = "insert"
    BY <1>8 DEF EnqueueInsertsJob
  <2>a. ~TickStarts(n)
    BY <2>0 DEF TickStarts
  <2>1. PICK s : \/ tick' = [tick EXCEPT ![n].step = "targets"]
                 \/ tick' = [tick EXCEPT ![n].step = "targets", ![n].skipped = @ \cup s]
    BY <1>8 DEF EnqueueInsertsJob
  <2>2. /\ tick'[n].step = "targets" /\ tick'[n].spec = tick[n].spec
        /\ tick'[n].targets = tick[n].targets /\ tick'[n].specs = tick[n].specs
        /\ tick[n].skipped \subseteq tick'[n].skipped
    BY <1>0, <1>4, <2>a, <2>1 DEF TickFields
  <2>3. \/ HasRow(jobs', KeyOf(tick[n].spec, tick[n].target, tick[n].now))
        \/ <<tick[n].spec, tick[n].target>> \in tick'[n].skipped
    BY <1>8
  <2> QED
    BY <1>4, <2>0, <2>a, <2>2, <2>3 DEF Accounted
<1> QED
  BY <1>3, <1>5, <1>6, <1>7, <1>8 DEF SchedulerStep

LEMMA SchedulerInvNext ==
    ASSUME SchedulerInv, [SchedulerNext]_schedulerVars PROVE SchedulerInv'
<1> USE DEF SchedulerInv
<1>1. ASSUME NEW n \in Nodes, SchedulerStep(n) PROVE SchedulerInv'
  <2>1. /\ DOMAIN tick = Nodes
        /\ tick[n].step # "idle" => DOMAIN tick[n] = TickFields
    BY DEF TicksInv, TickInv
  <2>2. DOMAIN tick' = Nodes /\ \A m \in Nodes : m # n => tick'[m] = tick[m]
    BY <1>1, <2>1, TickSteps
  <2>3. ASSUME TableShape', UniqueKeys', RowsStay,
               EnqueueInsertsJob(n) =>
                 \/ HasRow(jobs', KeyOf(tick[n].spec, tick[n].target, tick[n].now))
                 \/ tick'[n].skipped = tick[n].skipped \cup {<<tick[n].spec, tick[n].target>>}
        PROVE  SchedulerInv'
    <3>1. TickInv(jobs', tick'[n])
      BY <1>1, <2>3, TickAccounts
    <3>2. TicksInv(jobs', tick')
      BY <2>2, <2>3, <3>1, TickMoves
    <3> QED
      BY <2>3, <3>2
  <2>4. CASE ~EnqueueInsertsJob(n)
    <3>1. jobs' = jobs
      BY <1>1, <2>4 DEF SchedulerStep, TickStarts, ResolveTargets, LoopsOn, EnqueueLooksUp
    <3> QED
      BY <2>3, <2>4, <3>1, TableSame
  <2>5. CASE EnqueueInsertsJob(n)
    <3> DEFINE key == KeyOf(tick[n].spec, tick[n].target, tick[n].now)
    <3>1. CASE /\ IndexAccepts(key)
               /\ \E id \in JobIds, type \in Types, max \in MaxAttempts :
                    /\ NextId(id)
                    /\ InsertRow(id, [key |-> key, type |-> type, maxAttempts |-> max,
                          availableAt |-> WindowStart(tick[n].now, interval[tick[n].spec])])
      <4>1. TableShape' /\ UniqueKeys' /\ RowsStay /\ HasRow(jobs', key)
        BY <3>1, InsertRowKeeps
      <4> QED
        BY <2>3, <4>1
    <3>2. CASE ~IndexAccepts(key) /\ jobs' = jobs
      <4>1. HasRow(jobs', key)
        BY <3>2, HasRowIs DEF IndexAccepts
      <4> QED
        BY <2>3, <3>2, <4>1, TableSame
    <3>3. CASE /\ tick' = [tick EXCEPT ![n].step = "targets",
                                       ![n].skipped = @ \cup {<<tick[n].spec, tick[n].target>>}]
               /\ jobs' = jobs
      <4>1. tick[n].step = "insert"
        BY <2>5 DEF EnqueueInsertsJob
      <4>2. tick'[n].skipped = tick[n].skipped \cup {<<tick[n].spec, tick[n].target>>}
        BY <2>1, <3>3, <4>1 DEF TickFields
      <4> QED
        BY <2>3, <3>3, <4>2, TableSame
    <3> QED
      BY <2>5, <3>1, <3>2, <3>3 DEF EnqueueInsertsJob
  <2> QED
    BY <2>4, <2>5
<1>2. ASSUME NEW n \in Nodes, Crash(n) PROVE SchedulerInv'
  <2>1. jobs' = jobs /\ tick' = [tick EXCEPT ![n] = Idle]
    BY <1>2 DEF Crash
  <2>2. TableShape' /\ UniqueKeys' /\ RowsStay
    BY <2>1, TableSame
  <2>3. /\ DOMAIN tick' = Nodes /\ tick'[n] = Idle
        /\ \A m \in Nodes : m # n => tick'[m] = tick[m]
    BY <2>1 DEF TicksInv
  <2>4. TickInv(jobs', tick'[n])
    BY <2>3 DEF TickInv, Idle
  <2>5. TicksInv(jobs', tick')
    BY <2>2, <2>3, <2>4, TickMoves
  <2> QED
    BY <2>2, <2>5
<1>3. ASSUME jobs' = jobs, tick' = tick PROVE SchedulerInv'
  BY <1>3, TableSame, TicksStay
<1>4. ASSUME NEW n \in Nodes, Restart(n) PROVE SchedulerInv'
  BY <1>3, <1>4 DEF Restart
<1>5. CASE ClockTicks \/ UNCHANGED schedulerVars
  BY <1>3, <1>5 DEF ClockTicks, schedulerVars
<1>6. CASE WorkerRuns
  <2>1. TableShape' /\ UniqueKeys' /\ RowsStay /\ tick' = tick
    BY <1>6, WorkerRunsKeeps DEF WorkerRuns
  <2> QED
    BY <2>1, TicksStay
<1> QED
  BY <1>1, <1>2, <1>4, <1>5, <1>6 DEF SchedulerNext

LEMMA SchedulerStart == SchedulerInit => SchedulerInv
<1> SUFFICES ASSUME SchedulerInit PROVE SchedulerInv
  OBVIOUS
<1>1. TableShape /\ UniqueKeys
  BY DEF SchedulerInit, EmptyTable, TableShape, RowFields, UniqueKeys, Present
<1>2. TicksInv(jobs, tick)
  BY DEF SchedulerInit, TicksInv, TickInv, Idle
<1> QED
  BY <1>1, <1>2 DEF SchedulerInv

LEMMA SchedulerInvHolds == SchedulerSpec => []SchedulerInv
  BY SchedulerStart, SchedulerInvNext, PTL DEF SchedulerSpec

(* OneJobPerWindow, of tick_once and the unique index: any number of nodes  *)
(* that tick, race, crash and restart leave at most one job per spec,       *)
(* target and window, whatever the workers have done with the first.        *)
THEOREM OneJobAWindow == SchedulerSpec => []OneJobPerWindow
<1>1. SchedulerInv => OneJobPerWindow
  <2> SUFFICES ASSUME SchedulerInv, NEW key \in Keys
               PROVE  Cardinality(RowsWithKey(key)) <= 1
    BY DEF OneJobPerWindow
  <2>1. key # NoKey
    BY NamesAssumption
  <2>2. \A i, j \in RowsWithKey(key) : i = j
    BY <2>1 DEF SchedulerInv, UniqueKeys, RowsWithKey
  <2>3. CASE RowsWithKey(key) = {}
    BY <2>3, FS_EmptySet
  <2>4. CASE RowsWithKey(key) # {}
    <3>1. PICK i : RowsWithKey(key) = {i}
      BY <2>2, <2>4
    <3>2. Cardinality({i}) = 1
      BY FS_Singleton
    <3> QED
      BY <3>1, <3>2
  <2> QED
    BY <2>3, <2>4
<1> QED
  BY <1>1, SchedulerInvHolds, PTL

(* TickCoversItsWindow, of tick_once: when a tick is over, every spec and   *)
(* target it did not skip over a failure has a job for the window, also     *)
(* where another node won the INSERT.                                       *)
THEOREM TickCovers == SchedulerSpec => []TickCoversItsWindow
<1>1. SchedulerInv => TickCoversItsWindow
  BY HasRowIs DEF SchedulerInv, TicksInv, TickInv, Accounted, TickCoversItsWindow
<1> QED
  BY <1>1, SchedulerInvHolds, PTL
=============================================================================
