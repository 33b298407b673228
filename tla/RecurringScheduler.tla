------------------------- MODULE RecurringScheduler -------------------------
(***************************************************************************)
(* crates/frick-server/src/jobs/recurring.rs: scheduler processes that     *)
(* share one jobs table.  A tick takes now_ms once; for each recurring     *)
(* spec it computes the start of the window now_ms falls in, resolves the  *)
(* targets and enqueues one job per target under a key made of spec,       *)
(* target and window.  The lookup and the INSERT of enqueue are two        *)
(* statements, so two nodes may both miss and race on the unique index.    *)
(* A spec's resolver and every store call may fail; the tick goes on.      *)
(***************************************************************************)
EXTENDS JobStore

CONSTANTS
    Nodes,       \* processes running a scheduler
    Specs,       \* the registered recurring jobs
    Targets,     \* what a resolver returns: (tenant, app) pairs
    interval,    \* interval[s]: the spec's interval_ms
    Times,       \* bound: the clock's values, an interval 0..n
    MaxFailures  \* bound: failed resolves, store errors and crashes

ASSUME IntervalAssumption == interval \in [Specs -> Nat \ {0}]
ASSUME KeysAssumption == Keys = Specs \X Targets \X Times

VARIABLES
    up,        \* up[n]: the process runs
    tick,      \* tick[n]: its tick_once, or Idle
    failures   \* failures so far

schedulerVars == <<jobs, clock, up, tick, failures>>

(* A tick: its now_ms, the specs and the targets of the current spec still  *)
(* to do, the enqueue that has looked its key up, and what it skipped.      *)
Idle == [step |-> "idle"]
TickRecord == [step : {"specs", "targets", "insert", "done"}, now : Times,
               specs : SUBSET Specs, spec : Specs,
               targets : SUBSET Targets, target : Targets,
               skipped : SUBSET (Specs \X Targets)]

SchedulerTypeOK ==
    /\ TableOK
    /\ clock \in Times
    /\ up \in [Nodes -> BOOLEAN]
    /\ tick \in [Nodes -> TickRecord \cup {Idle}]
    /\ failures \in 0..MaxFailures

SchedulerInit ==
    /\ jobs = EmptyTable
    /\ clock = 0
    /\ up = [n \in Nodes |-> TRUE]
    /\ tick = [n \in Nodes |-> Idle]
    /\ failures = 0

-----------------------------------------------------------------------------

(* recurring_window_start: floor division. *)
WindowStart(now, length) == (now \div length) * length

(* recurring_idempotency_key *)
KeyOf(spec, target, now) == <<spec, target, WindowStart(now, interval[spec])>>

Fails == /\ failures < MaxFailures
         /\ failures' = failures + 1

(* The timer fires and the clock is read.  Ticks of one node never overlap. *)
TickStarts(n) ==
    /\ up[n] /\ tick[n].step \in {"idle", "done"}
    /\ tick' = [tick EXCEPT ![n] =
                  [step |-> "specs", now |-> clock, specs |-> Specs,
                   spec |-> CHOOSE s \in Specs : TRUE,
                   targets |-> {}, target |-> CHOOSE t \in Targets : TRUE,
                   skipped |-> {}]]
    /\ UNCHANGED <<jobs, clock, up, failures>>

(* resolve_targets of the next spec answers, or fails and the spec is skipped *)
(* for this tick.                                                             *)
ResolveTargets(n) ==
    /\ tick[n].step = "specs"
    /\ \E spec \in tick[n].specs :
         \/ /\ tick' = [tick EXCEPT ![n].step = "targets",
                                    ![n].spec = spec,
                                    ![n].specs = @ \ {spec},
                                    ![n].targets = Targets]
            /\ UNCHANGED failures
         \/ /\ Fails
            /\ tick' = [tick EXCEPT ![n].specs = @ \ {spec},
                                    ![n].skipped = @ \cup ({spec} \X Targets)]
    /\ UNCHANGED <<jobs, clock, up>>

(* Mutant of LoopsOn: `return` for `continue`, the tick ends after a spec. *)
StopsAfterOneSpec(n) ==
    /\ \/ tick[n].step = "targets" /\ tick[n].targets = {}
       \/ tick[n].step = "specs" /\ tick[n].specs = {}
    /\ tick' = [tick EXCEPT ![n].step = "done"]
    /\ UNCHANGED <<jobs, clock, up, failures>>

(* All targets of the spec are done: the next spec, or the end of the tick. *)
LoopsOn(n) ==
    /\ \/ /\ tick[n].step = "targets" /\ tick[n].targets = {}
          /\ tick' = [tick EXCEPT ![n].step = "specs"]
       \/ /\ tick[n].step = "specs" /\ tick[n].specs = {}
          /\ tick' = [tick EXCEPT ![n].step = "done"]
    /\ UNCHANGED <<jobs, clock, up, failures>>

(* Mutant of EnqueueLooksUp: the key is looked up without its window. *)
LooksUpWithoutWindow(n) ==
    /\ tick[n].step = "targets"
    /\ \E target \in tick[n].targets :
         LET found == \E t \in Times :
                        RowsWithKey(KeyOf(tick[n].spec, target, t)) # {}
         IN  tick' = [tick EXCEPT ![n].step = IF found THEN "targets" ELSE "insert",
                                  ![n].target = target,
                                  ![n].targets = @ \ {target}]
    /\ UNCHANGED <<jobs, clock, up, failures>>

(* enqueue's lookup: a row of the window ends it, whatever its status. *)
EnqueueLooksUp(n) ==
    /\ tick[n].step = "targets"
    /\ \E target \in tick[n].targets :
         LET found == RowsWithKey(KeyOf(tick[n].spec, target, tick[n].now)) # {}
         IN  tick' = [tick EXCEPT ![n].step = IF found THEN "targets" ELSE "insert",
                                  ![n].target = target,
                                  ![n].targets = @ \ {target}]
    /\ UNCHANGED <<jobs, clock, up, failures>>

(* enqueue's INSERT, with available_at the start of the window; the unique  *)
(* index turns a lost race into an error that is logged, as is any other    *)
(* store error.                                                             *)
EnqueueInsertsJob(n) ==
    LET spec == tick[n].spec
        key  == KeyOf(spec, tick[n].target, tick[n].now)
    IN
    /\ tick[n].step = "insert"
    /\ \/ /\ IndexAccepts(key)
          /\ \E id \in JobIds, type \in Types, max \in MaxAttempts :
               /\ NextId(id)
               /\ InsertRow(id, [key |-> key, type |-> type, maxAttempts |-> max,
                                 availableAt |-> WindowStart(tick[n].now, interval[spec])])
          /\ tick' = [tick EXCEPT ![n].step = "targets"]
          /\ UNCHANGED failures
       \/ /\ ~IndexAccepts(key)
          /\ tick' = [tick EXCEPT ![n].step = "targets"]
          /\ UNCHANGED <<jobs, failures>>
       \/ /\ Fails
          /\ tick' = [tick EXCEPT ![n].step = "targets",
                                  ![n].skipped = @ \cup {<<spec, tick[n].target>>}]
          /\ UNCHANGED jobs
    /\ UNCHANGED <<clock, up>>

(* The process dies in the middle of whatever it does, and later restarts. *)
Crash(n) ==
    /\ up[n]
    /\ Fails
    /\ up' = [up EXCEPT ![n] = FALSE]
    /\ tick' = [tick EXCEPT ![n] = Idle]
    /\ UNCHANGED <<jobs, clock>>

Restart(n) ==
    /\ ~up[n]
    /\ up' = [up EXCEPT ![n] = TRUE]
    /\ UNCHANGED <<jobs, clock, tick, failures>>

(* A job worker takes a due row to its end; only the statuses matter here. *)
WorkerRuns ==
    /\ \E id \in JobIds, w \in Workers :
         \/ /\ id \in Claimable(Types, clock)
            /\ ClaimRows({id}, w)
         \/ /\ jobs[id].status = "running"
            /\ CompleteRow(id)
    /\ UNCHANGED <<clock, up, tick, failures>>

ClockTicks ==
    /\ clock + 1 \in Times
    /\ clock' = clock + 1
    /\ UNCHANGED <<jobs, up, tick, failures>>

SchedulerStep(n) == \/ TickStarts(n) \/ ResolveTargets(n) \/ LoopsOn(n)
                    \/ EnqueueLooksUp(n) \/ EnqueueInsertsJob(n)

SchedulerNext ==
    \/ \E n \in Nodes : SchedulerStep(n) \/ Crash(n) \/ Restart(n)
    \/ WorkerRuns
    \/ ClockTicks

(* A running process's timer keeps firing and its ticks end; a process that *)
(* died is restarted; time passes.                                          *)
SchedulerFairness ==
    /\ \A n \in Nodes : WF_schedulerVars(SchedulerStep(n)) /\ WF_schedulerVars(Restart(n))
    /\ WF_schedulerVars(ClockTicks)

SchedulerSpec == SchedulerInit /\ [][SchedulerNext]_schedulerVars
SchedulerLiveSpec == SchedulerSpec /\ SchedulerFairness

-----------------------------------------------------------------------------

(* "repeated ticks in the same window are no-ops": however many nodes tick, *)
(* race, crash and restart in a window, and whatever became of the first    *)
(* job, a spec has at most one job per target and window.                   *)
OneJobPerWindow ==
    \A key \in Keys : Cardinality(RowsWithKey(key)) <= 1

(* A finished tick leaves a job for its window and every target it did not  *)
(* explicitly skip over a failure - also when another node won the INSERT.  *)
TickCoversItsWindow ==
    \A n \in Nodes : tick[n].step = "done" =>
        \A spec \in Specs, target \in Targets :
            \/ <<spec, target>> \in tick[n].skipped
            \/ RowsWithKey(KeyOf(spec, target, tick[n].now)) # {}

(* A tick that has begun serves its window, unless it skips the target over *)
(* a failure or its process dies: no interleaving with the clock, with      *)
(* another node's tick or with the workers makes it wait forever.           *)
TickedWindowsAreServed ==
    \A n \in Nodes, t \in Times :
        (tick[n].step = "specs" /\ tick[n].now = t)
            ~> \/ tick[n] = Idle
               \/ \A spec \in Specs, target \in Targets :
                     \/ RowsWithKey(KeyOf(spec, target, t)) # {}
                     \/ <<spec, target>> \in tick[n].skipped
=============================================================================
