----------------------------- MODULE ObjectStore -----------------------------
(***************************************************************************)
(* One object, written by several tasks of several apps:                   *)
(* FrickStore::upsert_object_with_policy and delete_object over            *)
(* ObjectStore::upsert_with_policy and delete (crates/frick-store/src/     *)
(* stores/object.rs and facade.rs), and SqlDriver::transaction (driver.rs) *)
(* under both drivers.  Every statement is a step.                         *)
(*                                                                         *)
(* SQLite: one connection; transaction_gate serialises transactions, but a *)
(* plain statement of another task lands inside the open transaction and   *)
(* is undone with it.  Postgres: READ COMMITTED; a reader sees the last    *)
(* committed row and takes no lock, a writer locks the row until it        *)
(* commits.  `row` is the row as the writing connection sees it, `undo`    *)
(* what a ROLLBACK restores.                                               *)
(***************************************************************************)
EXTENDS Integers

CONSTANTS
    Dialect,   \* the SQL driver
    Policy,    \* resolve_object_merge_policy of the object's type
    Tasks,     \* request handlers
    Nobody,    \* no task
    Apps,      \* the apps that share the (tenant, type, id) key
    NoApp,     \* the app of an absent row
    MaxCalls,  \* bound: calls ever made
    MaxFaults  \* bound: statement errors and crashes

ASSUME DialectAssumption == Dialect \in {"sqlite", "postgres"}
ASSUME PolicyAssumption == Policy \in {"versionPrecondition", "lastWriteWins"}
ASSUME NobodyAssumption == Nobody \notin Tasks
ASSUME NoAppAssumption == NoApp \notin Apps
ASSUME ObjectBoundsAssumption == MaxCalls \in Nat /\ MaxFaults \in Nat

VARIABLES
    row,     \* the objects row, with the incarnation (epoch) it belongs to
    holder,  \* who has the transaction gate (SQLite) or the row lock (Postgres)
    undo,    \* the row before the holder's transaction
    task,    \* task[t]: where t's call is and its locals
    view,    \* what a subscriber shows: the value of the last delta, 0 is none
    calls,   \* calls so far; the n-th call writes the value n
    faults,  \* faults so far
    built    \* history: the states committed updates were decided on

dbVars == <<row, holder, undo>>
vars == <<dbVars, task, view, calls, faults, built>>

(* Option::None of expected_version: create only. *)
CreateOnly == -1

Absent(epoch) == [app |-> NoApp, version |-> 0, value |-> 0, epoch |-> epoch]
Present(r) == r.app # NoApp
Call(pc, app, expected, value) ==
    [pc |-> pc, app |-> app, expected |-> expected, value |-> value,
     version |-> 0, epoch |-> 0, stored |-> 0]
Idle == Call("idle", NoApp, CreateOnly, 0)

Row == [app : Apps \cup {NoApp}, version : Nat, value : Nat, epoch : Nat]

CallState == [pc : {"idle", "begin", "selectVersion", "selectOwner", "write", "commit",
                    "reread", "notify", "notifyDelete"},
              app : Apps \cup {NoApp}, expected : Nat \cup {CreateOnly}, value : Nat,
              version : Nat, epoch : Nat, stored : Nat]

TypeOK ==
    /\ row \in Row /\ undo \in Row
    /\ holder \in Tasks \cup {Nobody}
    /\ task \in [Tasks -> CallState]
    /\ view \in Nat
    /\ calls \in 0..MaxCalls /\ faults \in 0..MaxFaults
    /\ built \in SUBSET [app : Apps, epoch : Nat, version : Nat, value : Nat]

Init ==
    /\ row = Absent(0) /\ undo = Absent(0) /\ holder = Nobody
    /\ task = [t \in Tasks |-> Idle]
    /\ view = 0
    /\ calls = 0 /\ faults = 0
    /\ built = {}

-----------------------------------------------------------------------------
(* The drivers.                                                            *)

(* What a SELECT of t sees. *)
Visible(t) == IF Dialect = "postgres" /\ holder \notin {t, Nobody} THEN undo ELSE row

(* May t change the row now?  Postgres waits for the row lock. *)
MayChange(t) == Dialect = "sqlite" \/ holder \in {t, Nobody}

Goes(t, pc) == task' = [task EXCEPT ![t].pc = pc]

(* ROLLBACK, and the gate or lock is given up. *)
RollsBack(t) ==
    /\ row' = IF holder = t THEN undo ELSE row
    /\ holder' = IF holder = t THEN Nobody ELSE holder
    /\ UNCHANGED undo

-----------------------------------------------------------------------------
(* upsert_object_with_policy.                                              *)

UpsertObjectWithPolicy(t, app, expected) ==
    /\ task[t].pc = "idle"
    /\ calls < MaxCalls
    /\ calls' = calls + 1
    /\ task' = [task EXCEPT ![t] = Call("begin", app, expected, calls + 1)]
    /\ UNCHANGED <<dbVars, view, faults, built>>

(* Mutant of Begin: the transaction gate is not taken. *)
BeginsWithoutGate(t) ==
    /\ task[t].pc = "begin"
    /\ Goes(t, "selectVersion")
    /\ UNCHANGED <<dbVars, view, calls, faults, built>>

(* The gate and BEGIN IMMEDIATE, or just BEGIN. *)
Begin(t) ==
    /\ task[t].pc = "begin"
    /\ \/ /\ Dialect = "sqlite"
          /\ holder = Nobody
          /\ holder' = t /\ undo' = row
       \/ /\ Dialect = "postgres"
          /\ UNCHANGED <<holder, undo>>
    /\ Goes(t, "selectVersion")
    /\ UNCHANGED <<row, view, calls, faults, built>>

(* versionPrecondition: a create must find no row, an update the expected   *)
(* version (0 when there is none).                                          *)
Conflicts(expected, exists, version) ==
    /\ Policy = "versionPrecondition"
    /\ IF expected = CreateOnly THEN exists ELSE version # expected

NextVersion(call) ==
    IF Policy = "lastWriteWins" THEN call.version + 1
    ELSE IF call.expected = CreateOnly THEN 1 ELSE call.expected + 1

(* Mutant of SelectVersion: a conflict returns without rolling back. *)
ConflictsInsideTransaction(t) ==
    /\ task[t].pc = "selectVersion"
    /\ LET found  == Visible(t)
           exists == Present(found) /\ found.app = task[t].app
           version == IF exists THEN found.version ELSE 0 IN
       \/ /\ Conflicts(task[t].expected, exists, version)
          /\ task' = [task EXCEPT ![t] = Idle]
       \/ /\ ~Conflicts(task[t].expected, exists, version)
          /\ task' = [task EXCEPT ![t].pc = "selectOwner", ![t].version = version,
                                  ![t].epoch = found.epoch]
    /\ UNCHANGED <<dbVars, view, calls, faults, built>>

(* SELECT version, of a row of this app, and the precondition.  A conflict  *)
(* rolls back and is the call's answer.                                     *)
SelectVersion(t) ==
    /\ task[t].pc = "selectVersion"
    /\ LET found  == Visible(t)
           exists == Present(found) /\ found.app = task[t].app
           version == IF exists THEN found.version ELSE 0 IN
       \/ /\ Conflicts(task[t].expected, exists, version)
          /\ RollsBack(t)
          /\ task' = [task EXCEPT ![t] = Idle]
       \/ /\ ~Conflicts(task[t].expected, exists, version)
          /\ task' = [task EXCEPT ![t].pc = "selectOwner", ![t].version = version,
                                  ![t].epoch = found.epoch]
          /\ UNCHANGED dbVars
    /\ UNCHANGED <<view, calls, faults, built>>

(* Mutant of OwnedByAnother: the cross-app guard is missing. *)
NeverOwned(found, app) == FALSE

OwnedByAnother(found, app) == Present(found) /\ found.app # app

(* write_row_packed: the cross-app guard ... *)
SelectOwner(t) ==
    /\ task[t].pc = "selectOwner"
    /\ \/ /\ OwnedByAnother(Visible(t), task[t].app)
          /\ RollsBack(t)
          /\ task' = [task EXCEPT ![t] = Idle]
       \/ /\ ~OwnedByAnother(Visible(t), task[t].app)
          /\ Goes(t, "write")
          /\ UNCHANGED dbVars
    /\ UNCHANGED <<view, calls, faults, built>>

(* ... and INSERT ... ON CONFLICT DO UPDATE, whatever the row is by now. *)
WriteRow(t) ==
    /\ task[t].pc = "write"
    /\ MayChange(t)
    /\ row' = [app |-> task[t].app, version |-> NextVersion(task[t]),
               value |-> task[t].value, epoch |-> row.epoch]
    /\ \/ Dialect = "sqlite" /\ UNCHANGED <<holder, undo>>
       \/ Dialect = "postgres" /\ holder' = t /\ undo' = row
    /\ Goes(t, "commit")
    /\ UNCHANGED <<view, calls, faults, built>>

Commit(t) ==
    /\ task[t].pc = "commit"
    /\ holder' = Nobody
    /\ built' = built \cup {[app |-> task[t].app, epoch |-> task[t].epoch,
                             version |-> task[t].version, value |-> task[t].value]}
    /\ Goes(t, "reread")
    /\ UNCHANGED <<row, undo, view, calls, faults>>

(* The stored row is read again, falling back to the value that was sent ... *)
Reread(t) ==
    /\ task[t].pc = "reread"
    /\ task' = [task EXCEPT ![t].pc = "notify",
                            ![t].stored = IF Visible(t).app = task[t].app
                                          THEN Visible(t).value ELSE task[t].value]
    /\ UNCHANGED <<dbVars, view, calls, faults, built>>

(* Mutant of Notify: the call never ends. *)
NotifiesAndStays(t) ==
    /\ task[t].pc = "notify"
    /\ view' = task[t].stored
    /\ Goes(t, "notified")
    /\ UNCHANGED <<dbVars, calls, faults, built>>

(* ... and, after the projections and the search projector, the write       *)
(* listener broadcasts it; clients keep the last delta they are given.      *)
Notify(t) ==
    /\ task[t].pc = "notify"
    /\ view' = task[t].stored
    /\ task' = [task EXCEPT ![t] = Idle]
    /\ UNCHANGED <<dbVars, calls, faults, built>>

-----------------------------------------------------------------------------
(* delete_object.                                                          *)

(* RunResult::changes of the DELETE: the Postgres driver counts the rows    *)
(* the statement returned, which are none.                                  *)
Changes(deleted) == IF Dialect = "sqlite" /\ deleted THEN 1 ELSE 0

(* One plain statement.  The listener is told only if `changes` says that   *)
(* there was a row.                                                         *)
DeleteObject(t, app) ==
    /\ task[t].pc = "idle"
    /\ calls < MaxCalls
    /\ calls' = calls + 1
    /\ MayChange(t)
    /\ LET deleted == Present(row) /\ row.app = app IN
       /\ row' = IF deleted THEN Absent(row.epoch + 1) ELSE row
       /\ task' = [task EXCEPT ![t].pc =
                     IF Changes(deleted) > 0 THEN "notifyDelete" ELSE "idle"]
    /\ UNCHANGED <<holder, undo, view, faults, built>>

NotifyDelete(t) ==
    /\ task[t].pc = "notifyDelete"
    /\ view' = 0
    /\ task' = [task EXCEPT ![t] = Idle]
    /\ UNCHANGED <<dbVars, calls, faults, built>>

-----------------------------------------------------------------------------
(* Faults.                                                                 *)

(* A statement of the transaction fails: ROLLBACK, and the caller gets the  *)
(* error.                                                                   *)
StatementFails(t) ==
    /\ faults < MaxFaults
    /\ task[t].pc \in {"selectVersion", "selectOwner", "write"}
    /\ RollsBack(t)
    /\ task' = [task EXCEPT ![t] = Idle]
    /\ faults' = faults + 1
    /\ UNCHANGED <<view, calls, built>>

(* The process dies: the database drops the open transaction; clients       *)
(* reconnect and get a snapshot.                                            *)
Crash ==
    /\ faults < MaxFaults
    /\ row' = IF holder = Nobody THEN row ELSE undo
    /\ holder' = Nobody
    /\ task' = [t \in Tasks |-> Idle]
    /\ view' = row'.value
    /\ faults' = faults + 1
    /\ UNCHANGED <<undo, calls, built>>

CallStep(t) == \/ Begin(t) \/ SelectVersion(t) \/ SelectOwner(t) \/ WriteRow(t)
               \/ Commit(t) \/ Reread(t) \/ Notify(t) \/ NotifyDelete(t)

Next == \/ \E t \in Tasks, app \in Apps, expected \in {CreateOnly} \cup 0..MaxCalls :
              UpsertObjectWithPolicy(t, app, expected)
        \/ \E t \in Tasks : CallStep(t) \/ StatementFails(t)
        \/ \E t \in Tasks, app \in Apps : DeleteObject(t, app)
        \/ Crash

Spec == Init /\ [][Next]_vars

(* The runtime polls every ready task, and waiters get the transaction gate *)
(* in the order they came (tokio::sync::Mutex), a row lock likewise.        *)
LiveSpec == Spec /\ \A t \in Tasks : SF_vars(CallStep(t))

-----------------------------------------------------------------------------
(* Properties.                                                             *)

(* object.rs:17-20: "two concurrent updates cannot both observe the same    *)
(* current_version and succeed": no two committed updates of an app were    *)
(* decided on the same version of the same incarnation of the object,       *)
(* whatever deletes, conflicts, errors and crashes came between.            *)
NoLostUpdate ==
    \A one, other \in built :
        (/\ one.app = other.app /\ one.epoch = other.epoch
         /\ one.version = other.version) => one = other

(* object.rs:6-11: the cross-app guard "closes that hole": the upsert never *)
(* lands on a row of another app, although the guard is a statement of its  *)
(* own before it.                                                           *)
AppsKeepTheirRows ==
    [][\A t \in Tasks :
         (task[t].pc = "write" /\ task'[t].pc = "commit")
             => row.app \in {task[t].app, NoApp}]_vars

(* Every call returns: no path of a call keeps the transaction gate, so     *)
(* nobody waits for ever.                                                   *)
CallsReturn == \A t \in Tasks : task[t].pc # "idle" ~> task[t].pc = "idle"
=============================================================================
