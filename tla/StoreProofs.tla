----------------------------- MODULE StoreProofs -----------------------------
(***************************************************************************)
(* Proofs about what is stored under one key: an object (ObjectStore) and  *)
(* a blob (Blobs).                                                         *)
(*                                                                         *)
(* Objects, on SQLite, for any number of tasks, apps and calls: no lost    *)
(* update and no row taken over by another app.  The argument: the gate    *)
(* has one owner at a time; other tasks' plain DELETEs may still change    *)
(* the row under his transaction, but they only ever start a later         *)
(* incarnation.  So what he read is the row as it is, or belongs to an     *)
(* incarnation that is over; and whatever was committed before precedes    *)
(* the row, also the one a rollback would bring back.                      *)
(*                                                                         *)
(* Blobs, for any number of clients, files and chunks: what is staged is   *)
(* in order, what is served is what the row's hash says, and an upload     *)
(* that was told it succeeded did.  The argument is about what a handler   *)
(* between two of its statements may still count on, whatever the others   *)
(* did meanwhile.                                                          *)
(***************************************************************************)
EXTENDS ObjectStore, Blobs, SequenceTheorems, TLAPS

-----------------------------------------------------------------------------
(* Objects.                                                                *)

InTransaction == {"selectVersion", "selectOwner", "write", "commit"}
Decided == {"selectOwner", "write", "commit"}

(* A committed decision belongs to a state before r. *)
Precedes(decision, r) ==
    \/ decision.epoch < r.epoch
    \/ /\ decision.epoch = r.epoch /\ decision.app = r.app
       /\ decision.version < r.version

(* The gate is held exactly by the task whose transaction is open. *)
GateInv == \A t \in Tasks : task[t].pc \in InTransaction <=> holder = t

CallerInv == \A t \in Tasks : task[t].pc \in InTransaction \cup {"begin"} => task[t].app \in Apps

HistoryInv == \A x \in built : /\ Precedes(x, row)
                               /\ holder # Nobody => Precedes(x, undo)

(* Nobody has committed on what the open transaction has read. *)
FreshInv == \A t \in Tasks : task[t].pc \in Decided =>
    \A x \in built : ~(/\ x.app = task[t].app /\ x.epoch = task[t].epoch
                       /\ x.version = task[t].version)

(* What was read is the row, or the row's incarnation is over. *)
SeenInv == \A t \in Tasks : task[t].pc \in {"selectOwner", "write"} =>
    /\ NextVersion(task[t]) = task[t].version + 1
    /\ task[t].epoch <= row.epoch
    /\ row.app = task[t].app => /\ task[t].epoch = row.epoch
                                /\ task[t].version = row.version

GuardInv == \A t \in Tasks : task[t].pc = "write" => row.app \in {task[t].app, NoApp}

(* What will be committed precedes the row. *)
CommitInv == \A t \in Tasks : task[t].pc = "commit" =>
    \/ task[t].epoch < row.epoch
    \/ /\ task[t].epoch = row.epoch /\ row.app = task[t].app
       /\ task[t].version < row.version

ObjectInv == /\ TypeOK /\ GateInv /\ CallerInv /\ HistoryInv /\ FreshInv /\ SeenInv
        /\ GuardInv /\ CommitInv /\ NoLostUpdate

-----------------------------------------------------------------------------
(* A call's record keeps its type when its stage and numbers are set.       *)
LEMMA CallFields ==
  ASSUME NEW c \in CallState, NEW v \in Nat, NEW e \in Nat
  PROVE  /\ [c EXCEPT !.pc = "selectOwner", !.version = v, !.epoch = e] \in CallState
         /\ [c EXCEPT !.pc = "notify", !.stored = v] \in CallState
<1>1. [c EXCEPT !.pc = "selectOwner", !.version = v, !.epoch = e] \in CallState
  BY DEF CallState
<1>2. [c EXCEPT !.pc = "notify", !.stored = v] \in CallState
  BY DEF CallState
<1> QED  BY <1>1, <1>2

LEMMA InitInv == Init => ObjectInv
  BY NobodyAssumption, NoAppAssumption, ObjectBoundsAssumption
     DEF Init, ObjectInv, TypeOK, Row, CallState, Absent, Idle, Call, CreateOnly, GateInv, CallerInv,
         HistoryInv, FreshInv, SeenInv, GuardInv, CommitInv, NoLostUpdate,
         InTransaction, Decided

LEMMA UpsertObjectWithPolicyKeeps ==
  ASSUME Dialect = "sqlite", ObjectInv,
         NEW t \in Tasks, NEW app \in Apps,
         NEW expected \in {CreateOnly} \cup 0..MaxCalls,
         UpsertObjectWithPolicy(t, app, expected)
  PROVE  ObjectInv'
<1>1. TypeOK'
  BY ObjectBoundsAssumption
     DEF ObjectInv, dbVars, UpsertObjectWithPolicy, Call, TypeOK, CallState
<1>2. GateInv'
  BY DEF ObjectInv, dbVars, UpsertObjectWithPolicy, Call, GateInv, InTransaction
<1>3. CallerInv'
  BY DEF ObjectInv, UpsertObjectWithPolicy, Call, CallerInv
<1>4. HistoryInv'
  BY DEF ObjectInv, dbVars, UpsertObjectWithPolicy, HistoryInv
<1>5. FreshInv'
  BY DEF ObjectInv, UpsertObjectWithPolicy, Call, FreshInv, Decided
<1>6. SeenInv'
  BY DEF ObjectInv, dbVars, UpsertObjectWithPolicy, Call, SeenInv
<1>7. GuardInv'
  BY DEF ObjectInv, dbVars, UpsertObjectWithPolicy, Call, GuardInv
<1>8. CommitInv'
  BY DEF ObjectInv, dbVars, UpsertObjectWithPolicy, Call, CommitInv
<1>9. NoLostUpdate'
  BY DEF ObjectInv, UpsertObjectWithPolicy, NoLostUpdate
<1> QED  BY <1>1, <1>2, <1>3, <1>4, <1>5, <1>6, <1>7, <1>8, <1>9 DEF ObjectInv

LEMMA BeginKeeps ==
  ASSUME Dialect = "sqlite", ObjectInv,
         NEW t \in Tasks, Begin(t)
  PROVE  ObjectInv'
<1>1. TypeOK'
  BY DEF ObjectInv, Begin, Goes, TypeOK, CallState
<1>2. GateInv'
  BY NobodyAssumption
     DEF ObjectInv, Begin, Goes, GateInv, InTransaction, TypeOK
<1>3. CallerInv'
  BY DEF ObjectInv, Begin, Goes, CallerInv
<1>4. HistoryInv'
  BY DEF ObjectInv, Begin, HistoryInv
<1>5. FreshInv'
  BY DEF ObjectInv, Begin, Goes, FreshInv, Decided
<1>6. SeenInv'
  BY DEF ObjectInv, Begin, Goes, SeenInv
<1>7. GuardInv'
  BY DEF ObjectInv, Begin, Goes, GuardInv
<1>8. CommitInv'
  BY DEF ObjectInv, Begin, Goes, CommitInv
<1>9. NoLostUpdate'
  BY DEF ObjectInv, Begin, NoLostUpdate
<1> QED  BY <1>1, <1>2, <1>3, <1>4, <1>5, <1>6, <1>7, <1>8, <1>9 DEF ObjectInv

LEMMA SelectVersionKeeps ==
  ASSUME Dialect = "sqlite", ObjectInv,
         NEW t \in Tasks, SelectVersion(t)
  PROVE  ObjectInv'
<1>1. TypeOK'
  BY DEF ObjectInv, dbVars, SelectVersion, RollsBack, Idle, Call, TypeOK, CallState
<1>2. GateInv'
  BY NobodyAssumption
     DEF ObjectInv, dbVars, SelectVersion, RollsBack, Idle, Call, GateInv,
         InTransaction, TypeOK, CallState
<1>3. CallerInv'
  BY DEF ObjectInv, SelectVersion, Idle, Call, CallerInv, InTransaction, TypeOK,
         CallState
<1>4. HistoryInv'
  BY NobodyAssumption
     DEF ObjectInv, dbVars, SelectVersion, RollsBack, HistoryInv
<1>5. FreshInv'
  BY NoAppAssumption
     DEF ObjectInv, SelectVersion, Visible, Present, Idle, Call, FreshInv,
         HistoryInv, Precedes, TypeOK, CallState
<1>6. SeenInv'
  BY NoAppAssumption, PolicyAssumption
     DEF ObjectInv, dbVars, SelectVersion, Visible, Conflicts, Present, Idle, Call,
         SeenInv, NextVersion, GateInv, InTransaction, CallerInv, TypeOK,
         CallState
<1>7. GuardInv'
  BY DEF ObjectInv, SelectVersion, Idle, Call, GuardInv, GateInv, InTransaction,
         TypeOK, CallState
<1>8. CommitInv'
  BY DEF ObjectInv, SelectVersion, Idle, Call, CommitInv, GateInv, InTransaction,
         TypeOK, CallState
<1>9. NoLostUpdate'
  BY DEF ObjectInv, SelectVersion, NoLostUpdate
<1> QED  BY <1>1, <1>2, <1>3, <1>4, <1>5, <1>6, <1>7, <1>8, <1>9 DEF ObjectInv

LEMMA SelectOwnerKeeps ==
  ASSUME Dialect = "sqlite", ObjectInv,
         NEW t \in Tasks, SelectOwner(t)
  PROVE  ObjectInv'
<1>1. TypeOK'
  BY DEF ObjectInv, dbVars, SelectOwner, RollsBack, Idle, Call, Goes, TypeOK,
         CallState
<1>2. GateInv'
  BY NobodyAssumption
     DEF ObjectInv, dbVars, SelectOwner, RollsBack, Idle, Call, Goes, GateInv,
         InTransaction, TypeOK, CallState
<1>3. CallerInv'
  BY DEF ObjectInv, SelectOwner, Idle, Call, Goes, CallerInv, InTransaction,
         TypeOK, CallState
<1>4. HistoryInv'
  BY NobodyAssumption
     DEF ObjectInv, dbVars, SelectOwner, RollsBack, HistoryInv
<1>5. FreshInv'
  BY DEF ObjectInv, SelectOwner, Idle, Call, Goes, FreshInv, Decided, TypeOK,
         CallState
<1>6. SeenInv'
  BY DEF ObjectInv, dbVars, SelectOwner, Idle, Call, Goes, SeenInv, NextVersion,
         GateInv, InTransaction, TypeOK, CallState
<1>7. GuardInv'
  BY DEF ObjectInv, dbVars, SelectOwner, OwnedByAnother, Visible, Present, Idle,
         Call, Goes, GuardInv, GateInv, InTransaction, TypeOK, CallState
<1>8. CommitInv'
  BY DEF ObjectInv, SelectOwner, Idle, Call, Goes, CommitInv, GateInv,
         InTransaction, TypeOK, CallState
<1>9. NoLostUpdate'
  BY DEF ObjectInv, SelectOwner, NoLostUpdate
<1> QED  BY <1>1, <1>2, <1>3, <1>4, <1>5, <1>6, <1>7, <1>8, <1>9 DEF ObjectInv

LEMMA WriteRowKeeps ==
  ASSUME Dialect = "sqlite", ObjectInv,
         NEW t \in Tasks, WriteRow(t)
  PROVE  ObjectInv'
<1>1. TypeOK'
  BY DEF ObjectInv, WriteRow, Goes, TypeOK, Row, CallState, SeenInv
<1>2. GateInv'
  BY DEF ObjectInv, WriteRow, Goes, GateInv, InTransaction
<1>3. CallerInv'
  BY DEF ObjectInv, WriteRow, Goes, CallerInv, InTransaction
<1>4. HistoryInv'
  BY NoAppAssumption
     DEF ObjectInv, WriteRow, HistoryInv, SeenInv, GuardInv, Precedes, TypeOK,
         CallState
<1>5. FreshInv'
  BY DEF ObjectInv, WriteRow, Goes, FreshInv, Decided
<1>6. SeenInv'
  BY DEF ObjectInv, WriteRow, Goes, SeenInv, GateInv, InTransaction, TypeOK
<1>7. GuardInv'
  BY DEF ObjectInv, WriteRow, Goes, GuardInv, GateInv, InTransaction
<1>8. CommitInv'
  BY DEF ObjectInv, WriteRow, Goes, CommitInv, SeenInv, GateInv, InTransaction,
         TypeOK, Row, CallState
<1>9. NoLostUpdate'
  BY DEF ObjectInv, WriteRow, NoLostUpdate
<1> QED  BY <1>1, <1>2, <1>3, <1>4, <1>5, <1>6, <1>7, <1>8, <1>9 DEF ObjectInv

LEMMA CommitKeeps ==
  ASSUME Dialect = "sqlite", ObjectInv,
         NEW t \in Tasks, Commit(t)
  PROVE  ObjectInv'
<1>1. TypeOK'
  BY DEF ObjectInv, Commit, Goes, TypeOK, CallState, CallerInv, InTransaction
<1>2. GateInv'
  BY NobodyAssumption
     DEF ObjectInv, Commit, Goes, GateInv, InTransaction, TypeOK
<1>3. CallerInv'
  BY DEF ObjectInv, Commit, Goes, CallerInv, InTransaction
<1>4. HistoryInv'
  BY DEF ObjectInv, Commit, HistoryInv, CommitInv, Precedes
<1>5. FreshInv'
  BY DEF ObjectInv, Commit, Goes, FreshInv, GateInv, InTransaction, Decided, TypeOK
<1>6. SeenInv'
  BY DEF ObjectInv, Commit, Goes, SeenInv
<1>7. GuardInv'
  BY DEF ObjectInv, Commit, Goes, GuardInv
<1>8. CommitInv'
  BY DEF ObjectInv, Commit, Goes, CommitInv
<1>9. NoLostUpdate'
  BY DEF ObjectInv, Commit, NoLostUpdate, FreshInv, Decided
<1> QED  BY <1>1, <1>2, <1>3, <1>4, <1>5, <1>6, <1>7, <1>8, <1>9 DEF ObjectInv

LEMMA RereadKeeps ==
  ASSUME Dialect = "sqlite", ObjectInv,
         NEW t \in Tasks, Reread(t)
  PROVE  ObjectInv'
<1>1. TypeOK'
  <2>1. PICK found \in Nat :
          /\ task' = [task EXCEPT ![t].pc = "notify", ![t].stored = found]
          /\ UNCHANGED <<row, holder, undo, view, calls, faults, built>>
    <3>1. CASE Visible(t).app = task[t].app
      BY <3>1 DEF ObjectInv, TypeOK, Row, Visible, Reread, dbVars
    <3>2. CASE Visible(t).app # task[t].app
      BY <3>2 DEF ObjectInv, TypeOK, CallState, Reread, dbVars
    <3> QED  BY <3>1, <3>2
  <2>2. task \in [Tasks -> CallState]
    BY DEF ObjectInv, TypeOK
  <2>3. task' \in [Tasks -> CallState]
    BY <2>1, <2>2, CallFields
  <2> QED
    BY <2>1, <2>3 DEF ObjectInv, TypeOK, Row
<1>2. GateInv'
  BY DEF ObjectInv, dbVars, Reread, GateInv, InTransaction, TypeOK
<1>3. CallerInv'
  BY DEF ObjectInv, Reread, CallerInv, InTransaction, TypeOK
<1>4. HistoryInv'
  BY DEF ObjectInv, dbVars, Reread, HistoryInv
<1>5. FreshInv'
  BY DEF ObjectInv, Reread, FreshInv, Decided, TypeOK
<1>6. SeenInv'
  BY DEF ObjectInv, dbVars, Reread, SeenInv, TypeOK
<1>7. GuardInv'
  BY DEF ObjectInv, dbVars, Reread, GuardInv, TypeOK
<1>8. CommitInv'
  BY DEF ObjectInv, dbVars, Reread, CommitInv, TypeOK
<1>9. NoLostUpdate'
  BY DEF ObjectInv, Reread, NoLostUpdate
<1> QED  BY <1>1, <1>2, <1>3, <1>4, <1>5, <1>6, <1>7, <1>8, <1>9 DEF ObjectInv

LEMMA NotifyKeeps ==
  ASSUME Dialect = "sqlite", ObjectInv,
         NEW t \in Tasks, Notify(t)
  PROVE  ObjectInv'
<1>1. TypeOK'
  BY DEF ObjectInv, dbVars, Notify, Idle, Call, TypeOK, CallState
<1>2. GateInv'
  BY DEF ObjectInv, dbVars, Notify, Idle, Call, GateInv, InTransaction
<1>3. CallerInv'
  BY DEF ObjectInv, Notify, Idle, Call, CallerInv, InTransaction
<1>4. HistoryInv'
  BY DEF ObjectInv, dbVars, Notify, HistoryInv
<1>5. FreshInv'
  BY DEF ObjectInv, Notify, Idle, Call, FreshInv, Decided
<1>6. SeenInv'
  BY DEF ObjectInv, dbVars, Notify, Idle, Call, SeenInv
<1>7. GuardInv'
  BY DEF ObjectInv, dbVars, Notify, Idle, Call, GuardInv
<1>8. CommitInv'
  BY DEF ObjectInv, dbVars, Notify, Idle, Call, CommitInv
<1>9. NoLostUpdate'
  BY DEF ObjectInv, Notify, NoLostUpdate
<1> QED  BY <1>1, <1>2, <1>3, <1>4, <1>5, <1>6, <1>7, <1>8, <1>9 DEF ObjectInv

LEMMA DeleteObjectKeeps ==
  ASSUME Dialect = "sqlite", ObjectInv,
         NEW t \in Tasks, NEW app \in Apps, DeleteObject(t, app)
  PROVE  ObjectInv'
<1>1. TypeOK'
  BY ObjectBoundsAssumption
     DEF ObjectInv, DeleteObject, Absent, TypeOK, Row, CallState
<1>2. GateInv'
  BY DEF ObjectInv, DeleteObject, GateInv, InTransaction
<1>3. CallerInv'
  BY DEF ObjectInv, DeleteObject, CallerInv, InTransaction
<1>4. HistoryInv'
  BY DEF ObjectInv, DeleteObject, Absent, HistoryInv, Precedes, TypeOK, Row
<1>5. FreshInv'
  BY DEF ObjectInv, DeleteObject, FreshInv, Decided
<1>6. SeenInv'
  BY NoAppAssumption
     DEF ObjectInv, DeleteObject, Absent, SeenInv, InTransaction, CallerInv,
         TypeOK, Row, CallState
<1>7. GuardInv'
  BY DEF ObjectInv, DeleteObject, Absent, GuardInv
<1>8. CommitInv'
  BY DEF ObjectInv, DeleteObject, Absent, CommitInv, TypeOK, Row, CallState
<1>9. NoLostUpdate'
  BY DEF ObjectInv, DeleteObject, NoLostUpdate
<1> QED  BY <1>1, <1>2, <1>3, <1>4, <1>5, <1>6, <1>7, <1>8, <1>9 DEF ObjectInv

LEMMA NotifyDeleteKeeps ==
  ASSUME Dialect = "sqlite", ObjectInv,
         NEW t \in Tasks, NotifyDelete(t)
  PROVE  ObjectInv'
<1>1. TypeOK'
  BY DEF ObjectInv, dbVars, NotifyDelete, Idle, Call, TypeOK, CallState
<1>2. GateInv'
  BY DEF ObjectInv, dbVars, NotifyDelete, Idle, Call, GateInv, InTransaction
<1>3. CallerInv'
  BY DEF ObjectInv, NotifyDelete, Idle, Call, CallerInv, InTransaction
<1>4. HistoryInv'
  BY DEF ObjectInv, dbVars, NotifyDelete, HistoryInv
<1>5. FreshInv'
  BY DEF ObjectInv, NotifyDelete, Idle, Call, FreshInv, Decided
<1>6. SeenInv'
  BY DEF ObjectInv, dbVars, NotifyDelete, Idle, Call, SeenInv
<1>7. GuardInv'
  BY DEF ObjectInv, dbVars, NotifyDelete, Idle, Call, GuardInv
<1>8. CommitInv'
  BY DEF ObjectInv, dbVars, NotifyDelete, Idle, Call, CommitInv
<1>9. NoLostUpdate'
  BY DEF ObjectInv, NotifyDelete, NoLostUpdate
<1> QED  BY <1>1, <1>2, <1>3, <1>4, <1>5, <1>6, <1>7, <1>8, <1>9 DEF ObjectInv

LEMMA StatementFailsKeeps ==
  ASSUME Dialect = "sqlite", ObjectInv,
         NEW t \in Tasks, StatementFails(t)
  PROVE  ObjectInv'
<1>1. TypeOK'
  BY ObjectBoundsAssumption
     DEF ObjectInv, StatementFails, RollsBack, Idle, Call, TypeOK, CallState
<1>2. GateInv'
  BY NobodyAssumption
     DEF ObjectInv, StatementFails, RollsBack, Idle, Call, GateInv, InTransaction,
         TypeOK
<1>3. CallerInv'
  BY DEF ObjectInv, StatementFails, Idle, Call, CallerInv, InTransaction
<1>4. HistoryInv'
  BY NobodyAssumption
     DEF ObjectInv, StatementFails, RollsBack, HistoryInv
<1>5. FreshInv'
  BY DEF ObjectInv, StatementFails, Idle, Call, FreshInv, Decided
<1>6. SeenInv'
  BY DEF ObjectInv, StatementFails, Idle, Call, SeenInv, GateInv, InTransaction,
         TypeOK
<1>7. GuardInv'
  BY DEF ObjectInv, StatementFails, Idle, Call, GuardInv, GateInv, InTransaction,
         TypeOK
<1>8. CommitInv'
  BY DEF ObjectInv, StatementFails, Idle, Call, CommitInv, GateInv, InTransaction
<1>9. NoLostUpdate'
  BY DEF ObjectInv, StatementFails, NoLostUpdate
<1> QED  BY <1>1, <1>2, <1>3, <1>4, <1>5, <1>6, <1>7, <1>8, <1>9 DEF ObjectInv

LEMMA CrashKeeps ==
  ASSUME Dialect = "sqlite", ObjectInv,
         Crash
  PROVE  ObjectInv'
<1>1. TypeOK'
  BY ObjectBoundsAssumption
     DEF ObjectInv, Crash, Idle, Call, TypeOK, Row, CallState
<1>2. GateInv'
  BY NobodyAssumption
     DEF ObjectInv, Crash, Idle, Call, GateInv, InTransaction
<1>3. CallerInv'
  BY DEF ObjectInv, Crash, Idle, Call, CallerInv, InTransaction
<1>4. HistoryInv'
  BY DEF ObjectInv, Crash, HistoryInv
<1>5. FreshInv'
  BY DEF ObjectInv, Crash, Idle, Call, FreshInv, Decided
<1>6. SeenInv'
  BY DEF ObjectInv, Crash, Idle, Call, SeenInv
<1>7. GuardInv'
  BY DEF ObjectInv, Crash, Idle, Call, GuardInv
<1>8. CommitInv'
  BY DEF ObjectInv, Crash, Idle, Call, CommitInv
<1>9. NoLostUpdate'
  BY DEF ObjectInv, Crash, NoLostUpdate
<1> QED  BY <1>1, <1>2, <1>3, <1>4, <1>5, <1>6, <1>7, <1>8, <1>9 DEF ObjectInv

(* ObjectInv is inductive on SQLite. *)
LEMMA NextInv ==
  ASSUME Dialect = "sqlite", ObjectInv, [Next]_vars
  PROVE  ObjectInv'
<1>1. CASE Next
  <2>1. ASSUME NEW t \in Tasks, CallStep(t) PROVE ObjectInv'
    BY <2>1, BeginKeeps, SelectVersionKeeps, SelectOwnerKeeps, WriteRowKeeps, CommitKeeps,
       RereadKeeps, NotifyKeeps, NotifyDeleteKeeps DEF CallStep
  <2> QED
    BY <1>1, <2>1, UpsertObjectWithPolicyKeeps, StatementFailsKeeps, DeleteObjectKeeps,
       CrashKeeps DEF Next
<1>2. CASE UNCHANGED vars
  BY <1>2 DEF vars, dbVars, ObjectInv, TypeOK, GateInv, CallerInv, HistoryInv, FreshInv, SeenInv,
              GuardInv, CommitInv, NoLostUpdate, NextVersion
<1> QED  BY <1>1, <1>2

(* On SQLite the state keeps its types and no two updates of an object are  *)
(* decided on the same version (upsert_with_policy's BEGIN IMMEDIATE and    *)
(* the transaction gate), for any number of tasks, apps, calls and faults,  *)
(* under either merge policy.                                               *)
THEOREM ObjectsCorrect ==
  ASSUME Dialect = "sqlite"
  PROVE  Spec => [](TypeOK /\ NoLostUpdate)
<1>1. Init => ObjectInv  BY InitInv
<1>2. ObjectInv /\ [Next]_vars => ObjectInv'  BY NextInv
<1>3. ObjectInv => TypeOK /\ NoLostUpdate  BY DEF ObjectInv
<1> QED  BY <1>1, <1>2, <1>3, PTL DEF Spec

(* On SQLite no upsert lands on a row of another app, although the guard is *)
(* a SELECT of its own (write_row_packed): nothing but a DELETE comes       *)
(* between.                                                                 *)
THEOREM AppsIsolated ==
  ASSUME Dialect = "sqlite"
  PROVE  Spec => AppsKeepTheirRows
<1>1. Init => ObjectInv  BY InitInv
<1>2. ObjectInv /\ [Next]_vars => ObjectInv'  BY NextInv
<1>3. ObjectInv => \A t \in Tasks : (task[t].pc = "write" /\ task'[t].pc = "commit")
                                  => row.app \in {task[t].app, NoApp}
  BY DEF ObjectInv, GuardInv
<1> QED  BY <1>1, <1>2, <1>3, PTL DEF Spec, AppsKeepTheirRows

(* Under either dialect a step keeps the types, since what a call commits   *)
(* carries the app that made it.                                            *)
LEMMA StepTyped ==
  ASSUME TypeOK, CallerInv, [Next]_vars
  PROVE  TypeOK' /\ CallerInv'
<1>0. \A t \in Tasks : Visible(t) \in Row  BY DEF TypeOK, Visible
<1>1. ASSUME NEW t \in Tasks, NEW app \in Apps, NEW expected \in {CreateOnly} \cup 0..MaxCalls,
             UpsertObjectWithPolicy(t, app, expected)
      PROVE  TypeOK' /\ CallerInv'
  BY <1>1, ObjectBoundsAssumption
     DEF UpsertObjectWithPolicy, Call, dbVars, TypeOK, CallState, CallerInv
<1>2. ASSUME NEW t \in Tasks, Begin(t) PROVE TypeOK' /\ CallerInv'
  BY <1>2 DEF Begin, Goes, TypeOK, CallState, CallerInv, InTransaction
<1>3. ASSUME NEW t \in Tasks, SelectVersion(t) PROVE TypeOK' /\ CallerInv'
  <2>1. \/ RollsBack(t) /\ task' = [task EXCEPT ![t] = Idle]
        \/ /\ UNCHANGED dbVars
           /\ \E v, e \in Nat :
                 task' = [task EXCEPT ![t].pc = "selectOwner", ![t].version = v, ![t].epoch = e]
    BY <1>0, <1>3 DEF SelectVersion, Row
  <2>2. task[t].pc = "selectVersion" /\ UNCHANGED <<view, calls, faults, built>>
    BY <1>3 DEF SelectVersion
  <2>3. task \in [Tasks -> CallState]  BY DEF TypeOK
  <2>4. CASE RollsBack(t) /\ task' = [task EXCEPT ![t] = Idle]
    BY <2>2, <2>4 DEF RollsBack, Idle, Call, dbVars, TypeOK, CallState, CallerInv, InTransaction
  <2>5. ASSUME NEW v \in Nat, NEW e \in Nat, UNCHANGED dbVars,
               task' = [task EXCEPT ![t].pc = "selectOwner", ![t].version = v, ![t].epoch = e]
        PROVE  TypeOK' /\ CallerInv'
    <3>1. task' \in [Tasks -> CallState]  BY <2>3, <2>5, CallFields
    <3>2. CallerInv'  BY <2>2, <2>3, <2>5 DEF CallerInv, InTransaction, CallState
    <3> QED  BY <2>2, <2>5, <3>1, <3>2 DEF TypeOK, dbVars
  <2> QED  BY <2>1, <2>4, <2>5
<1>4. ASSUME NEW t \in Tasks, SelectOwner(t) PROVE TypeOK' /\ CallerInv'
  BY <1>4 DEF SelectOwner, RollsBack, Goes, Idle, Call, dbVars, TypeOK, CallState, CallerInv, InTransaction
<1>5. ASSUME NEW t \in Tasks, WriteRow(t) PROVE TypeOK' /\ CallerInv'
  <2>1. task[t] \in CallState  BY DEF TypeOK
  <2>2. NextVersion(task[t]) \in Nat  BY <2>1 DEF NextVersion, CallState, CreateOnly
  <2>3. row' \in Row  BY <1>5, <2>1, <2>2 DEF WriteRow, TypeOK, Row, CallState
  <2> QED
    BY <1>5, <2>3 DEF WriteRow, Goes, TypeOK, CallState, CallerInv, InTransaction
<1>6. ASSUME NEW t \in Tasks, Commit(t) PROVE TypeOK' /\ CallerInv'
  BY <1>6 DEF Commit, Goes, TypeOK, CallState, CallerInv, InTransaction
<1>7. ASSUME NEW t \in Tasks, Reread(t) PROVE TypeOK' /\ CallerInv'
  <2>1. PICK found \in Nat : task' = [task EXCEPT ![t].pc = "notify", ![t].stored = found]
    BY <1>0, <1>7 DEF Reread, Row, TypeOK, CallState
  <2>4. task \in [Tasks -> CallState]  BY DEF TypeOK
  <2>2. task' \in [Tasks -> CallState]  BY <2>1, <2>4, CallFields
  <2>3. UNCHANGED <<dbVars, view, calls, faults, built>>  BY <1>7 DEF Reread
  <2> QED
    BY <2>1, <2>2, <2>3 DEF dbVars, TypeOK, CallerInv, InTransaction
<1>8. ASSUME NEW t \in Tasks, Notify(t) \/ NotifyDelete(t) PROVE TypeOK' /\ CallerInv'
  BY <1>8 DEF Notify, NotifyDelete, Idle, Call, dbVars, TypeOK, CallState, CallerInv, InTransaction
<1>9. ASSUME NEW t \in Tasks, NEW app \in Apps, DeleteObject(t, app) PROVE TypeOK' /\ CallerInv'
  BY <1>9, ObjectBoundsAssumption
     DEF DeleteObject, Absent, TypeOK, Row, CallState, CallerInv, InTransaction
<1>10. ASSUME NEW t \in Tasks, StatementFails(t) PROVE TypeOK' /\ CallerInv'
  BY <1>10, ObjectBoundsAssumption
     DEF StatementFails, RollsBack, Idle, Call, TypeOK, CallState, CallerInv, InTransaction
<1>11. CASE Crash
  BY <1>11, ObjectBoundsAssumption
     DEF Crash, Idle, Call, TypeOK, Row, CallState, CallerInv, InTransaction
<1>12. CASE UNCHANGED vars
  BY <1>12 DEF vars, dbVars, TypeOK, CallerInv
<1> QED
  BY <1>1, <1>2, <1>3, <1>4, <1>5, <1>6, <1>7, <1>8, <1>9, <1>10, <1>11, <1>12 DEF Next, CallStep

(* TypeOK, of the rows and calls of upsert_with_policy and delete, under    *)
(* either dialect: what is committed belongs to an app, and versions and    *)
(* incarnations are numbers.                                                *)
THEOREM ObjectsTyped == Spec => []TypeOK
<1>1. Init => TypeOK /\ CallerInv
  BY ObjectBoundsAssumption
     DEF Init, TypeOK, Row, CallState, Absent, Idle, Call, CreateOnly, CallerInv, InTransaction
<1>2. TypeOK /\ CallerInv /\ [Next]_vars => (TypeOK /\ CallerInv)'  BY StepTyped
<1> QED  BY <1>1, <1>2, PTL DEF Spec

-----------------------------------------------------------------------------
(* Blobs.                                                                  *)

InOrder(content) == \A i \in DOMAIN content : content[i][2] = i

(* The staged prefix never reaches the length of a whole file: the final    *)
(* chunk is not staged.                                                     *)
StageInv == InOrder(stage) /\ Len(stage) < Parts

(* What a handler that is r so far may count on in its next statement,      *)
(* whatever the other handlers did meanwhile: the prefix it will write back *)
(* is in order; the row it read is still there, and is the same one unless  *)
(* the row was replaced; the content it writes is the row's; and the bytes  *)
(* are stored by the time it clears the stage.                              *)
Sound(r) == r # None =>
    /\ r.pc = "append" => InOrder(r.content) /\ Len(r.content) < Parts
    /\ r.meta # None => meta # None /\ (contested \/ r.meta = meta)
    /\ r.pc \in {"write", "clear", "enqueue"} =>
           meta # None /\ (contested \/ r.content = meta)
    /\ r.pc \in {"clear", "enqueue"} => bytes # None

HandlersInv == \A s \in Slots : Sound(req[s])

BlobInv == BlobTypeOK /\ StageInv /\ ServedMatchesHash /\ HandlersInv /\ AckedIsStored

-----------------------------------------------------------------------------
(* Contents.                                                               *)

Part == Versions \X (1..Parts)

(* A content is a sequence of at most Parts parts. *)
LEMMA ContentIsSeq ==
  ASSUME NEW c
  PROVE  c \in Contents <=> c \in Seq(Part) /\ Len(c) <= Parts
<1>1. ASSUME c \in Contents PROVE c \in Seq(Part) /\ Len(c) <= Parts
  <2>1. PICK n \in 0..Parts : c \in [1..n -> Part]
    BY <1>1 DEF Contents, Part
  <2>2. n \in Nat  BY <2>1, BlobAssumption
  <2>3. c \in Seq(Part)  BY <2>1, <2>2, SeqDef
  <2>4. Len(c) = n  BY <2>1, <2>2, <2>3, LenProperties
  <2> QED  BY <2>1, <2>3, <2>4, BlobAssumption
<1>2. ASSUME c \in Seq(Part), Len(c) <= Parts PROVE c \in Contents
  <2>1. Len(c) \in 0..Parts /\ c \in [1..Len(c) -> Part]
    BY <1>2, LenProperties, BlobAssumption
  <2> QED  BY <2>1 DEF Contents, Part
<1> QED  BY <1>1, <1>2

LEMMA EmptyContent == <<>> \in Contents /\ InOrder(<<>>) /\ Len(<<>>) = 0
<1>1. <<>> \in Seq(Part) /\ Len(<<>>) = 0  BY EmptySeq
<1>4. Len(<<>>) <= Parts  BY <1>1, BlobAssumption
<1>2. <<>> \in Contents  BY <1>1, <1>4, ContentIsSeq
<1>3. InOrder(<<>>)  BY DEF InOrder
<1> QED  BY <1>1, <1>2, <1>3

LEMMA WholeContent ==
  ASSUME NEW v \in Versions
  PROVE  Whole(v) \in Contents
<1>1. Whole(v) \in [1..Parts -> Part]  BY DEF Whole, Part
<1>2. Parts \in 0..Parts  BY BlobAssumption
<1> QED  BY <1>1, <1>2 DEF Contents, Part

(* The chunk that begins where a prefix ends makes it one part longer and   *)
(* leaves it in order.                                                      *)
LEMMA ChunkExtends ==
  ASSUME NEW c \in Contents, Len(c) < Parts, NEW v \in Versions
  PROVE  LET longer == Append(c, <<v, Len(c) + 1>>) IN
         /\ longer \in Contents /\ Len(longer) = Len(c) + 1
         /\ InOrder(c) => InOrder(longer)
<1> DEFINE p == <<v, Len(c) + 1>>
           longer == Append(c, p)
<1>1. c \in Seq(Part) /\ Len(c) \in Nat  BY ContentIsSeq, LenProperties
<1>2. p \in Part /\ p[2] = Len(c) + 1  BY <1>1, BlobAssumption DEF Part
<1> HIDE DEF p
<1>3. /\ longer \in Seq(Part) /\ Len(longer) = Len(c) + 1
      /\ \A i \in 1..Len(c) : longer[i] = c[i]
      /\ longer[Len(c) + 1] = p
  BY <1>1, <1>2, AppendProperties
<1> HIDE DEF longer
<1>4. longer \in Contents  BY <1>1, <1>3, BlobAssumption, ContentIsSeq
<1>5. DOMAIN c = 1..Len(c) /\ DOMAIN longer = 1..(Len(c) + 1)
  BY <1>1, <1>3, LenProperties
<1>6. ASSUME InOrder(c) PROVE InOrder(longer)
  <2> SUFFICES ASSUME NEW i \in 1..(Len(c) + 1) PROVE longer[i][2] = i
    BY <1>5 DEF InOrder
  <2>1. CASE i \in 1..Len(c)  BY <1>3, <1>5, <1>6, <2>1 DEF InOrder
  <2>2. CASE i = Len(c) + 1  BY <1>2, <1>3, <2>2
  <2> QED  BY <1>1, <2>1, <2>2
<1> QED  BY <1>3, <1>4, <1>6 DEF longer, p

-----------------------------------------------------------------------------
(* Steps.                                                                  *)

(* No client learns of a success. *)
NoNewOk == \A c \in Clients :
    client'[c].pc = "ok" => client[c].pc = "ok" /\ client'[c].hash = client[c].hash

(* The handler in slot s becomes r, None when it ended. *)
Becomes(s, r) ==
    /\ r \in Request \cup {None} /\ req' = [req EXCEPT ![s] = r]
    /\ client' \in [Clients -> ClientState] /\ UNCHANGED file

LEMMA AnswersTyped ==
  ASSUME BlobTypeOK, NEW s \in Slots, NEW told \in ClientState, Answers(s, told), UNCHANGED file
  PROVE  /\ Becomes(s, None)
         /\ \A c \in Clients : client'[c] = client[c] \/ (c = s[1] /\ client'[c] = told)
<1>1. s[1] \in Clients  BY DEF Slots
<1>2. client \in [Clients -> ClientState] /\ None \in Request \cup {None}  BY DEF BlobTypeOK
<1>3. client' = client \/ client' = [client EXCEPT ![s[1]] = told]  BY DEF Answers
<1>4. client' \in [Clients -> ClientState]  BY <1>1, <1>2, <1>3
<1> QED  BY <1>1, <1>2, <1>3, <1>4 DEF Answers, Becomes

(* An answer other than success. *)
LEMMA AnswersQuietly ==
  ASSUME BlobTypeOK, NEW s \in Slots, UNCHANGED file,
         NEW offset \in 0..Parts,
         \/ AnswersOffset(s, offset) \/ AnswersRefusal(s)
         \/ Answers(s, [client[s[1]] EXCEPT !.pc = "lost"])
  PROVE  Becomes(s, None) /\ NoNewOk
<1>1. s[1] \in Clients /\ client[s[1]] \in ClientState /\ 0 \in 0..Parts
  BY BlobAssumption DEF Slots, BlobTypeOK
<1> DEFINE a == [client[s[1]] EXCEPT !.pc = "send", !.at = offset]
           b == [client[s[1]] EXCEPT !.pc = "refused", !.at = 0]
           l == [client[s[1]] EXCEPT !.pc = "lost"]
<1>2. a \in ClientState /\ a.pc = "send"  BY <1>1 DEF ClientState
<1>3. b \in ClientState /\ b.pc = "refused"  BY <1>1 DEF ClientState
<1>4. l \in ClientState /\ l.pc = "lost"  BY <1>1 DEF ClientState
<1>5. PICK told \in ClientState : told.pc # "ok" /\ Answers(s, told)
  <2> HIDE DEF a, b, l
  <2>1. Answers(s, a) \/ Answers(s, b) \/ Answers(s, l)
    BY DEF AnswersOffset, AnswersRefusal, a, b, l
  <2> QED  BY <1>2, <1>3, <1>4, <2>1
<1>6. /\ Becomes(s, None)
      /\ \A c \in Clients : client'[c] = client[c] \/ (c = s[1] /\ client'[c] = told)
  BY <1>5, AnswersTyped
<1> QED  BY <1>5, <1>6 DEF NoNewOk

(* A handler that has the whole content goes on to write it, or refuses it. *)
LEMMA GoesOnTyped ==
  ASSUME BlobTypeOK, NEW s \in Slots, req[s] # None, UNCHANGED file,
         NEW old \in Contents \cup {None}, NEW content \in Contents,
         old # None => meta # None /\ (contested \/ old = meta),
         GoesOn(s, old, content)
  PROVE  \E r \in Request \cup {None} : Becomes(s, r) /\ Sound(r) /\ NoNewOk
<1>1. CASE ResolveUpload(old, content)
  <2> DEFINE r == [req[s] EXCEPT !.pc = IF old = None THEN "create" ELSE "write",
                                 !.meta = old, !.content = content]
  <2>1. req[s] \in Request  BY DEF BlobTypeOK
  <2>2. /\ r \in Request /\ r.meta = old /\ r.content = content
        /\ r.pc = IF old = None THEN "create" ELSE "write"
    BY <2>1 DEF Request
  <2>3. req' = [req EXCEPT ![s] = r] /\ client' = client
    BY <1>1 DEF GoesOn, BlobTypeOK
  <2> HIDE DEF r
  <2>4. Becomes(s, r)  BY <2>2, <2>3 DEF Becomes, BlobTypeOK
  <2>5. old # None => old = content  BY <1>1 DEF ResolveUpload
  <2>6. Sound(r)  BY <2>2, <2>5 DEF Sound
  <2>7. NoNewOk  BY <2>3 DEF NoNewOk
  <2> QED  BY <2>2, <2>4, <2>6, <2>7
<1>2. CASE ~ResolveUpload(old, content)
  <2>1. AnswersRefusal(s)  BY <1>2 DEF GoesOn
  <2>3. 0 \in 0..Parts  BY BlobAssumption
  <2>2. Becomes(s, None) /\ NoNewOk  BY <2>1, <2>3, AnswersQuietly
  <2> QED  BY <2>2 DEF Sound
<1> QED  BY <1>1, <1>2

LEMMA ReadMetadataMoves ==
  ASSUME BlobInv, NEW s \in Slots, ReadMetadata(s)
  PROVE  \E r \in Request \cup {None} : Becomes(s, r) /\ Sound(r) /\ NoNewOk
<1>1. BlobTypeOK /\ req[s] # None /\ UNCHANGED file /\ req[s].pc = "metadata"
  BY DEF ReadMetadata, BlobInv
<1>2. s[1] \in Clients /\ file[s[1]] \in Versions  BY <1>1 DEF Slots, BlobTypeOK
<1>3. meta \in Contents \cup {None} /\ Whole(file[s[1]]) \in Contents
  BY <1>1, <1>2, WholeContent DEF BlobTypeOK
<1>4. CASE GoesOn(s, meta, Whole(file[s[1]]))
  BY <1>1, <1>3, <1>4, GoesOnTyped
<1>5. CASE req' = [req EXCEPT ![s].pc = "staged", ![s].meta = meta] /\ client' = client
  <2> DEFINE r == [req[s] EXCEPT !.pc = "staged", !.meta = meta]
  <2>1. req[s] \in Request  BY <1>1 DEF BlobTypeOK
  <2>2. r \in Request /\ r.meta = meta /\ r.pc = "staged"  BY <1>3, <2>1 DEF Request
  <2>3. req' = [req EXCEPT ![s] = r]  BY <1>1, <1>5 DEF BlobTypeOK
  <2> HIDE DEF r
  <2>4. Becomes(s, r)  BY <1>1, <1>5, <2>2, <2>3 DEF Becomes, BlobTypeOK
  <2>5. Sound(r)  BY <2>2 DEF Sound
  <2>6. NoNewOk  BY <1>5 DEF NoNewOk
  <2> QED  BY <2>2, <2>4, <2>5, <2>6
<1> QED  BY <1>4, <1>5 DEF ReadMetadata

(* put_content_chunk: the offset decides, and the prefix it writes back is  *)
(* the one it read, one chunk longer.                                       *)
LEMMA ReadStagedMoves ==
  ASSUME BlobInv, NEW s \in Slots, ReadStaged(s)
  PROVE  \E r \in Request \cup {None} : Becomes(s, r) /\ Sound(r) /\ NoNewOk
<1>1. BlobTypeOK /\ req[s] # None /\ UNCHANGED file /\ req[s].pc = "staged"
  BY DEF ReadStaged, BlobInv
<1>2. s[1] \in Clients /\ file[s[1]] \in Versions  BY <1>1 DEF Slots, BlobTypeOK
<1>3. stage \in Contents /\ Len(stage) < Parts /\ InOrder(stage)
  BY <1>1 DEF BlobTypeOK, BlobInv, StageInv
<1>4. Len(stage) \in 0..Parts  BY <1>3, ContentIsSeq, LenProperties, BlobAssumption
<1>5. req[s] \in Request /\ Sound(req[s])  BY <1>1 DEF BlobTypeOK, BlobInv, HandlersInv
<1>6. req[s].meta \in Contents \cup {None} /\ req[s].start \in 0..Parts  BY <1>5 DEF Request
<1> DEFINE assembled == Append(stage, <<file[s[1]], req[s].start + 1>>)
<1>7. ASSUME req[s].start = Len(stage)
      PROVE  /\ assembled \in Contents /\ Len(assembled) = Len(stage) + 1
             /\ InOrder(assembled)
  BY <1>2, <1>3, <1>7, ChunkExtends
<1>8. CASE AnswersOffset(s, Len(stage))
  <2>1. Becomes(s, None) /\ NoNewOk  BY <1>1, <1>4, <1>8, AnswersQuietly
  <2> QED  BY <2>1 DEF Sound
<1>9. CASE /\ req[s].start = Len(stage) /\ req[s].start + 1 < Parts
           /\ req' = [req EXCEPT ![s].pc = "append", ![s].content = assembled]
           /\ client' = client
  <2> HIDE DEF assembled
  <2> DEFINE r == [req[s] EXCEPT !.pc = "append", !.content = assembled]
  <2>1. r \in Request /\ r.meta = req[s].meta /\ r.pc = "append" /\ r.content = assembled
    BY <1>5, <1>7, <1>9 DEF Request
  <2>2. req' = [req EXCEPT ![s] = r]  BY <1>1, <1>9 DEF BlobTypeOK
  <2> HIDE DEF r
  <2>3. Becomes(s, r)  BY <1>1, <1>9, <2>1, <2>2 DEF Becomes, BlobTypeOK
  <2>4. Len(assembled) < Parts /\ InOrder(assembled)  BY <1>7, <1>9
  <2>5. Sound(r)  BY <1>1, <1>5, <2>1, <2>4 DEF Sound
  <2>6. NoNewOk  BY <1>9 DEF NoNewOk
  <2> QED  BY <2>1, <2>3, <2>5, <2>6
<1>10. CASE req[s].start = Len(stage) /\ GoesOn(s, req[s].meta, assembled)
  <2>1. assembled \in Contents  BY <1>7, <1>10
  <2>2. req[s].meta # None => meta # None /\ (contested \/ req[s].meta = meta)
    BY <1>1, <1>5 DEF Sound
  <2> HIDE DEF assembled
  <2> QED  BY <1>1, <1>6, <1>10, <2>1, <2>2, GoesOnTyped
<1> QED
  <2>1. CASE req[s].start # Len(stage)  BY <1>8, <2>1 DEF ReadStaged
  <2>2. CASE req[s].start = Len(stage) /\ req[s].start + 1 < Parts
    BY <1>9, <2>2 DEF ReadStaged
  <2>3. CASE req[s].start = Len(stage) /\ ~(req[s].start + 1 < Parts)
    BY <1>10, <2>3 DEF ReadStaged
  <2> QED  BY <2>1, <2>2, <2>3

-----------------------------------------------------------------------------
(* The invariant, one step at a time.                                      *)

(* A handler moves and the rows stay. *)
LEMMA HandlerMoves ==
  ASSUME BlobInv, NEW s \in Slots, NEW r \in Request \cup {None},
         Becomes(s, r), Sound(r), NoNewOk,
         UNCHANGED <<rows, contested>>, blobFaults' \in 0..MaxBlobFaults
  PROVE  BlobInv'
<1>1. BlobTypeOK'
  <2>1. req' \in [Slots -> Request \cup {None}]  BY DEF BlobInv, BlobTypeOK, Becomes
  <2> QED  BY <2>1 DEF BlobInv, BlobTypeOK, Becomes, rows
<1>2. StageInv' /\ ServedMatchesHash'
  BY DEF BlobInv, StageInv, InOrder, ServedMatchesHash, rows
<1>3. HandlersInv'
  <2> SUFFICES ASSUME NEW q \in Slots PROVE Sound(req[q])'
    BY DEF HandlersInv
  <2>1. req'[q] = IF q = s THEN r ELSE req[q]  BY DEF Becomes, BlobInv, BlobTypeOK
  <2>2. Sound(req[q])  BY DEF BlobInv, HandlersInv
  <2>3. UNCHANGED <<meta, bytes, contested>>  BY DEF rows
  <2>4. CASE q = s
    <3>1. req'[q] = r  BY <2>1, <2>4
    <3> QED  BY <2>3, <3>1 DEF Sound
  <2>5. CASE q # s
    <3>1. req'[q] = req[q]  BY <2>1, <2>5
    <3> QED  BY <2>2, <2>3, <3>1 DEF Sound
  <2> QED  BY <2>4, <2>5
<1>4. AckedIsStored'
  BY DEF BlobInv, AckedIsStored, NoNewOk, rows
<1> QED  BY <1>1, <1>2, <1>3, <1>4 DEF BlobInv

(* The row is inserted or replaced, by a declaration or by a first upload:  *)
(* what the handlers count on still holds, since they only count on the     *)
(* content of a row that was never replaced.                                *)
LEMMA UpsertKeepsSound ==
  ASSUME BlobInv, NEW content \in Contents, UpsertMetadata(content), UNCHANGED bytes,
         NEW s \in Slots, Sound(req[s]), req[s] # None
  PROVE  /\ req[s].meta # None => meta' # None /\ (contested' \/ req[s].meta = meta')
         /\ req[s].pc \in {"write", "clear", "enqueue"} =>
                meta' # None /\ (contested' \/ req[s].content = meta')
         /\ req[s].pc \in {"clear", "enqueue"} => bytes' # None
<1>1. content # None  BY NoneAssumption
<1> QED  BY <1>1 DEF UpsertMetadata, Sound

LEMMA UpsertKeepsRows ==
  ASSUME BlobInv, NEW content \in Contents, UpsertMetadata(content), UNCHANGED <<bytes, jobs>>,
         NoNewOk
  PROVE  /\ ServedMatchesHash' /\ AckedIsStored'
         /\ meta' \in Contents \cup {None} /\ contested' \in BOOLEAN
<1>1. content # None  BY NoneAssumption
<1>2. ServedMatchesHash'
  BY <1>1 DEF BlobInv, ServedMatchesHash, UpsertMetadata
<1>3. AckedIsStored'
  BY DEF BlobInv, AckedIsStored, UpsertMetadata, NoNewOk
<1> QED  BY <1>2, <1>3 DEF UpsertMetadata, BlobInv, BlobTypeOK

LEMMA WriteStagedKeeps ==
  ASSUME BlobInv, NEW s \in Slots, WriteStaged(s)
  PROVE  BlobInv'
<1>1. BlobTypeOK /\ req[s] \in Request /\ req[s].pc = "append" /\ Sound(req[s]) /\ req[s] # None
  BY DEF BlobInv, BlobTypeOK, HandlersInv, WriteStaged
<1>2. req[s].content \in Contents  BY <1>1 DEF Request
<1>3. Len(req[s].content) \in 0..Parts
  BY <1>2, ContentIsSeq, LenProperties, BlobAssumption
<1>4. Becomes(s, None) /\ NoNewOk
  BY <1>1, <1>3, AnswersQuietly DEF WriteStaged
<1>5. InOrder(req[s].content) /\ Len(req[s].content) < Parts  BY <1>1 DEF Sound
<1>6. stage' = req[s].content /\ UNCHANGED <<meta, bytes, jobs, derivative, blobFaults, contested>>
  BY DEF WriteStaged
<1>7. BlobTypeOK'
  <2>1. req' \in [Slots -> Request \cup {None}]  BY <1>1, <1>4 DEF BlobTypeOK, Becomes
  <2> QED  BY <1>1, <1>2, <1>4, <1>6, <2>1 DEF BlobTypeOK, Becomes
<1>8. StageInv'  BY <1>5, <1>6 DEF StageInv, InOrder
<1>9. ServedMatchesHash'  BY <1>6 DEF BlobInv, ServedMatchesHash
<1>10. HandlersInv'
  <2> SUFFICES ASSUME NEW q \in Slots PROVE Sound(req[q])'
    BY DEF HandlersInv
  <2>1. req'[q] = None \/ req'[q] = req[q]  BY <1>1, <1>4 DEF Becomes, BlobTypeOK
  <2>2. Sound(req[q])  BY DEF BlobInv, HandlersInv
  <2> QED  BY <1>6, <2>1, <2>2 DEF Sound
<1>11. AckedIsStored'  BY <1>4, <1>6 DEF BlobInv, AckedIsStored, NoNewOk
<1> QED  BY <1>7, <1>8, <1>9, <1>10, <1>11 DEF BlobInv

LEMMA CreateMetadataKeeps ==
  ASSUME BlobInv, NEW s \in Slots, CreateMetadata(s)
  PROVE  BlobInv'
<1>1. BlobTypeOK /\ req[s] \in Request /\ req[s].pc = "create" /\ Sound(req[s]) /\ req[s] # None
  BY DEF BlobInv, BlobTypeOK, HandlersInv, CreateMetadata
<1>2. req[s].content \in Contents /\ req[s].content # None
  BY <1>1, NoneAssumption DEF Request
<1>3. /\ UpsertMetadata(req[s].content) /\ req' = [req EXCEPT ![s].pc = "write"]
      /\ UNCHANGED <<file, client, bytes, stage, jobs, derivative, blobFaults>>
  BY DEF CreateMetadata
<1>4. NoNewOk  BY <1>3 DEF NoNewOk
<1>5. /\ ServedMatchesHash' /\ AckedIsStored'
      /\ meta' \in Contents \cup {None} /\ contested' \in BOOLEAN
  BY <1>2, <1>3, <1>4, UpsertKeepsRows
<1> DEFINE r == [req[s] EXCEPT !.pc = "write"]
<1>6. r \in Request /\ r.pc = "write" /\ r.content = req[s].content /\ r.meta = req[s].meta
  BY <1>1 DEF Request
<1>7. req' = [req EXCEPT ![s] = r]  BY <1>1, <1>3 DEF BlobTypeOK
<1> HIDE DEF r
<1>8. BlobTypeOK'
  <2>1. req' \in [Slots -> Request \cup {None}]  BY <1>1, <1>6, <1>7 DEF BlobTypeOK
  <2> QED  BY <1>1, <1>3, <1>5, <2>1 DEF BlobTypeOK
<1>9. HandlersInv'
  <2> SUFFICES ASSUME NEW q \in Slots, req'[q] # None PROVE Sound(req[q])'
    BY DEF HandlersInv, Sound
  <2>1. CASE q = s
    <3>1. req'[q] = r  BY <1>1, <1>7, <2>1 DEF BlobTypeOK
    <3>2. meta' = req[s].content  BY <1>3 DEF UpsertMetadata
    <3>3. r.meta # None => meta' # None /\ (contested' \/ r.meta = meta')
      BY <1>1, <1>2, <1>3, <1>6, UpsertKeepsSound
    <3> QED  BY <1>2, <1>6, <3>1, <3>2, <3>3 DEF Sound
  <2>2. CASE q # s
    <3>1. req'[q] = req[q]  BY <1>1, <1>7, <2>2 DEF BlobTypeOK
    <3>2. Sound(req[q])  BY DEF BlobInv, HandlersInv
    <3> QED  BY <1>2, <1>3, <3>1, <3>2, UpsertKeepsSound DEF Sound
  <2> QED  BY <2>1, <2>2
<1>10. StageInv'  BY <1>3 DEF BlobInv, StageInv, InOrder
<1> QED  BY <1>5, <1>8, <1>9, <1>10 DEF BlobInv

LEMMA DeclareBlobKeeps ==
  ASSUME BlobInv, NEW c \in Clients, DeclareBlob(c)
  PROVE  BlobInv'
<1>1. BlobTypeOK /\ file[c] \in Versions /\ client[c] \in ClientState  BY DEF BlobInv, BlobTypeOK
<1>2. Whole(file[c]) \in Contents  BY <1>1, WholeContent
<1>3. /\ UpsertMetadata(Whole(file[c])) /\ client' = [client EXCEPT ![c].pc = "send"]
      /\ UNCHANGED <<file, req, bytes, stage, jobs, derivative, blobFaults>>
  BY DEF DeclareBlob
<1> DEFINE k == [client[c] EXCEPT !.pc = "send"]
<1>4. k \in ClientState /\ k.pc = "send"  BY <1>1 DEF ClientState
<1>5. client' = [client EXCEPT ![c] = k]  BY <1>1, <1>3 DEF BlobTypeOK
<1> HIDE DEF k
<1>6. NoNewOk  BY <1>1, <1>4, <1>5 DEF NoNewOk, BlobTypeOK
<1>7. /\ ServedMatchesHash' /\ AckedIsStored'
      /\ meta' \in Contents \cup {None} /\ contested' \in BOOLEAN
  BY <1>2, <1>3, <1>6, UpsertKeepsRows
<1>8. BlobTypeOK'
  <2>1. client' \in [Clients -> ClientState]  BY <1>1, <1>4, <1>5 DEF BlobTypeOK
  <2> QED  BY <1>1, <1>3, <1>7, <2>1 DEF BlobTypeOK
<1>9. HandlersInv'
  <2> SUFFICES ASSUME NEW q \in Slots, req'[q] # None PROVE Sound(req[q])'
    BY DEF HandlersInv, Sound
  <2>1. Sound(req[q]) /\ req'[q] = req[q]  BY <1>3 DEF BlobInv, HandlersInv
  <2> QED  BY <1>2, <1>3, <2>1, UpsertKeepsSound DEF Sound
<1>10. StageInv'  BY <1>3 DEF BlobInv, StageInv, InOrder
<1> QED  BY <1>7, <1>8, <1>9, <1>10 DEF BlobInv

LEMMA WriteContentKeeps ==
  ASSUME BlobInv, NEW s \in Slots, WriteContent(s)
  PROVE  BlobInv'
<1>1. BlobTypeOK /\ req[s] \in Request /\ req[s].pc = "write" /\ Sound(req[s]) /\ req[s] # None
  BY DEF BlobInv, BlobTypeOK, HandlersInv, WriteContent
<1>2. req[s].content \in Contents /\ req[s].content # None
  BY <1>1, NoneAssumption DEF Request
<1>3. PICK pc \in {"clear", "enqueue"} : req' = [req EXCEPT ![s].pc = pc]
  BY DEF WriteContent
<1>4. /\ bytes' = req[s].content
      /\ UNCHANGED <<file, client, meta, stage, jobs, derivative, blobFaults, contested>>
  BY DEF WriteContent
<1>5. meta # None /\ (contested \/ req[s].content = meta)  BY <1>1 DEF Sound
<1> DEFINE r == [req[s] EXCEPT !.pc = pc]
<1>6. r \in Request /\ r.pc = pc /\ r.content = req[s].content /\ r.meta = req[s].meta
  BY <1>1 DEF Request
<1>7. req' = [req EXCEPT ![s] = r]  BY <1>1, <1>3 DEF BlobTypeOK
<1> HIDE DEF r
<1>8. BlobTypeOK'
  <2>1. req' \in [Slots -> Request \cup {None}]  BY <1>1, <1>6, <1>7 DEF BlobTypeOK
  <2> QED  BY <1>1, <1>2, <1>4, <2>1 DEF BlobTypeOK
<1>9. HandlersInv'
  <2> SUFFICES ASSUME NEW q \in Slots PROVE Sound(req[q])'
    BY DEF HandlersInv
  <2>1. CASE q = s
    <3>1. req'[q] = r  BY <1>1, <1>7, <2>1 DEF BlobTypeOK
    <3> QED  BY <1>1, <1>2, <1>4, <1>5, <1>6, <3>1 DEF Sound
  <2>2. CASE q # s
    <3>1. req'[q] = req[q] /\ Sound(req[q])
      BY <1>1, <1>7, <2>2 DEF BlobTypeOK, BlobInv, HandlersInv
    <3> QED  BY <1>2, <1>4, <3>1 DEF Sound
  <2> QED  BY <2>1, <2>2
<1>10. StageInv'  BY <1>4 DEF BlobInv, StageInv, InOrder
<1>11. ServedMatchesHash'  BY <1>4, <1>5 DEF ServedMatchesHash
<1>12. AckedIsStored'
  BY <1>2, <1>4, <1>5 DEF BlobInv, AckedIsStored, ServedMatchesHash
<1> QED  BY <1>8, <1>9, <1>10, <1>11, <1>12 DEF BlobInv

LEMMA ClearStagedKeeps ==
  ASSUME BlobInv, NEW s \in Slots, ClearStaged(s)
  PROVE  BlobInv'
<1>1. BlobTypeOK /\ req[s] \in Request /\ req[s].pc = "clear" /\ Sound(req[s]) /\ req[s] # None
  BY DEF BlobInv, BlobTypeOK, HandlersInv, ClearStaged
<1>2. /\ stage' = <<>> /\ req' = [req EXCEPT ![s].pc = "enqueue"]
      /\ UNCHANGED <<file, client, meta, bytes, jobs, derivative, blobFaults, contested>>
  BY DEF ClearStaged
<1> DEFINE r == [req[s] EXCEPT !.pc = "enqueue"]
<1>3. r \in Request /\ r.pc = "enqueue" /\ r.content = req[s].content /\ r.meta = req[s].meta
  BY <1>1 DEF Request
<1>4. req' = [req EXCEPT ![s] = r]  BY <1>1, <1>2 DEF BlobTypeOK
<1> HIDE DEF r
<1>5. BlobTypeOK'
  <2>1. req' \in [Slots -> Request \cup {None}]  BY <1>1, <1>3, <1>4 DEF BlobTypeOK
  <2>2. stage' \in Contents  BY <1>2, EmptyContent
  <2> QED  BY <1>1, <1>2, <2>1, <2>2 DEF BlobTypeOK
<1>6. HandlersInv'
  <2> SUFFICES ASSUME NEW q \in Slots PROVE Sound(req[q])'
    BY DEF HandlersInv
  <2>1. CASE q = s
    <3>1. req'[q] = r  BY <1>1, <1>4, <2>1 DEF BlobTypeOK
    <3> QED  BY <1>1, <1>2, <1>3, <3>1 DEF Sound
  <2>2. CASE q # s
    <3>1. req'[q] = req[q] /\ Sound(req[q])
      BY <1>1, <1>4, <2>2 DEF BlobTypeOK, BlobInv, HandlersInv
    <3> QED  BY <1>2, <3>1 DEF Sound
  <2> QED  BY <2>1, <2>2
<1>7. StageInv'
  <2>1. InOrder(<<>>) /\ Len(<<>>) = 0  BY EmptyContent
  <2>2. Len(<<>>) < Parts  BY <2>1, BlobAssumption
  <2> QED  BY <1>2, <2>1, <2>2 DEF StageInv, InOrder
<1>8. ServedMatchesHash' /\ AckedIsStored'
  BY <1>2 DEF BlobInv, ServedMatchesHash, AckedIsStored
<1> QED  BY <1>5, <1>6, <1>7, <1>8 DEF BlobInv

(* A key is enqueued once and stays. *)
LEMMA WithJobTyped ==
  ASSUME BlobTypeOK, NEW content \in Contents, jobs' = WithJob(content)
  PROVE  /\ DOMAIN jobs' = DOMAIN jobs \cup {content} /\ DOMAIN jobs' \subseteq Contents
         /\ jobs' \in [DOMAIN jobs' -> Job]
<1>1. CASE content \in DOMAIN jobs  BY <1>1 DEF WithJob, BlobTypeOK
<1>2. CASE content \notin DOMAIN jobs
  <2>1. [status |-> "pending", read |-> None] \in Job  BY DEF Job
  <2>2. jobs' = [h \in DOMAIN jobs \cup {content} |->
                    IF h = content THEN [status |-> "pending", read |-> None] ELSE jobs[h]]
    BY <1>2 DEF WithJob
  <2> QED  BY <2>1, <2>2 DEF BlobTypeOK
<1> QED  BY <1>1, <1>2

LEMMA EnqueueKeeps ==
  ASSUME BlobInv, NEW s \in Slots, EnqueueProcessJobs(s)
  PROVE  BlobInv'
<1>1. BlobTypeOK /\ req[s] \in Request /\ req[s].pc = "enqueue" /\ Sound(req[s]) /\ req[s] # None
  BY DEF BlobInv, BlobTypeOK, HandlersInv, EnqueueProcessJobs
<1>2. req[s].content \in Contents  BY <1>1 DEF Request
<1>3. /\ jobs' = WithJob(req[s].content) /\ AnswersOk(s)
      /\ UNCHANGED <<file, meta, bytes, stage, derivative, blobFaults, contested>>
  BY DEF EnqueueProcessJobs
<1>4. /\ DOMAIN jobs' = DOMAIN jobs \cup {req[s].content} /\ DOMAIN jobs' \subseteq Contents
      /\ jobs' \in [DOMAIN jobs' -> Job]
  BY <1>1, <1>2, <1>3, WithJobTyped
<1>5. /\ meta # None /\ (contested \/ req[s].content = meta)
      /\ bytes # None /\ (contested \/ bytes = meta)
  BY <1>1 DEF Sound, BlobInv, ServedMatchesHash
<1> DEFINE told == [client[s[1]] EXCEPT !.pc = "ok", !.at = 0, !.hash = req[s].content]
<1>6. s[1] \in Clients /\ client[s[1]] \in ClientState /\ 0 \in 0..Parts
  BY <1>1, BlobAssumption DEF Slots, BlobTypeOK
<1>7. told \in ClientState /\ told.hash = req[s].content
  BY <1>2, <1>6 DEF ClientState
<1>8. Answers(s, told)  BY <1>3 DEF AnswersOk
<1> HIDE DEF told
<1>9. /\ Becomes(s, None)
      /\ \A c \in Clients : client'[c] = client[c] \/ (c = s[1] /\ client'[c] = told)
  BY <1>1, <1>3, <1>7, <1>8, AnswersTyped
<1>10. BlobTypeOK'
  <2>1. req' \in [Slots -> Request \cup {None}]  BY <1>1, <1>9 DEF BlobTypeOK, Becomes
  <2> QED  BY <1>1, <1>3, <1>4, <1>9, <2>1 DEF BlobTypeOK, Becomes
<1>11. HandlersInv'
  <2> SUFFICES ASSUME NEW q \in Slots PROVE Sound(req[q])'
    BY DEF HandlersInv
  <2>1. req'[q] = None \/ req'[q] = req[q]  BY <1>1, <1>9 DEF Becomes, BlobTypeOK
  <2>2. Sound(req[q])  BY DEF BlobInv, HandlersInv
  <2> QED  BY <1>3, <2>1, <2>2 DEF Sound
<1>12. StageInv' /\ ServedMatchesHash'
  BY <1>3 DEF BlobInv, StageInv, InOrder, ServedMatchesHash
<1>13. AckedIsStored'
  <2> SUFFICES ASSUME NEW c \in Clients, client'[c].pc = "ok"
               PROVE  /\ client'[c].hash \in DOMAIN jobs' /\ bytes' # None
                      /\ ~contested' => bytes' = client'[c].hash
    BY DEF AckedIsStored
  <2>1. CASE client'[c] = client[c]  BY <1>3, <1>4, <2>1 DEF BlobInv, AckedIsStored
  <2>2. CASE client'[c] = told  BY <1>3, <1>4, <1>5, <1>7, <2>2
  <2> QED  BY <1>9, <2>1, <2>2
<1> QED  BY <1>10, <1>11, <1>12, <1>13 DEF BlobInv

(* The job worker changes no key, and nothing else the invariant speaks of. *)
LEMMA ProcessKeeps ==
  ASSUME BlobInv, NEW h \in DOMAIN jobs, ProcessReads(h) \/ ProcessRecords(h) \/ ProcessFails(h)
  PROVE  BlobInv'
<1>1. BlobTypeOK /\ jobs[h] \in Job  BY DEF BlobInv, BlobTypeOK
<1>2. jobs[h].read \in Contents \cup {None}  BY <1>1 DEF Job
<1>3. PICK j \in Job : jobs' = [jobs EXCEPT ![h] = j]
  BY <1>1 DEF BlobTypeOK, ProcessReads, ProcessRecords, ProcessFails, Job
<1>4. /\ UNCHANGED <<file, client, req, meta, bytes, stage, contested>>
      /\ derivative' \in Contents \cup {None} /\ blobFaults' \in 0..MaxBlobFaults
  BY <1>1, <1>2, BlobAssumption DEF BlobTypeOK, ProcessReads, ProcessRecords, ProcessFails
<1>5. DOMAIN jobs' = DOMAIN jobs /\ jobs' \in [DOMAIN jobs' -> Job]
  BY <1>1, <1>3 DEF BlobTypeOK
<1>6. BlobTypeOK'  BY <1>1, <1>4, <1>5 DEF BlobTypeOK
<1>7. HandlersInv'  BY <1>4 DEF BlobInv, HandlersInv, Sound
<1>8. StageInv' /\ ServedMatchesHash'
  BY <1>4 DEF BlobInv, StageInv, InOrder, ServedMatchesHash
<1>9. AckedIsStored'  BY <1>4, <1>5 DEF BlobInv, AckedIsStored
<1> QED  BY <1>6, <1>7, <1>8, <1>9 DEF BlobInv

(* A client moves, and the handler of its slot k may become r. *)
LEMMA ClientKeeps ==
  ASSUME BlobInv, NEW c \in Clients, PutContent(c) \/ HeadContent(c) \/ TimesOut(c)
  PROVE  BlobInv'
<1>1. /\ BlobTypeOK /\ client[c] \in ClientState /\ client[c].at \in 0..Parts /\ 0 \in 0..Parts
      /\ stage \in Contents
  BY BlobAssumption DEF BlobInv, BlobTypeOK, ClientState
<1>2. Len(stage) \in 0..Parts  BY <1>1, ContentIsSeq, LenProperties, BlobAssumption
<1>3. UNCHANGED <<rows, contested, file>> /\ blobFaults' \in 0..MaxBlobFaults
  BY <1>1, BlobAssumption DEF PutContent, HeadContent, TimesOut, rows, BlobTypeOK
<1>4. CASE PutContent(c)
  <2>1. PICK k \in {1, 2} :
          /\ req' = [req EXCEPT ![<<c, k>>] =
                 [pc |-> "metadata", start |-> client[c].at, meta |-> None, content |-> <<>>]]
          /\ client' = [client EXCEPT ![c].pc = "wait", ![c].slot = k]
    BY <1>4 DEF PutContent
  <2> DEFINE r == [pc |-> "metadata", start |-> client[c].at, meta |-> None, content |-> <<>>]
             t == [client[c] EXCEPT !.pc = "wait", !.slot = k]
  <2>2. <<c, k>> \in Slots  BY DEF Slots
  <2>3. r \in Request /\ r.pc = "metadata" /\ r.meta = None
    BY <1>1, EmptyContent DEF Request
  <2>4. t \in ClientState /\ t.pc = "wait"  BY <1>1 DEF ClientState
  <2>5. client' = [client EXCEPT ![c] = t] /\ req' = [req EXCEPT ![<<c, k>>] = r]
    BY <1>1, <2>1 DEF BlobTypeOK
  <2> HIDE DEF r, t
  <2>6. Sound(r)  BY <2>3 DEF Sound
  <2>7. NoNewOk  BY <1>1, <2>4, <2>5 DEF NoNewOk, BlobTypeOK
  <2>8. Becomes(<<c, k>>, r)  BY <1>1, <1>3, <2>3, <2>4, <2>5 DEF Becomes, BlobTypeOK
  <2> QED  BY <1>3, <2>2, <2>3, <2>6, <2>7, <2>8, HandlerMoves
<1>5. CASE HeadContent(c) \/ TimesOut(c)
  <2> DEFINE s == <<c, 1>>
  <2>1. UNCHANGED req  BY <1>5 DEF HeadContent, TimesOut
  <2>2. PICK at \in 0..Parts : \/ client' = [client EXCEPT ![c].pc = "send", ![c].at = at]
                               \/ client' = [client EXCEPT ![c].pc = "lost"]
    BY <1>1, <1>2, <1>5 DEF HeadContent, TimesOut
  <2> DEFINE a == [client[c] EXCEPT !.pc = "send", !.at = at]
             b == [client[c] EXCEPT !.pc = "lost"]
  <2>3. a \in ClientState /\ a.pc = "send"  BY <1>1 DEF ClientState
  <2>4. b \in ClientState /\ b.pc = "lost"  BY <1>1 DEF ClientState
  <2>5. client' = [client EXCEPT ![c] = a] \/ client' = [client EXCEPT ![c] = b]
    BY <1>1, <2>2 DEF BlobTypeOK
  <2> HIDE DEF a, b
  <2>6. PICK t \in ClientState : t.pc # "ok" /\ client' = [client EXCEPT ![c] = t]
    BY <2>3, <2>4, <2>5
  <2>7. NoNewOk  BY <1>1, <2>6 DEF NoNewOk, BlobTypeOK
  <2>8. s \in Slots  BY DEF Slots
  <2> HIDE DEF s
  <2>9. req[s] \in Request \cup {None} /\ req' = [req EXCEPT ![s] = req[s]] /\ Sound(req[s])
    BY <1>1, <2>1, <2>8 DEF BlobTypeOK, BlobInv, HandlersInv
  <2>10. client' \in [Clients -> ClientState]  BY <1>1, <2>6 DEF BlobTypeOK
  <2>11. Becomes(s, req[s])  BY <1>3, <2>9, <2>10 DEF Becomes
  <2> QED  BY <1>3, <2>7, <2>8, <2>9, <2>11, HandlerMoves
<1> QED  BY <1>4, <1>5

LEMMA InvStep == BlobInv /\ [BlobNext]_blobVars => BlobInv'
<1> SUFFICES ASSUME BlobInv, [BlobNext]_blobVars PROVE BlobInv'
  OBVIOUS
<1>1. ASSUME NEW s \in Slots, ReadMetadata(s) PROVE BlobInv'
  <2>1. UNCHANGED <<rows, contested>> /\ blobFaults' \in 0..MaxBlobFaults
    BY <1>1 DEF ReadMetadata, BlobInv, BlobTypeOK
  <2> QED  BY <1>1, <2>1, ReadMetadataMoves, HandlerMoves
<1>2. ASSUME NEW s \in Slots, ReadStaged(s) PROVE BlobInv'
  <2>1. UNCHANGED <<rows, contested>> /\ blobFaults' \in 0..MaxBlobFaults
    BY <1>2 DEF ReadStaged, BlobInv, BlobTypeOK
  <2> QED  BY <1>2, <2>1, ReadStagedMoves, HandlerMoves
<1>3. ASSUME NEW s \in Slots, RequestFails(s) PROVE BlobInv'
  <2>1. UNCHANGED <<rows, contested, file>> /\ blobFaults' \in 0..MaxBlobFaults /\ BlobTypeOK
    BY <1>3, BlobAssumption DEF RequestFails, BlobInv, BlobTypeOK
  <2>2. Answers(s, [client[s[1]] EXCEPT !.pc = "lost"]) /\ 0 \in 0..Parts
    BY <1>3, BlobAssumption DEF RequestFails
  <2>3. Becomes(s, None) /\ NoNewOk  BY <2>1, <2>2, AnswersQuietly
  <2>4. Sound(None)  BY DEF Sound
  <2> QED  BY <2>1, <2>3, <2>4, HandlerMoves
<1>4. ASSUME NEW s \in Slots, Handler(s) PROVE BlobInv'
  BY <1>1, <1>2, <1>4, WriteStagedKeeps, CreateMetadataKeeps, WriteContentKeeps,
     ClearStagedKeeps, EnqueueKeeps DEF Handler
<1>5. CASE UNCHANGED blobVars
  BY <1>5 DEF blobVars, rows, BlobInv, BlobTypeOK, StageInv, InOrder, ServedMatchesHash, HandlersInv,
     Sound, AckedIsStored
<1> QED
  BY <1>3, <1>4, <1>5, DeclareBlobKeeps, ClientKeeps, ProcessKeeps DEF BlobNext, Uploads

LEMMA InvInit == BlobInit => BlobInv
<1> SUFFICES ASSUME BlobInit PROVE BlobInv
  OBVIOUS
<1>1. /\ <<>> \in Contents /\ InOrder(<<>>) /\ Len(<<>>) = 0 /\ Len(<<>>) < Parts
      /\ 0 \in 0..Parts /\ 0 \in 0..MaxBlobFaults
  BY EmptyContent, BlobAssumption
<1>2. client \in [Clients -> ClientState] /\ \A c \in Clients : client[c].pc # "ok"
  BY <1>1 DEF BlobInit, ClientState
<1>3. BlobTypeOK  BY <1>1, <1>2 DEF BlobInit, BlobTypeOK
<1>4. HandlersInv  BY DEF BlobInit, HandlersInv, Sound
<1>5. StageInv  BY <1>1 DEF BlobInit, StageInv
<1>6. ServedMatchesHash /\ AckedIsStored  BY <1>2 DEF BlobInit, ServedMatchesHash, AckedIsStored
<1> QED  BY <1>3, <1>4, <1>5, <1>6 DEF BlobInv

LEMMA Invariant == BlobSpec => []BlobInv
BY InvInit, InvStep, PTL DEF BlobSpec

-----------------------------------------------------------------------------

(* StageInOrder: put_content_chunk writes back the prefix it read with one  *)
(* chunk added where it ended, so chunks sent twice, late or by several     *)
(* clients leave no gap and no repeat in what is staged.                    *)
THEOREM StagedInOrder == BlobSpec => []StageInOrder
<1>1. BlobInv => StageInOrder  BY DEF BlobInv, StageInv, InOrder, StageInOrder
<1> QED  BY <1>1, Invariant, PTL

(* ServedMatchesHash: the bytes GET /blobs/:id/content serves are those of  *)
(* the row's hash as long as the row was never replaced by one for another  *)
(* content, however the uploads of resolve_upload overlap or fail.          *)
THEOREM ServedIsHashed == BlobSpec => []ServedMatchesHash
<1>1. BlobInv => ServedMatchesHash  BY DEF BlobInv
<1> QED  BY <1>1, Invariant, PTL

(* AckedIsStored: a client that was told its upload succeeded finds the     *)
(* bytes stored and the `blob.process` job of their hash enqueued.          *)
THEOREM AckedStored == BlobSpec => []AckedIsStored
<1>1. BlobInv => AckedIsStored  BY DEF BlobInv
<1> QED  BY <1>1, Invariant, PTL
=============================================================================
