----------------------------- MODULE AuthProofs -----------------------------
(***************************************************************************)
(* Proofs about Auth, for any number of requests, tokens, links and faults.*)
(*                                                                         *)
(* Base says what a request carries in each of its phases and that the     *)
(* request between the two statements of a transaction holds the gate.  On *)
(* top of it each property has an inductive invariant of its own:          *)
(*   UserInv  a request that knows a user knows the account's;             *)
(*   LineInv  while a rotation is between its statements the presented     *)
(*            token is the only one that can be live, and a burned family  *)
(*            has no rotation under way;                                   *)
(*   LinkInv  a link that is not consumed has set no password, and a       *)
(*            consumed one belongs to one request at most;                 *)
(*   CutInv   while a reset cuts, every other request is marked as         *)
(*            reached; after it, nothing unmarked carries an old           *)
(*            credential.                                                  *)
(***************************************************************************)
EXTENDS Auth, TLAPS, FiniteSetTheorems

(* What a request carries: its argument is of the kind its phase needs, and *)
(* was given out; the flag is set only where a phase sets it.               *)
ArgOfPhase ==
    \A r \in Requests :
       /\ req[r].pc \in {"rotate", "rotated"} => req[r].arg \in Tokens /\ token[req[r].arg] # "none"
       /\ req[r].pc \in {"consume", "consumed", "password"} =>
             /\ req[r].op = "reset"
             /\ req[r].arg \in Links /\ link[req[r].arg] # "none"
       /\ req[r].pc \in {"verify", "rehash"} => req[r].arg \in Users

(* The request between the two statements of a transaction holds the gate. *)
GateHeld == \A r \in Requests : req[r].pc \in {"rotated", "consumed"} => gate = r

Base == TypeOK /\ ArgOfPhase /\ GateHeld

-----------------------------------------------------------------------------

(* Nobody has two users: what a request has read is the account's user. *)
UserInv ==
    \A r \in Requests : req[r].user \in {Nobody, account} /\ owner[r] \in {Nobody, account}

(* Any two live tokens are one. *)
OneLive == \A t, u \in Tokens : token[t] = "live" /\ token[u] = "live" => t = u

(* A rotation under way can only replace the one live token. *)
RotatesTheLiveOne ==
    \A r \in Requests : req[r].pc = "rotated" =>
       /\ ~burned
       /\ \A t \in Tokens : token[t] = "live" => t = req[r].arg

BurnedIsDead == burned => \A t \in Tokens : token[t] # "live"

LineInv == OneLive /\ RotatesTheLiveOne /\ BurnedIsDead

(* Any two live links are one. *)
OneLiveLink == \A l, m \in Links : link[l] = "live" /\ link[m] = "live" => l = m

(* A link that is not consumed has set no password; the transaction that    *)
(* consumes one still finds it live when it writes.                         *)
UnusedWhileLive ==
    /\ \A l \in Links : link[l] # "consumed" => uses[l] = 0
    /\ \A r \in Requests : req[r].pc = "consumed" => link[req[r].arg] = "live"

(* A consumed link is in the hands of one request, which has not used it. *)
OneHolder ==
    /\ \A l \in Links : uses[l] <= 1
    /\ \A r \in Requests : req[r].pc = "password" =>
          /\ link[req[r].arg] = "consumed" /\ uses[req[r].arg] = 0
          /\ \A q \in Requests : req[q].pc = "password" /\ req[q].arg = req[r].arg => q = r

LinkInv == OneLiveLink /\ UnusedWhileLive /\ OneHolder

-----------------------------------------------------------------------------

(* A reset between its consume and its answer. *)
IsCutting(r) == req[r].op = "reset" /\ req[r].pc \in {"password", "sessions", "tokens"}

(* A reset that has set its password, and no statement of which failed. *)
Settled(r) == req[r].pc \in {"sessions", "tokens"} /\ req[r].old

(* A request that carries an old credential. *)
Flagged(r) ==
    \/ req[r].pc \in {"rehash", "lock", "account", "mint"} /\ req[r].old
    \/ req[r].pc = "rotated" /\ req[r].arg \in old

(* The flag is clear until a phase sets it; only a reset sets it for its    *)
(* own statements.                                                          *)
FlagOfPhase ==
    \A r \in Requests :
       /\ req[r].pc \in {"idle", "lookup", "create", "reread", "verify", "issue", "consume",
                         "consumed", "password", "rotate", "rotated", "done"} => ~req[r].old
       /\ Settled(r) => req[r].op = "reset"

(* While a reset cuts, every other request in progress is marked. *)
OthersReached ==
    \A r, q \in Requests : IsCutting(r) /\ q \in Active /\ q # r => q \in reached

(* A session is old only if its request is over; a token only if it exists, *)
(* or if the host has never issued one.                                     *)
OldExists ==
    /\ \A r \in Requests : r \in old => req[r].pc = "done"
    /\ \A t \in Tokens : t \in old => token[t] # "none" \/ t = FirstToken
    /\ token[FirstToken] = "none" => \A t \in Tokens : token[t] = "none"

(* A password other than the first one is named by the reset that set it,   *)
(* which has no session; the one that a login upgrades was the row's.       *)
PasswordNames ==
    /\ password \in Requests => password \notin old /\ req[password].pc \in {"sessions", "tokens", "done"}
    /\ \A r \in Requests : req[r].pc = "rehash" =>
          /\ req[r].arg \in Requests =>
                req[r].arg \notin old /\ req[req[r].arg].pc \in {"sessions", "tokens", "done"}
          /\ ~req[r].old => req[r].arg \notin old

(* After a cut, only marked requests carry an old credential. *)
FlaggedReached == cut => \A r \in Requests : Flagged(r) => r \in reached

(* The cut itself, statement by statement. *)
CutPassword == (cut \/ \E r \in Requests : Settled(r)) => password \notin old
CutLive ==
    (cut \/ \E r \in Requests : Settled(r) /\ req[r].pc = "tokens") =>
        \A s \in Requests : session[s] = "live" => s \notin old
CutRefresh == cut => \A t \in Tokens : token[t] = "live" => t \notin old

CutInv ==
    /\ FlagOfPhase /\ OthersReached /\ OldExists /\ PasswordNames
    /\ FlaggedReached /\ CutPassword /\ CutLive /\ CutRefresh

(* The request r goes on to phase p, with user u and flag b; no other       *)
(* request is touched.                                                      *)
Moves(r, p, u, b) ==
    /\ req' \in [Requests -> RequestType]
    /\ req'[r].pc = p /\ req'[r].user = u /\ req'[r].old = b
    /\ req'[r].op = req[r].op /\ req'[r].arg = req[r].arg
    /\ \A q \in Requests : q # r => req'[q] = req[q]

(* The request r is answered or dropped. *)
Ends(r) ==
    /\ req' \in [Requests -> RequestType]
    /\ req'[r].pc = "done" /\ req'[r].op = "none" /\ req'[r].user = Nobody /\ ~req'[r].old
    /\ \A q \in Requests : q # r => req'[q] = req[q]

(* The assignments to req that the actions make are such moves.             *)
LEMMA GoesMoves ==
    ASSUME TypeOK, NEW r \in Requests, NEW p \in Phases, Goes(r, p)
    PROVE  Moves(r, p, req[r].user, req[r].old)
<1>1. req[r] \in RequestType BY DEF TypeOK
<1>2. req' = [req EXCEPT ![r] = [req[r] EXCEPT !.pc = p]] BY DEF Goes, TypeOK
<1>3. [req[r] EXCEPT !.pc = p] \in RequestType BY <1>1 DEF RequestType
<1> QED BY <1>1, <1>2, <1>3 DEF Moves, TypeOK, RequestType

(* ... with the user that a lookup found ...                                *)
LEMMA UserMoves ==
    ASSUME TypeOK, NEW r \in Requests, NEW p \in Phases, NEW u \in Users \cup {Nobody},
           req' = [req EXCEPT ![r].pc = p, ![r].user = u]
    PROVE  Moves(r, p, u, req[r].old)
<1>1. req[r] \in RequestType BY DEF TypeOK
<1>2. req' = [req EXCEPT ![r] = [req[r] EXCEPT !.pc = p, !.user = u]] BY DEF TypeOK
<1>3. [req[r] EXCEPT !.pc = p, !.user = u] \in RequestType BY <1>1 DEF RequestType
<1> QED BY <1>1, <1>2, <1>3 DEF Moves, TypeOK, RequestType

(* ... with the user and the flag of a login ...                            *)
LEMMA LoginMoves ==
    ASSUME TypeOK, NEW r \in Requests, NEW p \in Phases, NEW u \in Users \cup {Nobody}, NEW b \in BOOLEAN,
           req' = [req EXCEPT ![r].pc = p, ![r].user = u, ![r].old = b]
    PROVE  Moves(r, p, u, b)
<1>1. req[r] \in RequestType BY DEF TypeOK
<1>2. req' = [req EXCEPT ![r] = [req[r] EXCEPT !.pc = p, !.user = u, !.old = b]] BY DEF TypeOK
<1>3. [req[r] EXCEPT !.pc = p, !.user = u, !.old = b] \in RequestType BY <1>1 DEF RequestType
<1> QED BY <1>1, <1>2, <1>3 DEF Moves, TypeOK, RequestType

(* ... and with the flag of a reset or a rotation.                          *)
LEMMA FlagMoves ==
    ASSUME TypeOK, NEW r \in Requests, NEW p \in Phases, NEW b \in BOOLEAN,
           req' = [req EXCEPT ![r].pc = p, ![r].old = b]
    PROVE  Moves(r, p, req[r].user, b)
<1>1. req[r] \in RequestType BY DEF TypeOK
<1>2. req' = [req EXCEPT ![r] = [req[r] EXCEPT !.pc = p, !.old = b]] BY DEF TypeOK
<1>3. [req[r] EXCEPT !.pc = p, !.old = b] \in RequestType BY <1>1 DEF RequestType
<1> QED BY <1>1, <1>2, <1>3 DEF Moves, TypeOK, RequestType

(* Returns(r) answers the request r and touches no other.                   *)
LEMMA ReturnsEnds == ASSUME TypeOK, NEW r \in Requests, Returns(r) PROVE Ends(r)
<1>1. Done \in RequestType BY DEF Done, Idle, RequestType, Phases, Ops
<1>2. Done.pc = "done" /\ Done.op = "none" /\ Done.user = Nobody /\ Done.old = FALSE BY DEF Done, Idle
<1> QED BY <1>1, <1>2 DEF Returns, Ends, TypeOK

(* What the steps of a request do to it.                                    *)
LEMMA LookupEffect ==
    ASSUME TypeOK, NEW r \in Requests, Lookup(r)
    PROVE  \/ Moves(r, "create", req[r].user, req[r].old)
           \/ Moves(r, "mint", account, req[r].old)
           \/ Ends(r)
<1>1. account \in Users \cup {Nobody} BY DEF TypeOK
<1> QED BY <1>1, GoesMoves, UserMoves, ReturnsEnds DEF Lookup, Phases

LEMMA CreateAccountEffect ==
    ASSUME TypeOK, NEW r \in Requests, CreateAccount(r)
    PROVE  \/ Moves(r, "mint", r, req[r].old) /\ account = Nobody /\ account' = r
           \/ (Moves(r, "reread", req[r].user, req[r].old) \/ Ends(r)) /\ UNCHANGED account
<1>1. r \in Users \cup {Nobody} BY DEF Users
<1> QED BY <1>1, GoesMoves, UserMoves, ReturnsEnds DEF CreateAccount, Phases

LEMMA RereadEffect ==
    ASSUME TypeOK, NEW r \in Requests, Reread(r)
    PROVE  Moves(r, "mint", account, req[r].old)
<1>1. account \in Users \cup {Nobody} BY DEF TypeOK
<1> QED BY <1>1, UserMoves DEF Reread, Phases

LEMMA VerifyPasswordEffect ==
    ASSUME TypeOK, NEW r \in Requests, VerifyPassword(r)
    PROVE  \/ /\ \E p \in {"rehash", "lock"} : Moves(r, p, account, password \in old)
              /\ password = req[r].arg
           \/ Ends(r)
<1>1. account \in Users \cup {Nobody} BY DEF TypeOK
<1>2. (IF legacy THEN "rehash" ELSE "lock") \in Phases /\ (password \in old) \in BOOLEAN BY DEF Phases
<1>3. CASE Returns(r) BY <1>3, ReturnsEnds
<1>4. CASE /\ account # Nobody /\ password = req[r].arg
           /\ req' = [req EXCEPT ![r].pc = IF legacy THEN "rehash" ELSE "lock", ![r].user = account,
                                 ![r].old = password \in old]
  <2>1. Moves(r, IF legacy THEN "rehash" ELSE "lock", account, password \in old)
    BY <1>1, <1>2, <1>4, LoginMoves
  <2> QED BY <2>1, <1>4
<1> QED BY <1>3, <1>4 DEF VerifyPassword

LEMMA RehashEffect ==
    ASSUME TypeOK, NEW r \in Requests, Rehash(r)
    PROVE  Moves(r, "lock", req[r].user, req[r].old)
BY GoesMoves DEF Rehash, Phases

LEMMA CheckRegistrationLockEffect ==
    ASSUME TypeOK, NEW r \in Requests, CheckRegistrationLock(r)
    PROVE  Moves(r, "mint", req[r].user, req[r].old) \/ Ends(r)
BY GoesMoves, ReturnsEnds DEF CheckRegistrationLock, Phases

LEMMA LookupToActEffect ==
    ASSUME TypeOK, NEW r \in Requests, LookupToAct(r)
    PROVE  (\E p \in {"issue", "sessions"} : Moves(r, p, req[r].user, req[r].old)) \/ Ends(r)
BY GoesMoves, ReturnsEnds DEF LookupToAct, Phases

LEMMA ConsumeReadsEffect ==
    ASSUME TypeOK, NEW r \in Requests, ConsumeReads(r)
    PROVE  \/ Moves(r, "consumed", req[r].user, req[r].old) /\ link[req[r].arg] = "live" /\ gate' = r
           \/ Ends(r) /\ gate' = gate
BY GoesMoves, ReturnsEnds DEF ConsumeReads, Phases

LEMMA ConsumeWritesEffect ==
    ASSUME TypeOK, NEW r \in Requests, ConsumeWrites(r)
    PROVE  Moves(r, "password", req[r].user, req[r].old)
BY GoesMoves DEF ConsumeWrites, Phases

LEMMA SetPasswordEffect ==
    ASSUME TypeOK, NEW r \in Requests, SetPassword(r)
    PROVE  Moves(r, "sessions", req[r].user, TRUE)
BY FlagMoves DEF SetPassword, Phases

LEMMA CutSessionsEffect ==
    ASSUME TypeOK, NEW r \in Requests, CutSessions(r)
    PROVE  \/ /\ Moves(r, "tokens", req[r].user, req[r].old)
              /\ session' = [s \in Requests |-> IF session[s] = "none" THEN "none" ELSE "gone"]
              /\ faults' = faults
           \/ /\ Moves(r, "tokens", req[r].user, FALSE) /\ session' = session
              /\ faults < MaxFaults /\ faults' = faults + 1
BY GoesMoves, FlagMoves DEF CutSessions, Phases

LEMMA RotateReadsEffect ==
    ASSUME TypeOK, NEW r \in Requests, RotateReads(r)
    PROVE  \/ /\ Moves(r, "rotated", req[r].user, req[r].old) /\ token[req[r].arg] = "live"
              /\ gate' = r /\ token' = token /\ burned' = burned
           \/ /\ Ends(r) /\ gate' = gate /\ burned' = TRUE
              /\ token' = [t \in Tokens |-> IF token[t] = "live" THEN "revoked" ELSE token[t]]
           \/ Ends(r) /\ gate' = gate /\ token' = token /\ burned' = burned
BY GoesMoves, ReturnsEnds DEF RotateReads, Phases

LEMMA RotateWritesEffect ==
    ASSUME TypeOK, NEW r \in Requests, RotateWrites(r)
    PROVE  Moves(r, "account", req[r].user, req[r].arg \in old)
<1>1. (req[r].arg \in old) \in BOOLEAN OBVIOUS
<1> QED BY <1>1, FlagMoves DEF RotateWrites, Phases

LEMMA RefreshReadsAccountEffect ==
    ASSUME TypeOK, NEW r \in Requests, RefreshReadsAccount(r)
    PROVE  Moves(r, "mint", account, req[r].old) \/ Ends(r)
<1>1. account \in Users \cup {Nobody} BY DEF TypeOK
<1> QED BY <1>1, UserMoves, ReturnsEnds DEF RefreshReadsAccount, Phases

(* MintSession, IssueLink, CutTokens and Dies end the request.              *)
LEMMA LastStepEnds ==
    ASSUME TypeOK, NEW r \in Requests, MintSession(r) \/ IssueLink(r) \/ CutTokens(r) \/ Dies(r)
    PROVE  Ends(r)
BY ReturnsEnds DEF MintSession, IssueLink, CutTokens, Dies

(* The phases in which a handler begins, and the argument it then has. *)
FirstPhase(o, p, a) ==
    \/ p = "lookup"
    \/ p = "verify" /\ a \in Users
    \/ p = "consume" /\ o = "reset" /\ a \in Links /\ link[a] # "none"
    \/ p = "rotate" /\ a \in Tokens /\ token[a] # "none"

(* A request begins in the first phase of its handler, with an argument     *)
(* that was given out and a clear flag.                                     *)
Begins(r) ==
    /\ req' \in [Requests -> RequestType]
    /\ req[r].pc = "idle"
    /\ FirstPhase(req'[r].op, req'[r].pc, req'[r].arg)
    /\ req'[r].user = Nobody /\ ~req'[r].old
    /\ \A q \in Requests : q # r => req'[q] = req[q]
    /\ reached' = IF Cutting THEN reached \cup {r} ELSE reached
    /\ UNCHANGED <<accountVars, credentials, gate, bounds, old, cut, uses, burned>>

(* The seven requests that may arrive.                                      *)
Arrival(r) ==
    \/ Signup(r) \/ FinishProviderLogin(r) \/ Login(r) \/ ForgotPassword(r)
    \/ ResetPassword(r) \/ Refresh(r) \/ AppleNotification(r)

LEMMA ArrivesRecord ==
    ASSUME TypeOK, NEW r \in Requests, NEW k, NEW o \in Ops, NEW p \in Phases,
           NEW a \in Users \cup Tokens \cup Links \cup {Nobody}, Arrives(r, k, o, p, a)
    PROVE  /\ req' \in [Requests -> RequestType]
           /\ req[r].pc = "idle"
           /\ req'[r].op = o /\ req'[r].pc = p /\ req'[r].arg = a /\ req'[r].user = Nobody /\ ~req'[r].old
           /\ \A q \in Requests : q # r => req'[q] = req[q]
<1> DEFINE new == [Idle EXCEPT !.op = o, !.pc = p, !.arg = a]
<1>0. Idle \in RequestType BY DEF Idle, RequestType, Ops, Phases
<1>1. new.op = o /\ new.pc = p /\ new.arg = a /\ new.user = Nobody /\ new.old = FALSE BY DEF Idle
<1>2. new \in RequestType BY <1>0 DEF RequestType
<1>3. req' = [req EXCEPT ![r] = new] /\ req[r] = Idle BY DEF Arrives
<1>4. Idle.pc = "idle" BY DEF Idle
<1> HIDE DEF new
<1> QED BY <1>1, <1>2, <1>3, <1>4 DEF TypeOK

LEMMA ArrivalBegins == ASSUME TypeOK, NEW r \in Requests, Arrival(r) PROVE Begins(r)
<1>1. ASSUME NEW k \in {"email", "provider"}, NEW o \in Ops, NEW p \in Phases,
             NEW a \in Users \cup Tokens \cup Links \cup {Nobody},
             Arrives(r, k, o, p, a), FirstPhase(o, p, a)
      PROVE  Begins(r)
  <2>1. /\ req' \in [Requests -> RequestType] /\ req[r].pc = "idle"
        /\ req'[r].op = o /\ req'[r].pc = p /\ req'[r].arg = a /\ req'[r].user = Nobody /\ ~req'[r].old
        /\ \A q \in Requests : q # r => req'[q] = req[q]
    BY <1>1, ArrivesRecord
  <2>2. reached' = IF Cutting THEN reached \cup {r} ELSE reached
    BY <1>1 DEF Arrives
  <2>3. UNCHANGED <<accountVars, credentials, gate, bounds, old, cut, uses, burned>>
    BY <1>1 DEF Arrives
  <2> QED BY <1>1, <2>1, <2>2, <2>3 DEF Begins
<1>2. kind \in {"email", "provider"} BY DEF TypeOK
<1>3. {"lookup", "verify", "consume", "rotate"} \subseteq Phases BY DEF Phases
<1>4. CASE Signup(r) \/ FinishProviderLogin(r) \/ ForgotPassword(r) \/ AppleNotification(r)
  <2>1. PICK k \in {"email", "provider"}, o \in Ops : Arrives(r, k, o, "lookup", Nobody)
    BY <1>4 DEF Signup, FinishProviderLogin, ForgotPassword, AppleNotification, Ops
  <2>2. FirstPhase(o, "lookup", Nobody) BY DEF FirstPhase
  <2> QED BY <1>1, <1>3, <2>1, <2>2
<1>5. CASE Login(r)
  <2>1. PICK p \in Users : Arrives(r, "email", "login", "verify", p) BY <1>5 DEF Login, Users
  <2>2. FirstPhase("login", "verify", p) BY DEF FirstPhase
  <2>3. "login" \in Ops BY DEF Ops
  <2> QED BY <1>1, <1>3, <2>1, <2>2, <2>3
<1>6. CASE ResetPassword(r)
  <2>1. PICK l \in Links : link[l] # "none" /\ Arrives(r, "email", "reset", "consume", l)
    BY <1>6 DEF ResetPassword
  <2>2. FirstPhase("reset", "consume", l) BY <2>1 DEF FirstPhase
  <2>3. "reset" \in Ops BY DEF Ops
  <2> QED BY <1>1, <1>3, <2>1, <2>2, <2>3
<1>7. CASE Refresh(r)
  <2>1. PICK t \in Tokens : token[t] # "none" /\ Arrives(r, kind, "refresh", "rotate", t)
    BY <1>7 DEF Refresh
  <2>2. FirstPhase("refresh", "rotate", t) BY <2>1 DEF FirstPhase
  <2>3. "refresh" \in Ops BY DEF Ops
  <2> QED BY <1>1, <1>2, <1>3, <2>1, <2>2, <2>3
<1> QED BY <1>4, <1>5, <1>6, <1>7 DEF Arrival

-----------------------------------------------------------------------------
(* Every step keeps Base: the types, the arguments and the gate.            *)

(* The phases whose argument ArgOfPhase speaks of, and what comes before.   *)
Follows(q, p) ==
    /\ p \notin {"rotate", "consume", "verify"}
    /\ p = "rotated" => q = "rotate"
    /\ p = "consumed" => q = "consume"
    /\ p = "password" => q = "consumed"
    /\ p = "rehash" => q = "verify"

(* A token or a link that was given out stays so. *)
IssuedStays ==
    /\ \A t \in Tokens : token[t] # "none" => token'[t] # "none"
    /\ \A l \in Links : link[l] # "none" => link'[l] # "none"

(* A request that goes on has the argument its phase needs.                 *)
LEMMA ArgStays ==
    ASSUME ArgOfPhase, NEW r \in Requests, NEW p, NEW u, NEW b, Moves(r, p, u, b), Follows(req[r].pc, p),
           IssuedStays
    PROVE  ArgOfPhase'
<1> SUFFICES ASSUME NEW s \in Requests PROVE ArgOfPhase!(s)'
  BY DEF ArgOfPhase
<1>1. CASE s = r
  BY <1>1 DEF ArgOfPhase, Moves, Follows, IssuedStays
<1>2. CASE s # r
  <2>1. req'[s] = req[s] BY <1>2 DEF Moves
  <2> QED BY <2>1 DEF ArgOfPhase, IssuedStays
<1> QED BY <1>1, <1>2

(* A request that ends needs none.                                          *)
LEMMA ArgEnds ==
    ASSUME ArgOfPhase, NEW r \in Requests, Ends(r), IssuedStays
    PROVE  ArgOfPhase'
<1> SUFFICES ASSUME NEW s \in Requests PROVE ArgOfPhase!(s)'
  BY DEF ArgOfPhase
<1>1. CASE s = r
  BY <1>1 DEF Ends
<1>2. CASE s # r
  <2>1. req'[s] = req[s] BY <1>2 DEF Ends
  <2> QED BY <2>1 DEF ArgOfPhase, IssuedStays
<1> QED BY <1>1, <1>2

LEMMA LookupBase == ASSUME Base, NEW r \in Requests, Lookup(r) PROVE Base'
<1> USE DEF Base, accountVars, credentials, bounds, history
<1>1. req' \in [Requests -> RequestType] BY LookupEffect DEF Moves, Ends
<1>2. TypeOK' BY <1>1 DEF TypeOK, Users, ArgOfPhase, Lookup, At
<1>3. IssuedStays BY DEF TypeOK, IssuedStays, Lookup
<1>4. ArgOfPhase' BY <1>3, LookupEffect, ArgStays, ArgEnds DEF Follows, Lookup, At
<1>5. GateHeld' BY LookupEffect DEF GateHeld, Lookup, Moves, Ends, At
<1> QED BY <1>2, <1>4, <1>5

LEMMA CreateAccountBase == ASSUME Base, NEW r \in Requests, CreateAccount(r) PROVE Base'
<1> USE DEF Base, accountVars, credentials, bounds, history
<1>1. req' \in [Requests -> RequestType] BY CreateAccountEffect DEF Moves, Ends
<1>2. TypeOK' BY <1>1 DEF TypeOK, Users, ArgOfPhase, CreateAccount, At
<1>3. IssuedStays BY DEF TypeOK, IssuedStays, CreateAccount
<1>4. ArgOfPhase' BY <1>3, CreateAccountEffect, ArgStays, ArgEnds DEF Follows, CreateAccount, At
<1>5. GateHeld' BY CreateAccountEffect DEF GateHeld, CreateAccount, Moves, Ends, At
<1> QED BY <1>2, <1>4, <1>5

LEMMA RereadBase == ASSUME Base, NEW r \in Requests, Reread(r) PROVE Base'
<1> USE DEF Base, accountVars, credentials, bounds, history
<1>1. req' \in [Requests -> RequestType] BY RereadEffect DEF Moves, Ends
<1>2. TypeOK' BY <1>1 DEF TypeOK, Users, ArgOfPhase, Reread, At
<1>3. IssuedStays BY DEF TypeOK, IssuedStays, Reread
<1>4. ArgOfPhase'
  <2>1. Follows(req[r].pc, "mint") BY DEF Follows, Reread, At
  <2> QED BY <1>3, <2>1, RereadEffect, ArgStays
<1>5. GateHeld' BY RereadEffect DEF GateHeld, Reread, Moves, Ends, At
<1> QED BY <1>2, <1>4, <1>5

LEMMA VerifyPasswordBase == ASSUME Base, NEW r \in Requests, VerifyPassword(r) PROVE Base'
<1> USE DEF Base, accountVars, credentials, bounds, history
<1>1. req' \in [Requests -> RequestType] BY VerifyPasswordEffect DEF Moves, Ends
<1>2. TypeOK' BY <1>1 DEF TypeOK, Users, ArgOfPhase, VerifyPassword, At
<1>3. IssuedStays BY DEF TypeOK, IssuedStays, VerifyPassword
<1>4. ArgOfPhase' BY <1>3, VerifyPasswordEffect, ArgStays, ArgEnds DEF Follows, VerifyPassword, At
<1>5. GateHeld' BY VerifyPasswordEffect DEF GateHeld, VerifyPassword, Moves, Ends, At
<1> QED BY <1>2, <1>4, <1>5

LEMMA RehashBase == ASSUME Base, NEW r \in Requests, Rehash(r) PROVE Base'
<1> USE DEF Base, accountVars, credentials, bounds, history
<1>1. req' \in [Requests -> RequestType] BY RehashEffect DEF Moves, Ends
<1>2. TypeOK' BY <1>1 DEF TypeOK, Users, ArgOfPhase, Rehash, At
<1>3. IssuedStays BY DEF TypeOK, IssuedStays, Rehash
<1>4. ArgOfPhase' BY <1>3, RehashEffect, ArgStays, ArgEnds DEF Follows, Rehash, At
<1>5. GateHeld' BY RehashEffect DEF GateHeld, Rehash, Moves, Ends, At
<1> QED BY <1>2, <1>4, <1>5

LEMMA CheckRegistrationLockBase == ASSUME Base, NEW r \in Requests, CheckRegistrationLock(r) PROVE Base'
<1> USE DEF Base, accountVars, credentials, bounds, history
<1>1. req' \in [Requests -> RequestType] BY CheckRegistrationLockEffect DEF Moves, Ends
<1>2. TypeOK' BY <1>1 DEF TypeOK, Users, ArgOfPhase, CheckRegistrationLock, At
<1>3. IssuedStays BY DEF TypeOK, IssuedStays, CheckRegistrationLock
<1>4. ArgOfPhase' BY <1>3, CheckRegistrationLockEffect, ArgStays, ArgEnds DEF Follows, CheckRegistrationLock, At
<1>5. GateHeld' BY CheckRegistrationLockEffect DEF GateHeld, CheckRegistrationLock, Moves, Ends, At
<1> QED BY <1>2, <1>4, <1>5

LEMMA LookupToActBase == ASSUME Base, NEW r \in Requests, LookupToAct(r) PROVE Base'
<1> USE DEF Base, accountVars, credentials, bounds, history
<1>1. req' \in [Requests -> RequestType] BY LookupToActEffect DEF Moves, Ends
<1>2. TypeOK' BY <1>1 DEF TypeOK, Users, ArgOfPhase, LookupToAct, At
<1>3. IssuedStays BY DEF TypeOK, IssuedStays, LookupToAct
<1>4. ArgOfPhase' BY <1>3, LookupToActEffect, ArgStays, ArgEnds DEF Follows, LookupToAct, At
<1>5. GateHeld' BY LookupToActEffect DEF GateHeld, LookupToAct, Moves, Ends, At
<1> QED BY <1>2, <1>4, <1>5

LEMMA ConsumeReadsBase == ASSUME Base, NEW r \in Requests, ConsumeReads(r) PROVE Base'
<1> USE DEF Base, accountVars, credentials, bounds, history
<1>1. req' \in [Requests -> RequestType] BY ConsumeReadsEffect DEF Moves, Ends
<1>2. TypeOK' BY <1>1 DEF TypeOK, Users, ArgOfPhase, ConsumeReads, At
<1>3. IssuedStays BY DEF TypeOK, IssuedStays, ConsumeReads
<1>4. ArgOfPhase' BY <1>3, ConsumeReadsEffect, ArgStays, ArgEnds DEF Follows, ConsumeReads, At
<1>5. GateHeld'
  <2>1. \A q \in Requests : req[q].pc \notin {"rotated", "consumed"}
    BY CredentialAssumption DEF GateHeld, ConsumeReads
  <2>2. CASE Ends(r) BY <2>1, <2>2 DEF Ends, GateHeld
  <2>3. CASE Moves(r, "consumed", req[r].user, req[r].old) /\ gate' = r
    BY <2>1, <2>3 DEF Moves, GateHeld
  <2> QED BY <2>2, <2>3, ConsumeReadsEffect
<1> QED BY <1>2, <1>4, <1>5

LEMMA ConsumeWritesBase == ASSUME Base, NEW r \in Requests, ConsumeWrites(r) PROVE Base'
<1> USE DEF Base, accountVars, credentials, bounds, history
<1>1. req' \in [Requests -> RequestType] BY ConsumeWritesEffect DEF Moves, Ends
<1>2. TypeOK' BY <1>1 DEF TypeOK, Active, ConsumeWrites
<1>3. IssuedStays BY DEF TypeOK, IssuedStays, ConsumeWrites
<1>4. ArgOfPhase'
  <2>1. Follows(req[r].pc, "password") BY DEF Follows, ConsumeWrites, At
  <2> QED BY <1>3, <2>1, ConsumeWritesEffect, ArgStays
<1>5. GateHeld' BY ConsumeWritesEffect DEF GateHeld, ConsumeWrites, Moves, Ends, At
<1> QED BY <1>2, <1>4, <1>5

LEMMA SetPasswordBase == ASSUME Base, NEW r \in Requests, SetPassword(r) PROVE Base'
<1> USE DEF Base, accountVars, credentials, bounds, history
<1>1. req' \in [Requests -> RequestType] BY SetPasswordEffect DEF Moves, Ends
<1>2. TypeOK'
  <2>1. req[r].arg \in Links BY DEF ArgOfPhase, SetPassword, At
  <2>2. uses' \in [Links -> Nat] BY <2>1 DEF TypeOK, SetPassword
  <2> QED BY <1>1, <2>2 DEF TypeOK, Users, SetPassword
<1>3. IssuedStays BY DEF TypeOK, IssuedStays, SetPassword
<1>4. ArgOfPhase' BY <1>3, SetPasswordEffect, ArgStays, ArgEnds DEF Follows, SetPassword, At
<1>5. GateHeld' BY SetPasswordEffect DEF GateHeld, SetPassword, Moves, Ends, At
<1> QED BY <1>2, <1>4, <1>5

LEMMA CutSessionsBase == ASSUME Base, NEW r \in Requests, CutSessions(r) PROVE Base'
<1> USE DEF Base, accountVars, credentials, bounds, history
<1>1. req' \in [Requests -> RequestType] BY CutSessionsEffect DEF Moves, Ends
<1>2. TypeOK' BY <1>1, AuthLimitAssumption DEF TypeOK, CutSessions
<1>3. IssuedStays BY DEF TypeOK, IssuedStays, CutSessions
<1>4. ArgOfPhase' BY <1>3, CutSessionsEffect, ArgStays, ArgEnds DEF Follows, CutSessions, At
<1>5. GateHeld' BY CutSessionsEffect DEF GateHeld, CutSessions, Moves, Ends, At
<1> QED BY <1>2, <1>4, <1>5

LEMMA RotateReadsBase == ASSUME Base, NEW r \in Requests, RotateReads(r) PROVE Base'
<1> USE DEF Base, accountVars, credentials, bounds, history
<1>1. req' \in [Requests -> RequestType] BY RotateReadsEffect DEF Moves, Ends
<1>2. TypeOK' BY <1>1 DEF TypeOK, Users, ArgOfPhase, RotateReads, At
<1>3. IssuedStays BY DEF TypeOK, IssuedStays, RotateReads
<1>4. ArgOfPhase'
  <2>1. Follows(req[r].pc, "rotated") BY DEF Follows, RotateReads, At
  <2> QED BY <1>3, <2>1, RotateReadsEffect, ArgStays, ArgEnds
<1>5. GateHeld'
  <2>1. \A q \in Requests : req[q].pc \notin {"rotated", "consumed"}
    BY CredentialAssumption DEF GateHeld, RotateReads
  <2>2. CASE Ends(r) BY <2>1, <2>2 DEF Ends, GateHeld
  <2>3. CASE Moves(r, "rotated", req[r].user, req[r].old) /\ gate' = r
    BY <2>1, <2>3 DEF Moves, GateHeld
  <2> QED BY <2>2, <2>3, RotateReadsEffect
<1> QED BY <1>2, <1>4, <1>5

LEMMA RotateWritesBase == ASSUME Base, NEW r \in Requests, RotateWrites(r) PROVE Base'
<1> USE DEF Base, accountVars, credentials, bounds, history
<1>1. req' \in [Requests -> RequestType] BY RotateWritesEffect DEF Moves, Ends
<1>2. TypeOK' BY <1>1 DEF TypeOK, Users, ArgOfPhase, RotateWrites, At
<1>3. IssuedStays BY DEF TypeOK, IssuedStays, RotateWrites
<1>4. ArgOfPhase'
  <2>1. Follows(req[r].pc, "account") BY DEF Follows, RotateWrites, At
  <2> QED BY <1>3, <2>1, RotateWritesEffect, ArgStays
<1>5. GateHeld' BY RotateWritesEffect DEF GateHeld, RotateWrites, Moves, Ends, At
<1> QED BY <1>2, <1>4, <1>5

LEMMA RefreshReadsAccountBase == ASSUME Base, NEW r \in Requests, RefreshReadsAccount(r) PROVE Base'
<1> USE DEF Base, accountVars, credentials, bounds, history
<1>1. req' \in [Requests -> RequestType] BY RefreshReadsAccountEffect DEF Moves, Ends
<1>2. TypeOK' BY <1>1 DEF TypeOK, Users, ArgOfPhase, RefreshReadsAccount, At
<1>3. IssuedStays BY DEF TypeOK, IssuedStays, RefreshReadsAccount
<1>4. ArgOfPhase' BY <1>3, RefreshReadsAccountEffect, ArgStays, ArgEnds DEF Follows, RefreshReadsAccount, At
<1>5. GateHeld' BY RefreshReadsAccountEffect DEF GateHeld, RefreshReadsAccount, Moves, Ends, At
<1> QED BY <1>2, <1>4, <1>5

LEMMA MintSessionBase == ASSUME Base, NEW r \in Requests, MintSession(r) PROVE Base'
<1> USE DEF Base, accountVars, credentials, bounds, history
<1>1. req' \in [Requests -> RequestType] BY LastStepEnds DEF Moves, Ends
<1>2. TypeOK'
  <2>1. req[r].user \in Users \cup {Nobody} BY DEF TypeOK, RequestType
  <2> QED BY <1>1, <2>1 DEF TypeOK, MintSession
<1>3. IssuedStays BY DEF TypeOK, IssuedStays, MintSession
<1>4. ArgOfPhase' BY <1>3, LastStepEnds, ArgEnds
<1>5. GateHeld' BY LastStepEnds DEF GateHeld, MintSession, Moves, Ends, At
<1> QED BY <1>2, <1>4, <1>5

LEMMA IssueLinkBase == ASSUME Base, NEW r \in Requests, IssueLink(r) PROVE Base'
<1> USE DEF Base, accountVars, credentials, bounds, history
<1>1. req' \in [Requests -> RequestType] BY LastStepEnds DEF Moves, Ends
<1>2. TypeOK' BY <1>1 DEF TypeOK, Users, ArgOfPhase, IssueLink, At
<1>3. IssuedStays BY DEF TypeOK, IssuedStays, IssueLink
<1>4. ArgOfPhase' BY <1>3, LastStepEnds, ArgEnds
<1>5. GateHeld' BY LastStepEnds DEF GateHeld, IssueLink, Moves, Ends, At
<1> QED BY <1>2, <1>4, <1>5

LEMMA CutTokensBase == ASSUME Base, NEW r \in Requests, CutTokens(r) PROVE Base'
<1> USE DEF Base, accountVars, credentials, bounds, history
<1>1. req' \in [Requests -> RequestType] BY LastStepEnds DEF Moves, Ends
<1>2. TypeOK'
  <2>1. token' \in [Tokens -> {"none", "live", "revoked"}] BY DEF TypeOK, CutTokens
  <2>2. cut' \in BOOLEAN BY DEF TypeOK, CutTokens
  <2>3. faults' \in 0..MaxFaults BY AuthLimitAssumption DEF TypeOK, CutTokens
  <2> QED BY <1>1, <2>1, <2>2, <2>3 DEF TypeOK, CutTokens
<1>3. IssuedStays BY DEF TypeOK, IssuedStays, CutTokens
<1>4. ArgOfPhase' BY <1>3, LastStepEnds, ArgEnds
<1>5. GateHeld' BY LastStepEnds DEF GateHeld, CutTokens, Moves, Ends, At
<1> QED BY <1>2, <1>4, <1>5

LEMMA DiesBase == ASSUME Base, NEW r \in Requests, Dies(r) PROVE Base'
<1> USE DEF Base, accountVars, credentials, bounds, history
<1>1. req' \in [Requests -> RequestType] BY LastStepEnds DEF Moves, Ends
<1>2. TypeOK' BY <1>1, AuthLimitAssumption DEF TypeOK, Dies
<1>3. IssuedStays BY DEF TypeOK, IssuedStays, Dies
<1>4. ArgOfPhase' BY <1>3, LastStepEnds, ArgEnds
<1>5. GateHeld' BY LastStepEnds DEF GateHeld, Dies, Moves, Ends
<1> QED BY <1>2, <1>4, <1>5

LEMMA ArrivalBase == ASSUME Base, NEW r \in Requests, Arrival(r) PROVE Base'
<1> USE DEF Base, accountVars, credentials, bounds
<1>0. Begins(r) BY ArrivalBegins
<1>1. TypeOK' BY <1>0 DEF TypeOK, Begins
<1>2. ArgOfPhase'
  <2> SUFFICES ASSUME NEW s \in Requests PROVE ArgOfPhase!(s)'
    BY DEF ArgOfPhase
  <2>1. token' = token /\ link' = link BY <1>0 DEF Begins
  <2>2. CASE s = r BY <1>0, <2>1, <2>2 DEF Begins, FirstPhase
  <2>3. CASE s # r
    <3>1. req'[s] = req[s] BY <1>0, <2>3 DEF Begins
    <3> QED BY <2>1, <3>1 DEF ArgOfPhase
  <2> QED BY <2>2, <2>3
<1>3. GateHeld' BY <1>0 DEF Begins, FirstPhase, GateHeld
<1> QED BY <1>1, <1>2, <1>3

(* Steps that belong to no request of the model. *)
Elsewhere ==
    \/ \E s \in Requests : DeleteSession(s)
    \/ \E t \in Tokens : RefreshRevoke(t)
    \/ RevokeUser \/ Expires \/ PruneExpired

LEMMA ElsewhereBase == ASSUME Base, Elsewhere PROVE Base'
<1> USE DEF Base, accountVars, credentials, bounds, history
<1>0. UNCHANGED <<req, gate, link, old, cut, reached, uses, burned, password, account, owner>>
  BY DEF Elsewhere, DeleteSession, RefreshRevoke, RevokeUser, Expires, PruneExpired
<1>1. TypeOK'
  <2>1. CASE \E s \in Requests : DeleteSession(s) BY <2>1 DEF TypeOK, DeleteSession
  <2>2. CASE \E t \in Tokens : RefreshRevoke(t) BY <2>2 DEF TypeOK, RefreshRevoke
  <2>3. CASE RevokeUser BY <2>3 DEF TypeOK, RevokeUser
  <2>4. CASE Expires BY <2>4, AuthLimitAssumption DEF TypeOK, Expires
  <2>5. CASE PruneExpired BY <2>5 DEF TypeOK, PruneExpired
  <2> QED BY <2>1, <2>2, <2>3, <2>4, <2>5 DEF Elsewhere
<1>2. IssuedStays
  BY <1>0 DEF TypeOK, IssuedStays, Elsewhere, DeleteSession, RefreshRevoke, RevokeUser, Expires, PruneExpired
<1>3. ArgOfPhase' BY <1>0, <1>2 DEF ArgOfPhase, IssuedStays
<1>4. GateHeld' BY <1>0 DEF GateHeld
<1> QED BY <1>1, <1>3, <1>4

(* Next, by who moves.                                                      *)
LEMMA NextCases ==
    ASSUME Next
    PROVE  Elsewhere \/ \E r \in Requests : Step(r) \/ Dies(r) \/ Arrival(r)
BY DEF Next, Elsewhere, Arrival

LEMMA BaseInvariant == Spec => []Base
<1>1. Init => Base
  <2> SUFFICES ASSUME Init PROVE Base OBVIOUS
  <2>1. Idle \in RequestType BY DEF Idle, RequestType, Ops, Phases
  <2>2. Idle.pc = "idle" BY DEF Idle
  <2>3. TypeOK
    <3>1. faults \in 0..MaxFaults /\ expiries \in 0..MaxExpiries BY AuthLimitAssumption DEF Init
    <3>2. req \in [Requests -> RequestType] BY <2>1 DEF Init
    <3>3. token \in [Tokens -> {"none", "live", "revoked"}] BY DEF Init
    <3>4. uses \in [Links -> Nat] /\ link \in [Links -> {"none", "live", "consumed"}] BY DEF Init
    <3> QED BY <3>1, <3>2, <3>3, <3>4, CredentialAssumption DEF Init, TypeOK, Users
  <2> QED BY <2>2, <2>3 DEF Init, Base, ArgOfPhase, GateHeld
<1>2. Base /\ [Next]_vars => Base'
  <2> SUFFICES ASSUME Base, [Next]_vars PROVE Base' OBVIOUS
  <2>1. CASE UNCHANGED vars
    BY <2>1 DEF vars, accountVars, credentials, bounds, history, Base, TypeOK, ArgOfPhase, GateHeld
  <2>2. CASE Elsewhere BY <2>2, ElsewhereBase
  <2>3. ASSUME NEW r \in Requests, Step(r) PROVE Base'
    BY <2>3, LookupBase, CreateAccountBase, RereadBase, MintSessionBase, VerifyPasswordBase, RehashBase,
       CheckRegistrationLockBase, LookupToActBase, IssueLinkBase, ConsumeReadsBase, ConsumeWritesBase,
       SetPasswordBase, CutSessionsBase, CutTokensBase, RotateReadsBase, RotateWritesBase,
       RefreshReadsAccountBase
    DEF Step
  <2>4. ASSUME NEW r \in Requests, Dies(r) \/ Arrival(r) PROVE Base' BY <2>4, DiesBase, ArrivalBase
  <2> QED BY <2>1, <2>2, <2>3, <2>4, NextCases
<1> QED BY <1>1, <1>2, PTL DEF Spec


-----------------------------------------------------------------------------
(* Who enters a phase, and who touches what.                                *)

(* No request enters phase p, and those in it stay as they are. *)
StillIn(p) ==
    \A q \in Requests : req'[q].pc = p =>
       req[q].pc = p /\ req'[q].arg = req[q].arg /\ req'[q].old = req[q].old

LEMMA MovesPast ==
    ASSUME NEW r \in Requests, NEW p, NEW u, NEW b, Moves(r, p, u, b), NEW x, p # x
    PROVE  StillIn(x)
BY DEF Moves, StillIn

LEMMA EndsPast ==
    ASSUME NEW r \in Requests, Ends(r), NEW x, x # "done"
    PROVE  StillIn(x)
BY DEF Ends, StillIn

LEMMA BeginsPast ==
    ASSUME NEW r \in Requests, Begins(r), NEW x, x \notin {"lookup", "verify", "consume", "rotate"}
    PROVE  StillIn(x)
BY DEF Begins, FirstPhase, StillIn

(* The transactions and the reset are entered by one action each.           *)
LEMMA EnteredBy ==
    ASSUME TypeOK, NEW r \in Requests, Step(r) \/ Dies(r) \/ Arrival(r)
    PROVE  /\ RotateReads(r) \/ StillIn("rotated")
           /\ ConsumeReads(r) \/ StillIn("consumed")
           /\ ConsumeWrites(r) \/ StillIn("password")
<1> USE MovesPast, EndsPast, BeginsPast
<1>1. CASE Lookup(r) BY <1>1, LookupEffect
<1>2. CASE CreateAccount(r) BY <1>2, CreateAccountEffect
<1>3. CASE Reread(r) BY <1>3, RereadEffect
<1>4. CASE VerifyPassword(r) BY <1>4, VerifyPasswordEffect
<1>5. CASE Rehash(r) BY <1>5, RehashEffect
<1>6. CASE CheckRegistrationLock(r) BY <1>6, CheckRegistrationLockEffect
<1>7. CASE LookupToAct(r) BY <1>7, LookupToActEffect
<1>8. CASE ConsumeReads(r) BY <1>8, ConsumeReadsEffect
<1>9. CASE ConsumeWrites(r) BY <1>9, ConsumeWritesEffect
<1>10. CASE SetPassword(r) BY <1>10, SetPasswordEffect
<1>11. CASE CutSessions(r) BY <1>11, CutSessionsEffect
<1>12. CASE RotateReads(r) BY <1>12, RotateReadsEffect
<1>13. CASE RotateWrites(r) BY <1>13, RotateWritesEffect
<1>14. CASE RefreshReadsAccount(r) BY <1>14, RefreshReadsAccountEffect
<1>15. CASE MintSession(r) \/ IssueLink(r) \/ CutTokens(r) \/ Dies(r) BY <1>15, LastStepEnds
<1>16. CASE Arrival(r) BY <1>16, ArrivalBegins
<1> QED BY <1>1, <1>2, <1>3, <1>4, <1>5, <1>6, <1>7, <1>8, <1>9, <1>10, <1>11, <1>12, <1>13, <1>14, <1>15, <1>16
  DEF Step

(* Tokens are written by three actions of requests, links by two; a use is  *)
(* counted by one.                                                          *)
LEMMA WrittenBy ==
    ASSUME TypeOK, NEW r \in Requests, Step(r) \/ Dies(r) \/ Arrival(r)
    PROVE  /\ RotateReads(r) \/ RotateWrites(r) \/ CutTokens(r) \/ (token' = token /\ burned' = burned)
           /\ IssueLink(r) \/ ConsumeWrites(r) \/ link' = link
           /\ SetPassword(r) \/ uses' = uses
<1> USE DEF accountVars, credentials, bounds, history
<1>1. CASE Lookup(r) BY <1>1 DEF Lookup
<1>2. CASE CreateAccount(r) BY <1>2 DEF CreateAccount
<1>3. CASE Reread(r) BY <1>3 DEF Reread
<1>4. CASE VerifyPassword(r) BY <1>4 DEF VerifyPassword
<1>5. CASE Rehash(r) BY <1>5 DEF Rehash
<1>6. CASE CheckRegistrationLock(r) BY <1>6 DEF CheckRegistrationLock
<1>7. CASE LookupToAct(r) BY <1>7 DEF LookupToAct
<1>8. CASE ConsumeReads(r) BY <1>8 DEF ConsumeReads
<1>9. CASE ConsumeWrites(r) BY <1>9 DEF ConsumeWrites
<1>10. CASE SetPassword(r) BY <1>10 DEF SetPassword
<1>11. CASE CutSessions(r) BY <1>11 DEF CutSessions
<1>12. CASE RotateReads(r)
  <2>1. link' = link /\ uses' = uses BY <1>12 DEF RotateReads
  <2> QED BY <1>12, <2>1
<1>13. CASE RotateWrites(r) BY <1>13 DEF RotateWrites
<1>14. CASE RefreshReadsAccount(r) BY <1>14 DEF RefreshReadsAccount
<1>15. CASE MintSession(r) \/ IssueLink(r) \/ CutTokens(r) \/ Dies(r)
  BY <1>15 DEF MintSession, IssueLink, CutTokens, Dies
<1>16. CASE Arrival(r) BY <1>16, ArrivalBegins DEF Begins
<1> QED BY <1>1, <1>2, <1>3, <1>4, <1>5, <1>6, <1>7, <1>8, <1>9, <1>10, <1>11, <1>12, <1>13, <1>14, <1>15, <1>16
  DEF Step

-----------------------------------------------------------------------------
(* The family of refresh tokens is a line.                                  *)

(* A step that writes no token and begins no rotation.                      *)
LEMMA LineQuiet ==
    ASSUME LineInv, token' = token, burned' = burned, StillIn("rotated")
    PROVE  LineInv'
BY DEF LineInv, OneLive, RotatesTheLiveOne, BurnedIsDead, StillIn

(* A step that revokes tokens, and begins no rotation.                      *)
LEMMA LineRevokes ==
    ASSUME LineInv, \A t \in Tokens : token'[t] = "live" => token[t] = "live", burned' = burned,
           StillIn("rotated")
    PROVE  LineInv'
BY DEF LineInv, OneLive, RotatesTheLiveOne, BurnedIsDead, StillIn

(* A rotation reads: the presented token is the live one, or the family is  *)
(* burned while no rotation is between its statements.                      *)
LEMMA RotateReadsLine == ASSUME Base, LineInv, NEW r \in Requests, RotateReads(r) PROVE LineInv'
<1>1. \A q \in Requests : req[q].pc # "rotated"
  BY CredentialAssumption DEF Base, GateHeld, RotateReads
<1>2. req[r].arg \in Tokens BY DEF Base, ArgOfPhase, RotateReads, At
<1>3. CASE /\ Moves(r, "rotated", req[r].user, req[r].old) /\ token[req[r].arg] = "live"
           /\ token' = token /\ burned' = burned
  <2>1. ~burned BY <1>2, <1>3 DEF LineInv, BurnedIsDead
  <2>2. \A q \in Requests : req'[q].pc = "rotated" => q = r BY <1>1, <1>3 DEF Moves
  <2>3. req'[r].arg = req[r].arg BY <1>3 DEF Moves
  <2> QED BY <1>2, <1>3, <2>1, <2>2, <2>3 DEF LineInv, OneLive, RotatesTheLiveOne, BurnedIsDead
<1>4. CASE /\ Ends(r) /\ burned' = TRUE
           /\ token' = [t \in Tokens |-> IF token[t] = "live" THEN "revoked" ELSE token[t]]
  <2>1. \A t \in Tokens : token'[t] # "live" BY <1>4
  <2>2. \A q \in Requests : req'[q].pc # "rotated" BY <1>1, <1>4 DEF Ends
  <2> QED BY <2>1, <2>2 DEF LineInv, OneLive, RotatesTheLiveOne, BurnedIsDead
<1>5. CASE Ends(r) /\ token' = token /\ burned' = burned BY <1>5, LineQuiet, EndsPast
<1> QED BY <1>3, <1>4, <1>5, RotateReadsEffect DEF Base

(* A rotation writes: the one token that could be live is revoked, a fresh  *)
(* one is inserted, and no other rotation is between its statements.        *)
LEMMA RotateWritesLine == ASSUME Base, LineInv, NEW r \in Requests, RotateWrites(r) PROVE LineInv'
<1>1. req[r].pc = "rotated" /\ gate = r BY DEF Base, GateHeld, RotateWrites, At
<1>2. \A q \in Requests : req[q].pc = "rotated" => q = r BY <1>1 DEF Base, GateHeld
<1>3. PICK t \in Tokens : token' = [token EXCEPT ![req[r].arg] = "revoked", ![t] = "live"]
  BY DEF RotateWrites
<1>4. ~burned /\ burned' = burned BY <1>1 DEF LineInv, RotatesTheLiveOne, RotateWrites
<1>5. \A u \in Tokens : token'[u] = "live" => u = t
  BY <1>1, <1>3 DEF LineInv, RotatesTheLiveOne, Base, TypeOK
<1>6. \A q \in Requests : req'[q].pc # "rotated"
  BY <1>2, RotateWritesEffect DEF Moves, Base
<1> QED BY <1>4, <1>5, <1>6 DEF LineInv, OneLive, RotatesTheLiveOne, BurnedIsDead

LEMMA CutTokensLine == ASSUME Base, LineInv, NEW r \in Requests, CutTokens(r) PROVE LineInv'
<1>1. \A t \in Tokens : token'[t] = "live" => token[t] = "live" BY DEF CutTokens, Base, TypeOK
<1>2. burned' = burned BY DEF CutTokens
<1>3. StillIn("rotated") BY LastStepEnds, EndsPast DEF Base
<1> QED BY <1>1, <1>2, <1>3, LineRevokes

LEMMA ElsewhereLine == ASSUME Base, LineInv, Elsewhere PROVE LineInv'
<1>1. \A t \in Tokens : token'[t] = "live" => token[t] = "live"
  BY DEF Elsewhere, DeleteSession, RefreshRevoke, RevokeUser, Expires, PruneExpired, Base, TypeOK
<1>2. burned' = burned /\ req' = req
  BY DEF Elsewhere, DeleteSession, RefreshRevoke, RevokeUser, Expires, PruneExpired, history
<1>3. StillIn("rotated") BY <1>2 DEF StillIn
<1> QED BY <1>1, <1>2, <1>3, LineRevokes

(* Two live tokens are one: so there is one at most.                        *)
LEMMA AtMostOne ==
    ASSUME NEW S, \A x, y \in S : x = y
    PROVE  Cardinality(S) <= 1
<1>1. CASE S = {} BY <1>1, FS_EmptySet
<1>2. CASE S # {}
  <2>1. PICK x : x \in S BY <1>2
  <2>2. S = {x} BY <2>1
  <2> QED BY <2>2, FS_Singleton
<1> QED BY <1>1, <1>2

(* FamilyIsALine, of refresh_token.rs rotate and its reuse detection, for   *)
(* any number of requests that rotate, revoke and reset side by side.       *)
THEOREM FamilyLine == Spec => []FamilyIsALine
<1>1. Init => LineInv
  <2> SUFFICES ASSUME Init PROVE LineInv OBVIOUS
  <2>1. \A r \in Requests : req[r].pc = "idle" BY DEF Init, Idle
  <2> QED BY <2>1 DEF Init, LineInv, OneLive, RotatesTheLiveOne, BurnedIsDead
<1>2. Base /\ LineInv /\ [Next]_vars => LineInv'
  <2> SUFFICES ASSUME Base, LineInv, [Next]_vars PROVE LineInv' OBVIOUS
  <2>1. CASE UNCHANGED vars
    <3>1. StillIn("rotated") BY <2>1 DEF vars, StillIn
    <3> QED BY <2>1, <3>1, LineQuiet DEF vars, credentials, history
  <2>2. CASE Elsewhere BY <2>2, ElsewhereLine
  <2>3. ASSUME NEW r \in Requests, Step(r) \/ Dies(r) \/ Arrival(r) PROVE LineInv'
    BY <2>3, EnteredBy, WrittenBy, LineQuiet, RotateReadsLine, RotateWritesLine, CutTokensLine DEF Base
  <2> QED BY <2>1, <2>2, <2>3, NextCases
<1>3. LineInv => FamilyIsALine
  BY AtMostOne DEF LineInv, OneLive, BurnedIsDead, FamilyIsALine
<1> QED BY <1>1, <1>2, <1>3, BaseInvariant, PTL DEF Spec

-----------------------------------------------------------------------------
(* A reset link is used once.                                               *)

(* A step that writes no link, counts no use and enters no phase of consume *)
(* but by leaving one.                                                      *)
LEMMA LinkQuiet ==
    ASSUME LinkInv, link' = link, uses' = uses, StillIn("consumed"), StillIn("password")
    PROVE  LinkInv'
<1>1. OneLiveLink' BY DEF LinkInv, OneLiveLink
<1>2. UnusedWhileLive' BY DEF LinkInv, UnusedWhileLive, StillIn
<1>3. OneHolder' BY DEF LinkInv, OneHolder, StillIn
<1> QED BY <1>1, <1>2, <1>3 DEF LinkInv

(* issue runs while no consume is between its statements; what it consumes  *)
(* has set no password.                                                     *)
LEMMA IssueLinkLink == ASSUME Base, LinkInv, NEW r \in Requests, IssueLink(r) PROVE LinkInv'
<1>1. \A q \in Requests : req[q].pc # "consumed"
  BY CredentialAssumption DEF Base, GateHeld, IssueLink
<1>2. PICK l \in Links :
         /\ link[l] = "none"
         /\ link' = [x \in Links |-> IF x = l THEN "live"
                                     ELSE IF link[x] = "live" THEN "consumed" ELSE link[x]]
  BY DEF IssueLink
<1>3. uses' = uses BY DEF IssueLink, history
<1>4. StillIn("consumed") /\ StillIn("password") BY LastStepEnds, EndsPast DEF Base
<1>5. OneLiveLink' BY <1>2 DEF OneLiveLink
<1>6. UnusedWhileLive' BY <1>1, <1>2, <1>3, <1>4 DEF LinkInv, UnusedWhileLive, StillIn
<1>7. OneHolder'
  <2>1. \A q \in Requests : req[q].pc = "password" => req[q].arg \in Links BY DEF Base, ArgOfPhase
  <2> QED BY <1>2, <1>3, <1>4, <2>1 DEF LinkInv, OneHolder, StillIn
<1> QED BY <1>5, <1>6, <1>7 DEF LinkInv

LEMMA ConsumeReadsLink == ASSUME Base, LinkInv, NEW r \in Requests, ConsumeReads(r) PROVE LinkInv'
<1>1. link' = link /\ uses' = uses BY DEF ConsumeReads, credentials, history
<1>2. StillIn("password") BY ConsumeReadsEffect, MovesPast, EndsPast DEF Base
<1>3. \A q \in Requests : req'[q].pc = "consumed" => link[req'[q].arg] = "live"
  BY ConsumeReadsEffect DEF Moves, Ends, Base, LinkInv, UnusedWhileLive
<1>4. OneLiveLink' BY <1>1 DEF LinkInv, OneLiveLink
<1>5. UnusedWhileLive' BY <1>1, <1>3 DEF LinkInv, UnusedWhileLive
<1>6. OneHolder' BY <1>1, <1>2 DEF LinkInv, OneHolder, StillIn
<1> QED BY <1>4, <1>5, <1>6 DEF LinkInv

(* The link is still live when the transaction writes, so that nobody else  *)
(* holds it.                                                                *)
LEMMA ConsumeWritesLink == ASSUME Base, LinkInv, NEW r \in Requests, ConsumeWrites(r) PROVE LinkInv'
<1>1. req[r].pc = "consumed" /\ gate = r BY DEF Base, GateHeld, ConsumeWrites, At
<1>2. req[r].arg \in Links /\ link[req[r].arg] = "live" /\ uses[req[r].arg] = 0
  BY <1>1 DEF Base, ArgOfPhase, LinkInv, UnusedWhileLive
<1>3. link' = [link EXCEPT ![req[r].arg] = "consumed"] /\ uses' = uses BY DEF ConsumeWrites
<1>4. Moves(r, "password", req[r].user, req[r].old) BY ConsumeWritesEffect DEF Base
<1>5. \A q \in Requests : req'[q].pc # "consumed" BY <1>1, <1>4 DEF Moves, Base, GateHeld
<1>6. OneLiveLink' BY <1>3 DEF LinkInv, OneLiveLink, Base, TypeOK
<1>7. UnusedWhileLive' BY <1>3, <1>5 DEF LinkInv, UnusedWhileLive, Base, TypeOK
<1>8. \A q \in Requests : q # r /\ req'[q].pc = "password" =>
         /\ req[q].pc = "password" /\ req'[q].arg = req[q].arg /\ req[q].arg # req[r].arg
         /\ req[q].arg \in Links
  BY <1>2, <1>4 DEF Moves, LinkInv, OneHolder, Base, ArgOfPhase
<1>9. req'[r].arg = req[r].arg BY <1>4 DEF Moves
<1>10. OneHolder'
  <2>1. \A l \in Links : uses'[l] <= 1 BY <1>3 DEF LinkInv, OneHolder
  <2>2. ASSUME NEW s \in Requests, req'[s].pc = "password"
        PROVE  /\ link'[req'[s].arg] = "consumed" /\ uses'[req'[s].arg] = 0
               /\ \A q \in Requests : req'[q].pc = "password" /\ req'[q].arg = req'[s].arg => q = s
    <3>1. CASE s = r BY <1>2, <1>3, <1>8, <1>9, <3>1 DEF Base, TypeOK
    <3>2. CASE s # r
      BY <1>3, <1>8, <1>9, <2>2, <3>2 DEF LinkInv, OneHolder, Base, TypeOK
    <3> QED BY <3>1, <3>2
  <2> QED BY <2>1, <2>2 DEF OneHolder
<1> QED BY <1>6, <1>7, <1>10 DEF LinkInv

(* The one holder of a consumed link uses it, and has done with it.         *)
LEMMA SetPasswordLink == ASSUME Base, LinkInv, NEW r \in Requests, SetPassword(r) PROVE LinkInv'
<1>1. req[r].pc = "password" /\ req[r].arg \in Links BY DEF Base, ArgOfPhase, SetPassword, At
<1>2. link[req[r].arg] = "consumed" /\ uses[req[r].arg] = 0 BY <1>1 DEF LinkInv, OneHolder
<1>3. link' = link /\ uses' = [uses EXCEPT ![req[r].arg] = 1]
  BY <1>2 DEF SetPassword, credentials
<1>4. Moves(r, "sessions", req[r].user, TRUE) BY SetPasswordEffect DEF Base
<1>5. StillIn("consumed") /\ StillIn("password") BY <1>4, MovesPast
<1>6. req'[r].pc = "sessions" BY <1>4 DEF Moves
<1>7. OneLiveLink' BY <1>3 DEF LinkInv, OneLiveLink
<1>8. UnusedWhileLive' BY <1>2, <1>3, <1>5 DEF LinkInv, UnusedWhileLive, StillIn, Base, TypeOK
<1>9. OneHolder' BY <1>1, <1>3, <1>5, <1>6 DEF LinkInv, OneHolder, StillIn, Base, TypeOK, ArgOfPhase
<1> QED BY <1>7, <1>8, <1>9 DEF LinkInv

LEMMA ElsewhereLink == ASSUME Base, LinkInv, Elsewhere PROVE LinkInv'
<1>1. link' = link /\ uses' = uses /\ req' = req
  BY DEF Elsewhere, DeleteSession, RefreshRevoke, RevokeUser, Expires, PruneExpired, history
<1>2. StillIn("consumed") /\ StillIn("password") BY <1>1 DEF StillIn
<1> QED BY <1>1, <1>2, LinkQuiet

(* ResetOnce, of password_reset.rs issue and consume: at most one link is   *)
(* good and sets at most one password, for any requests that race with it.  *)
THEOREM LinkOnce == Spec => []ResetOnce
<1>1. Init => LinkInv
  <2> SUFFICES ASSUME Init PROVE LinkInv OBVIOUS
  <2>1. \A r \in Requests : req[r].pc = "idle" BY DEF Init, Idle
  <2> QED BY <2>1 DEF Init, LinkInv, OneLiveLink, UnusedWhileLive, OneHolder
<1>2. Base /\ LinkInv /\ [Next]_vars => LinkInv'
  <2> SUFFICES ASSUME Base, LinkInv, [Next]_vars PROVE LinkInv' OBVIOUS
  <2>1. CASE UNCHANGED vars
    <3>1. StillIn("consumed") /\ StillIn("password") BY <2>1 DEF vars, StillIn
    <3> QED BY <2>1, <3>1, LinkQuiet DEF vars, credentials, history
  <2>2. CASE Elsewhere BY <2>2, ElsewhereLink
  <2>3. ASSUME NEW r \in Requests, Step(r) \/ Dies(r) \/ Arrival(r) PROVE LinkInv'
    BY <2>3, EnteredBy, WrittenBy, LinkQuiet, IssueLinkLink, ConsumeReadsLink, ConsumeWritesLink,
       SetPasswordLink DEF Base
  <2> QED BY <2>1, <2>2, <2>3, NextCases
<1>3. LinkInv => ResetOnce
  BY AtMostOne DEF LinkInv, OneLiveLink, OneHolder, ResetOnce
<1> QED BY <1>1, <1>2, <1>3, BaseInvariant, PTL DEF Spec

-----------------------------------------------------------------------------
(* An identity has one user.                                                *)

(* A request goes on with the user it has or the account's.                 *)
LEMMA UserMovesKeep ==
    ASSUME UserInv, NEW r \in Requests, NEW p, NEW u \in {req[r].user, account}, NEW b,
           Moves(r, p, u, b), account' = account, owner' = owner
    PROVE  UserInv'
BY DEF UserInv, Moves

LEMMA UserEndsKeep ==
    ASSUME UserInv, NEW r \in Requests, Ends(r), account' = account, owner' = owner
    PROVE  UserInv'
BY DEF UserInv, Ends

(* The unique handle lets one request create the account: before it, nobody *)
(* has a user.                                                              *)
LEMMA CreateAccountUser == ASSUME Base, UserInv, NEW r \in Requests, CreateAccount(r) PROVE UserInv'
<1>1. owner' = owner BY DEF CreateAccount, credentials
<1>2. CASE Moves(r, "mint", r, req[r].old) /\ account = Nobody /\ account' = r
  BY <1>1, <1>2 DEF UserInv, Moves
<1>3. CASE (Moves(r, "reread", req[r].user, req[r].old) \/ Ends(r)) /\ UNCHANGED account
  BY <1>1, <1>3, UserMovesKeep, UserEndsKeep
<1> QED BY <1>2, <1>3, CreateAccountEffect DEF Base

LEMMA MintSessionUser == ASSUME Base, UserInv, NEW r \in Requests, MintSession(r) PROVE UserInv'
<1>1. Ends(r) BY LastStepEnds DEF Base
<1>2. account' = account /\ owner' = [owner EXCEPT ![r] = req[r].user] BY DEF MintSession, accountVars
<1> QED BY <1>1, <1>2 DEF UserInv, Ends, Base, TypeOK

LEMMA StepUser ==
    ASSUME Base, UserInv, NEW r \in Requests, Step(r) \/ Dies(r) \/ Arrival(r)
    PROVE  UserInv'
<1> USE UserMovesKeep, UserEndsKeep DEF Base, accountVars, credentials
<1>1. CASE Lookup(r) BY <1>1, LookupEffect DEF Lookup
<1>2. CASE CreateAccount(r) BY <1>2, CreateAccountUser
<1>3. CASE Reread(r) BY <1>3, RereadEffect DEF Reread
<1>4. CASE MintSession(r) BY <1>4, MintSessionUser
<1>5. CASE VerifyPassword(r) BY <1>5, VerifyPasswordEffect DEF VerifyPassword
<1>6. CASE Rehash(r) BY <1>6, RehashEffect DEF Rehash
<1>7. CASE CheckRegistrationLock(r) BY <1>7, CheckRegistrationLockEffect DEF CheckRegistrationLock
<1>8. CASE LookupToAct(r) BY <1>8, LookupToActEffect DEF LookupToAct
<1>9. CASE IssueLink(r) BY <1>9, LastStepEnds DEF IssueLink
<1>10. CASE ConsumeReads(r) BY <1>10, ConsumeReadsEffect DEF ConsumeReads
<1>11. CASE ConsumeWrites(r) BY <1>11, ConsumeWritesEffect DEF ConsumeWrites
<1>12. CASE SetPassword(r) BY <1>12, SetPasswordEffect DEF SetPassword
<1>13. CASE CutSessions(r) BY <1>13, CutSessionsEffect DEF CutSessions
<1>14. CASE CutTokens(r) BY <1>14, LastStepEnds DEF CutTokens
<1>15. CASE RotateReads(r) BY <1>15, RotateReadsEffect DEF RotateReads
<1>16. CASE RotateWrites(r) BY <1>16, RotateWritesEffect DEF RotateWrites
<1>17. CASE RefreshReadsAccount(r) BY <1>17, RefreshReadsAccountEffect DEF RefreshReadsAccount
<1>18. CASE Dies(r) BY <1>18, LastStepEnds DEF Dies
<1>19. CASE Arrival(r) BY <1>19, ArrivalBegins DEF Begins, UserInv
<1> QED BY <1>1, <1>2, <1>3, <1>4, <1>5, <1>6, <1>7, <1>8, <1>9, <1>10, <1>11, <1>12, <1>13, <1>14,
           <1>15, <1>16, <1>17, <1>18, <1>19
  DEF Step

(* SameUser, of signup and finish_provider_login: whoever wins the race for *)
(* the handle, every session of the identity is of the account's user.      *)
THEOREM OneUser == Spec => []SameUser
<1>1. Init => UserInv
  <2> SUFFICES ASSUME Init PROVE UserInv OBVIOUS
  <2>1. \A r \in Requests : req[r].user = Nobody BY DEF Init, Idle
  <2> QED BY <2>1 DEF Init, UserInv
<1>2. Base /\ UserInv /\ [Next]_vars => UserInv'
  <2> SUFFICES ASSUME Base, UserInv, [Next]_vars PROVE UserInv' OBVIOUS
  <2>1. CASE UNCHANGED vars BY <2>1 DEF vars, accountVars, credentials, UserInv
  <2>2. CASE Elsewhere
    BY <2>2 DEF Elsewhere, DeleteSession, RefreshRevoke, RevokeUser, Expires, PruneExpired, accountVars, UserInv
  <2>3. ASSUME NEW r \in Requests, Step(r) \/ Dies(r) \/ Arrival(r) PROVE UserInv' BY <2>3, StepUser
  <2> QED BY <2>1, <2>2, <2>3, NextCases
<1>3. UserInv => SameUser BY DEF UserInv, SameUser
<1> QED BY <1>1, <1>2, <1>3, BaseInvariant, PTL DEF Spec

-----------------------------------------------------------------------------
(* A reset cuts off what came before it.                                    *)

(* The flag that a phase may have, for a request of operation o. *)
FlagAllowed(o, p, b) ==
    /\ p \in {"idle", "lookup", "create", "reread", "verify", "issue", "consume",
              "consumed", "password", "rotate", "rotated", "done"} => ~b
    /\ p \in {"sessions", "tokens"} /\ b => o = "reset"

LEMMA FlagMoved ==
    ASSUME FlagOfPhase, NEW r \in Requests, NEW p, NEW u, NEW b, Moves(r, p, u, b),
           FlagAllowed(req[r].op, p, b)
    PROVE  FlagOfPhase'
BY DEF FlagOfPhase, Settled, Moves, FlagAllowed

LEMMA FlagEnded ==
    ASSUME FlagOfPhase, NEW r \in Requests, Ends(r)
    PROVE  FlagOfPhase'
BY DEF FlagOfPhase, Settled, Ends

(* A request in progress goes on, and begins no cut.                        *)
LEMMA OthersMoved ==
    ASSUME OthersReached, NEW r \in Requests, NEW p, NEW u, NEW b, Moves(r, p, u, b), r \in Active,
           IsCutting(r)' => IsCutting(r), reached \subseteq reached'
    PROVE  OthersReached'
BY DEF OthersReached, IsCutting, Active, Moves

LEMMA OthersEnded ==
    ASSUME OthersReached, NEW r \in Requests, Ends(r), reached \subseteq reached'
    PROVE  OthersReached'
BY DEF OthersReached, IsCutting, Active, Ends

(* The phases of a request that has set its password, or is over. *)
Late == {"sessions", "tokens", "done"}
LateStays == \A q \in Requests : req[q].pc \in Late => req'[q].pc \in Late
DoneStays == \A q \in Requests : req[q].pc = "done" => req'[q].pc = "done"

LEMMA MovesLate ==
    ASSUME NEW r \in Requests, NEW p, NEW u, NEW b, Moves(r, p, u, b), req[r].pc # "done",
           req[r].pc \in Late => p \in Late
    PROVE  LateStays /\ DoneStays
BY DEF Moves, LateStays, DoneStays, Late

LEMMA EndsLate ==
    ASSUME NEW r \in Requests, Ends(r)
    PROVE  LateStays /\ DoneStays
BY DEF Ends, LateStays, DoneStays, Late

(* Nothing becomes live, nothing is issued, and no history is written. *)
Calm ==
    /\ password' = password /\ old' = old /\ cut' = cut /\ reached' = reached
    /\ \A s \in Requests : session'[s] = "live" => session[s] = "live"
    /\ \A t \in Tokens : /\ token'[t] = "live" => token[t] = "live"
                         /\ token'[t] = "none" <=> token[t] = "none"

LEMMA OldCalm ==
    ASSUME OldExists, Calm, DoneStays
    PROVE  OldExists'
BY CredentialAssumption DEF OldExists, Calm, DoneStays

LEMMA NamesCalm ==
    ASSUME PasswordNames, password' = password, old' \subseteq old, LateStays, StillIn("rehash")
    PROVE  PasswordNames'
BY DEF PasswordNames, LateStays, Late, StillIn

(* A calm step that only takes a request on: it enters no phase of a reset, *)
(* carries no old credential that it did not carry, and no login's upgrade  *)
(* begins.                                                                  *)
QuietPhase(r, p, b) ==
    /\ req[r].pc \notin {"idle", "done", "sessions", "tokens"}
    /\ p \notin {"rehash", "password", "tokens", "idle", "done"}
    /\ FlagAllowed(req[r].op, p, b)
    /\ p = "sessions" => ~b /\ req[r].op # "reset"
    /\ p \in {"lock", "account", "mint"} /\ b => Flagged(r)
    /\ p = "rotated" /\ cut => req[r].arg \notin old

LEMMA QuietMove ==
    ASSUME CutInv, NEW r \in Requests, NEW p, NEW u, NEW b, Moves(r, p, u, b), Calm, QuietPhase(r, p, b)
    PROVE  CutInv'
<1> USE DEF CutInv
<1>1. FlagOfPhase' BY FlagMoved DEF QuietPhase
<1>2. OthersReached'
  <2>1. r \in Active BY DEF Active, QuietPhase
  <2>2. IsCutting(r)' => IsCutting(r) BY DEF QuietPhase, IsCutting, Moves
  <2> QED BY <2>1, <2>2, OthersMoved DEF Calm
<1>3. LateStays /\ DoneStays BY MovesLate DEF QuietPhase, Late
<1>4. OldExists' BY <1>3, OldCalm
<1>5. PasswordNames'
  <2>1. StillIn("rehash") BY MovesPast DEF QuietPhase
  <2> QED BY <1>3, <2>1, NamesCalm DEF Calm
<1>6. FlaggedReached'
  BY DEF FlaggedReached, Calm, Flagged, Moves, QuietPhase
<1>7. \A q \in Requests : Settled(q)' => Settled(q) /\ req'[q].pc = req[q].pc
  BY DEF Settled, Moves, QuietPhase
<1>8. CutPassword' BY <1>7 DEF CutPassword, Calm
<1>9. CutLive' BY <1>7 DEF CutLive, Calm
<1>10. CutRefresh' BY DEF CutRefresh, Calm
<1> QED BY <1>1, <1>2, <1>4, <1>5, <1>6, <1>8, <1>9, <1>10

(* A calm step that ends a request.                                         *)
LEMMA QuietEnd ==
    ASSUME CutInv, NEW r \in Requests, Ends(r), Calm
    PROVE  CutInv'
<1> USE DEF CutInv
<1>1. FlagOfPhase' BY FlagEnded
<1>2. OthersReached' BY OthersEnded DEF Calm
<1>3. LateStays /\ DoneStays BY EndsLate
<1>4. OldExists' BY <1>3, OldCalm
<1>5. PasswordNames'
  <2>1. StillIn("rehash") BY EndsPast
  <2> QED BY <1>3, <2>1, NamesCalm DEF Calm
<1>6. FlaggedReached' BY DEF FlaggedReached, Calm, Flagged, Ends
<1>7. \A q \in Requests : Settled(q)' => Settled(q) /\ req'[q].pc = req[q].pc
  BY DEF Settled, Ends
<1>8. CutPassword' BY <1>7 DEF CutPassword, Calm
<1>9. CutLive' BY <1>7 DEF CutLive, Calm
<1>10. CutRefresh' BY DEF CutRefresh, Calm
<1> QED BY <1>1, <1>2, <1>4, <1>5, <1>6, <1>8, <1>9, <1>10

(* A calm step that moves no request.                                       *)
LEMMA QuietRest ==
    ASSUME CutInv, req' = req, Calm
    PROVE  CutInv'
<1> USE DEF CutInv
<1>1. FlagOfPhase' BY DEF FlagOfPhase, Settled
<1>2. OthersReached' BY DEF OthersReached, IsCutting, Active, Calm
<1>3. LateStays /\ DoneStays /\ StillIn("rehash") BY DEF LateStays, DoneStays, StillIn
<1>4. OldExists' BY <1>3, OldCalm
<1>5. PasswordNames' BY <1>3, NamesCalm DEF Calm
<1>6. FlaggedReached' BY DEF FlaggedReached, Calm, Flagged
<1>7. CutPassword' /\ CutLive' /\ CutRefresh' BY DEF CutPassword, CutLive, CutRefresh, Settled, Calm
<1> QED BY <1>1, <1>2, <1>4, <1>5, <1>6, <1>7

(* The steps of requests that are calm.                                     *)
LEMMA CalmSteps ==
    ASSUME Base, CutInv, NEW r \in Requests,
           \/ Lookup(r) \/ CreateAccount(r) \/ Reread(r) \/ CheckRegistrationLock(r) \/ LookupToAct(r)
           \/ IssueLink(r) \/ ConsumeReads(r) \/ RotateReads(r) \/ RefreshReadsAccount(r) \/ Dies(r)
    PROVE  CutInv'
<1> USE DEF Base
<1>1. req[r].pc \in {"lookup", "create", "reread", "consume", "rotate"} => ~req[r].old
  BY DEF CutInv, FlagOfPhase
<1>2. Calm
  <2>1. CASE RotateReads(r)
    <3>1. UNCHANGED <<password, old, cut, reached, session>> BY <2>1 DEF RotateReads, accountVars
    <3>2. token' = token \/ token' = [t \in Tokens |-> IF token[t] = "live" THEN "revoked" ELSE token[t]]
      BY <2>1 DEF RotateReads
    <3> QED BY <3>1, <3>2 DEF Calm
  <2>2. CASE ~RotateReads(r)
    <3>1. UNCHANGED <<password, old, cut, reached, session, token>>
      BY <2>2 DEF Lookup, CreateAccount, Reread, CheckRegistrationLock, LookupToAct, IssueLink, ConsumeReads,
                  RefreshReadsAccount, Dies, accountVars, credentials, history
    <3> QED BY <3>1 DEF Calm
  <2> QED BY <2>1, <2>2
<1>3. CASE Lookup(r)
  <2>1. QuietPhase(r, "create", req[r].old) /\ QuietPhase(r, "mint", req[r].old)
    BY <1>1, <1>3 DEF Lookup, At, QuietPhase, FlagAllowed
  <2> QED BY <1>2, <1>3, <2>1, LookupEffect, QuietMove, QuietEnd
<1>4. CASE CreateAccount(r)
  <2>1. QuietPhase(r, "reread", req[r].old) /\ QuietPhase(r, "mint", req[r].old)
    BY <1>1, <1>4 DEF CreateAccount, At, QuietPhase, FlagAllowed
  <2> QED BY <1>2, <1>4, <2>1, CreateAccountEffect, QuietMove, QuietEnd
<1>5. CASE Reread(r)
  <2>1. QuietPhase(r, "mint", req[r].old) BY <1>1, <1>5 DEF Reread, At, QuietPhase, FlagAllowed
  <2> QED BY <1>2, <1>5, <2>1, RereadEffect, QuietMove
<1>6. CASE CheckRegistrationLock(r)
  <2>1. QuietPhase(r, "mint", req[r].old)
    BY <1>6 DEF CheckRegistrationLock, At, QuietPhase, FlagAllowed, Flagged
  <2> QED BY <1>2, <1>6, <2>1, CheckRegistrationLockEffect, QuietMove, QuietEnd
<1>7. CASE LookupToAct(r)
  <2>1. CASE Ends(r) BY <1>2, <2>1, QuietEnd
  <2>2. CASE Moves(r, "issue", req[r].user, req[r].old)
    <3>1. QuietPhase(r, "issue", req[r].old) BY <1>1, <1>7 DEF LookupToAct, At, QuietPhase, FlagAllowed
    <3> QED BY <1>2, <2>2, <3>1, QuietMove
  <2>3. CASE Moves(r, "sessions", req[r].user, req[r].old)
    <3>1. QuietPhase(r, "sessions", req[r].old)
      BY <1>1, <1>7 DEF LookupToAct, At, QuietPhase, FlagAllowed
    <3> QED BY <1>2, <2>3, <3>1, QuietMove
  <2> QED BY <1>7, <2>1, <2>2, <2>3, LookupToActEffect
<1>8. CASE ConsumeReads(r)
  <2>1. QuietPhase(r, "consumed", req[r].old)
    BY <1>1, <1>8 DEF ConsumeReads, At, QuietPhase, FlagAllowed
  <2> QED BY <1>2, <1>8, <2>1, ConsumeReadsEffect, QuietMove, QuietEnd
<1>9. CASE RotateReads(r)
  <2>1. CASE Ends(r) BY <1>2, <2>1, QuietEnd
  <2>2. CASE Moves(r, "rotated", req[r].user, req[r].old) /\ token[req[r].arg] = "live"
    <3>1. req[r].arg \in Tokens BY <1>9 DEF RotateReads, At, ArgOfPhase
    <3>2. cut => req[r].arg \notin old BY <2>2, <3>1 DEF CutInv, CutRefresh
    <3>3. QuietPhase(r, "rotated", req[r].old)
      BY <1>1, <1>9, <3>2 DEF RotateReads, At, QuietPhase, FlagAllowed
    <3> QED BY <1>2, <2>2, <3>3, QuietMove
  <2> QED BY <1>9, <2>1, <2>2, RotateReadsEffect
<1>10. CASE RefreshReadsAccount(r)
  <2>1. QuietPhase(r, "mint", req[r].old)
    BY <1>10 DEF RefreshReadsAccount, At, QuietPhase, FlagAllowed, Flagged
  <2> QED BY <1>2, <1>10, <2>1, RefreshReadsAccountEffect, QuietMove, QuietEnd
<1>11. CASE IssueLink(r) \/ Dies(r) BY <1>2, <1>11, LastStepEnds, QuietEnd
<1> QED BY <1>3, <1>4, <1>5, <1>6, <1>7, <1>8, <1>9, <1>10, <1>11

(* A login that verifies learns whether its password is an old one; after a *)
(* cut it is not.                                                           *)
LEMMA VerifyPasswordCut == ASSUME Base, CutInv, NEW r \in Requests, VerifyPassword(r) PROVE CutInv'
<1> USE DEF CutInv
<1>1. Calm BY DEF Calm, VerifyPassword, accountVars, credentials, history
<1>2. CASE Ends(r) BY <1>1, <1>2, QuietEnd
<1>3. ASSUME NEW p \in {"rehash", "lock"}, Moves(r, p, account, password \in old), password = req[r].arg
      PROVE  CutInv'
  <2>1. req[r].pc = "verify" BY DEF VerifyPassword, At
  <2>2. FlagOfPhase'
    <3>1. FlagAllowed(req[r].op, p, password \in old) BY <1>3 DEF FlagAllowed
    <3> QED BY <1>3, <3>1, FlagMoved
  <2>3. OthersReached'
    <3>1. r \in Active BY <2>1 DEF Active
    <3>2. ~IsCutting(r)' BY <1>3 DEF IsCutting, Moves
    <3> QED BY <1>1, <1>3, <3>1, <3>2, OthersMoved DEF Calm
  <2>4. LateStays /\ DoneStays BY <1>3, <2>1, MovesLate DEF Late
  <2>5. OldExists' BY <1>1, <2>4, OldCalm
  <2>6. PasswordNames'
    <3>1. password' = password /\ old' = old BY <1>1 DEF Calm
    <3>2. \A q \in Requests : req[q].pc \in {"sessions", "tokens", "done"} =>
                                  req'[q].pc \in {"sessions", "tokens", "done"}
      BY <2>4 DEF LateStays, Late
    <3>3. password' \in Requests => password' \notin old' /\ req'[password'].pc \in {"sessions", "tokens", "done"}
      BY <3>1, <3>2 DEF PasswordNames
    <3>4. ASSUME NEW q \in Requests, req'[q].pc = "rehash"
          PROVE  /\ req'[q].arg \in Requests =>
                       req'[q].arg \notin old' /\ req'[req'[q].arg].pc \in {"sessions", "tokens", "done"}
                 /\ ~req'[q].old => req'[q].arg \notin old'
      <4>1. CASE q = r BY <1>3, <3>1, <3>3, <4>1 DEF Moves
      <4>2. CASE q # r
        <5>1. req'[q] = req[q] BY <1>3, <4>2 DEF Moves
        <5> QED BY <3>1, <3>2, <3>4, <5>1 DEF PasswordNames
      <4> QED BY <4>1, <4>2
    <3> QED BY <3>3, <3>4 DEF PasswordNames
  <2>7. FlaggedReached'
    <3>1. cut => password \notin old BY DEF CutPassword
    <3> QED BY <1>1, <1>3, <3>1 DEF FlaggedReached, Calm, Flagged, Moves
  <2>8. \A q \in Requests : Settled(q)' => Settled(q) /\ req'[q].pc = req[q].pc
    BY <1>3 DEF Settled, Moves
  <2>9. CutPassword' BY <1>1, <2>8 DEF CutPassword, Calm
  <2>10. CutLive' BY <1>1, <2>8 DEF CutLive, Calm
  <2>11. CutRefresh' BY <1>1 DEF CutRefresh, Calm
  <2> QED BY <2>2, <2>3, <2>5, <2>6, <2>7, <2>9, <2>10, <2>11
<1> QED BY <1>2, <1>3, VerifyPasswordEffect DEF Base

(* The upgrade of a hash may put a password back: the one of a request that *)
(* the cut reached, which is then no longer counted as old, or one that was *)
(* not old when it was verified.                                            *)
LEMMA RehashCut == ASSUME Base, CutInv, NEW r \in Requests, Rehash(r) PROVE CutInv'
<1> USE DEF CutInv
<1>1. req[r].pc = "rehash" /\ password' = req[r].arg BY DEF Rehash, At
<1>2. Moves(r, "lock", req[r].user, req[r].old) BY RehashEffect DEF Base
<1>3. UNCHANGED <<session, token, cut, reached>> BY DEF Rehash, credentials
<1>4. old' = IF r \in reached THEN old \ {req[r].arg} ELSE old BY DEF Rehash
<1>5. FlagOfPhase'
  <2>1. FlagAllowed(req[r].op, "lock", req[r].old) BY DEF FlagAllowed
  <2> QED BY <1>2, <2>1, FlagMoved
<1>6. OthersReached'
  <2>1. r \in Active BY <1>1 DEF Active
  <2>2. ~IsCutting(r)' BY <1>2 DEF IsCutting, Moves
  <2> QED BY <1>2, <1>3, <2>1, <2>2, OthersMoved
<1>7. LateStays /\ DoneStays BY <1>1, <1>2, MovesLate DEF Late
<1>8. OldExists' BY <1>3, <1>4, <1>7 DEF OldExists, DoneStays
<1>9. PasswordNames'
  <2>1. StillIn("rehash") BY <1>2, MovesPast
  <2> QED BY <1>1, <1>4, <1>7, <2>1 DEF PasswordNames, LateStays, Late, StillIn
<1>10. FlaggedReached' BY <1>1, <1>2, <1>3, <1>4 DEF FlaggedReached, Flagged, Moves
<1>11. \A q \in Requests : Settled(q)' => q # r /\ Settled(q) /\ req'[q].pc = req[q].pc
  BY <1>2 DEF Settled, Moves
<1>12. CutPassword'
  <2>1. CASE r \in reached BY <1>1, <1>4, <2>1 DEF CutPassword
  <2>2. CASE r \notin reached
    <3>1. \A q \in Requests : Settled(q) /\ q # r => IsCutting(q) BY DEF FlagOfPhase, Settled, IsCutting
    <3>2. \A q \in Requests : ~Settled(q)' BY <1>1, <1>11, <2>2, <3>1 DEF OthersReached, Active
    <3>3. cut => ~req[r].old BY <1>1, <2>2 DEF FlaggedReached, Flagged
    <3>4. cut => req[r].arg \notin old BY <1>1, <3>3 DEF PasswordNames
    <3> QED BY <1>1, <1>3, <1>4, <2>2, <3>2, <3>4 DEF CutPassword
  <2> QED BY <2>1, <2>2
<1>13. CutLive' BY <1>3, <1>4, <1>11 DEF CutLive
<1>14. CutRefresh' BY <1>3, <1>4 DEF CutRefresh
<1> QED BY <1>5, <1>6, <1>8, <1>9, <1>10, <1>12, <1>13, <1>14

(* A reset consumes its link: whatever is in progress is marked.            *)
LEMMA ConsumeWritesCut == ASSUME Base, CutInv, NEW r \in Requests, ConsumeWrites(r) PROVE CutInv'
<1> USE DEF CutInv
<1>1. req[r].pc = "consumed" /\ ~req[r].old BY DEF ConsumeWrites, At, FlagOfPhase
<1>2. Moves(r, "password", req[r].user, req[r].old) BY ConsumeWritesEffect DEF Base
<1>3. UNCHANGED <<session, token, cut, old, password>> BY DEF ConsumeWrites, accountVars
<1>4. reached' = reached \cup (Active \ {r}) BY DEF ConsumeWrites
<1>5. FlagOfPhase'
  <2>1. FlagAllowed(req[r].op, "password", req[r].old) BY <1>1 DEF FlagAllowed
  <2> QED BY <1>2, <2>1, FlagMoved
<1>6. OthersReached'
  <2>1. \A q \in Requests : q \in Active' => q \in Active BY <1>1, <1>2 DEF Active, Moves
  <2>2. \A q \in Requests : q # r /\ IsCutting(q)' => IsCutting(q) BY <1>2 DEF IsCutting, Moves
  <2>3. r \in Active BY <1>1 DEF Active
  <2> QED BY <1>4, <2>1, <2>2, <2>3 DEF OthersReached
<1>7. LateStays /\ DoneStays BY <1>1, <1>2, MovesLate DEF Late
<1>8. OldExists' BY <1>3, <1>7 DEF OldExists, DoneStays
<1>9. PasswordNames'
  <2>1. StillIn("rehash") BY <1>2, MovesPast
  <2> QED BY <1>3, <1>7, <2>1, NamesCalm
<1>10. FlaggedReached' BY <1>2, <1>3, <1>4 DEF FlaggedReached, Flagged, Moves
<1>11. \A q \in Requests : Settled(q)' => Settled(q) /\ req'[q].pc = req[q].pc
  BY <1>2 DEF Settled, Moves
<1>12. CutPassword' /\ CutLive' /\ CutRefresh' BY <1>3, <1>11 DEF CutPassword, CutLive, CutRefresh
<1> QED BY <1>5, <1>6, <1>8, <1>9, <1>10, <1>12

(* The reset's own password is not an old one.                              *)
LEMMA SetPasswordCut == ASSUME Base, CutInv, NEW r \in Requests, SetPassword(r) PROVE CutInv'
<1> USE DEF CutInv
<1>1. req[r].pc = "password" /\ req[r].op = "reset" BY DEF SetPassword, At, Base, ArgOfPhase
<1>2. Moves(r, "sessions", req[r].user, TRUE) BY SetPasswordEffect DEF Base
<1>3. UNCHANGED <<session, token, cut, old, reached>> /\ password' = r BY DEF SetPassword, credentials
<1>4. r \notin old BY <1>1 DEF OldExists
<1>5. FlagOfPhase'
  <2>1. FlagAllowed(req[r].op, "sessions", TRUE) BY <1>1 DEF FlagAllowed
  <2> QED BY <1>2, <2>1, FlagMoved
<1>6. OthersReached'
  <2>1. r \in Active BY <1>1 DEF Active
  <2>2. IsCutting(r) BY <1>1 DEF IsCutting
  <2> QED BY <1>2, <1>3, <2>1, <2>2, OthersMoved
<1>7. LateStays /\ DoneStays BY <1>1, <1>2, MovesLate DEF Late
<1>8. OldExists' BY <1>3, <1>7 DEF OldExists, DoneStays
<1>9. PasswordNames'
  <2>1. StillIn("rehash") BY <1>2, MovesPast
  <2>2. req'[r].pc = "sessions" BY <1>2 DEF Moves
  <2> QED BY <1>3, <1>4, <1>7, <2>1, <2>2 DEF PasswordNames, LateStays, Late, StillIn
<1>10. FlaggedReached' BY <1>2, <1>3 DEF FlaggedReached, Flagged, Moves
<1>11. CutPassword' BY <1>3, <1>4 DEF CutPassword
<1>12. \A q \in Requests : Settled(q)' /\ req'[q].pc = "tokens" => Settled(q) /\ req[q].pc = "tokens"
  BY <1>2 DEF Settled, Moves
<1>13. CutLive' /\ CutRefresh' BY <1>3, <1>12 DEF CutLive, CutRefresh
<1> QED BY <1>5, <1>6, <1>8, <1>9, <1>10, <1>11, <1>13

(* The sessions are deleted, or the error is ignored and the reset does not *)
(* count as one that cut everything.                                        *)
LEMMA CutSessionsCut == ASSUME Base, CutInv, NEW r \in Requests, CutSessions(r) PROVE CutInv'
<1> USE DEF CutInv
<1>1. req[r].pc = "sessions" BY DEF CutSessions, At
<1>2. PICK b \in BOOLEAN :
         /\ Moves(r, "tokens", req[r].user, b)
         /\ b => req[r].old /\ session' = [s \in Requests |-> IF session[s] = "none" THEN "none" ELSE "gone"]
         /\ \A s \in Requests : session'[s] = "live" => session[s] = "live"
  <2>1. req[r].old \in BOOLEAN BY DEF Base, TypeOK, RequestType
  <2> QED BY <2>1, CutSessionsEffect DEF Base
<1>3. UNCHANGED <<token, cut, old, reached, password>> BY DEF CutSessions, accountVars, history
<1>4. FlagOfPhase'
  <2>1. FlagAllowed(req[r].op, "tokens", b) BY <1>1, <1>2 DEF FlagAllowed, FlagOfPhase, Settled
  <2> QED BY <1>2, <2>1, FlagMoved
<1>5. OthersReached'
  <2>1. r \in Active BY <1>1 DEF Active
  <2>2. IsCutting(r)' => IsCutting(r) BY <1>1, <1>2 DEF IsCutting, Moves
  <2> QED BY <1>2, <1>3, <2>1, <2>2, OthersMoved
<1>6. LateStays /\ DoneStays BY <1>1, <1>2, MovesLate DEF Late
<1>7. OldExists' BY <1>3, <1>6 DEF OldExists, DoneStays
<1>8. PasswordNames'
  <2>1. StillIn("rehash") BY <1>2, MovesPast
  <2> QED BY <1>3, <1>6, <2>1, NamesCalm
<1>9. FlaggedReached' BY <1>2, <1>3 DEF FlaggedReached, Flagged, Moves
<1>10. \A q \in Requests : Settled(q)' => Settled(q) BY <1>1, <1>2 DEF Settled, Moves
<1>11. CutPassword' BY <1>3, <1>10 DEF CutPassword
<1>12. CutLive'
  <2>1. CASE b
    <3>1. \A s \in Requests : session'[s] # "live" BY <1>2, <2>1
    <3> QED BY <3>1 DEF CutLive
  <2>2. CASE ~b
    <3>1. \A q \in Requests : Settled(q)' /\ req'[q].pc = "tokens" => Settled(q) /\ req[q].pc = "tokens"
      BY <1>2, <2>2 DEF Settled, Moves
    <3> QED BY <1>2, <1>3, <3>1 DEF CutLive
  <2> QED BY <2>1, <2>2
<1>13. CutRefresh' BY <1>3 DEF CutRefresh
<1> QED BY <1>4, <1>5, <1>7, <1>8, <1>9, <1>11, <1>12, <1>13

(* The last statement of a reset whose others succeeded: everything that is *)
(* in progress is marked, and what it left is not old.                      *)
LEMMA CutTokensCut == ASSUME Base, CutInv, NEW r \in Requests, CutTokens(r) PROVE CutInv'
<1> USE DEF CutInv
<1>1. req[r].pc = "tokens" BY DEF CutTokens, At
<1>2. Ends(r) BY LastStepEnds DEF Base
<1>3. UNCHANGED <<session, old, reached, password>> BY DEF CutTokens, accountVars
<1>4. CASE token' = token /\ cut' = cut
  <2>1. Calm BY <1>3, <1>4 DEF Calm
  <2> QED BY <1>2, <2>1, QuietEnd
<1>5. CASE /\ token' = [t \in Tokens |-> IF token[t] = "live" THEN "revoked" ELSE token[t]]
           /\ cut' = (cut \/ req[r].old)
  <2>1. FlagOfPhase' BY <1>2, FlagEnded
  <2>2. OthersReached' BY <1>2, <1>3, OthersEnded
  <2>3. LateStays /\ DoneStays BY <1>2, EndsLate
  <2>4. OldExists'
    <3>1. \A t \in Tokens : token'[t] = "none" <=> token[t] = "none" BY <1>5
    <3> QED BY <1>3, <2>3, <3>1, CredentialAssumption DEF OldExists, DoneStays
  <2>5. PasswordNames'
    <3>1. StillIn("rehash") BY <1>2, EndsPast
    <3> QED BY <1>3, <2>3, <3>1, NamesCalm
  <2>6. cut' => cut \/ Settled(r) BY <1>1, <1>5 DEF Settled
  <2>7. Settled(r) => IsCutting(r) BY <1>1 DEF Settled, IsCutting, FlagOfPhase
  <2>8. FlaggedReached'
    <3>1. ASSUME NEW q \in Requests, Flagged(q)', cut' PROVE q \in reached'
      <4>1. q # r /\ req'[q] = req[q] BY <1>2, <3>1 DEF Flagged, Ends
      <4>2. Flagged(q) BY <1>3, <3>1, <4>1 DEF Flagged
      <4>3. q \in Active BY <4>2 DEF Flagged, Active
      <4> QED BY <1>3, <2>6, <2>7, <3>1, <4>1, <4>2, <4>3 DEF FlaggedReached, OthersReached
    <3> QED BY <3>1 DEF FlaggedReached
  <2>9. \A q \in Requests : Settled(q)' => Settled(q) /\ req'[q].pc = req[q].pc
    BY <1>2 DEF Settled, Ends
  <2>10. CutPassword' BY <1>3, <2>6, <2>9 DEF CutPassword
  <2>11. CutLive' BY <1>1, <1>3, <2>6, <2>9 DEF CutLive
  <2>12. CutRefresh' BY <1>5 DEF CutRefresh
  <2> QED BY <2>1, <2>2, <2>4, <2>5, <2>8, <2>10, <2>11, <2>12
<1> QED BY <1>4, <1>5 DEF CutTokens

(* A rotation hands the age of the presented token on to the fresh one,     *)
(* unless a cut reached it.                                                 *)
LEMMA RotateWritesCut == ASSUME Base, CutInv, NEW r \in Requests, RotateWrites(r) PROVE CutInv'
<1> USE DEF CutInv
<1>1. req[r].pc = "rotated" /\ req[r].arg \in Tokens /\ token[req[r].arg] # "none"
  BY DEF RotateWrites, At, Base, ArgOfPhase
<1>2. Moves(r, "account", req[r].user, req[r].arg \in old) BY RotateWritesEffect DEF Base
<1>3. UNCHANGED <<session, cut, reached, password>> BY DEF RotateWrites, accountVars
<1>4. PICK t \in Tokens :
         /\ token[t] = "none"
         /\ token' = [token EXCEPT ![req[r].arg] = "revoked", ![t] = "live"]
         /\ old' = IF req[r].arg \in old /\ r \notin reached THEN old \cup {t} ELSE old
  BY DEF RotateWrites
<1>5. t \notin old BY <1>1, <1>4 DEF OldExists
<1>6. cut /\ req[r].arg \in old => r \in reached BY <1>1 DEF FlaggedReached, Flagged
<1>7. t \notin Requests /\ t # password
  BY DistinctNamesAssumption DEF Base, TypeOK, Users
<1>8. FlagOfPhase'
  <2>1. FlagAllowed(req[r].op, "account", req[r].arg \in old) BY DEF FlagAllowed
  <2> QED BY <1>2, <2>1, FlagMoved
<1>9. OthersReached'
  <2>1. r \in Active BY <1>1 DEF Active
  <2>2. ~IsCutting(r)' BY <1>2 DEF IsCutting, Moves
  <2> QED BY <1>2, <1>3, <2>1, <2>2, OthersMoved
<1>10. LateStays /\ DoneStays BY <1>1, <1>2, MovesLate DEF Late
<1>11. OldExists'
  <2>1. \A q \in Requests : q \in old' => req'[q].pc = "done"
    BY <1>4, <1>7, <1>10 DEF OldExists, DoneStays
  <2>2. \A u \in Tokens : u \in old' => token'[u] # "none" \/ u = FirstToken
    BY <1>4 DEF OldExists, Base, TypeOK
  <2>3. token'[FirstToken] # "none"
    BY <1>1, <1>4, CredentialAssumption DEF OldExists, Base, TypeOK
  <2> QED BY <2>1, <2>2, <2>3 DEF OldExists
<1>12. PasswordNames'
  <2>1. StillIn("rehash") BY <1>2, MovesPast
  <2>2. \A q \in Requests : req[q].pc = "rehash" => req[q].arg # t
    BY DistinctNamesAssumption DEF Base, ArgOfPhase, Users
  <2> QED BY <1>3, <1>4, <1>7, <1>10, <2>1, <2>2 DEF PasswordNames, LateStays, Late, StillIn
<1>13. FlaggedReached'
  <2>1. \A q \in Requests : req[q].pc = "rotated" => q = r BY <1>1 DEF Base, GateHeld
  <2>2. \A q \in Requests : q # r => req'[q] = req[q] BY <1>2 DEF Moves
  <2>3. req'[r].pc = "account" /\ (req'[r].old => req[r].arg \in old) BY <1>2 DEF Moves
  <2> QED BY <1>3, <1>6, <2>1, <2>2, <2>3 DEF FlaggedReached, Flagged
<1>14. \A q \in Requests : Settled(q)' => Settled(q) /\ req'[q].pc = req[q].pc
  BY <1>2 DEF Settled, Moves
<1>15. CutPassword' BY <1>3, <1>4, <1>7, <1>14 DEF CutPassword
<1>16. CutLive' BY <1>3, <1>4, <1>7, <1>14 DEF CutLive
<1>17. CutRefresh'
  <2>1. cut => old' = old BY <1>4, <1>6
  <2> QED BY <1>3, <1>4, <1>5, <2>1 DEF CutRefresh, Base, TypeOK
<1> QED BY <1>8, <1>9, <1>11, <1>12, <1>13, <1>15, <1>16, <1>17

(* A session is old only if its request verified or presented something old *)
(* and no cut reached it; while a reset cuts, or after, there is none.      *)
LEMMA MintSessionCut == ASSUME Base, CutInv, NEW r \in Requests, MintSession(r) PROVE CutInv'
<1> USE DEF CutInv
<1>1. req[r].pc = "mint" BY DEF MintSession, At
<1>2. Ends(r) BY LastStepEnds DEF Base
<1>3. UNCHANGED <<token, cut, reached, password>> BY DEF MintSession, accountVars
<1>4. /\ session' = [session EXCEPT ![r] = "live"]
      /\ old' = IF req[r].old /\ r \notin reached THEN old \cup {r} ELSE old
  BY DEF MintSession
<1>5. r \notin old BY <1>1 DEF OldExists
<1>6. cut \/ (\E q \in Requests : Settled(q)) => old' = old
  <2>1. cut => (req[r].old => r \in reached) BY <1>1 DEF FlaggedReached, Flagged
  <2>2. ASSUME NEW q \in Requests, Settled(q) PROVE r \in reached
    <3>1. q # r /\ r \in Active BY <1>1, <2>2 DEF Settled, Active
    <3>2. IsCutting(q) BY <2>2 DEF IsCutting, Settled, FlagOfPhase
    <3> QED BY <3>1, <3>2 DEF OthersReached
  <2> QED BY <1>4, <2>1, <2>2
<1>7. FlagOfPhase' BY <1>2, FlagEnded
<1>8. OthersReached' BY <1>2, <1>3, OthersEnded
<1>9. LateStays /\ DoneStays BY <1>2, EndsLate
<1>10. OldExists'
  <2>1. \A q \in Requests : q \in old' => req'[q].pc = "done"
    BY <1>2, <1>4, <1>9 DEF OldExists, DoneStays, Ends
  <2>2. r \notin Tokens BY DistinctNamesAssumption
  <2> QED BY <1>3, <1>4, <2>1, <2>2 DEF OldExists
<1>11. PasswordNames'
  <2>1. StillIn("rehash") BY <1>2, EndsPast
  <2>2. password # r /\ \A q \in Requests : req[q].pc = "rehash" => req[q].arg # r
    BY <1>1 DEF PasswordNames
  <2> QED BY <1>3, <1>4, <1>9, <2>1, <2>2 DEF PasswordNames, LateStays, Late, StillIn
<1>12. FlaggedReached'
  <2>1. \A q \in Requests : Flagged(q)' => Flagged(q)
    <3>1. \A q \in Requests : req[q].pc = "rotated" => req[q].arg # r
      BY DistinctNamesAssumption DEF Base, ArgOfPhase
    <3> QED BY <1>2, <1>4, <3>1 DEF Flagged, Ends
  <2> QED BY <1>3, <2>1 DEF FlaggedReached
<1>13. \A q \in Requests : Settled(q)' => Settled(q) /\ req'[q].pc = req[q].pc
  BY <1>2 DEF Settled, Ends
<1>14. CutPassword' BY <1>3, <1>6, <1>13 DEF CutPassword
<1>15. CutLive'
  <2> SUFFICES ASSUME cut' \/ \E q \in Requests : Settled(q)' /\ req'[q].pc = "tokens",
                      NEW s \in Requests, session'[s] = "live"
               PROVE  s \notin old'
    BY DEF CutLive
  <2>1. old' = old BY <1>3, <1>6, <1>13
  <2>2. CASE s = r BY <1>5, <2>1, <2>2
  <2>3. CASE s # r
    <3>1. session[s] = "live" BY <1>4, <2>3 DEF Base, TypeOK
    <3> QED BY <1>3, <1>13, <2>1, <3>1 DEF CutLive
  <2> QED BY <2>2, <2>3
<1>16. CutRefresh' BY <1>3, <1>6 DEF CutRefresh
<1> QED BY <1>7, <1>8, <1>10, <1>11, <1>12, <1>14, <1>15, <1>16

(* A request that arrives while a reset cuts is marked.                     *)
LEMMA ArrivalCut == ASSUME Base, CutInv, NEW r \in Requests, Arrival(r) PROVE CutInv'
<1> USE DEF CutInv
<1>1. Begins(r) BY ArrivalBegins DEF Base
<1>2. UNCHANGED <<session, token, cut, old, password>> BY <1>1 DEF Begins, accountVars, credentials
<1>3. reached' = IF Cutting THEN reached \cup {r} ELSE reached BY <1>1 DEF Begins
<1>4. /\ req'[r].pc \in {"lookup", "verify", "consume", "rotate"} /\ ~req'[r].old /\ req[r].pc = "idle"
      /\ \A q \in Requests : q # r => req'[q] = req[q]
  BY <1>1 DEF Begins, FirstPhase
<1>5. FlagOfPhase' BY <1>4 DEF FlagOfPhase, Settled
<1>6. OthersReached'
  <2>1. \A q \in Requests : IsCutting(q)' => IsCutting(q) BY <1>4 DEF IsCutting
  <2>2. \A q \in Requests : q # r /\ q \in Active' => q \in Active BY <1>4 DEF Active
  <2>3. (\E q \in Requests : IsCutting(q)) => Cutting BY DEF IsCutting, Cutting
  <2> QED BY <1>3, <2>1, <2>2, <2>3 DEF OthersReached
<1>7. LateStays /\ DoneStays BY <1>4 DEF LateStays, DoneStays, Late
<1>8. OldExists' BY <1>2, <1>7 DEF OldExists, DoneStays
<1>9. PasswordNames'
  <2>1. StillIn("rehash") BY <1>1, BeginsPast
  <2> QED BY <1>2, <1>7, <2>1, NamesCalm
<1>10. FlaggedReached' BY <1>2, <1>3, <1>4 DEF FlaggedReached, Flagged
<1>11. \A q \in Requests : Settled(q)' => Settled(q) /\ req'[q].pc = req[q].pc BY <1>4 DEF Settled
<1>12. CutPassword' /\ CutLive' /\ CutRefresh' BY <1>2, <1>11 DEF CutPassword, CutLive, CutRefresh
<1> QED BY <1>5, <1>6, <1>8, <1>9, <1>10, <1>12

LEMMA ElsewhereCut == ASSUME Base, CutInv, Elsewhere PROVE CutInv'
<1>1. Calm
  BY DEF Calm, Elsewhere, DeleteSession, RefreshRevoke, RevokeUser, Expires, PruneExpired, accountVars,
         history, Base, TypeOK
<1>2. req' = req BY DEF Elsewhere, DeleteSession, RefreshRevoke, RevokeUser, Expires, PruneExpired
<1> QED BY <1>1, <1>2, QuietRest

(* ResetCutsOff, of email_reset_password: once a reset has answered, no     *)
(* password, session or refresh token from before it works, save what a     *)
(* request that overlapped the cut has put back.                            *)
THEOREM ResetCuts == Spec => []ResetCutsOff
<1>1. Init => CutInv
  <2> SUFFICES ASSUME Init PROVE CutInv OBVIOUS
  <2>1. \A r \in Requests : req[r].pc = "idle" /\ req[r].old = FALSE BY DEF Init, Idle
  <2>2. FlagOfPhase /\ OthersReached BY <2>1 DEF FlagOfPhase, Settled, OthersReached, IsCutting
  <2>3. OldExists
    <3>1. \A r \in Requests : r \notin old BY DistinctNamesAssumption, CredentialAssumption DEF Init
    <3>2. \A t \in Tokens : t \in old => t = FirstToken BY DistinctNamesAssumption DEF Init
    <3> QED BY <3>1, <3>2, CredentialAssumption DEF Init, OldExists
  <2>4. PasswordNames BY <2>1, DistinctNamesAssumption DEF Init, PasswordNames
  <2>5. FlaggedReached /\ CutPassword /\ CutLive /\ CutRefresh
    BY <2>1 DEF Init, FlaggedReached, CutPassword, CutLive, CutRefresh, Settled
  <2> QED BY <2>2, <2>3, <2>4, <2>5 DEF CutInv
<1>2. Base /\ CutInv /\ [Next]_vars => CutInv'
  <2> SUFFICES ASSUME Base, CutInv, [Next]_vars PROVE CutInv' OBVIOUS
  <2>1. CASE UNCHANGED vars
    <3>1. Calm BY <2>1 DEF vars, accountVars, credentials, history, Calm
    <3> QED BY <2>1, <3>1, QuietRest DEF vars
  <2>2. CASE Elsewhere BY <2>2, ElsewhereCut
  <2>3. ASSUME NEW r \in Requests, Step(r) PROVE CutInv'
    BY <2>3, CalmSteps, VerifyPasswordCut, RehashCut, ConsumeWritesCut, SetPasswordCut, CutSessionsCut,
       CutTokensCut, RotateWritesCut, MintSessionCut
    DEF Step
  <2>4. ASSUME NEW r \in Requests, Dies(r) \/ Arrival(r) PROVE CutInv' BY <2>4, CalmSteps, ArrivalCut
  <2> QED BY <2>1, <2>2, <2>3, <2>4, NextCases
<1>3. CutInv => ResetCutsOff BY DEF CutInv, CutPassword, CutLive, CutRefresh, ResetCutsOff
<1> QED BY <1>1, <1>2, <1>3, BaseInvariant, PTL DEF Spec
=============================================================================
