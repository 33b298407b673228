-------------------------------- MODULE Auth --------------------------------
(***************************************************************************)
(* One identity and its credentials: the account row with its password     *)
(* (crates/frick-store/src/stores/account.rs), its sessions (session.rs),  *)
(* a family of refresh tokens (refresh_token.rs) and its password reset    *)
(* tokens (password_reset.rs), as the routes of crates/frick-server/src/   *)
(* auth_routes.rs, auth/routes.rs and routes/admin.rs use them.  Requests  *)
(* run side by side; a step is one statement.  A transaction holds the     *)
(* SQLite gate from its SELECT to its COMMIT, and statements outside a     *)
(* transaction may fall in between.                                        *)
(***************************************************************************)
EXTENDS Naturals, FiniteSets

CONSTANTS
    Requests,      \* the requests of a behaviour, each handled once
    Tokens,        \* refresh tokens of the family
    FirstToken,    \* the one a host has issued
    Links,         \* password reset tokens
    Original,      \* the password the account begins with
    Nobody,        \* no account, no link, no holder of the gate
    MaxFaults,     \* bound: statements that fail and requests that die
    MaxExpiries    \* bound: credentials that expire

ASSUME CredentialAssumption == FirstToken \in Tokens /\ Nobody \notin Requests \cup {Original}
ASSUME DistinctNamesAssumption == Original \notin Requests /\ Tokens \cap (Requests \cup {Original}) = {}
ASSUME AuthLimitAssumption == MaxFaults \in Nat /\ MaxExpiries \in Nat

VARIABLES
    kind,       \* how the identity signs in: "email" or "provider"
    account,    \* the user id of the account row, named by the request that made it up
    password,   \* the password that verifies
    legacy,     \* its hash is one that verify_password replaces
    session,    \* session[r]: the session that request r minted
    owner,      \* owner[r]: its user id
    token,      \* token[t]: the refresh token t
    link,       \* link[l]: the reset token l
    expired,    \* tokens and links past their expires_at
    gate,       \* who is in a transaction
    req,        \* req[r]: the request r
    faults, expiries,
    old,        \* history: credentials from before every reset, see ResetCutsOff
    cut,        \* history: a reset has answered after all its statements
    reached,    \* history: requests in progress during the cut of some reset
    uses,       \* history: uses[l]: passwords set with link l
    burned      \* history: a revoked refresh token was presented

accountVars == <<kind, account, password, legacy>>
credentials == <<session, owner, token, link, expired>>
bounds == <<faults, expiries>>
history == <<old, cut, reached, uses, burned>>
vars == <<accountVars, credentials, gate, req, bounds, history>>

Users == Requests \cup {Original}
Idle == [op |-> "none", pc |-> "idle", arg |-> Nobody, user |-> Nobody, old |-> FALSE]
Done == [Idle EXCEPT !.pc = "done"]

Ops == {"none", "signup", "provider", "login", "forgot", "reset", "refresh", "notice"}
Phases == {"idle", "lookup", "create", "reread", "verify", "rehash", "lock", "mint", "issue",
           "consume", "consumed", "password", "sessions", "tokens", "rotate", "rotated",
           "account", "done"}
RequestType ==
    [op : Ops, pc : Phases, arg : Users \cup Tokens \cup Links \cup {Nobody},
     user : Users \cup {Nobody}, old : BOOLEAN]

TypeOK ==
    /\ kind \in {"email", "provider"} /\ account \in Users \cup {Nobody}
    /\ password \in Users /\ legacy \in BOOLEAN
    /\ session \in [Requests -> {"none", "live", "expired", "gone"}]
    /\ owner \in [Requests -> Users \cup {Nobody}]
    /\ token \in [Tokens -> {"none", "live", "revoked"}]
    /\ link \in [Links -> {"none", "live", "consumed"}]
    /\ expired \subseteq Tokens \cup Links
    /\ gate \in Requests \cup {Nobody}
    /\ req \in [Requests -> RequestType]
    /\ faults \in 0..MaxFaults /\ expiries \in 0..MaxExpiries
    /\ old \subseteq Requests \cup Tokens \cup {Original}
    /\ cut \in BOOLEAN /\ reached \subseteq Requests /\ uses \in [Links -> Nat]
    /\ burned \in BOOLEAN

Init ==
    /\ kind \in {"email", "provider"} /\ account \in {Nobody, Original}
    /\ password = Original /\ legacy \in BOOLEAN
    /\ session = [r \in Requests |-> "none"] /\ owner = [r \in Requests |-> Nobody]
    /\ token = [t \in Tokens |-> IF t = FirstToken /\ account # Nobody THEN "live" ELSE "none"]
    /\ link = [l \in Links |-> "none"] /\ expired = {}
    /\ gate = Nobody /\ req = [r \in Requests |-> Idle]
    /\ faults = 0 /\ expiries = 0
    /\ old = {Original, FirstToken} /\ cut = FALSE /\ reached = {} /\ uses = [l \in Links |-> 0]
    /\ burned = FALSE

-----------------------------------------------------------------------------
(* Helpers.                                                                *)

At(r, pc) == req[r].pc = pc
Goes(r, pc) == req' = [req EXCEPT ![r].pc = pc]
Returns(r) == req' = [req EXCEPT ![r] = Done]
Active == {r \in Requests : req[r].pc \notin {"idle", "done"}}

(* A reset is between its consume and its answer. *)
Cutting == \E r \in Requests : req[r].op = "reset" /\ req[r].pc \in {"password", "sessions", "tokens"}

(* The bound on tokens and links: one is left for every request that may    *)
(* issue one.                                                               *)
Left(issued, op) ==
    Cardinality({r \in Active : req[r].op = op}) < Cardinality({x \in DOMAIN issued : issued[x] = "none"})

(* A request of a kind of identity arrives; it passed its route's checks of *)
(* the body and precheck.                                                   *)
Arrives(r, identity, op, pc, arg) ==
    /\ req[r] = Idle
    /\ kind = identity
    /\ req' = [req EXCEPT ![r] = [Idle EXCEPT !.op = op, !.pc = pc, !.arg = arg]]
    /\ reached' = IF Cutting THEN reached \cup {r} ELSE reached
    /\ UNCHANGED <<accountVars, credentials, gate, bounds, old, cut, uses, burned>>

Signup(r) == Arrives(r, "email", "signup", "lookup", Nobody)
FinishProviderLogin(r) == Arrives(r, "provider", "provider", "lookup", Nobody)
ForgotPassword(r) == Left(link, "forgot") /\ Arrives(r, "email", "forgot", "lookup", Nobody)
AppleNotification(r) == Arrives(r, "provider", "notice", "lookup", Nobody)

(* ... with a password that was ever set ... *)
Login(r) == \E p \in {Original} \cup {q \in Requests : req[q] = Done} :
                Arrives(r, "email", "login", "verify", p)

(* ... a reset token or a refresh token that was given out. *)
ResetPassword(r) == \E l \in {x \in Links : link[x] # "none"} :
                        Arrives(r, "email", "reset", "consume", l)
Refresh(r) ==
    /\ Left(token, "refresh")
    /\ \E t \in {x \in Tokens : token[x] # "none"} : Arrives(r, kind, "refresh", "rotate", t)

(* mint_session; the last statement of the request. *)
MintSession(r) ==
    /\ At(r, "mint")
    /\ session' = [session EXCEPT ![r] = "live"]
    /\ owner' = [owner EXCEPT ![r] = req[r].user]
    /\ old' = IF req[r].old /\ r \notin reached THEN old \cup {r} ELSE old
    /\ Returns(r)
    /\ UNCHANGED <<accountVars, token, link, expired, gate, bounds, cut, reached, uses, burned>>

-----------------------------------------------------------------------------
(* signup, email_signup, finish_provider_login                             *)

(* read_by_identity: a taken email is refused, a known provider identity    *)
(* signs in.                                                                *)
Lookup(r) ==
    /\ At(r, "lookup") /\ req[r].op \in {"signup", "provider"}
    /\ \/ account = Nobody /\ Goes(r, "create")
       \/ /\ account # Nobody /\ req[r].op = "provider"
          /\ req' = [req EXCEPT ![r].pc = "mint", ![r].user = account]
       \/ account # Nobody /\ req[r].op = "signup" /\ Returns(r)
    /\ UNCHANGED <<accountVars, credentials, gate, bounds, history>>

(* Mutant of CreateAccount: whoever loses the race goes on as its own user. *)
GoesOnAsProposed(r) ==
    /\ At(r, "create")
    /\ account' = IF account = Nobody THEN r ELSE account
    /\ IF req[r].op = "provider" \/ account = Nobody
       THEN req' = [req EXCEPT ![r].pc = "mint", ![r].user = r] ELSE Returns(r)
    /\ UNCHANGED <<kind, password, legacy, credentials, gate, bounds, history>>

(* accounts().create: the handle is unique, so that the INSERT of whoever   *)
(* comes second fails.                                                      *)
CreateAccount(r) ==
    /\ At(r, "create")
    /\ \/ /\ account = Nobody
          /\ account' = r
          /\ req' = [req EXCEPT ![r].pc = "mint", ![r].user = r]
       \/ account # Nobody /\ req[r].op = "provider" /\ Goes(r, "reread") /\ UNCHANGED account
       \/ account # Nobody /\ req[r].op = "signup" /\ Returns(r) /\ UNCHANGED account
    /\ UNCHANGED <<kind, password, legacy, credentials, gate, bounds, history>>

Reread(r) ==
    /\ At(r, "reread")
    /\ req' = [req EXCEPT ![r].pc = "mint", ![r].user = account]
    /\ UNCHANGED <<accountVars, credentials, gate, bounds, history>>

-----------------------------------------------------------------------------
(* login, email_login                                                      *)

(* verify_password, up to the hash's upgrade. *)
VerifyPassword(r) ==
    /\ At(r, "verify")
    /\ \/ /\ account # Nobody /\ password = req[r].arg
          /\ req' = [req EXCEPT ![r].pc = IF legacy THEN "rehash" ELSE "lock", ![r].user = account,
                                ![r].old = password \in old]
       \/ (account = Nobody \/ password # req[r].arg) /\ Returns(r)
    /\ UNCHANGED <<accountVars, credentials, gate, bounds, history>>

(* The upgrade writes the hash of the password the request has, whatever    *)
(* the row holds by now.                                                    *)
Rehash(r) ==
    /\ At(r, "rehash")
    /\ password' = req[r].arg /\ legacy' = FALSE
    /\ old' = IF r \in reached THEN old \ {req[r].arg} ELSE old
    /\ Goes(r, "lock")
    /\ UNCHANGED <<kind, account, credentials, gate, bounds, cut, reached, uses, burned>>

(* check_registration_lock, whose outcome is open here. *)
CheckRegistrationLock(r) ==
    /\ At(r, "lock")
    /\ Goes(r, "mint") \/ Returns(r)
    /\ UNCHANGED <<accountVars, credentials, gate, bounds, history>>

-----------------------------------------------------------------------------
(* email_forgot_password, email_reset_password, apple_notifications        *)

(* Both answer alike when there is no account. *)
LookupToAct(r) ==
    /\ At(r, "lookup") /\ req[r].op \in {"forgot", "notice"}
    /\ IF account = Nobody THEN Returns(r)
       ELSE Goes(r, IF req[r].op = "forgot" THEN "issue" ELSE "sessions")
    /\ UNCHANGED <<accountVars, credentials, gate, bounds, history>>

(* Mutant of IssueLink: what was issued before stays good. *)
KeepsOlderLinks(r) ==
    /\ At(r, "issue") /\ gate = Nobody
    /\ \E l \in {x \in Links : link[x] = "none"} : link' = [link EXCEPT ![l] = "live"]
    /\ Returns(r)
    /\ UNCHANGED <<accountVars, session, owner, token, expired, gate, bounds, history>>

(* issue: every outstanding token is consumed, the new one inserted. *)
IssueLink(r) ==
    /\ At(r, "issue") /\ gate = Nobody
    /\ \E l \in {x \in Links : link[x] = "none"} :
          link' = [x \in Links |-> IF x = l THEN "live"
                                   ELSE IF link[x] = "live" THEN "consumed" ELSE link[x]]
    /\ Returns(r)
    /\ UNCHANGED <<accountVars, session, owner, token, expired, gate, bounds, history>>

(* consume: the SELECT ... *)
ConsumeReads(r) ==
    /\ At(r, "consume") /\ gate = Nobody
    /\ IF link[req[r].arg] = "live" /\ req[r].arg \notin expired
       THEN gate' = r /\ Goes(r, "consumed")
       ELSE gate' = gate /\ Returns(r)
    /\ UNCHANGED <<accountVars, credentials, bounds, history>>

(* ... and the UPDATE. *)
ConsumeWrites(r) ==
    /\ At(r, "consumed")
    /\ link' = [link EXCEPT ![req[r].arg] = "consumed"]
    /\ gate' = Nobody /\ Goes(r, "password")
    /\ reached' = reached \cup (Active \ {r})
    /\ UNCHANGED <<accountVars, session, owner, token, expired, bounds, old, cut, uses, burned>>

SetPassword(r) ==
    /\ At(r, "password")
    /\ password' = r /\ legacy' = FALSE
    /\ uses' = [uses EXCEPT ![req[r].arg] = @ + 1]
    /\ req' = [req EXCEPT ![r].pc = "sessions", ![r].old = TRUE]
    /\ UNCHANGED <<kind, account, credentials, gate, bounds, old, cut, reached, burned>>

(* delete_for_user, by a reset or a provider's notice; an error is ignored. *)
CutSessions(r) ==
    /\ At(r, "sessions")
    /\ \/ /\ session' = [s \in Requests |-> IF session[s] = "none" THEN "none" ELSE "gone"]
          /\ Goes(r, "tokens") /\ UNCHANGED faults
       \/ /\ faults < MaxFaults /\ faults' = faults + 1
          /\ req' = [req EXCEPT ![r].pc = "tokens", ![r].old = FALSE]
          /\ UNCHANGED session
    /\ UNCHANGED <<accountVars, owner, token, link, expired, gate, expiries, history>>

(* Mutant of CutTokens: the refresh tokens are forgotten. *)
KeepsTheTokens(r) ==
    /\ At(r, "tokens")
    /\ cut' = (cut \/ req[r].old)
    /\ Returns(r)
    /\ UNCHANGED <<accountVars, credentials, gate, bounds, old, reached, uses, burned>>

(* revoke_for_user; an error is ignored. *)
CutTokens(r) ==
    /\ At(r, "tokens")
    /\ \/ /\ token' = [t \in Tokens |-> IF token[t] = "live" THEN "revoked" ELSE token[t]]
          /\ cut' = (cut \/ req[r].old)
          /\ UNCHANGED faults
       \/ /\ faults < MaxFaults /\ faults' = faults + 1
          /\ UNCHANGED <<token, cut>>
    /\ Returns(r)
    /\ UNCHANGED <<accountVars, session, owner, link, expired, gate, expiries, old, reached, uses, burned>>

-----------------------------------------------------------------------------
(* refresh, refresh_revoke, logout, the admin's revoke                     *)

(* Mutant of RotateReads: the row is read before the transaction begins. *)
RotateReadsOutside(r) ==
    /\ At(r, "rotate") /\ gate = Nobody
    /\ IF token[req[r].arg] = "live" THEN Goes(r, "rotated") ELSE Returns(r)
    /\ token' = IF token[req[r].arg] # "revoked" THEN token
                ELSE [t \in Tokens |-> IF token[t] = "live" THEN "revoked" ELSE token[t]]
    /\ burned' = (burned \/ token[req[r].arg] = "revoked")
    /\ UNCHANGED <<accountVars, session, owner, link, expired, gate, bounds, old, cut, reached, uses>>

(* rotate: a revoked token burns its family, an expired one is refused.    *)
RotateReads(r) ==
    /\ At(r, "rotate") /\ gate = Nobody
    /\ \/ /\ token[req[r].arg] = "live" /\ req[r].arg \notin expired
          /\ gate' = r /\ Goes(r, "rotated") /\ UNCHANGED <<token, burned>>
       \/ /\ token[req[r].arg] = "revoked"
          /\ token' = [t \in Tokens |-> IF token[t] = "live" THEN "revoked" ELSE token[t]]
          /\ burned' = TRUE /\ Returns(r) /\ UNCHANGED gate
       \/ /\ token[req[r].arg] = "live" /\ req[r].arg \in expired
          /\ Returns(r) /\ UNCHANGED <<token, gate, burned>>
    /\ UNCHANGED <<accountVars, session, owner, link, expired, bounds, old, cut, reached, uses>>

(* The presented token is revoked, the fresh one inserted. *)
RotateWrites(r) ==
    /\ At(r, "rotated")
    /\ \E t \in {x \in Tokens : token[x] = "none"} :
          /\ token' = [token EXCEPT ![req[r].arg] = "revoked", ![t] = "live"]
          /\ old' = IF req[r].arg \in old /\ r \notin reached THEN old \cup {t} ELSE old
    /\ gate' = Nobody
    /\ req' = [req EXCEPT ![r].pc = "account", ![r].old = req[r].arg \in old]
    /\ UNCHANGED <<accountVars, session, owner, link, expired, bounds, cut, reached, uses, burned>>

RefreshReadsAccount(r) ==
    /\ At(r, "account")
    /\ IF account # Nobody THEN req' = [req EXCEPT ![r].pc = "mint", ![r].user = account] ELSE Returns(r)
    /\ UNCHANGED <<accountVars, credentials, gate, bounds, history>>

RefreshRevoke(t) ==
    /\ token[t] = "live"
    /\ token' = [token EXCEPT ![t] = "revoked"]
    /\ UNCHANGED <<accountVars, session, owner, link, expired, gate, req, bounds, history>>

(* logout and the admin's revoke by token. *)
DeleteSession(s) ==
    /\ session[s] \in {"live", "expired"}
    /\ session' = [session EXCEPT ![s] = "gone"]
    /\ UNCHANGED <<accountVars, owner, token, link, expired, gate, req, bounds, history>>

(* The admin's revoke by user. *)
RevokeUser ==
    /\ \E s \in Requests : session[s] \in {"live", "expired"}
    /\ session' = [s \in Requests |-> IF session[s] = "none" THEN "none" ELSE "gone"]
    /\ UNCHANGED <<accountVars, owner, token, link, expired, gate, req, bounds, history>>

-----------------------------------------------------------------------------

(* Time passes the expires_at of a credential; prune_expired removes such   *)
(* sessions.                                                                *)
Expires ==
    /\ expiries < MaxExpiries
    /\ expiries' = expiries + 1
    /\ \/ /\ \E x \in {t \in Tokens : token[t] # "none"} \cup {l \in Links : link[l] # "none"} :
                x \notin expired /\ expired' = expired \cup {x}
          /\ UNCHANGED session
       \/ /\ \E s \in Requests : session[s] = "live" /\ session' = [session EXCEPT ![s] = "expired"]
          /\ UNCHANGED expired
    /\ UNCHANGED <<accountVars, owner, token, link, gate, req, faults, history>>

PruneExpired ==
    /\ \E s \in Requests : session[s] = "expired"
    /\ session' = [s \in Requests |-> IF session[s] = "expired" THEN "gone" ELSE session[s]]
    /\ UNCHANGED <<accountVars, owner, token, link, expired, gate, req, bounds, history>>

(* A statement outside a transaction fails or the request is dropped. *)
Dies(r) ==
    /\ r \in Active /\ gate # r
    /\ faults < MaxFaults
    /\ faults' = faults + 1
    /\ Returns(r)
    /\ UNCHANGED <<accountVars, credentials, gate, expiries, history>>

Step(r) ==
    \/ Lookup(r) \/ CreateAccount(r) \/ Reread(r) \/ MintSession(r)
    \/ VerifyPassword(r) \/ Rehash(r) \/ CheckRegistrationLock(r)
    \/ LookupToAct(r) \/ IssueLink(r) \/ ConsumeReads(r) \/ ConsumeWrites(r)
    \/ SetPassword(r) \/ CutSessions(r) \/ CutTokens(r)
    \/ RotateReads(r) \/ RotateWrites(r) \/ RefreshReadsAccount(r)

Next ==
    \/ \E r \in Requests :
          \/ Step(r) \/ Dies(r) \/ DeleteSession(r)
          \/ Signup(r) \/ FinishProviderLogin(r) \/ Login(r) \/ ForgotPassword(r)
          \/ ResetPassword(r) \/ Refresh(r) \/ AppleNotification(r)
    \/ \E t \in Tokens : RefreshRevoke(t)
    \/ RevokeUser \/ Expires \/ PruneExpired

Spec == Init /\ [][Next]_vars

-----------------------------------------------------------------------------
(* Properties.                                                             *)

(* "a duplicate email surfaces a distinct 409", "a concurrent first sign-in *)
(* won the create race": every session of an identity is of the user its    *)
(* account row names.                                                       *)
SameUser == \A r \in Requests : owner[r] # Nobody => owner[r] = account

(* Rotation keeps the family a line: one refresh token at most is good, and *)
(* none once a token that was replaced or revoked has been presented,       *)
(* although a rotation and a reuse, a revoke or a reset may overlap.        *)
FamilyIsALine ==
    /\ Cardinality({t \in Tokens : token[t] = "live"}) <= 1
    /\ burned => \A t \in Tokens : token[t] # "live"

(* "single-outstanding-token-per-user", "the store marks it used and        *)
(* rejects reuse": one reset link at most is good, and it sets at most one  *)
(* password, whichever requests race with it.                               *)
ResetOnce ==
    /\ Cardinality({l \in Links : link[l] = "live"}) <= 1
    /\ \A l \in Links : uses[l] <= 1

(* "revoke the user's existing sessions + refresh tokens so the reset fully *)
(* cuts off prior credentials": once a reset has answered, the password,    *)
(* the sessions and the refresh tokens that still work come from the reset  *)
(* or from a request that was under way while the reset cut them off.       *)
ResetCutsOff ==
    cut => /\ password \notin old
           /\ \A t \in Tokens : token[t] = "live" => t \notin old
           /\ \A s \in Requests : session[s] = "live" => s \notin old
=============================================================================
