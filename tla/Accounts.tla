------------------------------ MODULE Accounts ------------------------------
(***************************************************************************)
(* Logins, sessions, two-factor authentication, password resets and the    *)
(* administrators' switches (internal/web: auth_handlers, totp_handlers,   *)
(* user_handlers, middleware; internal/db/web_db).                         *)
(*                                                                         *)
(* A request is one goroutine of the HTTP server; each of its database     *)
(* calls is one action, so that requests interleave between them.  What    *)
(* AuthMiddleware or the handler reads of the user stays in the request    *)
(* and is what the rest of the handler decides by.                         *)
(***************************************************************************)
EXTENDS Naturals, Sequences, SequencesExt, FiniteSets

CONSTANTS
  User,
  Request,    \* bound: requests served at the same time
  Session,    \* bound: rows of webmail_session in use
  Pending,    \* bound: rows of totp_pending in use
  Token,      \* password reset tokens
  NumCodes,   \* backup codes per generation (backupCodeCount)
  MaxGen,     \* bound: generations of backup codes
  MaxUses,    \* bound: lookups of a reset token that is not spent
  Workloads   \* the kinds of requests that occur together

Kind == {"login", "verify", "setup", "enable", "disable", "regenerate", "cancel",
         "toggleActive", "toggleAdmin", "forgot", "reset"}

ASSUME AccountsAssumption ==
  /\ User # {}
  /\ NumCodes \in Nat \ {0} /\ MaxGen \in Nat /\ MaxUses \in Nat
  /\ Workloads \subseteq SUBSET (User \X Kind)

VARIABLES
  traffic,   \* which users make which requests in this behaviour
  user,      \* "user" rows
  pendingSetups, \* users with an entry in Server.pendingTOTPSetups
  pending,   \* totp_pending: whose login waits for the second factor
  session,   \* webmail_session
  reset,     \* password_reset: the state of each token
  req,       \* the requests in progress
  gen,       \* history: generations of backup codes made so far
  shown,     \* history: per user, the generation its stored codes come from
  enrolled,  \* history: per user, the generation made when TOTP was enabled
  used,      \* history: the backup codes that let somebody in
  tangled,   \* history: users whose codes were written by two requests at once
  uses,      \* history: passwords set with each reset token
  kept,      \* history: tokens in use by two requests, or whose deletion failed
  crossed    \* history: an administrator was switched off during its own request

rows == <<user, pendingSetups, pending, session, reset>>
codeHistory == <<gen, shown, enrolled, used, tangled>>
history == <<codeHistory, uses, kept, crossed>>
vars == <<traffic, rows, req, history>>

-----------------------------------------------------------------------------
Code == (1..MaxGen) \X (1..NumCodes)
UserRow == [active : BOOLEAN, admin : BOOLEAN, totp : BOOLEAN, codes : Seq(Code)]
NoSession == [user |-> "none"]
SessionRow == [user : User, factors : {1, 2}, since : 0..MaxGen]
Idle == [at |-> "idle"]

Init ==
  /\ traffic \in Workloads
  /\ user = [u \in User |-> [active |-> TRUE, admin |-> TRUE, totp |-> FALSE, codes |-> <<>>]]
  /\ pendingSetups = {}
  /\ pending = [p \in Pending |-> "none"]
  /\ session = [s \in Session |-> NoSession]
  /\ reset = [t \in Token |-> "none"]
  /\ req = [r \in Request |-> Idle]
  /\ gen = 0
  /\ shown = [u \in User |-> 0]
  /\ enrolled = [u \in User |-> 0]
  /\ used = {} /\ tangled = {}
  /\ uses = [t \in Token |-> 0]
  /\ kept = {}
  /\ crossed = FALSE

-----------------------------------------------------------------------------
(* Helpers *)

At(r, place) == req[r].at = place
Becomes(r, next) == req' = [req EXCEPT ![r] = next]
Goto(r, place) == req' = [req EXCEPT ![r].at = place]
End(r) == Becomes(r, Idle)

\* The user of a request that has read a row.
Who(r) == req[r].user

\* A new generation of backup codes.
Generated == [n \in 1..NumCodes |-> <<gen + 1, n>>]

\* Mutant of Removed: the index counts from zero here and from one there.
RemovedOffByOne(codes, i) == IF i + 1 <= Len(codes) THEN RemoveAt(codes, i + 1) ELSE codes

\* RemoveTOTPBackupCode: an index beyond the codes removes nothing.
Removed(codes, i) == IF i <= Len(codes) THEN RemoveAt(codes, i) ELSE codes

\* Mutant of SecondFactor: the flag is not looked at.
SecondFactorNever(row) == FALSE

\* handleLoginPost: does this user have to show a second factor?
SecondFactor(row) == row.totp

\* Mutant of MayToggle: an administrator's own ID is not refused.
MayToggleAnyone(r, v) == TRUE

MayToggle(r, v) == v # Who(r)

\* Another request has looked at u's codes to use one and has yet to write them.
Consuming(r, u) == \E q \in Request \ {r} : req[q].at \in {"read", "remove"} /\ Who(q) = u

\* u's codes are written by r: is anybody about to overwrite or misread them?
Tangles(r, u) == tangled' = IF Consuming(r, u) THEN tangled \cup {u} ELSE tangled

-----------------------------------------------------------------------------
(* Logging in *)

\* handleLoginPost up to the password check.  Other attempts change nothing but
\* the address's limiter.
Login(r, u) ==
  /\ At(r, "idle") /\ <<u, "login">> \in traffic
  /\ user[u].active
  /\ Becomes(r, [at |-> IF SecondFactor(user[u]) THEN "ask" ELSE "admit",
                 user |-> u, factors |-> 1, since |-> gen])
  /\ UNCHANGED <<traffic, rows, history>>

\* CreateTOTPPending.
AskSecondFactor(r, p) ==
  /\ At(r, "ask")
  /\ pending[p] = "none" /\ \A q \in Request : At(q, "verify") \/ At(q, "settle") => req[q].pending # p
  /\ pending' = [pending EXCEPT ![p] = Who(r)]
  /\ End(r)
  /\ UNCHANGED <<traffic, user, pendingSetups, session, reset, history>>

\* CreateWebmailSession.
OpenSession(r, s) ==
  /\ At(r, "admit")
  /\ session[s] = NoSession
  /\ session' = [session EXCEPT ![s] =
       [user |-> Who(r), factors |-> req[r].factors, since |-> req[r].since]]
  /\ End(r)
  /\ UNCHANGED <<traffic, user, pendingSetups, pending, reset, history>>

\* handleTOTPVerifyPost: GetTOTPPendingByToken.
VerifyTOTP(r, p) ==
  /\ At(r, "idle")
  /\ pending[p] # "none" /\ <<pending[p], "verify">> \in traffic
  /\ Becomes(r, [at |-> "verify", user |-> pending[p], pending |-> p])
  /\ UNCHANGED <<traffic, rows, history>>

\* GetUserByID, then a right TOTP code, a backup code, or neither.
CheckCode(r) ==
  LET u == Who(r)
      next == [at |-> "settle", user |-> u, pending |-> req[r].pending]
  IN
  /\ At(r, "verify")
  /\ IF user[u].active /\ user[u].totp
     THEN \/ Becomes(r, next)
          \/ \E i \in DOMAIN user[u].codes :
               Becomes(r, [at |-> "read", user |-> u, pending |-> req[r].pending,
                           index |-> i, code |-> user[u].codes[i]])
          \/ End(r)
     ELSE End(r)
  /\ UNCHANGED <<traffic, rows, history>>

\* RemoveTOTPBackupCode reads the codes again ...
ReadCodes(r) ==
  /\ At(r, "read")
  /\ Becomes(r, [at |-> "remove", user |-> Who(r), pending |-> req[r].pending, code |-> req[r].code,
                 codes |-> Removed(user[Who(r)].codes, req[r].index)])
  /\ UNCHANGED <<traffic, rows, history>>

\* ... and writes what it has left of them.
RemoveCode(r) ==
  LET u == Who(r) IN
  /\ At(r, "remove")
  /\ user' = [user EXCEPT ![u].codes = req[r].codes]
  /\ used' = used \cup {req[r].code}
  /\ Tangles(r, u)
  /\ Becomes(r, [at |-> "settle", user |-> u, pending |-> req[r].pending])
  /\ UNCHANGED <<traffic, pendingSetups, pending, session, reset, gen, shown, enrolled, uses, kept, crossed>>

\* DeleteTOTPPending, whose error is ignored.
SettlePending(r) ==
  /\ At(r, "settle")
  /\ pending' = [pending EXCEPT ![req[r].pending] = "none"] \/ UNCHANGED pending
  /\ Becomes(r, [at |-> "admit", user |-> Who(r), factors |-> 2, since |-> 0])
  /\ UNCHANGED <<traffic, user, pendingSetups, session, reset, history>>

-----------------------------------------------------------------------------
(* Requests of somebody who is logged in *)

Authenticated == Kind \ {"login", "verify", "forgot", "reset"}
AdminOnly == {"toggleActive", "toggleAdmin"}

\* AuthMiddleware: GetWebmailSession.
Authenticate(r, s, kind) ==
  /\ At(r, "idle")
  /\ session[s] # NoSession /\ <<session[s].user, kind>> \in traffic
  /\ Becomes(r, [at |-> "auth", user |-> session[s].user, kind |-> kind])
  /\ UNCHANGED <<traffic, rows, history>>

\* AuthMiddleware: GetUserByID; AdminMiddleware.
Authorize(r) ==
  LET u == Who(r) IN
  /\ At(r, "auth")
  /\ IF user[u].active /\ (req[r].kind \in AdminOnly => user[u].admin)
     THEN Becomes(r, [at |-> req[r].kind, user |-> u, totp |-> user[u].totp])
     ELSE End(r)
  /\ UNCHANGED <<traffic, rows, history>>

\* handleTOTPSetupGet.
SetupTOTP(r) ==
  /\ At(r, "setup")
  /\ pendingSetups' = pendingSetups \cup {Who(r)}
  /\ End(r)
  /\ UNCHANGED <<traffic, user, pending, session, reset, history>>

\* handleTOTPEnablePost with a right code: SaveTOTPSetup.
EnableTOTP(r) ==
  LET u == Who(r) IN
  /\ At(r, "enable")
  /\ gen < MaxGen
  /\ ~req[r].totp /\ u \in pendingSetups
  /\ user' = [user EXCEPT ![u].totp = TRUE, ![u].codes = Generated]
  /\ gen' = gen + 1
  /\ shown' = [shown EXCEPT ![u] = gen + 1]
  /\ enrolled' = [enrolled EXCEPT ![u] = gen + 1]
  /\ Tangles(r, u)
  /\ Becomes(r, [at |-> "forget", user |-> u])
  /\ UNCHANGED <<traffic, pendingSetups, pending, session, reset, used, uses, kept, crossed>>

\* handleTOTPEnablePost: deletePendingTOTPSetup.
ForgetSetup(r) ==
  /\ At(r, "forget")
  /\ pendingSetups' = pendingSetups \ {Who(r)}
  /\ End(r)
  /\ UNCHANGED <<traffic, user, pending, session, reset, history>>

\* handleTOTPDisablePost: DisableTOTP.
DisableTOTP(r) ==
  LET u == Who(r) IN
  /\ At(r, "disable")
  /\ user' = [user EXCEPT ![u].totp = FALSE, ![u].codes = <<>>]
  /\ shown' = [shown EXCEPT ![u] = 0]
  /\ Tangles(r, u)
  /\ End(r)
  /\ UNCHANGED <<traffic, pendingSetups, pending, session, reset, gen, enrolled, used, uses, kept, crossed>>

\* handleTOTPRegenerateBackupCodes: any code of the row that was read will do,
\* and none is used up by it.
RegenerateCodes(r) ==
  LET u == Who(r) IN
  /\ At(r, "regenerate")
  /\ gen < MaxGen
  /\ req[r].totp
  /\ user' = [user EXCEPT ![u].codes = Generated]
  /\ gen' = gen + 1
  /\ shown' = [shown EXCEPT ![u] = gen + 1]
  /\ Tangles(r, u)
  /\ End(r)
  /\ UNCHANGED <<traffic, pendingSetups, pending, session, reset, enrolled, used, uses, kept, crossed>>

\* handleLogout, of a cookie that need not be valid any more.
Logout(s) ==
  /\ session[s] # NoSession
  /\ session' = [session EXCEPT ![s] = NoSession]
  /\ UNCHANGED <<traffic, user, pendingSetups, pending, reset, req, history>>

\* handleCancelSession.
CancelSession(r, s) ==
  /\ At(r, "cancel")
  /\ session' = [session EXCEPT ![s] = NoSession]
  /\ End(r)
  /\ UNCHANGED <<traffic, user, pendingSetups, pending, reset, history>>

\* handleAdminUserToggleActive and -Admin.  The administrator may have been
\* switched off since its own row was read.
Toggle(r, v) ==
  LET a == user[Who(r)] IN
  /\ req[r].at \in AdminOnly
  /\ MayToggle(r, v)
  /\ user' = IF At(r, "toggleActive") THEN [user EXCEPT ![v].active = ~@]
                                      ELSE [user EXCEPT ![v].admin = ~@]
  /\ crossed' = (crossed \/ ~a.active \/ ~a.admin)
  /\ End(r)
  /\ UNCHANGED <<traffic, pendingSetups, pending, session, reset, codeHistory, uses, kept>>

-----------------------------------------------------------------------------
(* Password resets *)

\* handleForgotPasswordPost: GetUserByUsername, of a user with a recovery email.
Forgot(r, u) ==
  /\ At(r, "idle") /\ <<u, "forgot">> \in traffic
  /\ user[u].active
  /\ Becomes(r, [at |-> "forgot", user |-> u])
  /\ UNCHANGED <<traffic, rows, history>>

\* CreatePasswordReset; the link is mailed at once, or that fails and is logged.
CreateReset(r, t) ==
  /\ At(r, "forgot")
  /\ reset[t] = "none"
  /\ reset' = [reset EXCEPT ![t] = "valid"]
  /\ End(r)
  /\ UNCHANGED <<traffic, user, pendingSetups, pending, session, history>>

\* handleResetPasswordPost: GetPasswordResetByToken.
ResetPassword(r, t) ==
  /\ At(r, "idle") /\ reset[t] = "valid"
  /\ uses[t] < MaxUses
  /\ kept' = IF \E q \in Request : req[q].at \in {"set", "spend"} /\ req[q].token = t
             THEN kept \cup {t} ELSE kept
  /\ Becomes(r, [at |-> "set", token |-> t])
  /\ UNCHANGED <<traffic, rows, codeHistory, uses, crossed>>

\* UpdateUserPassword.
SetPassword(r) ==
  /\ At(r, "set")
  /\ uses' = [uses EXCEPT ![req[r].token] = @ + 1]
  /\ Goto(r, "spend")
  /\ UNCHANGED <<traffic, rows, codeHistory, kept, crossed>>

\* Mutant of SpendToken: the row is left for the purge of expired tokens.
SpendTokenLater(r) ==
  /\ At(r, "spend")
  /\ End(r)
  /\ UNCHANGED <<traffic, rows, history>>

\* DeletePasswordReset, whose error is only logged.
SpendToken(r) ==
  /\ At(r, "spend")
  /\ End(r)
  /\ \/ reset' = [reset EXCEPT ![req[r].token] = "gone"] /\ UNCHANGED kept
     \/ kept' = kept \cup {req[r].token} /\ UNCHANGED reset
  /\ UNCHANGED <<traffic, user, pendingSetups, pending, session, codeHistory, uses, crossed>>

-----------------------------------------------------------------------------

\* A database call fails, or a check does (a wrong password, no pending setup):
\* the request ends there.
GiveUp(r) ==
  /\ req[r].at \notin {"idle", "settle", "forget", "spend"}
  /\ End(r)
  /\ UNCHANGED <<traffic, rows, history>>

\* The expiry dates of sessions, pending logins, setups and tokens pass.
Expire ==
  /\ \/ \E s \in Session : session' = [session EXCEPT ![s] = NoSession]
        /\ UNCHANGED <<pending, pendingSetups, reset>>
     \/ \E p \in Pending : pending' = [pending EXCEPT ![p] = "none"]
        /\ UNCHANGED <<session, pendingSetups, reset>>
     \/ \E u \in User : pendingSetups' = pendingSetups \ {u}
        /\ UNCHANGED <<session, pending, reset>>
     \/ \E t \in Token : reset[t] = "valid" /\ reset' = [reset EXCEPT ![t] = "gone"]
        /\ UNCHANGED <<session, pending, pendingSetups>>
  /\ UNCHANGED <<traffic, user, req, history>>

LoggingIn(r) ==
  \/ \E u \in User : Login(r, u)
  \/ \E p \in Pending : AskSecondFactor(r, p) \/ VerifyTOTP(r, p)
  \/ \E s \in Session : OpenSession(r, s)
  \/ CheckCode(r) \/ ReadCodes(r) \/ RemoveCode(r) \/ SettlePending(r)

LoggedIn(r) ==
  \/ \E s \in Session, kind \in Authenticated : Authenticate(r, s, kind)
  \/ Authorize(r)
  \/ SetupTOTP(r) \/ EnableTOTP(r) \/ ForgetSetup(r) \/ DisableTOTP(r) \/ RegenerateCodes(r)
  \/ \E s \in Session : CancelSession(r, s)
  \/ \E v \in User : Toggle(r, v)

Resetting(r) ==
  \/ \E u \in User : Forgot(r, u)
  \/ \E t \in Token : CreateReset(r, t) \/ ResetPassword(r, t)
  \/ SetPassword(r) \/ SpendToken(r)

Next ==
  \/ Expire \/ (\E s \in Session : Logout(s))
  \/ \E r \in Request : LoggingIn(r) \/ LoggedIn(r) \/ Resetting(r) \/ GiveUp(r)

Spec == Init /\ [][Next]_vars

-----------------------------------------------------------------------------
(* Properties *)

CodesOf(u) == {user[u].codes[i] : i \in DOMAIN user[u].codes}

TypeOK ==
  /\ traffic \in Workloads
  /\ user \in [User -> UserRow]
  /\ pendingSetups \subseteq User
  /\ pending \in [Pending -> User \cup {"none"}]
  /\ session \in [Session -> SessionRow \cup {NoSession}]
  /\ reset \in [Token -> {"none", "valid", "gone"}]
  /\ gen \in 0..MaxGen
  /\ shown \in [User -> 0..MaxGen] /\ enrolled \in [User -> 0..MaxGen]
  /\ used \subseteq Code /\ tangled \subseteq User
  /\ uses \in [Token -> Nat] /\ kept \subseteq Token
  /\ crossed \in BOOLEAN

\* The backup codes that work are those of the last sheet the user was given,
\* less the ones somebody logged in with, unless two requests wrote the codes of
\* that user at once: logins, regenerations and re-enrolments in any other order
\* bring no used code back and lose no unused one.
BackupCodesAddUp ==
  \A u \in User : u \in tangled \/
    CodesOf(u) = (IF shown[u] = 0 THEN {} ELSE {shown[u]} \X (1..NumCodes)) \ used

\* Nobody holds a session opened with the password alone to an account that asked
\* for a second factor when that login began.
SecondFactorKept ==
  \A s \in Session : session[s] # NoSession /\ session[s].factors = 1 =>
    LET u == session[s].user IN user[u].totp => session[s].since < enrolled[u]

\* A reset link sets one password, unless it was being used twice at the same
\* time or its deletion failed, which the handler only logs.
ResetLinkWorksOnce == \A t \in Token : uses[t] <= 1 \/ t \in kept

\* However administrators switch each other on and off, one stays, unless one was
\* switched off between the reading of its row and its own switch.
AnAdministratorRemains ==
  crossed \/ \E u \in User : user[u].active /\ user[u].admin
=============================================================================
