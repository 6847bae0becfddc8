----------------------------- MODULE Directory -----------------------------
(***************************************************************************)
(* Users, mailboxes, memberships, address mappings and sending addresses:  *)
(* the administrators' handlers (internal/web/admin_handlers), the same    *)
(* operations of the command line (cmd/mailaroo/admin) and the             *)
(* configuration file that is applied once (cmd/mailaroo/bootstrap).       *)
(*                                                                         *)
(* Only two operations make several calls: handleAdminUserCreate, with its *)
(* deferred clean-up, and bootstrapFromConfig, which has none.  Each call  *)
(* of theirs is an action; each of the others is one statement or one      *)
(* transaction.                                                            *)
(***************************************************************************)
EXTENDS Naturals, FiniteSets

CONSTANTS
  User,      \* users, by their user names
  Mailbox,   \* bound: mailboxes that may be made
  Address,   \* addresses that are mapped or sent from
  Request,   \* bound: creations of users in progress at once
  Owner, Other, Configured,  \* the file: a mailbox's users and its address
  MaxRuns,   \* bound: how often the file is applied
  Workloads  \* bound: the administrators' operations that occur together

Duty == {"create", "user", "mailbox", "member", "mapping", "sending"}

ASSUME DirectoryAssumption ==
  /\ Owner \in User /\ Other \in User /\ Owner # Other
  /\ Configured \in Address
  /\ MaxRuns \in Nat
  /\ Workloads \subseteq SUBSET Duty

VARIABLES
  duties,    \* what administrators do in this behaviour
  users,     \* "user" rows
  mailboxes, \* mailbox rows
  member,    \* mailbox_user
  mapping,   \* address_mapping: which patterns lead to which mailbox
  sending,   \* sending_address: one row per user and address (UNIQUE)
  req,       \* creations of users in progress
  boot,      \* bootstrapFromConfig in progress
  runs,      \* history: applications of the file begun
  settled,   \* history: users reported as created, or whose clean-up failed or never ran
  byHand     \* history: addresses a form asked to map

tables == <<users, mailboxes, member, mapping, sending>>
history == <<runs, settled, byHand>>
vars == <<duties, tables, req, boot, history>>

-----------------------------------------------------------------------------
\* A pattern of the file or of /admin is a valid regular expression; the local
\* part typed for a new user is not quoted, so its pattern may be one for Go only.
Pattern == Address \X {"valid", "foreign"}
Idle == [at |-> "idle"]
Off == [at |-> "off"]

Init ==
  /\ duties \in Workloads
  /\ users = {} /\ mailboxes = {} /\ member = {} /\ mapping = {}
  /\ sending = [k \in User \X Address |-> "none"]
  /\ req = [r \in Request |-> Idle]
  /\ boot = Off
  /\ runs = 0
  /\ settled = {} /\ byHand = {}

-----------------------------------------------------------------------------
(* Helpers *)

At(r, place) == req[r].at = place
Becomes(r, next) == req' = [req EXCEPT ![r] = next]
Goto(r, place) == req' = [req EXCEPT ![r].at = place]
End(r) == Becomes(r, Idle)

\* LookupMailboxByAddress: where mail for a may go.  PostgreSQL evaluates every
\* pattern, and gives up on one that it cannot compile.
Routes(a) ==
  IF \E x \in mapping : x[2][2] = "foreign" THEN {}
  ELSE {x[1] : x \in {y \in mapping : y[2][1] = a}}

\* Mutant of Receives: a blank domain is no reason to go without a mapping.
ReceivesAlways(asked) == IF asked = "none" THEN <<Configured, "valid">> ELSE asked

\* The pattern a creation stores, if the form asks for one.
Receives(asked) == asked

\* CreateUserNoMailbox: user.username is UNIQUE.
InsertUser(u) == u \notin users /\ users' = users \cup {u}

\* CreateMailbox: mailbox and first member in one transaction.
InsertMailbox(m, u) ==
  /\ m \notin mailboxes /\ u \in users
  /\ mailboxes' = mailboxes \cup {m}
  /\ member' = member \cup {<<m, u>>}

\* AddUserToMailbox: ON CONFLICT DO NOTHING, with foreign keys.
InsertMember(m, u) ==
  /\ m \in mailboxes /\ u \in users
  /\ member' = member \cup {<<m, u>>}

\* DeleteUser, with what the schema deletes along with the user.
DropUser(u) ==
  /\ users' = users \ {u}
  /\ member' = {x \in member : x[2] # u}
  /\ sending' = [k \in User \X Address |-> IF k[1] = u THEN "none" ELSE sending[k]]

-----------------------------------------------------------------------------
(* handleAdminUserCreate *)

\* The user's row, before anything else.  The form asks for an existing mailbox
\* ("join") or a new one, for an address to receive, and for one to send from.
CreateUser(r, u, target, receive, send) ==
  /\ At(r, "idle")
  /\ InsertUser(u)
  /\ Becomes(r, [at |-> "mailbox", user |-> u, target |-> target, receive |-> receive, send |-> send])
  /\ UNCHANGED <<mailboxes, member, mapping, sending, boot, history>>

\* AddUserToMailbox or CreateMailbox.
GiveMailbox(r, m) ==
  /\ At(r, "mailbox")
  /\ \/ req[r].target = m /\ InsertMember(m, req[r].user) /\ UNCHANGED mailboxes
     \/ req[r].target = "new" /\ InsertMailbox(m, req[r].user)
  /\ Becomes(r, [req[r] EXCEPT !.at = IF req[r].target = "new" THEN "receive" ELSE "send",
                               !.target = m])
  /\ UNCHANGED <<users, mapping, sending, boot, history>>

\* CreateAddressMapping, whose error is only logged.
MapAddress(r) ==
  LET p == Receives(req[r].receive) IN
  /\ At(r, "receive") /\ req[r].receive # "broken"
  /\ \/ p # "none" /\ mapping' = mapping \cup {<<req[r].target, p>>}
     \/ UNCHANGED mapping
  /\ byHand' = byHand \cup (IF req[r].receive = "none" THEN {} ELSE {req[r].receive[1]})
  /\ Goto(r, "send")
  /\ UNCHANGED <<users, mailboxes, member, sending, boot, runs, settled>>

\* The pattern does not compile: the request is refused, the mailbox is there.
RefusePattern(r) ==
  /\ At(r, "receive") /\ req[r].receive = "broken"
  /\ Goto(r, "cleanup")
  /\ UNCHANGED <<tables, boot, history>>

\* AddSendingAddress, whose error is only logged; the creation has succeeded.
Commit(r) ==
  LET k == <<req[r].user, req[r].send>> IN
  /\ At(r, "send")
  /\ \/ req[r].send # "none" /\ sending[k] = "none" /\ sending' = [sending EXCEPT ![k] = "active"]
     \/ UNCHANGED sending
  /\ settled' = settled \cup {req[r].user}
  /\ End(r)
  /\ UNCHANGED <<users, mailboxes, member, mapping, boot, runs, byHand>>

\* The mailbox cannot be given, because of an error or of what the form says.
GiveMailboxFails(r) ==
  /\ At(r, "mailbox")
  /\ Goto(r, "cleanup")
  /\ UNCHANGED <<tables, boot, history>>

\* Mutant of CleanUp: only what the user was given is taken away.
CleanUpMembership(r) ==
  /\ At(r, "cleanup")
  /\ member' = {x \in member : x[2] # req[r].user}
  /\ End(r)
  /\ UNCHANGED <<users, mailboxes, mapping, sending, boot, runs, settled, byHand>>

\* The deferred function deletes the user, or logs that it could not.
CleanUp(r) ==
  LET u == req[r].user IN
  /\ At(r, "cleanup")
  /\ \/ DropUser(u) /\ UNCHANGED settled
     \/ settled' = settled \cup {u} /\ UNCHANGED <<users, member, sending>>
  /\ End(r)
  /\ UNCHANGED <<mailboxes, mapping, boot, runs, byHand>>

\* The process dies: deferred functions do not run.
Crash(r) ==
  /\ ~At(r, "idle")
  /\ settled' = settled \cup {req[r].user}
  /\ End(r)
  /\ UNCHANGED <<tables, boot, runs, byHand>>

-----------------------------------------------------------------------------
(* bootstrapFromConfig *)

\* GetUserByUsername has found this user.
Exists(u) == u \in users

StartBootstrap ==
  /\ boot = Off /\ runs < MaxRuns
  /\ boot' = [at |-> "owner"]
  /\ runs' = runs + 1
  /\ UNCHANGED <<tables, req, settled, byHand>>

\* The file's users, one after the other: those that exist are skipped.
BootstrapUser ==
  LET u == IF boot.at = "owner" THEN Owner ELSE Other IN
  /\ boot.at \in {"owner", "other"}
  /\ \/ Exists(u) /\ UNCHANGED <<users, settled>>
     \/ ~Exists(u) /\ InsertUser(u) /\ settled' = settled \cup {u}
  /\ boot' = [at |-> IF boot.at = "owner" THEN "other" ELSE "mailbox"]
  /\ UNCHANGED <<mailboxes, member, mapping, sending, req, runs, byHand>>

\* The mailbox is made anew, whether or not there is one of this name.
BootstrapMailbox(m) ==
  /\ boot.at = "mailbox"
  /\ InsertMailbox(m, Owner)
  /\ boot' = [at |-> "member", mailbox |-> m]
  /\ UNCHANGED <<users, mapping, sending, req, history>>

BootstrapMember ==
  /\ boot.at = "member"
  /\ InsertMember(boot.mailbox, Other)
  /\ boot' = [boot EXCEPT !.at = "mapping"]
  /\ UNCHANGED <<users, mailboxes, mapping, sending, req, history>>

BootstrapMapping ==
  /\ boot.at = "mapping"
  /\ mapping' = mapping \cup {<<boot.mailbox, <<Configured, "valid">>>>}
  /\ boot' = [boot EXCEPT !.at = "sending"]
  /\ UNCHANGED <<users, mailboxes, member, sending, req, history>>

\* The last call.  An address the owner has already makes the file fail.
BootstrapSending ==
  /\ boot.at = "sending"
  /\ Owner \in users /\ sending[<<Owner, Configured>>] = "none"
  /\ sending' = [sending EXCEPT ![<<Owner, Configured>>] = "active"]
  /\ boot' = Off
  /\ UNCHANGED <<users, mailboxes, member, mapping, req, history>>

\* An error, or a crash: nothing is taken back.
BootstrapFails ==
  /\ boot # Off
  /\ boot' = Off
  /\ UNCHANGED <<tables, req, history>>

-----------------------------------------------------------------------------
(* The operations of one call *)

\* userAddCmd.
AddUser(u) ==
  /\ InsertUser(u)
  /\ settled' = settled \cup {u}
  /\ UNCHANGED <<mailboxes, member, mapping, sending, req, boot, runs, byHand>>

\* handleAdminMailboxCreate, handleAdminUserAddMailbox, mailboxAddCmd.
AddMailbox(m, u) ==
  /\ InsertMailbox(m, u)
  /\ UNCHANGED <<users, mapping, sending, req, boot, history>>

\* handleAdminMailboxAddUser, handleAdminUserAddMailbox, mailboxAddUserCmd.
AddMember(m, u) ==
  /\ InsertMember(m, u)
  /\ UNCHANGED <<users, mailboxes, mapping, sending, req, boot, history>>

\* handleAdminMailboxRemoveUser.
RemoveMember(m, u) ==
  /\ <<m, u>> \in member
  /\ member' = member \ {<<m, u>>}
  /\ UNCHANGED <<users, mailboxes, mapping, sending, req, boot, runs, settled, byHand>>

\* handleAdminMailboxAddMapping, which quotes the address; mappingAddCmd, which
\* asks PostgreSQL whether the pattern is valid.
AddMapping(m, a) ==
  /\ m \in mailboxes
  /\ mapping' = mapping \cup {<<m, <<a, "valid">>>>}
  /\ byHand' = byHand \cup {a}
  /\ UNCHANGED <<users, mailboxes, member, sending, req, boot, runs, settled>>

\* handleAdminUserAddSendingAddress, handleAdminSendingAddressCreate, saAddCmd.
\* Nobody asks whether the user is a member of the mailbox it is for.
AddSending(u, a) ==
  /\ u \in users /\ mailboxes # {} /\ sending[<<u, a>>] = "none"
  /\ sending' = [sending EXCEPT ![<<u, a>>] = "active"]
  /\ UNCHANGED <<users, mailboxes, member, mapping, req, boot, history>>

\* handleAdminSendingAddressDeactivate and -Reactivate, saDeactivateCmd.
SetSending(u, a, state) ==
  /\ sending[<<u, a>>] # "none"
  /\ sending' = [sending EXCEPT ![<<u, a>>] = state]
  /\ UNCHANGED <<users, mailboxes, member, mapping, req, boot, history>>

-----------------------------------------------------------------------------
Creating(r) ==
  \/ \E u \in User, t \in mailboxes \cup {"new"}, s \in Address \cup {"none"},
        p \in Pattern \cup {"none", "broken"} : CreateUser(r, u, t, p, s)
  \/ \E m \in Mailbox : GiveMailbox(r, m)
  \/ MapAddress(r) \/ RefusePattern(r) \/ Commit(r)
  \/ GiveMailboxFails(r) \/ CleanUp(r) \/ Crash(r)

Bootstrapping ==
  \/ StartBootstrap \/ BootstrapUser \/ \E m \in Mailbox : BootstrapMailbox(m)
  \/ BootstrapMember \/ BootstrapMapping \/ BootstrapSending \/ BootstrapFails

Administering ==
  \/ "user" \in duties /\ \E u \in User : AddUser(u)
  \/ "mailbox" \in duties /\ \E m \in Mailbox, u \in User : AddMailbox(m, u)
  \/ "member" \in duties /\ \E m \in Mailbox, u \in User : AddMember(m, u) \/ RemoveMember(m, u)
  \/ "mapping" \in duties /\ \E m \in Mailbox, a \in Address : AddMapping(m, a)
  \/ "sending" \in duties /\ \E u \in User, a \in Address :
       AddSending(u, a) \/ \E state \in {"active", "inactive"} : SetSending(u, a, state)

Step ==
  \/ Bootstrapping \/ Administering
  \/ "create" \in duties /\ \E r \in Request : Creating(r)

Next == Step /\ UNCHANGED duties

Spec == Init /\ [][Next]_vars

-----------------------------------------------------------------------------
(* Properties *)

TypeOK ==
  /\ users \subseteq User /\ mailboxes \subseteq Mailbox
  /\ member \subseteq Mailbox \X User
  /\ mapping \subseteq Mailbox \X Pattern
  /\ sending \in [User \X Address -> {"none", "active", "inactive"}]
  /\ runs \in 0..MaxRuns
  /\ settled \subseteq User /\ byHand \subseteq Address

InProgress(u) == \E r \in Request : ~At(r, "idle") /\ req[r].user = u

\* A user row is one whose creation was reported as done, one in the making, or
\* one whose clean-up failed: the deferred function leaves no other behind, and
\* takes away no user that somebody else made under the name.
NoOrphanUser ==
  /\ \A u \in users : u \in settled \/ InProgress(u)
  /\ settled \subseteq users

\* Mail for an address has one destination at most, unless a form asked for a
\* mapping of it or the file was applied twice: a creation that fails, is cut off
\* or asks for no address leads nobody's mail elsewhere.
RoutesAreClear ==
  \A a \in Address : Cardinality(Routes(a)) > 1 => a \in byHand \/ runs > 1
=============================================================================
