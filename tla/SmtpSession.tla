---------------------------- MODULE SmtpSession ----------------------------
(***************************************************************************)
(* SMTP sessions (internal/smtp/server.go) that have passed ConnectionGuard *)
(* and talk to the server at the same time.  They share the greylist and    *)
(* the limiters of sending users; each has an ingestion row of its own.     *)
(*                                                                         *)
(* The library go-smtp calls a session's methods one at a time: AUTH until  *)
(* it succeeds, MAIL, RCPT after a MAIL, DATA once a recipient was accepted, *)
(* and Reset after DATA and at RSET and EHLO.  It refuses neither a second  *)
(* MAIL nor an AUTH within a transaction, and Session does not either.      *)
(*                                                                         *)
(* Mailboxes, block rules and sending addresses change at any time, so what *)
(* a look into those tables answers is any answer, an error included; a     *)
(* command that changes nothing when it is refused has no action for that.  *)
(* The rows of ingestion_step are only a log (IngestionPipeline has them).  *)
(***************************************************************************)
EXTENDS Naturals, Sequences

CONSTANTS
  Session,     \* sessions
  Ip,          \* remote addresses
  Exempt,      \* those without greylisting: loopback, or all if it is off
  User,        \* accounts
  Nobody,      \* the user of a session without AUTH
  Address,     \* addresses of senders
  Recipient,   \* addresses of recipients
  Delay,       \* GREYLIST_DELAY in ticks
  Expiry,      \* how long a greylist entry stays (30 days)
  SendLimit,   \* OUTBOUND_PER_USER_HOUR, 0 for none; a tick gives one back
  MaxTick,     \* bound: the last tick
  MaxTxn,      \* bound: MAIL commands of all sessions
  MaxRcpt      \* bound: accepted recipients of a transaction

ASSUME SessionAssumption ==
  /\ Exempt \subseteq Ip /\ Nobody \notin User
  /\ Delay \in Nat /\ Expiry \in Nat /\ SendLimit \in Nat
  /\ MaxTick \in Nat /\ MaxTxn \in Nat /\ MaxRcpt \in Nat

VARIABLES
  now,         \* the tick
  sess,        \* the sessions, see Fresh
  txn,         \* bound: MAIL commands so far
  greylist,    \* greylist_entry: first_seen and last_seen of a triplet
  tokens,      \* tokens in a user's limiter
  passed,      \* history: per user and tick, submissions the limiter let through
  ever,        \* history: when a triplet was first tried
  since,       \* history: the same, since its last pause longer than Expiry
  last         \* history: when it was last tried

tries == <<greylist, ever, since, last>>
limits == <<tokens, passed>>
vars == <<now, sess, txn, tries, limits>>

-----------------------------------------------------------------------------

Tick == 0..MaxTick
Never == MaxTick + 1
NoOne == "none"
Triplet == Ip \X Address \X Recipient
Gone == [first |-> Never, last |-> Never]

\* Fields of Session (remoteIP, userID, from, to, ingestionID's row) and
\*   pc        where the dialogue stands
\*   rcpt      the recipient being checked
\*   accepted  the library's recipients of the transaction, each with the
\*             sender it was accepted for and whom that sender was checked for
\*   reply     the library's reply to DATA
\*   handed    history: what DATA gave to the pipeline or the queue
\*   asked     history: the user when MAIL was checked
\*   strayed   history: a MAIL after a recipient, or an AUTH after a MAIL, came
\*             within the transaction
\*   unsure    history: a job was inserted and the answer lost
Fresh(a) ==
  [pc |-> "idle", ip |-> a, user |-> Nobody, from |-> NoOne, to |-> <<>>,
   ingestion |-> "accepted", rcpt |-> NoOne, accepted |-> <<>>, reply |-> 0,
   handed |-> <<>>, asked |-> Nobody, strayed |-> FALSE, unsure |-> FALSE]

Init ==
  /\ now = 0
  /\ \E ip \in [Session -> Ip] : sess = [s \in Session |-> Fresh(ip[s])]
  /\ txn = 0
  /\ greylist = [t \in Triplet |-> Gone]
  /\ tokens = [u \in User |-> SendLimit]
  /\ passed = [u \in User |-> [t \in Tick |-> 0]]
  /\ ever = [t \in Triplet |-> Never]
  /\ since = [t \in Triplet |-> Never]
  /\ last = [t \in Triplet |-> Never]

Become(s, state) == sess' = [sess EXCEPT ![s] = state]
Goto(s, p) == sess' = [sess EXCEPT ![s].pc = p]

\* The row after the end of RunStage; an error of the update is only logged.
Status(s, status) == {status, sess[s].ingestion}

-----------------------------------------------------------------------------
(* AUTH and MAIL *)

\* The account is active and the password right.
Auth(s, u) ==
  /\ sess[s].pc \in {"idle", "mail"} /\ sess[s].user = Nobody
  /\ Become(s, [sess[s] EXCEPT !.user = u, !.strayed = (sess[s].pc = "mail")])
  /\ UNCHANGED <<now, txn, tries, limits>>

\* Nothing is registered for the stage mail_from.  That an authenticated user
\* may send from the address is one of the answers that change at any time.  The
\* recipients of an open transaction stay.
Mail(s, f) ==
  /\ sess[s].pc \in {"idle", "mail"} /\ txn < MaxTxn
  /\ txn' = txn + 1
  /\ \E status \in Status(s, "accepted") :
       Become(s, [sess[s] EXCEPT !.pc = "mail", !.from = f, !.ingestion = status,
                                 !.asked = sess[s].user,
                                 !.strayed = (sess[s].accepted # <<>>)])
  /\ UNCHANGED <<now, tries, limits>>

-----------------------------------------------------------------------------
(* RCPT *)

MayAdd(s) == sess[s].pc = "mail" /\ Len(sess[s].accepted) < MaxRcpt

\* x has one recipient more.
Added(x, r, status) ==
  [x EXCEPT !.pc = "mail", !.to = Append(@, r),
            !.accepted = Append(@, <<x.asked, x.from, r>>), !.ingestion = status]

\* An authenticated session's recipients are not checked.
RcptRelay(s, r) ==
  /\ MayAdd(s) /\ sess[s].user # Nobody
  /\ Become(s, Added(sess[s], r, sess[s].ingestion))
  /\ UNCHANGED <<now, txn, tries, limits>>

\* LookupMailboxByAddress finds a mailbox.
Rcpt(s, r) ==
  /\ MayAdd(s) /\ sess[s].user = Nobody
  /\ Become(s, [sess[s] EXCEPT !.rcpt = r,
                               !.pc = IF sess[s].ip \in Exempt THEN "rules" ELSE "greylist"])
  /\ UNCHANGED <<now, txn, tries, limits>>

Checked(s) == <<sess[s].ip, sess[s].from, sess[s].rcpt>>

\* The insert that only touches last_seen when the triplet is there.
Upsert(entry) == [first |-> IF entry = Gone THEN now ELSE entry.first, last |-> now]

\* The row is written; pass_count is left out, for nothing reads it.
Try(t) ==
  LET resumed == last[t] = Never \/ last[t] + Expiry < now IN
  /\ greylist' = [greylist EXCEPT ![t] = Upsert(@)]
  /\ ever' = [ever EXCEPT ![t] = IF @ = Never THEN now ELSE @]
  /\ since' = [since EXCEPT ![t] = IF resumed THEN now ELSE @]
  /\ last' = [last EXCEPT ![t] = now]

\* CheckAndUpdateGreylist.
Greylist(s) ==
  LET t == Checked(s) IN
  /\ sess[s].pc = "greylist"
  /\ Try(t)
  /\ Goto(s, IF greylist'[t].first + Delay > now THEN "mail" ELSE "rules")
  /\ UNCHANGED <<now, txn, limits>>

\* It fails before or after the row is written; that is logged, and the
\* recipient is not held up.
GreylistFails(s) ==
  /\ sess[s].pc = "greylist"
  /\ Try(Checked(s)) \/ UNCHANGED tries
  /\ Goto(s, "rules")
  /\ UNCHANGED <<now, txn, limits>>

\* Stage rcpt_to: it finds no block rule and the recipient is accepted, or it
\* finds one or fails.
Rules(s) ==
  /\ sess[s].pc = "rules"
  /\ \/ \E status \in Status(s, "accepted") :
          Become(s, Added(sess[s], sess[s].rcpt, status))
     \/ \E status \in Status(s, "rejected") :
          Become(s, [sess[s] EXCEPT !.pc = "mail", !.ingestion = status])
  /\ UNCHANGED <<now, txn, tries, limits>>

-----------------------------------------------------------------------------
(* DATA *)

MayEnd(s) == sess[s].pc = "mail" /\ sess[s].accepted # <<>>

\* One item for each recipient in the session's list.
Envelope(x) == [i \in DOMAIN x.to |-> <<x.user, x.from, x.to[i]>>]

Handing(x, code, unsure) ==
  [x EXCEPT !.pc = "done", !.reply = code, !.handed = Envelope(x), !.unsure = unsure]

Refusing(x) == [x EXCEPT !.pc = "done", !.reply = 550]

\* handleInbound: a goroutine for each recipient.
HandleInbound(s) ==
  /\ MayEnd(s) /\ sess[s].user = Nobody
  /\ Become(s, Handing(sess[s], 250, FALSE))
  /\ UNCHANGED <<now, txn, tries, limits>>

\* Mutant of Take: the limiter is made anew instead of being kept.
TakeFresh(u) == UNCHANGED tokens

\* getUserOutboundLimiter and Allow.
Take(u) ==
  IF SendLimit = 0 THEN UNCHANGED tokens
  ELSE tokens[u] > 0 /\ tokens' = [tokens EXCEPT ![u] = @ - 1]

\* handleOutbound, as far as the user's limiter.
HandleOutbound(s) ==
  /\ MayEnd(s) /\ sess[s].user # Nobody
  /\ \/ /\ Take(sess[s].user)
        /\ passed' = [passed EXCEPT ![sess[s].user][now] = @ + 1]
        /\ Goto(s, "insert")
     \/ /\ SendLimit > 0 /\ tokens[sess[s].user] = 0
        /\ Become(s, Refusing(sess[s]))
        /\ UNCHANGED limits
  /\ UNCHANGED <<now, txn, tries>>

InsertOutboundJob(s) ==
  /\ sess[s].pc = "insert"
  /\ Become(s, Handing(sess[s], 250, FALSE))
  /\ UNCHANGED <<now, txn, tries, limits>>

InsertFails(s) ==
  /\ sess[s].pc = "insert"
  /\ Become(s, Refusing(sess[s]))
  /\ UNCHANGED <<now, txn, tries, limits>>

\* The row is there, but the client is told that it is not.
InsertUnconfirmed(s) ==
  /\ sess[s].pc = "insert"
  /\ Become(s, Handing(sess[s], 550, TRUE))
  /\ UNCHANGED <<now, txn, tries, limits>>

\* Mutant of Cleared: the recipients stay.
ClearedKeepsTo(x) ==
  [Fresh(x.ip) EXCEPT !.user = x.user, !.ingestion = x.ingestion, !.to = x.to]

\* What Reset leaves of a session.
Cleared(x) ==
  [Fresh(x.ip) EXCEPT !.user = x.user, !.ingestion = x.ingestion]

\* RSET, or the library after DATA.
Reset(s) ==
  /\ sess[s].pc \in {"mail", "done"}
  /\ Become(s, Cleared(sess[s]))
  /\ UNCHANGED <<now, txn, tries, limits>>

-----------------------------------------------------------------------------
(* The world *)

Elapse ==
  /\ now < MaxTick
  /\ now' = now + 1
  /\ tokens' = [u \in User |-> IF tokens[u] < SendLimit THEN tokens[u] + 1 ELSE SendLimit]
  /\ passed' = [u \in User |-> [passed[u] EXCEPT ![now'] = passed[u][now]]]
  /\ UNCHANGED <<sess, txn, tries>>

\* Mutant of Expired: it goes by the wrong column.
ExpiredByAge(entry) == entry # Gone /\ entry.first + Expiry < now

Expired(entry) == entry # Gone /\ entry.last + Expiry < now

\* PurgeExpiredRateLimitData, run hourly.
Purge ==
  /\ \E t \in Triplet : Expired(greylist[t])
  /\ greylist' = [t \in Triplet |-> IF Expired(greylist[t]) THEN Gone ELSE greylist[t]]
  /\ UNCHANGED <<now, sess, txn, ever, since, last, limits>>

Next ==
  \/ \E s \in Session :
       \/ \E u \in User : Auth(s, u)
       \/ \E f \in Address : Mail(s, f)
       \/ \E r \in Recipient : RcptRelay(s, r) \/ Rcpt(s, r)
       \/ Greylist(s) \/ GreylistFails(s) \/ Rules(s)
       \/ HandleInbound(s) \/ HandleOutbound(s)
       \/ InsertOutboundJob(s) \/ InsertFails(s) \/ InsertUnconfirmed(s)
       \/ Reset(s)
  \/ Elapse \/ Purge

Spec == Init /\ [][Next]_vars

-----------------------------------------------------------------------------
(* Properties *)

Sequences(S) == UNION {[1..n -> S] : n \in 0..MaxRcpt}

Pc == {"idle", "mail", "greylist", "rules", "insert", "done"}

Item == (User \cup {Nobody}) \X Address \X Recipient

SessionRecord ==
  [pc : Pc, ip : Ip,
   user : User \cup {Nobody}, from : Address \cup {NoOne}, to : Sequences(Recipient),
   ingestion : {"accepted", "rejected"}, rcpt : Recipient \cup {NoOne},
   accepted : Sequences(Item), reply : {0, 250, 550}, handed : Sequences(Item),
   asked : User \cup {Nobody}, strayed : BOOLEAN, unsure : BOOLEAN]

TypeOK ==
  /\ now \in Tick
  /\ sess \in [Session -> SessionRecord]
  /\ txn \in 0..MaxTxn
  /\ greylist \in [Triplet -> [first : 0..Never, last : 0..Never]]
  /\ tokens \in [User -> 0..SendLimit]
  /\ passed \in [User -> [Tick -> Nat]]
  /\ {ever, since, last} \subseteq [Triplet -> 0..Never]

Recipients(items) == [i \in DOMAIN items |-> items[i][3]]

\* A message answered with 250 went to exactly the recipients that this
\* transaction accepted, each under the very sender it was accepted for and for
\* the account that sender was checked for; one that was refused went to nobody,
\* unless the insert's answer was lost.  Only where a second MAIL or an AUTH came
\* within the transaction, which nothing refuses, may senders differ.
HandedAsAccepted ==
  \A s \in Session : sess[s].pc = "done" =>
    IF sess[s].reply = 250 \/ sess[s].unsure
    THEN /\ Recipients(sess[s].handed) = Recipients(sess[s].accepted)
         /\ sess[s].handed = sess[s].accepted \/ sess[s].strayed
    ELSE sess[s].handed = <<>>

\* Whichever sessions try a triplet, and whenever the purge runs: a check that
\* does not fail lets it pass only Delay after its first try, and holds it up no
\* longer than Delay after it was first tried without a pause longer than Expiry.
GreylistFair ==
  [][\A s \in Session : Greylist(s) =>
       IF sess'[s].pc = "mail" THEN since'[Checked(s)] + Delay > now
       ELSE ever'[Checked(s)] + Delay <= now]_vars

\* The submissions of u that its limiter let through before the tick t.
PassedBefore(u, t) == IF t = 0 THEN 0 ELSE passed[u][t - 1]

\* However many sessions a user has, in no stretch of time do they submit more
\* messages than the limit and one for every tick in it.
SubmissionRate ==
  SendLimit > 0 =>
    \A u \in User : \A t, v \in 0..now :
      t <= v => passed[u][v] - PassedBefore(u, t) <= SendLimit + (v - t)
=============================================================================
