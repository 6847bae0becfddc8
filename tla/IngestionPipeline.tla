------------------------- MODULE IngestionPipeline -------------------------
(***************************************************************************)
(* The data stage of the ingestion pipeline (internal/pipeline): one       *)
(* goroutine per accepted recipient runs nine steps in order, records each *)
(* in ingestion_step and closes its ingestion row.  The SMTP client has    *)
(* been told 250 before any of this starts (handleInbound).                *)
(*                                                                         *)
(* One call that another goroutine, a user or a crash can fall between is  *)
(* one action.  A step function returns a status; its goroutine then stands*)
(* at "log", where runStep records the status, and goes on to the next     *)
(* step or to "close".                                                     *)
(***************************************************************************)
EXTENDS MessageChecks, FiniteSets

CONSTANTS
  Msg,        \* messages, one per accepted recipient
  MailboxOf,  \* the mailbox each was accepted for
  Workloads,  \* the sets of messages that may arrive together
  RefersTo,   \* the messages its In-Reply-To and References name
  Traits,     \* which of {"attachment", "bounce", "malformed"} each has
  Images,     \* the images of its HTML parts
  Domain,     \* domains of senders, with ""
  Senders,    \* what its sender checks may find
  Actions,    \* actions of the filter rules it may match
  Spamminess, \* the answers rspamd may give, {} if it is not configured
  Threshold,  \* SpamConfig.QuarantineThreshold
  Classifier, \* ClassifierConfig.Type
  Replies,    \* the replies the classifier may give, {} if there is none
  UserMoves,  \* statuses users may give its email
  Faults,     \* which of {"db", "storage", "crash"} may hit its ingestion
  MaxLostRows \* bound: ingestion_step rows one ingestion may lose

Signature == [domain : Domain, pass : BOOLEAN]
SenderChecks == [envelope : Seq(STRING), from : [readable : BOOLEAN, address : Seq(STRING)],
                 spf : BOOLEAN, dkim : SUBSET Signature,
                 dmarc : [Domain -> {"absent", "none", "quarantine", "reject"}]]
Answer == [reached : BOOLEAN, json : BOOLEAN, score : Int, action : STRING]
FilterAction == {"archive", "delete", "mark_read", "star", "quarantine"}
EmailStatus == {"INBOX", "QUARANTINED", "ARCHIVED", "DELETED"}

ASSUME PipelineAssumption ==
  /\ RefersTo \in [Msg -> SUBSET Msg]
  /\ Traits \in [Msg -> SUBSET {"attachment", "bounce", "malformed"}]
  /\ Workloads \subseteq SUBSET Msg
  /\ Senders \in [Msg -> SUBSET SenderChecks]
  /\ Actions \in [Msg -> SUBSET FilterAction]
  /\ Spamminess \in [Msg -> SUBSET Answer] /\ Threshold \in Int
  /\ Classifier \in DOMAIN Provider
  /\ UserMoves \in [Msg -> SUBSET EmailStatus]
  /\ Faults \in [Msg -> SUBSET {"db", "storage", "crash"}]
  /\ MaxLostRows \in Nat

VARIABLES
  expected,     \* the messages that arrive in this behaviour
  at,           \* per message: the current step, an index of Steps
  phase,        \* per message: where its goroutine stands in that step
  result,       \* per message: the status the step returned
  ictx,         \* per message: IngestionContext
  threadId,     \* per message: the thread Persist will insert the email in
  ingestion,    \* ingestion.status
  steplog,      \* ingestion_step: the status logged for each step
  blob,         \* the object store: what lies under the email's keys
  thread,       \* thread rows, named after the message that created them
  email,        \* email rows
  attachment,   \* messages with an email_attachment row
  failedJobs,   \* bounces whose outbound job was marked FAILED
  bell,         \* messages announced to the mailbox's users
  checks,       \* history: what the sender checks found
  spam,         \* history: what rspamd answered
  moved,        \* history: emails a user has moved
  known,        \* history: emails that were there when the goroutine started
  swallowed     \* history: faults that were only logged

tables == <<ingestion, steplog, blob, thread, email, attachment, failedJobs, bell>>
history == <<checks, spam, moved, known, swallowed>>
vars == <<expected, at, phase, result, ictx, threadId, tables, history>>

-----------------------------------------------------------------------------
(* Types *)

\* NewPipeline registers the data steps in this order.
Steps == <<"validate_sender", "strip_tracking_pixels", "deliver", "parse_dsn", "check_spam",
           "classify_email", "apply_filter_rules", "finalize", "notify">>

StepStatus == {"pass", "fail", "neutral", "quarantined", "error", "skipped"}
Halting == {"fail", "error"}
Phase == {"none", "start", "run", "thread", "insert", "attach", "attrow", "log", "close", "end"}
Context == [action : FilterAction \cup {""}, matched : BOOLEAN, isRead : BOOLEAN,
            raw : {"received", "cleaned"}]
NoEmail == [status |-> "none"]
Email == [status : EmailStatus, is_read : BOOLEAN, is_star : BOOLEAN, category : Category \cup {"none"},
          thread : Msg]
Blob == [processed : {"none", "received", "cleaned"}, original : {"none", "received"}, attachment : BOOLEAN]
NoChecks == [envelope |-> <<>>]
Unasked == [reached |-> FALSE]

Init ==
  /\ expected \in Workloads
  /\ at = [m \in Msg |-> 1]
  /\ phase = [m \in Msg |-> "none"]
  /\ result = [m \in Msg |-> "pass"]
  /\ ictx = [m \in Msg |-> [action |-> "", matched |-> FALSE, isRead |-> FALSE, raw |-> "received"]]
  /\ threadId = [m \in Msg |-> m]
  /\ ingestion = [m \in Msg |-> "absent"]
  /\ steplog = [m \in Msg |-> [i \in 1..Len(Steps) |-> "unlogged"]]
  /\ blob = [m \in Msg |-> [processed |-> "none", original |-> "none", attachment |-> FALSE]]
  /\ thread = {}
  /\ email = [m \in Msg |-> NoEmail]
  /\ attachment = {}
  /\ failedJobs = {}
  /\ bell = {}
  /\ checks = [m \in Msg |-> NoChecks]
  /\ spam = [m \in Msg |-> Unasked]
  /\ moved = {}
  /\ known = [m \in Msg |-> {}]
  /\ swallowed = {}

-----------------------------------------------------------------------------
(* Helpers *)

Stored(m) == email[m] # NoEmail

Running(m, step) == phase[m] = "run" /\ Steps[at[m]] = step

\* The step function returns.
Return(m, status) ==
  /\ phase' = [phase EXCEPT ![m] = "log"]
  /\ result' = [result EXCEPT ![m] = status]
  /\ UNCHANGED at

Goto(m, p) == phase' = [phase EXCEPT ![m] = p] /\ UNCHANGED <<at, result>>

\* An error of call c that the code only logs.
Swallow(m, c) == swallowed' = swallowed \cup {<<m, c>>}

\* resolveFilterAction: what Finalize writes for an action.
Resolved(action) ==
  [status |-> CASE action = "archive" -> "ARCHIVED"
                [] action = "delete" -> "DELETED"
                [] action = "quarantine" -> "QUARANTINED"
                [] OTHER -> "INBOX",
   is_read |-> action = "mark_read",
   is_star |-> action = "star"]

\* Mutants of Related: the query has lost its mailbox, or asks for the inbox only.
RelatedAnyMailbox(m) == {r \in RefersTo[m] : Stored(r)}
RelatedInbox(m) == {r \in RefersTo[m] : email[r].status = "INBOX" /\ MailboxOf[r] = MailboxOf[m]}

\* The emails of m's mailbox that FindThreadIDByMessageIDs can find for it.
Related(m) == {r \in RefersTo[m] : Stored(r) /\ MailboxOf[r] = MailboxOf[m]}

\* Mutant of Closing: an error is not told from success.
ClosingForgetsErrors(status) == IF status = "fail" THEN "rejected" ELSE "accepted"

\* What Process writes into the ingestion row when it stops after this status.
Closing(status) ==
  CASE status = "fail" -> "rejected"
    [] status = "error" -> "failed"
    [] OTHER -> "accepted"

-----------------------------------------------------------------------------
(* The goroutine *)

\* handleInbound: the message is acknowledged and its goroutine started.
Receive(m) ==
  /\ m \in expected
  /\ phase[m] = "none"
  /\ Goto(m, "start")
  /\ UNCHANGED <<ictx, threadId, tables, history>>

\* Process: CreateIngestion.
Begin(m) ==
  /\ phase[m] = "start"
  /\ Goto(m, "run")
  /\ ingestion' = [ingestion EXCEPT ![m] = "processing"]
  /\ known' = [known EXCEPT ![m] = {r \in Msg : Stored(r)}]
  /\ UNCHANGED <<ictx, threadId, steplog, blob, thread, email, attachment, failedJobs, bell,
                 checks, spam, moved, swallowed>>

\* Process: CreateIngestion fails and the message is dropped.
BeginFails(m) ==
  /\ "db" \in Faults[m]
  /\ phase[m] = "start"
  /\ Goto(m, "end") /\ Swallow(m, "begin")
  /\ UNCHANGED <<ictx, threadId, tables, checks, spam, moved, known>>

ValidateSender(m) ==
  /\ Running(m, "validate_sender")
  /\ \E c \in Senders[m] :
       /\ checks' = [checks EXCEPT ![m] = c]
       /\ IF SenderPasses(c)
          THEN Return(m, "pass") /\ UNCHANGED ictx
          ELSE Return(m, "quarantined") /\ ictx' = [ictx EXCEPT ![m].action = "quarantine"]
  /\ UNCHANGED <<threadId, tables, spam, moved, known, swallowed>>

HasPixels(m) == Stripped(Images[m]) # Images[m]

\* Nothing to strip or to read, or pixels in a message that cannot be rebuilt.
LeavePixels(m) ==
  /\ Running(m, "strip_tracking_pixels")
  /\ \/ (~HasPixels(m) \/ "malformed" \in Traits[m]) /\ Return(m, "pass")
     \/ HasPixels(m) /\ Return(m, "neutral")
  /\ UNCHANGED <<ictx, threadId, tables, history>>

\* The original is archived, then the cleaned message takes its place.
StripPixels(m) ==
  /\ Running(m, "strip_tracking_pixels")
  /\ HasPixels(m)
  /\ ictx' = [ictx EXCEPT ![m].raw = "cleaned"]
  /\ Return(m, "pass")
  /\ \/ /\ blob' = [blob EXCEPT ![m].original = ictx[m].raw]
        /\ UNCHANGED swallowed
     \/ /\ "storage" \in Faults[m]
        /\ Swallow(m, "original")
        /\ UNCHANGED blob
  /\ UNCHANGED <<threadId, ingestion, steplog, thread, email, attachment, failedJobs, bell,
                 checks, spam, moved, known>>

\* Deliver -> Persist: the body is saved first.  A malformed message, where the
\* parser gives up on it, fails after that.
SaveBody(m) ==
  /\ Running(m, "deliver")
  /\ blob' = [blob EXCEPT ![m].processed = ictx[m].raw]
  /\ Goto(m, "thread") \/ ("malformed" \in Traits[m] /\ Return(m, "error"))
  /\ UNCHANGED <<ictx, threadId, ingestion, steplog, thread, email, attachment, failedJobs, bell, history>>

SaveBodyFails(m) ==
  /\ "storage" \in Faults[m]
  /\ Running(m, "deliver")
  /\ Return(m, "error")
  /\ UNCHANGED <<ictx, threadId, tables, history>>

\* FindThreadIDByMessageIDs finds one of the related emails (LIMIT 1: any).
JoinThread(m) ==
  /\ phase[m] = "thread"
  /\ \E r \in Related(m) : threadId' = [threadId EXCEPT ![m] = email[r].thread]
  /\ Goto(m, "insert")
  /\ UNCHANGED <<ictx, tables, history>>

\* Nothing is found, or the lookup's error is ignored: CreateThread.
OpenThread(m) ==
  /\ phase[m] = "thread"
  /\ \/ Related(m) = {} /\ UNCHANGED swallowed
     \/ "db" \in Faults[m] /\ Swallow(m, "lookup")
  /\ thread' = thread \cup {m}
  /\ Goto(m, "insert")
  /\ UNCHANGED <<ictx, threadId, ingestion, steplog, blob, email, attachment, failedJobs, bell,
                 checks, spam, moved, known>>

\* CreateThread or CreateEmail fails.
PersistFails(m) ==
  /\ "db" \in Faults[m]
  /\ phase[m] \in {"thread", "insert"}
  /\ Return(m, "error")
  /\ UNCHANGED <<ictx, threadId, tables, history>>

\* What Deliver asks for: an email that nobody sees before Finalize.
Delivered(m) == [status |-> "QUARANTINED", is_read |-> FALSE, is_star |-> FALSE,
                 category |-> "none", thread |-> threadId[m]]

CreateEmail(m, row) == email' = [email EXCEPT ![m] = row]
SetEmailCategory(m, c) == email' = [email EXCEPT ![m].category = c]
SetEmailFields(m, f) ==
  email' = [email EXCEPT ![m].status = f.status, ![m].is_read = f.is_read, ![m].is_star = f.is_star]

\* The attachment comes after the email.
InsertEmail(m) ==
  /\ phase[m] = "insert"
  /\ CreateEmail(m, Delivered(m))
  /\ IF "attachment" \in Traits[m] THEN Goto(m, "attach") ELSE Return(m, "pass")
  /\ UNCHANGED <<ictx, threadId, ingestion, steplog, blob, thread, attachment, failedJobs, bell, history>>

SaveAttachment(m) ==
  /\ phase[m] = "attach"
  /\ blob' = [blob EXCEPT ![m].attachment = TRUE]
  /\ Goto(m, "attrow")
  /\ UNCHANGED <<ictx, threadId, ingestion, steplog, thread, email, attachment, failedJobs, bell, history>>

CreateAttachment(m) ==
  /\ phase[m] = "attrow"
  /\ attachment' = attachment \cup {m}
  /\ Return(m, "pass")
  /\ UNCHANGED <<ictx, threadId, ingestion, steplog, blob, thread, email, failedJobs, bell, history>>

\* The attachment cannot be saved or recorded: it is left out.
SkipAttachment(m) ==
  /\ \/ "storage" \in Faults[m] /\ phase[m] = "attach"
     \/ "db" \in Faults[m] /\ phase[m] = "attrow"
  /\ Swallow(m, "attachment")
  /\ Return(m, "pass")
  /\ UNCHANGED <<ictx, threadId, tables, checks, spam, moved, known>>

\* A bounce fails the outbound job it names, or the error is only logged.
ParseDSN(m) ==
  /\ Running(m, "parse_dsn")
  /\ \/ /\ "bounce" \notin Traits[m]
        /\ Return(m, "skipped")
        /\ UNCHANGED <<failedJobs, swallowed>>
     \/ /\ "bounce" \in Traits[m]
        /\ Return(m, "pass")
        /\ \/ failedJobs' = failedJobs \cup {m} /\ UNCHANGED swallowed
           \/ "db" \in Faults[m] /\ Swallow(m, "bounce") /\ UNCHANGED failedJobs
  /\ UNCHANGED <<ictx, threadId, ingestion, steplog, blob, thread, email, attachment, bell,
                 checks, spam, moved, known>>

CheckSpam(m) ==
  /\ Running(m, "check_spam")
  /\ \/ Spamminess[m] = {} /\ Return(m, "skipped") /\ UNCHANGED spam
     \/ \E answer \in Spamminess[m] :
          /\ Return(m, SpamStatus(answer, Threshold))
          /\ spam' = [spam EXCEPT ![m] = answer]
  /\ UNCHANGED <<ictx, threadId, tables, checks, moved, known, swallowed>>

\* Without a classifier, or a category in its reply, the step is skipped: only the
\* write may fail.
ClassifyEmail(m) ==
  /\ Running(m, "classify_email")
  /\ \/ Replies[m] = {} /\ Return(m, "skipped") /\ UNCHANGED email
     \/ \E reply \in Replies[m] :
          LET category == Classify(Classifier, reply) IN
          \/ category = "" /\ Return(m, "skipped") /\ UNCHANGED email
          \/ /\ category # "" /\ Return(m, "pass")
             /\ SetEmailCategory(m, category)
          \/ "db" \in Faults[m] /\ category # "" /\ Return(m, "error") /\ UNCHANGED email
  /\ UNCHANGED <<ictx, threadId, ingestion, steplog, blob, thread, attachment, failedJobs, bell, history>>

\* No rule matches, a rule does, or a rule (or the query) is in error.
ApplyFilterRules(m) ==
  /\ Running(m, "apply_filter_rules")
  /\ \/ Return(m, "pass") /\ UNCHANGED ictx
     \/ (Actions[m] # {} \/ "db" \in Faults[m]) /\ Return(m, "error") /\ UNCHANGED ictx
     \/ /\ Return(m, "pass")
        /\ \E a \in Actions[m] : ictx' = [ictx EXCEPT ![m].action = a, ![m].matched = TRUE]
  /\ UNCHANGED <<threadId, tables, history>>

\* SetEmailFields, whatever users have made of the email since it was inserted.
Finalize(m) ==
  LET r == Resolved(ictx[m].action) IN
  /\ Running(m, "finalize")
  /\ \/ /\ Return(m, "pass")
        /\ SetEmailFields(m, r)
        /\ ictx' = [ictx EXCEPT ![m].isRead = r.is_read]
        /\ moved' = moved \ {m}
     \/ "db" \in Faults[m] /\ Return(m, "error") /\ UNCHANGED <<email, ictx, moved>>
  /\ UNCHANGED <<threadId, ingestion, steplog, blob, thread, attachment, failedJobs, bell,
                 checks, spam, known, swallowed>>

Notify(m) ==
  /\ Running(m, "notify")
  /\ \/ ictx[m].isRead /\ Return(m, "skipped") /\ UNCHANGED bell
     \/ ~ictx[m].isRead /\ Return(m, "pass") /\ bell' = bell \cup {m}
     \/ "db" \in Faults[m] /\ ~ictx[m].isRead /\ Return(m, "error") /\ UNCHANGED bell
  /\ UNCHANGED <<ictx, threadId, ingestion, steplog, blob, thread, email, attachment, failedJobs, history>>

\* Mutants of Log: it goes on after a step in error, or ends the goroutine on an
\* error without closing the ingestion.
LogHaltsOn(m, statuses, last) ==
  /\ phase[m] = "log"
  /\ steplog' = [steplog EXCEPT ![m][at[m]] = result[m]]
  /\ IF result[m] \in statuses \/ at[m] = Len(Steps)
     THEN phase' = [phase EXCEPT ![m] = last] /\ UNCHANGED at
     ELSE phase' = [phase EXCEPT ![m] = "run"] /\ at' = [at EXCEPT ![m] = @ + 1]
  /\ UNCHANGED <<result, ictx, threadId, ingestion, blob, thread, email, attachment, failedJobs, bell, history>>
LogIgnoresError(m) == LogHaltsOn(m, {"fail"}, "close")
LogSkipsClose(m) == LogHaltsOn(m, Halting, IF result[m] = "error" THEN "end" ELSE "close")

\* runStep: CreateIngestionStep, whose error is only logged; Process goes on to
\* the next step unless the status ends the ingestion.
Log(m) ==
  /\ phase[m] = "log"
  /\ \/ steplog' = [steplog EXCEPT ![m][at[m]] = result[m]] /\ UNCHANGED swallowed
     \/ /\ "db" \in Faults[m]
        /\ Cardinality({i \in 1..(at[m] - 1) : steplog[m][i] = "unlogged"}) < MaxLostRows
        /\ Swallow(m, "log")
        /\ UNCHANGED steplog
  /\ IF result[m] \in Halting \/ at[m] = Len(Steps)
     THEN phase' = [phase EXCEPT ![m] = "close"] /\ UNCHANGED at
     ELSE phase' = [phase EXCEPT ![m] = "run"] /\ at' = [at EXCEPT ![m] = @ + 1]
  /\ UNCHANGED <<result, ictx, threadId, ingestion, blob, thread, email, attachment, failedJobs, bell,
                 checks, spam, moved, known>>

\* Process: the last UpdateIngestionStatus.
Close(m) ==
  /\ phase[m] = "close"
  /\ ingestion' = [ingestion EXCEPT ![m] = Closing(result[m])]
  /\ Goto(m, "end")
  /\ UNCHANGED <<ictx, threadId, steplog, blob, thread, email, attachment, failedJobs, bell, history>>

CloseFails(m) ==
  /\ "db" \in Faults[m]
  /\ phase[m] = "close"
  /\ Goto(m, "end") /\ Swallow(m, "close")
  /\ UNCHANGED <<ictx, threadId, tables, checks, spam, moved, known>>

\* The goroutine panics and is recovered, or the process stops.  Nothing resumes
\* the ingestion.
Abort(m) ==
  /\ "crash" \in Faults[m]
  /\ phase[m] \notin {"none", "end"}
  /\ Goto(m, "end") /\ Swallow(m, "abort")
  /\ UNCHANGED <<ictx, threadId, tables, checks, spam, moved, known>>

\* A user finds the email, already during the pipeline, and moves it.
Move(m, s) ==
  /\ Stored(m)
  /\ email' = [email EXCEPT ![m].status = s]
  /\ moved' = moved \cup {m}
  /\ UNCHANGED <<at, phase, result, ictx, threadId, ingestion, steplog, blob, thread, attachment,
                 failedJobs, bell, checks, spam, known, swallowed>>

Step(m) ==
  \/ Begin(m) \/ ValidateSender(m) \/ LeavePixels(m) \/ StripPixels(m)
  \/ SaveBody(m) \/ JoinThread(m) \/ OpenThread(m) \/ InsertEmail(m)
  \/ SaveAttachment(m) \/ CreateAttachment(m)
  \/ ParseDSN(m) \/ CheckSpam(m) \/ ClassifyEmail(m) \/ ApplyFilterRules(m)
  \/ Finalize(m) \/ Notify(m) \/ Log(m) \/ Close(m)

Fault(m) ==
  \/ BeginFails(m) \/ SaveBodyFails(m) \/ PersistFails(m) \/ SkipAttachment(m)
  \/ CloseFails(m) \/ Abort(m)

Next ==
  /\ \E m \in Msg :
       \/ Receive(m) \/ Step(m) \/ Fault(m)
       \/ \E s \in UserMoves[m] : Move(m, s)
  /\ UNCHANGED expected

Spec == Init /\ [][Next]_vars

\* Go schedules every goroutine, and the calls it makes return.
Fairness == \A m \in Msg : WF_vars(Step(m) /\ UNCHANGED expected)

FairSpec == Spec /\ Fairness

-----------------------------------------------------------------------------
(* Properties *)

TypeOK ==
  /\ expected \in Workloads
  /\ at \in [Msg -> 1..Len(Steps)]
  /\ phase \in [Msg -> Phase]
  /\ result \in [Msg -> StepStatus]
  /\ ictx \in [Msg -> Context]
  /\ threadId \in [Msg -> Msg]
  /\ ingestion \in [Msg -> {"absent", "processing", "accepted", "rejected", "failed"}]
  /\ steplog \in [Msg -> [1..Len(Steps) -> StepStatus \cup {"unlogged"}]]
  /\ blob \in [Msg -> Blob]
  /\ email \in [Msg -> Email \cup {NoEmail}]
  /\ thread \subseteq Msg /\ attachment \subseteq Msg /\ failedJobs \subseteq Msg
  /\ bell \subseteq Msg /\ moved \subseteq Msg
  /\ checks \in [Msg -> SenderChecks \cup {NoChecks}]
  /\ spam \in [Msg -> Answer \cup {Unasked}]
  /\ known \in [Msg -> SUBSET Msg]
  /\ swallowed \subseteq Msg \X {"begin", "original", "lookup", "attachment", "bounce", "log",
                               "close", "abort"}

\* rspamd has called m spam.
Spam(m) ==
  /\ spam[m] # Unasked /\ spam[m].reached /\ spam[m].json
  /\ spam[m].action = "reject" \/ spam[m].score >= Threshold

\* The domain that the From header names asks for quarantine or rejection of what it
\* has not authenticated, and nothing that passed speaks for it.
Forged(c) ==
  LET from == HeaderFromDomain(c.from) IN
  /\ from # "" /\ c.dmarc[from] \in {"quarantine", "reject"}
  /\ ~(c.spf /\ ExtractDomain(c.envelope) = from)
  /\ from \notin {s.domain : s \in {t \in c.dkim : t.pass}}

\* Unless a user has moved it, an email is out of quarantine only if rspamd did
\* not call it spam, and if it is not forged by the policy of its From domain and
\* something vouched for it, or a filter rule overruled that, however far its
\* goroutine got.
ScreenedBeforeInbox ==
  \A m \in Msg : Stored(m) /\ m \notin moved /\ email[m].status # "QUARANTINED" =>
    /\ ~Spam(m)
    /\ ictx[m].matched \/ (SenderPasses(checks[m]) /\ ~Forged(checks[m]))
    /\ email[m].status = Resolved(ictx[m].action).status

\* An ingestion is "accepted" only if everything the message called for has been
\* done, but for the errors the code only logs; "rejected" only for spam.
HonestIngestion ==
  \A m \in Msg :
    /\ ingestion[m] = "accepted" =>
         /\ Stored(m) /\ ~Spam(m)
         /\ m \in bell \/ ictx[m].isRead
         /\ "attachment" \in Traits[m] => m \in attachment \/ <<m, "attachment">> \in swallowed
         /\ "bounce" \in Traits[m] => m \in failedJobs \/ <<m, "bounce">> \in swallowed
         /\ \A i \in 1..Len(Steps) : steplog[m][i] = "unlogged" => <<m, "log">> \in swallowed
    /\ ingestion[m] \in {"accepted", "rejected", "failed"} =>
         (ingestion[m] = "rejected" <=> Spam(m))

\* Whatever has failed or been aborted, an email row has its body in the store
\* and its thread in its own mailbox, an attachment row has its content, and the
\* stripped original is kept unless archiving it failed.
NothingDangles ==
  \A m \in Msg :
    /\ Stored(m) => /\ blob[m].processed # "none"
                    /\ email[m].thread \in thread
                    /\ MailboxOf[email[m].thread] = MailboxOf[m]
    /\ m \in attachment => Stored(m) /\ blob[m].attachment
    /\ blob[m].processed = "cleaned" => blob[m].original = "received" \/ <<m, "original">> \in swallowed

\* The log of an ingestion reads as one run of the steps: a step that failed is
\* the last one in it, and gaps are logged errors.
LogIsOneRun ==
  \A m \in Msg, i \in 1..Len(Steps) :
    /\ steplog[m][i] \in Halting => \A k \in 1..Len(Steps) : k > i => steplog[m][k] = "unlogged"
    /\ steplog[m][i] # "unlogged" =>
         \A k \in 1..Len(Steps) : k < i /\ steplog[m][k] = "unlogged" => <<m, "log">> \in swallowed

\* A reply joins the thread of a message it refers to if any of these was in the
\* mailbox before the reply's goroutine started.
RepliesJoin ==
  \A m \in Msg :
    LET before == {r \in RefersTo[m] \cap known[m] : MailboxOf[r] = MailboxOf[m]} IN
    Stored(m) /\ before # {} /\ <<m, "lookup">> \notin swallowed =>
      \E r \in RefersTo[m] : r # m /\ Stored(r) /\ email[m].thread = email[r].thread

\* Every acknowledged message comes to the end of the pipeline, whatever steps
\* fail on the way and whoever moves the email, and its ingestion says how,
\* unless the process was stopped or the very write of that row failed.
\* (<>[] says as much as ~> here, as each message arrives once.)
EveryIngestionCloses ==
  <>[](\A m \in Msg : phase[m] # "none" =>
    \/ ingestion[m] \in {"accepted", "rejected", "failed"}
    \/ phase[m] = "end" /\ \E c \in {"begin", "close", "abort"} : <<m, c>> \in swallowed)
=============================================================================
