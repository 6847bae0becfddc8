---------------------- MODULE IngestionPipelineProofs ----------------------
(***************************************************************************)
(* Proofs about IngestionPipeline, for any messages, mailboxes, verdicts   *)
(* and faults, and however the goroutines, the users and the faults        *)
(* interleave.                                                             *)
(*                                                                         *)
(* What the invariants say of the tables follows from what each goroutine  *)
(* has behind it.  Passed(m, k) is that: step k of m has returned a status *)
(* that lets the run go on.                                                *)
(***************************************************************************)
EXTENDS IngestionPipeline, TLAPS

Passed(m, k) ==
  \/ at[m] > k
  \/ at[m] = k /\ phase[m] \in {"log", "close"} /\ result[m] \notin Halting

Waiting(m, k) == at[m] < k \/ (at[m] = k /\ phase[m] \in {"none", "start", "run"})

\* Where in a step a goroutine can stand, and that Process closes the row last.
Placed(m) ==
  /\ phase[m] \in {"none", "start"} => at[m] = 1
  /\ phase[m] \in {"thread", "insert", "attach", "attrow"} => at[m] = 3
  /\ phase[m] = "close" => result[m] \in Halting \/ at[m] = 9
  /\ phase[m] # "end" => ingestion[m] \in {"absent", "processing"}

\* The filter action is the sender's quarantine until a rule replaces it; rspamd's
\* answer is about the step that ends the run; what Finalize wrote still stands.
Screened(m) ==
  /\ Passed(m, 1) => \/ ictx[m].matched \/ ictx[m].action = "quarantine"
                     \/ SenderPasses(checks[m])
  /\ Waiting(m, 5) => spam[m] = Unasked
  /\ Spam(m) => /\ at[m] = 5 /\ phase[m] \in {"log", "close", "end"}
                /\ phase[m] # "end" => result[m] = "fail"
  /\ phase[m] \in {"log", "close"} /\ result[m] = "fail" => Spam(m)
  /\ Stored(m) /\ m \notin moved /\ email[m].status # "QUARANTINED" =>
       at[m] >= 8 /\ email[m].status = Resolved(ictx[m].action).status

\* What each step that was passed has left behind.
Done(m) ==
  /\ Passed(m, 3) => /\ Stored(m)
                     /\ "attachment" \in Traits[m] => m \in attachment \/ <<m, "attachment">> \in swallowed
  /\ Passed(m, 4) => ("bounce" \in Traits[m] => m \in failedJobs \/ <<m, "bounce">> \in swallowed)
  /\ Passed(m, 9) => m \in bell \/ ictx[m].isRead

\* How far Persist has come, and that it inserts one email.
Persisted(m) ==
  /\ Waiting(m, 3) \/ phase[m] \in {"thread", "insert"} => ~Stored(m)
  /\ phase[m] \in {"attach", "attrow"} => Stored(m)
  /\ phase[m] \in {"thread", "insert"} \/ Stored(m) => blob[m].processed # "none"
  /\ phase[m] = "attrow" => blob[m].attachment
  /\ m \in attachment => Stored(m) /\ blob[m].attachment
  /\ Waiting(m, 2) => ictx[m].raw = "received"
  /\ ictx[m].raw = "cleaned" \/ blob[m].processed = "cleaned" =>
       blob[m].original = "received" \/ <<m, "original">> \in swallowed

\* The earlier emails that the lookup of m's thread may find.
Earlier(m) == {r \in RefersTo[m] \cap known[m] : MailboxOf[r] = MailboxOf[m]}

\* The thread that m is inserted in is one of its mailbox, and of its conversation.
Threaded(m) ==
  /\ Waiting(m, 3) \/ phase[m] = "thread" => threadId[m] = m
  /\ phase[m] = "insert" => threadId[m] \in thread /\ MailboxOf[threadId[m]] = MailboxOf[m]
  /\ Stored(m) => email[m].thread \in thread /\ MailboxOf[email[m].thread] = MailboxOf[m]
  /\ \A r \in known[m] : Stored(r)
  /\ phase[m] = "insert" /\ Earlier(m) # {} /\ <<m, "lookup">> \notin swallowed =>
       \E r \in RefersTo[m] : r # m /\ Stored(r) /\ threadId[m] = email[r].thread
  /\ Stored(m) /\ Earlier(m) # {} /\ <<m, "lookup">> \notin swallowed =>
       \E r \in RefersTo[m] : r # m /\ Stored(r) /\ email[m].thread = email[r].thread

\* The log is written up to the current step, and an ending status ends it.
LoggedSoFar(m) ==
  \A i \in 1..9 :
    /\ steplog[m][i] # "unlogged" => i < at[m] \/ (i = at[m] /\ phase[m] \in {"close", "end"})
    /\ steplog[m][i] \in Halting => i = at[m]
    /\ steplog[m][i] = "unlogged" /\ (i < at[m] \/ (i = at[m] /\ phase[m] = "close")) =>
         <<m, "log">> \in swallowed

\* HonestIngestion, of one message.
Honest(m) ==
  /\ ingestion[m] = "accepted" =>
       /\ Stored(m) /\ ~Spam(m)
       /\ m \in bell \/ ictx[m].isRead
       /\ "attachment" \in Traits[m] => m \in attachment \/ <<m, "attachment">> \in swallowed
       /\ "bounce" \in Traits[m] => m \in failedJobs \/ <<m, "bounce">> \in swallowed
       /\ \A i \in 1..Len(Steps) : steplog[m][i] = "unlogged" => <<m, "log">> \in swallowed
  /\ ingestion[m] \in {"accepted", "rejected", "failed"} =>
       (ingestion[m] = "rejected" <=> Spam(m))

Inv(m) ==
  /\ Placed(m) /\ Screened(m) /\ Done(m) /\ Persisted(m)
  /\ Threaded(m) /\ LoggedSoFar(m) /\ Honest(m)

PipelineInv == \A m \in Msg : Inv(m)

IInv == TypeOK /\ PipelineInv

-----------------------------------------------------------------------------
(* A step of one goroutine, or of a user, seen from another message *)

Untouched(n) ==
  /\ UNCHANGED <<at[n], phase[n], result[n], ictx[n], threadId[n], ingestion[n], steplog[n],
                 blob[n], email[n], checks[n], spam[n], known[n]>>
  /\ n \in attachment' <=> n \in attachment
  /\ n \in failedJobs' <=> n \in failedJobs
  /\ n \in bell' <=> n \in bell
  /\ n \in moved' <=> n \in moved
  /\ \A c : <<n, c>> \in swallowed' <=> <<n, c>> \in swallowed

\* Threads and emails are never removed, and an email stays in its thread.
Growing ==
  /\ thread \subseteq thread'
  /\ \A r \in Msg : Stored(r) => Stored(r)' /\ email'[r].thread = email[r].thread

LEMMA UntouchedInv ==
  ASSUME TypeOK, NEW n \in Msg, Inv(n), Untouched(n), Growing
  PROVE  Inv(n)'
<1> USE DEF Untouched, Growing, Inv, Stored, Passed, Waiting
<1>1. Placed(n)'
  BY DEF Placed
<1>2. Screened(n)'
  BY DEF Screened, Spam
<1>3. Done(n)'
  BY DEF Done
<1>4. Persisted(n)'
  BY DEF Persisted
<1>5. Threaded(n)'
  BY PipelineAssumption DEF Threaded, Earlier, TypeOK
<1>6. LoggedSoFar(n)'
  BY DEF LoggedSoFar
<1>7. Honest(n)'
  BY DEF Honest, Spam
<1> QED
  BY <1>1, <1>2, <1>3, <1>4, <1>5, <1>6, <1>7

\* NewPipeline's order.
LEMMA StepNumbers ==
  /\ Len(Steps) = 9
  /\ \A i \in 1..9 :
       /\ Steps[i] = "validate_sender" <=> i = 1
       /\ Steps[i] = "strip_tracking_pixels" <=> i = 2
       /\ Steps[i] = "deliver" <=> i = 3
       /\ Steps[i] = "parse_dsn" <=> i = 4
       /\ Steps[i] = "check_spam" <=> i = 5
       /\ Steps[i] = "classify_email" <=> i = 6
       /\ Steps[i] = "apply_filter_rules" <=> i = 7
       /\ Steps[i] = "finalize" <=> i = 8
       /\ Steps[i] = "notify" <=> i = 9
BY DEF Steps

LEMMA RunsAt ==
  ASSUME TypeOK, NEW m \in Msg
  PROVE  /\ at[m] \in 1..9
         /\ Running(m, "validate_sender") => phase[m] = "run" /\ at[m] = 1
         /\ Running(m, "strip_tracking_pixels") => phase[m] = "run" /\ at[m] = 2
         /\ Running(m, "deliver") => phase[m] = "run" /\ at[m] = 3
         /\ Running(m, "parse_dsn") => phase[m] = "run" /\ at[m] = 4
         /\ Running(m, "check_spam") => phase[m] = "run" /\ at[m] = 5
         /\ Running(m, "classify_email") => phase[m] = "run" /\ at[m] = 6
         /\ Running(m, "apply_filter_rules") => phase[m] = "run" /\ at[m] = 7
         /\ Running(m, "finalize") => phase[m] = "run" /\ at[m] = 8
         /\ Running(m, "notify") => phase[m] = "run" /\ at[m] = 9
BY StepNumbers DEF Running, TypeOK

Calls == {"begin", "original", "lookup", "attachment", "bounce", "log", "close", "abort"}

LEMMA Swallowed ==
  ASSUME TypeOK, NEW m \in Msg, NEW c \in Calls, Swallow(m, c)
  PROVE  /\ swallowed' \subseteq Msg \X Calls
         /\ <<m, c>> \in swallowed'
         /\ \A d : <<m, d>> \in swallowed => <<m, d>> \in swallowed'
         /\ \A d : <<m, d>> \in swallowed' => d = c \/ <<m, d>> \in swallowed
         /\ \A n \in Msg \ {m} : \A d : <<n, d>> \in swallowed' <=> <<n, d>> \in swallowed
BY DEF Swallow, TypeOK, Calls

\* An action that neither inserts the email nor looks for its thread.
LEMMA ThreadedKept ==
  ASSUME TypeOK, NEW m \in Msg, Threaded(m), Growing,
         threadId'[m] = threadId[m], known'[m] = known[m], Stored(m)' => Stored(m),
         \A c : <<m, c>> \in swallowed => <<m, c>> \in swallowed',
         Waiting(m, 3)' \/ phase'[m] = "thread" => Waiting(m, 3) \/ phase[m] = "thread",
         phase'[m] = "insert" => phase[m] = "insert"
  PROVE  Threaded(m)'
<1>1. (Earlier(m) # {})' => Earlier(m) # {}
  BY DEF Earlier
<1>2. \A r \in RefersTo[m] : Stored(r) => Stored(r)' /\ email'[r].thread = email[r].thread
  BY PipelineAssumption DEF Growing
<1>3. \A r \in known[m] : Stored(r)'
  BY DEF Growing, Threaded, TypeOK
<1> QED
  BY <1>1, <1>2, <1>3 DEF Threaded, Growing

\* What a step of m has to be shown to do.
Good(m) ==
  /\ TypeOK' /\ Growing /\ Inv(m)'
  /\ \A n \in Msg \ {m} : Untouched(n)

-----------------------------------------------------------------------------
(* What the assignments to one field of a record leave *)

Marked(x, a) == [x EXCEPT !.action = a]
Matched(x, a) == [x EXCEPT !.action = a, !.matched = TRUE]
Cleaned(x) == [x EXCEPT !.raw = "cleaned"]
ReadAs(x, b) == [x EXCEPT !.isRead = b]
Archived(x, r) == [x EXCEPT !.original = r]
Saved(x, r) == [x EXCEPT !.processed = r]
Filled(x) == [x EXCEPT !.attachment = TRUE]
Sorted(e, c) == [e EXCEPT !.category = c]
Filed(e, f) == [e EXCEPT !.status = f.status, !.is_read = f.is_read, !.is_star = f.is_star]
MovedTo(e, s) == [e EXCEPT !.status = s]

LEMMA MarkedFields ==
  ASSUME NEW x \in Context, NEW a \in FilterAction
  PROVE  /\ Marked(x, a) \in Context /\ Marked(x, a).action = a /\ Marked(x, a).matched = x.matched
         /\ Marked(x, a).isRead = x.isRead /\ Marked(x, a).raw = x.raw
BY DEF Context, Marked

LEMMA MatchedFields ==
  ASSUME NEW x \in Context, NEW a \in FilterAction
  PROVE  /\ Matched(x, a) \in Context /\ Matched(x, a).action = a /\ Matched(x, a).matched
         /\ Matched(x, a).isRead = x.isRead /\ Matched(x, a).raw = x.raw
BY DEF Context, Matched

LEMMA CleanedFields ==
  ASSUME NEW x \in Context
  PROVE  /\ Cleaned(x) \in Context /\ Cleaned(x).action = x.action /\ Cleaned(x).matched = x.matched
         /\ Cleaned(x).isRead = x.isRead /\ Cleaned(x).raw = "cleaned"
BY DEF Context, Cleaned

LEMMA ReadAsFields ==
  ASSUME NEW x \in Context, NEW b \in BOOLEAN
  PROVE  /\ ReadAs(x, b) \in Context /\ ReadAs(x, b).action = x.action
         /\ ReadAs(x, b).matched = x.matched /\ ReadAs(x, b).isRead = b /\ ReadAs(x, b).raw = x.raw
BY DEF Context, ReadAs

LEMMA ArchivedFields ==
  ASSUME NEW x \in Blob, NEW r \in {"received", "none"}
  PROVE  /\ Archived(x, r) \in Blob /\ Archived(x, r).original = r
         /\ Archived(x, r).processed = x.processed /\ Archived(x, r).attachment = x.attachment
BY DEF Blob, Archived

LEMMA SavedFields ==
  ASSUME NEW x \in Blob, NEW r \in {"received", "cleaned"}
  PROVE  /\ Saved(x, r) \in Blob /\ Saved(x, r).processed = r
         /\ Saved(x, r).original = x.original /\ Saved(x, r).attachment = x.attachment
BY DEF Blob, Saved

LEMMA FilledFields ==
  ASSUME NEW x \in Blob
  PROVE  /\ Filled(x) \in Blob /\ Filled(x).attachment
         /\ Filled(x).original = x.original /\ Filled(x).processed = x.processed
BY DEF Blob, Filled

LEMMA StoredIsEmail ==
  ASSUME TypeOK, NEW m \in Msg
  PROVE  Stored(m) <=> email[m] \in Email
<1>1. NoEmail \notin Email
  BY DEF NoEmail, Email
<1> QED
  BY <1>1 DEF TypeOK, Stored

LEMMA SortedFields ==
  ASSUME NEW e \in Email, NEW c \in Category
  PROVE  /\ Sorted(e, c) \in Email /\ Sorted(e, c).status = e.status /\ Sorted(e, c).thread = e.thread
BY DEF Email, Sorted

LEMMA MovedToFields ==
  ASSUME NEW e \in Email, NEW s \in EmailStatus
  PROVE  /\ MovedTo(e, s) \in Email /\ MovedTo(e, s).thread = e.thread
BY DEF Email, MovedTo

LEMMA ResolvedFields ==
  ASSUME NEW a \in FilterAction \cup {""}
  PROVE  /\ Resolved(a).status \in EmailStatus
         /\ Resolved(a).is_read \in BOOLEAN /\ Resolved(a).is_star \in BOOLEAN
BY DEF Resolved, EmailStatus

LEMMA FiledFields ==
  ASSUME NEW e \in Email, NEW f, f.status \in EmailStatus, f.is_read \in BOOLEAN, f.is_star \in BOOLEAN
  PROVE  /\ Filed(e, f) \in Email /\ Filed(e, f).status = f.status /\ Filed(e, f).thread = e.thread
BY DEF Email, Filed

LEMMA DeliveredFields ==
  ASSUME TypeOK, NEW m \in Msg
  PROVE  /\ Delivered(m) \in Email /\ Delivered(m).status = "QUARANTINED"
         /\ Delivered(m).thread = threadId[m]
BY DEF Delivered, Email, EmailStatus, TypeOK

\* What an answer in JSON says of the message is what the step returns.
LEMMA SpamAnswered ==
  ASSUME NEW answer \in Answer
  PROVE  /\ SpamStatus(answer, Threshold) \in {"pass", "fail", "error"}
         /\ SpamStatus(answer, Threshold) = "fail" <=>
              /\ answer # Unasked /\ answer.reached /\ answer.json
              /\ answer.action = "reject" \/ answer.score >= Threshold
BY DEF Answer, SpamStatus, Checked, Unasked

\* A classifier's reply names a category or none.
LEMMA Classified ==
  ASSUME NEW reply
  PROVE  Classify(Classifier, reply) \in Category \cup {""}
BY DEF Classify, ClaudeClassify, OpenAIClassify, Named

-----------------------------------------------------------------------------
(* The steps *)

LEMMA ReceiveStep ==
  ASSUME TypeOK, NEW m \in Msg, Inv(m), Receive(m), UNCHANGED expected
  PROVE  Good(m)
<1>1. at[m] = 1 /\ phase[m] = "none"
  BY DEF Receive, Inv, Placed
<1>2. Goto(m, "start")
  BY DEF Receive
<1>3. UNCHANGED <<ictx, threadId, ingestion, steplog, blob, thread, email, attachment,
                  failedJobs, bell, checks, spam, moved, known, swallowed>>
  BY DEF Receive, tables, history
<1> USE <1>1, <1>3 DEF Goto
<1>4. TypeOK'
  BY <1>2 DEF TypeOK, Phase, StepStatus
<1>5. Growing /\ \A n \in Msg \ {m} : Untouched(n)
  BY <1>2 DEF TypeOK, Growing, Untouched, Stored
<1>6. Placed(m)' /\ LoggedSoFar(m)' /\ Honest(m)' /\ Done(m)'
  BY <1>2 DEF Placed, LoggedSoFar, Honest, Done, Inv, TypeOK, Passed, Stored, Spam, Halting
<1>7. Screened(m)'
  BY <1>2 DEF Screened, Spam, Passed, Waiting, Stored, Inv, TypeOK, Halting, Placed
<1>8. Persisted(m)'
  BY <1>2 DEF Persisted, Waiting, Stored, Inv, TypeOK, Placed
<1>9. Threaded(m)'
  BY <1>2, <1>5, ThreadedKept DEF Waiting, Stored, Inv, TypeOK, Placed
<1> QED
  BY <1>4, <1>5, <1>6, <1>7, <1>8, <1>9 DEF Good, Inv

LEMMA BeginStep ==
  ASSUME TypeOK, NEW m \in Msg, Inv(m), Begin(m), UNCHANGED expected
  PROVE  Good(m)
<1>1. at[m] = 1 /\ phase[m] = "start"
  BY DEF Begin, Inv, Placed
<1>2. /\ Goto(m, "run")
      /\ ingestion' = [ingestion EXCEPT ![m] = "processing"]
      /\ known' = [known EXCEPT ![m] = {r \in Msg : Stored(r)}]
  BY DEF Begin
<1>3. UNCHANGED <<ictx, threadId, steplog, blob, thread, email, attachment, failedJobs, bell,
                  checks, spam, moved, swallowed>>
  BY DEF Begin, tables, history
<1> USE <1>1, <1>3 DEF Goto
<1>4. TypeOK'
  BY <1>2 DEF TypeOK, Phase, StepStatus
<1>5. Growing /\ \A n \in Msg \ {m} : Untouched(n)
  BY <1>2 DEF TypeOK, Growing, Untouched, Stored
<1>6. Placed(m)' /\ LoggedSoFar(m)' /\ Honest(m)' /\ Done(m)'
  BY <1>2 DEF Placed, LoggedSoFar, Honest, Done, Inv, TypeOK, Passed, Stored, Spam, Halting
<1>7. Screened(m)'
  BY <1>2 DEF Screened, Spam, Passed, Waiting, Stored, Inv, TypeOK, Halting, Placed
<1>8. Persisted(m)'
  BY <1>2 DEF Persisted, Waiting, Stored, Inv, TypeOK, Placed
<1>9. Threaded(m)'
  BY <1>2 DEF Threaded, Waiting, Stored, Inv, TypeOK, Persisted
<1> QED
  BY <1>4, <1>5, <1>6, <1>7, <1>8, <1>9 DEF Good, Inv

LEMMA BeginFailsStep ==
  ASSUME TypeOK, NEW m \in Msg, Inv(m), BeginFails(m), UNCHANGED expected
  PROVE  Good(m)
<1>1. at[m] = 1 /\ phase[m] = "start"
  BY DEF BeginFails, Inv, Placed
<1>2. Goto(m, "end")
  BY DEF BeginFails
<1>3. UNCHANGED <<ictx, threadId, ingestion, steplog, blob, thread, email, attachment,
                  failedJobs, bell, checks, spam, moved, known>>
  BY DEF BeginFails, tables, history
<1>4. /\ swallowed' \subseteq Msg \X Calls
      /\ \A d : <<m, d>> \in swallowed => <<m, d>> \in swallowed'
      /\ \A n \in Msg \ {m} : \A d : <<n, d>> \in swallowed' <=> <<n, d>> \in swallowed
      /\ <<m, "begin">> \in swallowed'
  BY Swallowed DEF BeginFails, Calls
<1> USE <1>1, <1>3, <1>4 DEF Goto
<1>5. TypeOK'
  BY <1>2 DEF TypeOK, Phase, StepStatus, Calls
<1>6. Growing /\ \A n \in Msg \ {m} : Untouched(n)
  BY <1>2 DEF TypeOK, Growing, Untouched, Stored
<1>7. Placed(m)' /\ LoggedSoFar(m)' /\ Honest(m)' /\ Done(m)'
  BY <1>2 DEF Placed, LoggedSoFar, Honest, Done, Inv, TypeOK, Passed, Stored, Spam, Halting
<1>8. Screened(m)'
  BY <1>2 DEF Screened, Spam, Passed, Waiting, Stored, Inv, TypeOK, Halting, Placed
<1>9. Persisted(m)'
  BY <1>2 DEF Persisted, Waiting, Stored, Inv, TypeOK, Placed
<1>10. Threaded(m)'
  BY <1>2, <1>6, ThreadedKept DEF Waiting, Stored, Inv, TypeOK, Placed
<1> QED
  BY <1>5, <1>6, <1>7, <1>8, <1>9, <1>10 DEF Good, Inv

LEMMA ValidateSenderStep ==
  ASSUME TypeOK, NEW m \in Msg, Inv(m), ValidateSender(m), UNCHANGED expected
  PROVE  Good(m)
<1>1. at[m] = 1 /\ phase[m] = "run"
  BY RunsAt DEF ValidateSender
<1>2. PICK c \in Senders[m], st \in {"pass", "quarantined"} :
        /\ Return(m, st)
        /\ checks' = [checks EXCEPT ![m] = c]
        /\ \/ SenderPasses(c) /\ ictx' = ictx
           \/ ictx' = [ictx EXCEPT ![m] = Marked(@, "quarantine")]
  BY DEF ValidateSender, Marked
<1>3. UNCHANGED <<threadId, ingestion, steplog, blob, thread, email, attachment, failedJobs,
                  bell, spam, moved, known, swallowed>>
  BY DEF ValidateSender, tables, history
<1>4. /\ ictx' \in [Msg -> Context]
      /\ SenderPasses(c) \/ ictx'[m].action = "quarantine"
      /\ ictx'[m].matched = ictx[m].matched /\ ictx'[m].isRead = ictx[m].isRead /\ ictx'[m].raw = ictx[m].raw
      /\ \A n \in Msg \ {m} : ictx'[n] = ictx[n]
  <2>1. ictx[m] \in Context /\ "quarantine" \in FilterAction
    BY DEF TypeOK, FilterAction
  <2>2. Marked(ictx[m], "quarantine") \in Context
    BY <2>1, MarkedFields
  <2>3. CASE ictx' = ictx /\ SenderPasses(c)
    BY <2>3 DEF TypeOK
  <2>4. CASE ictx' = [ictx EXCEPT ![m] = Marked(@, "quarantine")]
    BY <2>1, <2>2, <2>4, MarkedFields DEF TypeOK
  <2> QED
    BY <1>2, <2>3, <2>4
<1>5. checks' \in [Msg -> SenderChecks \cup {NoChecks}]
  BY <1>2, PipelineAssumption DEF TypeOK
<1> USE <1>1, <1>3, <1>4, <1>5 DEF Return
<1>6. TypeOK'
  BY <1>2 DEF TypeOK, Phase, StepStatus
<1>7. Growing /\ \A n \in Msg \ {m} : Untouched(n)
  BY <1>2 DEF TypeOK, Growing, Untouched, Stored
<1>8. Placed(m)' /\ LoggedSoFar(m)' /\ Honest(m)' /\ Done(m)'
  BY <1>2 DEF Placed, LoggedSoFar, Honest, Done, Inv, TypeOK, Passed, Stored, Spam, Halting
<1>9. Screened(m)'
  BY <1>2 DEF Screened, Spam, Passed, Waiting, Stored, Inv, TypeOK, Halting, Placed
<1>10. Persisted(m)'
  BY <1>2 DEF Persisted, Waiting, Stored, Inv, TypeOK, Placed
<1>11. Threaded(m)'
  BY <1>2, <1>7, ThreadedKept DEF Waiting, Stored, Inv, TypeOK, Placed
<1> QED
  BY <1>6, <1>7, <1>8, <1>9, <1>10, <1>11 DEF Good, Inv

LEMMA LeavePixelsStep ==
  ASSUME TypeOK, NEW m \in Msg, Inv(m), LeavePixels(m), UNCHANGED expected
  PROVE  Good(m)
<1>1. at[m] = 2 /\ phase[m] = "run"
  BY RunsAt DEF LeavePixels
<1>2. PICK st \in {"pass", "neutral"} :
        Return(m, st)
  BY DEF LeavePixels
<1>3. UNCHANGED <<ictx, threadId, ingestion, steplog, blob, thread, email, attachment,
                  failedJobs, bell, checks, spam, moved, known, swallowed>>
  BY DEF LeavePixels, tables, history
<1> USE <1>1, <1>3 DEF Return
<1>4. TypeOK'
  BY <1>2 DEF TypeOK, Phase, StepStatus
<1>5. Growing /\ \A n \in Msg \ {m} : Untouched(n)
  BY <1>2 DEF TypeOK, Growing, Untouched, Stored
<1>6. Placed(m)' /\ LoggedSoFar(m)' /\ Honest(m)' /\ Done(m)'
  BY <1>2 DEF Placed, LoggedSoFar, Honest, Done, Inv, TypeOK, Passed, Stored, Spam, Halting
<1>7. Screened(m)'
  BY <1>2 DEF Screened, Spam, Passed, Waiting, Stored, Inv, TypeOK, Halting, Placed
<1>8. Persisted(m)'
  BY <1>2 DEF Persisted, Waiting, Stored, Inv, TypeOK, Placed
<1>9. Threaded(m)'
  BY <1>2, <1>5, ThreadedKept DEF Waiting, Stored, Inv, TypeOK, Placed
<1> QED
  BY <1>4, <1>5, <1>6, <1>7, <1>8, <1>9 DEF Good, Inv

LEMMA StripPixelsStep ==
  ASSUME TypeOK, NEW m \in Msg, Inv(m), StripPixels(m), UNCHANGED expected
  PROVE  Good(m)
<1>1. at[m] = 2 /\ phase[m] = "run"
  BY RunsAt DEF StripPixels
<1>2. /\ Return(m, "pass")
      /\ ictx' = [ictx EXCEPT ![m] = Cleaned(@)]
      /\ \/ blob' = [blob EXCEPT ![m] = Archived(@, ictx[m].raw)] /\ UNCHANGED swallowed
         \/ UNCHANGED blob /\ Swallow(m, "original")
  BY DEF StripPixels, Cleaned, Archived
<1>3. UNCHANGED <<threadId, ingestion, steplog, thread, email, attachment, failedJobs, bell,
                  checks, spam, moved, known>>
  BY DEF StripPixels, tables, history
<1>4. /\ ictx' \in [Msg -> Context]
      /\ ictx'[m].action = ictx[m].action /\ ictx'[m].matched = ictx[m].matched
      /\ ictx'[m].isRead = ictx[m].isRead /\ ictx'[m].raw = "cleaned"
      /\ \A n \in Msg \ {m} : ictx'[n] = ictx[n]
  <2>1. ictx[m] \in Context /\ Cleaned(ictx[m]) \in Context
    BY CleanedFields DEF TypeOK
  <2> QED
    BY <1>2, <2>1, CleanedFields DEF TypeOK
<1>5. /\ blob' \in [Msg -> Blob]
      /\ blob'[m].processed = blob[m].processed /\ blob'[m].attachment = blob[m].attachment
      /\ blob'[m].original = "received" \/ <<m, "original">> \in swallowed'
      /\ \A n \in Msg \ {m} : blob'[n] = blob[n]
  <2>1. blob[m] \in Blob /\ ictx[m].raw = "received"
    BY <1>1 DEF TypeOK, Inv, Persisted, Waiting
  <2>2. Archived(blob[m], ictx[m].raw) \in Blob
    BY <2>1, ArchivedFields
  <2>3. CASE blob' = [blob EXCEPT ![m] = Archived(@, ictx[m].raw)]
    BY <2>1, <2>2, <2>3, ArchivedFields DEF TypeOK
  <2>4. CASE UNCHANGED blob /\ Swallow(m, "original")
    BY <2>4, Swallowed DEF TypeOK, Calls
  <2> QED
    BY <1>2, <2>3, <2>4
<1>6. /\ swallowed' \subseteq Msg \X Calls
      /\ \A d : <<m, d>> \in swallowed => <<m, d>> \in swallowed'
      /\ \A n \in Msg \ {m} : \A d : <<n, d>> \in swallowed' <=> <<n, d>> \in swallowed
  <2>1. CASE UNCHANGED swallowed
    BY <2>1 DEF TypeOK, Calls
  <2>2. CASE Swallow(m, "original")
    BY <2>2, Swallowed DEF Calls
  <2> QED
    BY <1>2, <2>1, <2>2
<1> USE <1>1, <1>3, <1>4, <1>5, <1>6 DEF Return
<1>7. TypeOK'
  BY <1>2 DEF TypeOK, Phase, StepStatus, Calls
<1>8. Growing /\ \A n \in Msg \ {m} : Untouched(n)
  BY <1>2 DEF TypeOK, Growing, Untouched, Stored
<1>9. Placed(m)' /\ LoggedSoFar(m)' /\ Honest(m)' /\ Done(m)'
  BY <1>2 DEF Placed, LoggedSoFar, Honest, Done, Inv, TypeOK, Passed, Stored, Spam, Halting
<1>10. Screened(m)'
  BY <1>2 DEF Screened, Spam, Passed, Waiting, Stored, Inv, TypeOK, Halting, Placed
<1>11. Persisted(m)'
  BY <1>2 DEF Persisted, Waiting, Stored, Inv, TypeOK, Placed
<1>12. Threaded(m)'
  BY <1>2, <1>8, ThreadedKept DEF Waiting, Stored, Inv, TypeOK, Placed
<1> QED
  BY <1>7, <1>8, <1>9, <1>10, <1>11, <1>12 DEF Good, Inv

LEMMA SaveBodyStep ==
  ASSUME TypeOK, NEW m \in Msg, Inv(m), SaveBody(m), UNCHANGED expected
  PROVE  Good(m)
<1>1. at[m] = 3 /\ phase[m] = "run"
  BY RunsAt DEF SaveBody
<1>2. /\ Goto(m, "thread") \/ Return(m, "error")
      /\ blob' = [blob EXCEPT ![m] = Saved(@, ictx[m].raw)]
  BY DEF SaveBody, Saved
<1>3. UNCHANGED <<ictx, threadId, ingestion, steplog, thread, email, attachment, failedJobs,
                  bell, checks, spam, moved, known, swallowed>>
  BY DEF SaveBody, tables, history
<1>4. /\ blob' \in [Msg -> Blob]
      /\ blob'[m].processed = ictx[m].raw /\ ictx[m].raw # "none"
      /\ blob'[m].original = blob[m].original /\ blob'[m].attachment = blob[m].attachment
      /\ \A n \in Msg \ {m} : blob'[n] = blob[n]
  <2>1. blob[m] \in Blob /\ ictx[m].raw \in {"received", "cleaned"}
    BY DEF TypeOK, Context
  <2>2. Saved(blob[m], ictx[m].raw) \in Blob
    BY <2>1, SavedFields
  <2> QED
    BY <1>2, <2>1, <2>2, SavedFields DEF TypeOK
<1> USE <1>1, <1>3, <1>4 DEF Return, Goto
<1>5. TypeOK'
  BY <1>2 DEF TypeOK, Phase, StepStatus
<1>6. Growing /\ \A n \in Msg \ {m} : Untouched(n)
  BY <1>2 DEF TypeOK, Growing, Untouched, Stored
<1>7. Placed(m)' /\ LoggedSoFar(m)' /\ Honest(m)' /\ Done(m)'
  BY <1>2 DEF Placed, LoggedSoFar, Honest, Done, Inv, TypeOK, Passed, Stored, Spam, Halting
<1>8. Screened(m)'
  BY <1>2 DEF Screened, Spam, Passed, Waiting, Stored, Inv, TypeOK, Halting, Placed
<1>9. Persisted(m)'
  BY <1>2 DEF Persisted, Waiting, Stored, Inv, TypeOK, Placed
<1>10. Threaded(m)'
  BY <1>2, <1>6, ThreadedKept DEF Waiting, Stored, Inv, TypeOK, Placed
<1> QED
  BY <1>5, <1>6, <1>7, <1>8, <1>9, <1>10 DEF Good, Inv

LEMMA SaveBodyFailsStep ==
  ASSUME TypeOK, NEW m \in Msg, Inv(m), SaveBodyFails(m), UNCHANGED expected
  PROVE  Good(m)
<1>1. at[m] = 3 /\ phase[m] = "run"
  BY RunsAt DEF SaveBodyFails
<1>2. Return(m, "error")
  BY DEF SaveBodyFails
<1>3. UNCHANGED <<ictx, threadId, ingestion, steplog, blob, thread, email, attachment,
                  failedJobs, bell, checks, spam, moved, known, swallowed>>
  BY DEF SaveBodyFails, tables, history
<1> USE <1>1, <1>3 DEF Return
<1>4. TypeOK'
  BY <1>2 DEF TypeOK, Phase, StepStatus
<1>5. Growing /\ \A n \in Msg \ {m} : Untouched(n)
  BY <1>2 DEF TypeOK, Growing, Untouched, Stored
<1>6. Placed(m)' /\ LoggedSoFar(m)' /\ Honest(m)' /\ Done(m)'
  BY <1>2 DEF Placed, LoggedSoFar, Honest, Done, Inv, TypeOK, Passed, Stored, Spam, Halting
<1>7. Screened(m)'
  BY <1>2 DEF Screened, Spam, Passed, Waiting, Stored, Inv, TypeOK, Halting, Placed
<1>8. Persisted(m)'
  BY <1>2 DEF Persisted, Waiting, Stored, Inv, TypeOK, Placed
<1>9. Threaded(m)'
  BY <1>2, <1>5, ThreadedKept DEF Waiting, Stored, Inv, TypeOK, Placed
<1> QED
  BY <1>4, <1>5, <1>6, <1>7, <1>8, <1>9 DEF Good, Inv

LEMMA OpenThreadStep ==
  ASSUME TypeOK, NEW m \in Msg, Inv(m), OpenThread(m), UNCHANGED expected
  PROVE  Good(m)
<1>1. at[m] = 3 /\ phase[m] = "thread"
  BY DEF OpenThread, Inv, Placed
<1>2. /\ Goto(m, "insert")
      /\ thread' = thread \cup {m}
      /\ \/ Related(m) = {} /\ UNCHANGED swallowed
         \/ Swallow(m, "lookup")
  BY DEF OpenThread
<1>3. UNCHANGED <<ictx, threadId, ingestion, steplog, blob, email, attachment, failedJobs, bell,
                  checks, spam, moved, known>>
  BY DEF OpenThread, tables, history
<1>4. /\ swallowed' \subseteq Msg \X Calls
      /\ \A d : <<m, d>> \in swallowed => <<m, d>> \in swallowed'
      /\ \A n \in Msg \ {m} : \A d : <<n, d>> \in swallowed' <=> <<n, d>> \in swallowed
      /\ Related(m) = {} \/ <<m, "lookup">> \in swallowed'
  <2>1. CASE Related(m) = {} /\ UNCHANGED swallowed
    BY <2>1 DEF TypeOK, Calls
  <2>2. CASE Swallow(m, "lookup")
    BY <2>2, Swallowed DEF Calls
  <2> QED
    BY <1>2, <2>1, <2>2
<1>5. Related(m) = {} => Earlier(m) = {}
  BY DEF Related, Earlier, Inv, Threaded, Stored
<1> USE <1>1, <1>3, <1>4, <1>5 DEF Goto
<1>6. TypeOK'
  BY <1>2 DEF TypeOK, Phase, StepStatus, Calls
<1>7. Growing /\ \A n \in Msg \ {m} : Untouched(n)
  BY <1>2 DEF TypeOK, Growing, Untouched, Stored
<1>8. Placed(m)' /\ LoggedSoFar(m)' /\ Honest(m)' /\ Done(m)'
  BY <1>2 DEF Placed, LoggedSoFar, Honest, Done, Inv, TypeOK, Passed, Stored, Spam, Halting
<1>9. Screened(m)'
  BY <1>2 DEF Screened, Spam, Passed, Waiting, Stored, Inv, TypeOK, Halting, Placed
<1>10. Persisted(m)'
  BY <1>2 DEF Persisted, Waiting, Stored, Inv, TypeOK, Placed
<1>11. Threaded(m)'
  BY <1>2 DEF Threaded, Waiting, Stored, Inv, TypeOK, Persisted, Earlier
<1> QED
  BY <1>6, <1>7, <1>8, <1>9, <1>10, <1>11 DEF Good, Inv

LEMMA PersistFailsStep ==
  ASSUME TypeOK, NEW m \in Msg, Inv(m), PersistFails(m), UNCHANGED expected
  PROVE  Good(m)
<1>1. at[m] = 3 /\ phase[m] \in {"thread", "insert"}
  BY DEF PersistFails, Inv, Placed
<1>2. Return(m, "error")
  BY DEF PersistFails
<1>3. UNCHANGED <<ictx, threadId, ingestion, steplog, blob, thread, email, attachment,
                  failedJobs, bell, checks, spam, moved, known, swallowed>>
  BY DEF PersistFails, tables, history
<1> USE <1>1, <1>3 DEF Return
<1>4. TypeOK'
  BY <1>2 DEF TypeOK, Phase, StepStatus
<1>5. Growing /\ \A n \in Msg \ {m} : Untouched(n)
  BY <1>2 DEF TypeOK, Growing, Untouched, Stored
<1>6. Placed(m)' /\ LoggedSoFar(m)' /\ Honest(m)' /\ Done(m)'
  BY <1>2 DEF Placed, LoggedSoFar, Honest, Done, Inv, TypeOK, Passed, Stored, Spam, Halting
<1>7. Screened(m)'
  BY <1>2 DEF Screened, Spam, Passed, Waiting, Stored, Inv, TypeOK, Halting, Placed
<1>8. Persisted(m)'
  BY <1>2 DEF Persisted, Waiting, Stored, Inv, TypeOK, Placed
<1>9. Threaded(m)'
  BY <1>2, <1>5, ThreadedKept DEF Waiting, Stored, Inv, TypeOK, Placed
<1> QED
  BY <1>4, <1>5, <1>6, <1>7, <1>8, <1>9 DEF Good, Inv

LEMMA InsertEmailStep ==
  ASSUME TypeOK, NEW m \in Msg, Inv(m), InsertEmail(m), UNCHANGED expected
  PROVE  Good(m)
<1>1. at[m] = 3 /\ phase[m] = "insert"
  BY DEF InsertEmail, Inv, Placed
<1>2. /\ \/ Goto(m, "attach")
         \/ "attachment" \notin Traits[m] /\ Return(m, "pass")
      /\ email' = [email EXCEPT ![m] = Delivered(m)]
  BY DEF InsertEmail, CreateEmail
<1>3. UNCHANGED <<ictx, threadId, ingestion, steplog, blob, thread, attachment, failedJobs, bell,
                  checks, spam, moved, known, swallowed>>
  BY DEF InsertEmail, tables, history
<1>4. /\ email' \in [Msg -> Email \cup {NoEmail}]
      /\ email[m] = NoEmail /\ email'[m] # NoEmail
      /\ email'[m].status = "QUARANTINED" /\ email'[m].thread = threadId[m]
      /\ \A n \in Msg \ {m} : email'[n] = email[n]
  <2>1. Delivered(m) \in Email /\ NoEmail \notin Email
    BY DeliveredFields DEF NoEmail, Email
  <2>2. ~Stored(m)
    BY <1>1 DEF Inv, Persisted
  <2> QED
    BY <1>2, <2>1, <2>2, DeliveredFields DEF TypeOK, Stored
<1> USE <1>1, <1>3, <1>4 DEF Return, Goto
<1>5. TypeOK'
  BY <1>2 DEF TypeOK, Phase, StepStatus
<1>6. Growing /\ \A n \in Msg \ {m} : Untouched(n)
  BY <1>2 DEF TypeOK, Growing, Untouched, Stored
<1>7. Placed(m)' /\ LoggedSoFar(m)' /\ Honest(m)' /\ Done(m)'
  BY <1>2 DEF Placed, LoggedSoFar, Honest, Done, Inv, TypeOK, Passed, Stored, Spam, Halting
<1>8. Screened(m)'
  BY <1>2 DEF Screened, Spam, Passed, Waiting, Stored, Inv, TypeOK, Halting, Placed
<1>9. Persisted(m)'
  BY <1>2 DEF Persisted, Waiting, Stored, Inv, TypeOK, Placed
<1>10. Threaded(m)'
  BY <1>2, PipelineAssumption DEF Threaded, Waiting, Stored, Inv, TypeOK, Earlier
<1> QED
  BY <1>5, <1>6, <1>7, <1>8, <1>9, <1>10 DEF Good, Inv

LEMMA SaveAttachmentStep ==
  ASSUME TypeOK, NEW m \in Msg, Inv(m), SaveAttachment(m), UNCHANGED expected
  PROVE  Good(m)
<1>1. at[m] = 3 /\ phase[m] = "attach"
  BY DEF SaveAttachment, Inv, Placed
<1>2. /\ Goto(m, "attrow")
      /\ blob' = [blob EXCEPT ![m] = Filled(@)]
  BY DEF SaveAttachment, Filled
<1>3. UNCHANGED <<ictx, threadId, ingestion, steplog, thread, email, attachment, failedJobs,
                  bell, checks, spam, moved, known, swallowed>>
  BY DEF SaveAttachment, tables, history
<1>4. /\ blob' \in [Msg -> Blob]
      /\ blob'[m].attachment
      /\ blob'[m].original = blob[m].original /\ blob'[m].processed = blob[m].processed
      /\ \A n \in Msg \ {m} : blob'[n] = blob[n]
  <2>1. blob[m] \in Blob /\ Filled(blob[m]) \in Blob
    BY FilledFields DEF TypeOK
  <2> QED
    BY <1>2, <2>1, FilledFields DEF TypeOK
<1> USE <1>1, <1>3, <1>4 DEF Goto
<1>5. TypeOK'
  BY <1>2 DEF TypeOK, Phase, StepStatus
<1>6. Growing /\ \A n \in Msg \ {m} : Untouched(n)
  BY <1>2 DEF TypeOK, Growing, Untouched, Stored
<1>7. Placed(m)' /\ LoggedSoFar(m)' /\ Honest(m)' /\ Done(m)'
  BY <1>2 DEF Placed, LoggedSoFar, Honest, Done, Inv, TypeOK, Passed, Stored, Spam, Halting
<1>8. Screened(m)'
  BY <1>2 DEF Screened, Spam, Passed, Waiting, Stored, Inv, TypeOK, Halting, Placed
<1>9. Persisted(m)'
  BY <1>2 DEF Persisted, Waiting, Stored, Inv, TypeOK, Placed
<1>10. Threaded(m)'
  BY <1>2, <1>6, ThreadedKept DEF Waiting, Stored, Inv, TypeOK, Placed
<1> QED
  BY <1>5, <1>6, <1>7, <1>8, <1>9, <1>10 DEF Good, Inv

LEMMA CreateAttachmentStep ==
  ASSUME TypeOK, NEW m \in Msg, Inv(m), CreateAttachment(m), UNCHANGED expected
  PROVE  Good(m)
<1>1. at[m] = 3 /\ phase[m] = "attrow"
  BY DEF CreateAttachment, Inv, Placed
<1>2. /\ Return(m, "pass")
      /\ attachment' = attachment \cup {m}
  BY DEF CreateAttachment
<1>3. UNCHANGED <<ictx, threadId, ingestion, steplog, blob, thread, email, failedJobs, bell,
                  checks, spam, moved, known, swallowed>>
  BY DEF CreateAttachment, tables, history
<1>4. Stored(m) /\ blob[m].attachment
  BY <1>1 DEF Inv, Persisted
<1> USE <1>1, <1>3, <1>4 DEF Return
<1>5. TypeOK'
  BY <1>2 DEF TypeOK, Phase, StepStatus
<1>6. Growing /\ \A n \in Msg \ {m} : Untouched(n)
  BY <1>2 DEF TypeOK, Growing, Untouched, Stored
<1>7. Placed(m)' /\ LoggedSoFar(m)' /\ Honest(m)' /\ Done(m)'
  BY <1>2 DEF Placed, LoggedSoFar, Honest, Done, Inv, TypeOK, Passed, Stored, Spam, Halting
<1>8. Screened(m)'
  BY <1>2 DEF Screened, Spam, Passed, Waiting, Stored, Inv, TypeOK, Halting, Placed
<1>9. Persisted(m)'
  BY <1>2 DEF Persisted, Waiting, Stored, Inv, TypeOK, Placed
<1>10. Threaded(m)'
  BY <1>2, <1>6, ThreadedKept DEF Waiting, Stored, Inv, TypeOK, Placed
<1> QED
  BY <1>5, <1>6, <1>7, <1>8, <1>9, <1>10 DEF Good, Inv

LEMMA SkipAttachmentStep ==
  ASSUME TypeOK, NEW m \in Msg, Inv(m), SkipAttachment(m), UNCHANGED expected
  PROVE  Good(m)
<1>1. at[m] = 3 /\ phase[m] \in {"attach", "attrow"}
  BY DEF SkipAttachment, Inv, Placed
<1>2. Return(m, "pass")
  BY DEF SkipAttachment
<1>3. UNCHANGED <<ictx, threadId, ingestion, steplog, blob, thread, email, attachment,
                  failedJobs, bell, checks, spam, moved, known>>
  BY DEF SkipAttachment, tables, history
<1>4. /\ swallowed' \subseteq Msg \X Calls
      /\ \A d : <<m, d>> \in swallowed => <<m, d>> \in swallowed'
      /\ \A n \in Msg \ {m} : \A d : <<n, d>> \in swallowed' <=> <<n, d>> \in swallowed
      /\ <<m, "attachment">> \in swallowed'
  BY Swallowed DEF SkipAttachment, Calls
<1>5. Stored(m)
  BY <1>1 DEF Inv, Persisted
<1> USE <1>1, <1>3, <1>4, <1>5 DEF Return
<1>6. TypeOK'
  BY <1>2 DEF TypeOK, Phase, StepStatus, Calls
<1>7. Growing /\ \A n \in Msg \ {m} : Untouched(n)
  BY <1>2 DEF TypeOK, Growing, Untouched, Stored
<1>8. Placed(m)' /\ LoggedSoFar(m)' /\ Honest(m)' /\ Done(m)'
  BY <1>2 DEF Placed, LoggedSoFar, Honest, Done, Inv, TypeOK, Passed, Stored, Spam, Halting
<1>9. Screened(m)'
  BY <1>2 DEF Screened, Spam, Passed, Waiting, Stored, Inv, TypeOK, Halting, Placed
<1>10. Persisted(m)'
  BY <1>2 DEF Persisted, Waiting, Stored, Inv, TypeOK, Placed
<1>11. Threaded(m)'
  BY <1>2, <1>7, ThreadedKept DEF Waiting, Stored, Inv, TypeOK, Placed
<1> QED
  BY <1>6, <1>7, <1>8, <1>9, <1>10, <1>11 DEF Good, Inv

LEMMA ParseDSNStep ==
  ASSUME TypeOK, NEW m \in Msg, Inv(m), ParseDSN(m), UNCHANGED expected
  PROVE  Good(m)
<1>1. at[m] = 4 /\ phase[m] = "run"
  BY RunsAt DEF ParseDSN
<1>2. PICK st \in {"pass", "skipped"} :
        /\ Return(m, st)
        /\ \/ "bounce" \notin Traits[m] /\ UNCHANGED <<failedJobs, swallowed>>
           \/ failedJobs' = failedJobs \cup {m} /\ UNCHANGED swallowed
           \/ Swallow(m, "bounce") /\ UNCHANGED failedJobs
  BY DEF ParseDSN
<1>3. UNCHANGED <<ictx, threadId, ingestion, steplog, blob, thread, email, attachment, bell,
                  checks, spam, moved, known>>
  BY DEF ParseDSN, tables, history
<1>4. /\ failedJobs' \subseteq Msg /\ failedJobs \subseteq failedJobs'
      /\ \A n \in Msg \ {m} : n \in failedJobs' <=> n \in failedJobs
      /\ swallowed' \subseteq Msg \X Calls
      /\ \A d : <<m, d>> \in swallowed => <<m, d>> \in swallowed'
      /\ \A n \in Msg \ {m} : \A d : <<n, d>> \in swallowed' <=> <<n, d>> \in swallowed
      /\ "bounce" \in Traits[m] => m \in failedJobs' \/ <<m, "bounce">> \in swallowed'
  <2>1. CASE UNCHANGED swallowed
    BY <1>2, <2>1 DEF TypeOK, Calls, Swallow
  <2>2. CASE Swallow(m, "bounce") /\ UNCHANGED failedJobs
    BY <2>2, Swallowed DEF Calls, TypeOK
  <2> QED
    BY <1>2, <2>1, <2>2
<1> USE <1>1, <1>3, <1>4 DEF Return
<1>5. TypeOK'
  BY <1>2 DEF TypeOK, Phase, StepStatus, Calls
<1>6. Growing /\ \A n \in Msg \ {m} : Untouched(n)
  BY <1>2 DEF TypeOK, Growing, Untouched, Stored
<1>7. Placed(m)' /\ LoggedSoFar(m)' /\ Honest(m)' /\ Done(m)'
  BY <1>2 DEF Placed, LoggedSoFar, Honest, Done, Inv, TypeOK, Passed, Stored, Spam, Halting
<1>8. Screened(m)'
  BY <1>2 DEF Screened, Spam, Passed, Waiting, Stored, Inv, TypeOK, Halting, Placed
<1>9. Persisted(m)'
  BY <1>2 DEF Persisted, Waiting, Stored, Inv, TypeOK, Placed
<1>10. Threaded(m)'
  BY <1>2, <1>6, ThreadedKept DEF Waiting, Stored, Inv, TypeOK, Placed
<1> QED
  BY <1>5, <1>6, <1>7, <1>8, <1>9, <1>10 DEF Good, Inv

LEMMA CheckSpamStep ==
  ASSUME TypeOK, NEW m \in Msg, Inv(m), CheckSpam(m), UNCHANGED expected
  PROVE  Good(m)
<1>1. at[m] = 5 /\ phase[m] = "run"
  BY RunsAt DEF CheckSpam
<1>2. PICK st \in {"pass", "fail", "error", "skipped"} :
        /\ Return(m, st)
        /\ spam' \in [Msg -> Answer \cup {Unasked}]
        /\ \A n \in Msg \ {m} : spam'[n] = spam[n]
        /\ Spam(m)' <=> st = "fail"
  <2>1. spam[m] = Unasked /\ ~Spam(m)
    BY <1>1 DEF Inv, Screened, Waiting, Spam
  <2>2. CASE Return(m, "skipped") /\ UNCHANGED spam
    BY <2>1, <2>2 DEF Spam, TypeOK
  <2>3. ASSUME NEW answer \in Spamminess[m],
               Return(m, SpamStatus(answer, Threshold)), spam' = [spam EXCEPT ![m] = answer]
        PROVE  \E st \in {"pass", "fail", "error", "skipped"} :
                 /\ Return(m, st)
                 /\ spam' \in [Msg -> Answer \cup {Unasked}]
                 /\ \A n \in Msg \ {m} : spam'[n] = spam[n]
                 /\ Spam(m)' <=> st = "fail"
    <3> DEFINE st == SpamStatus(answer, Threshold)
    <3>1. answer \in Answer
      BY PipelineAssumption
    <3>2. spam' \in [Msg -> Answer \cup {Unasked}] /\ spam'[m] = answer
      BY <2>3, <3>1 DEF TypeOK
    <3>3. Spam(m)' <=> st = "fail"
      BY <3>1, <3>2, SpamAnswered DEF Spam
    <3>4. st \in {"pass", "fail", "error", "skipped"}
      BY <3>1, SpamAnswered
    <3> QED
      BY <2>3, <3>2, <3>3, <3>4 DEF TypeOK
  <2> QED
    BY <2>2, <2>3 DEF CheckSpam
<1>3. UNCHANGED <<ictx, threadId, ingestion, steplog, blob, thread, email, attachment,
                  failedJobs, bell, checks, moved, known, swallowed>>
  BY DEF CheckSpam, tables, history
<1> USE <1>1, <1>3 DEF Return
<1>4. TypeOK'
  BY <1>2 DEF TypeOK, Phase, StepStatus
<1>5. Growing /\ \A n \in Msg \ {m} : Untouched(n)
  BY <1>2 DEF TypeOK, Growing, Untouched, Stored
<1>6. Placed(m)' /\ LoggedSoFar(m)' /\ Honest(m)' /\ Done(m)'
  BY <1>2 DEF Placed, LoggedSoFar, Honest, Done, Inv, TypeOK, Passed, Stored, Spam, Halting
<1>7. Screened(m)'
  BY <1>2 DEF Screened, Spam, Passed, Waiting, Stored, Inv, TypeOK, Halting, Placed
<1>8. Persisted(m)'
  BY <1>2 DEF Persisted, Waiting, Stored, Inv, TypeOK, Placed
<1>9. Threaded(m)'
  BY <1>2, <1>5, ThreadedKept DEF Waiting, Stored, Inv, TypeOK, Placed
<1> QED
  BY <1>4, <1>5, <1>6, <1>7, <1>8, <1>9 DEF Good, Inv

LEMMA ClassifyEmailStep ==
  ASSUME TypeOK, NEW m \in Msg, Inv(m), ClassifyEmail(m), UNCHANGED expected
  PROVE  Good(m)
<1>1. at[m] = 6 /\ phase[m] = "run"
  BY RunsAt DEF ClassifyEmail
<1>2. PICK c \in Category, st \in {"pass", "error", "skipped"} :
        /\ Return(m, st)
        /\ \/ UNCHANGED email
           \/ email' = [email EXCEPT ![m] = Sorted(@, c)]
  <2>1. "spam" \in Category
    BY DEF Category
  <2>2. \A reply : Classify(Classifier, reply) = "" \/ Classify(Classifier, reply) \in Category
    BY Classified
  <2> QED
    BY <2>1, <2>2 DEF ClassifyEmail, SetEmailCategory, Sorted
<1>3. UNCHANGED <<ictx, threadId, ingestion, steplog, blob, thread, attachment, failedJobs, bell,
                  checks, spam, moved, known, swallowed>>
  BY DEF ClassifyEmail, tables, history
<1>4. /\ email' \in [Msg -> Email \cup {NoEmail}]
      /\ email[m] # NoEmail /\ email'[m] # NoEmail
      /\ email'[m].status = email[m].status /\ email'[m].thread = email[m].thread
      /\ \A n \in Msg \ {m} : email'[n] = email[n]
  <2>1. Stored(m) /\ email[m] \in Email
    BY <1>1, StoredIsEmail DEF Inv, Done, Passed
  <2>2. Sorted(email[m], c) \in Email /\ NoEmail \notin Email
    BY <2>1, SortedFields DEF NoEmail, Email
  <2>3. CASE UNCHANGED email
    BY <2>1, <2>3 DEF TypeOK, Stored
  <2>4. CASE email' = [email EXCEPT ![m] = Sorted(@, c)]
    BY <2>1, <2>2, <2>4, SortedFields DEF TypeOK, Stored
  <2> QED
    BY <1>2, <2>3, <2>4
<1> USE <1>1, <1>3, <1>4 DEF Return
<1>5. TypeOK'
  BY <1>2 DEF TypeOK, Phase, StepStatus
<1>6. Growing /\ \A n \in Msg \ {m} : Untouched(n)
  BY <1>2 DEF TypeOK, Growing, Untouched, Stored
<1>7. Placed(m)' /\ LoggedSoFar(m)' /\ Honest(m)' /\ Done(m)'
  BY <1>2 DEF Placed, LoggedSoFar, Honest, Done, Inv, TypeOK, Passed, Stored, Spam, Halting
<1>8. Screened(m)'
  BY <1>2 DEF Screened, Spam, Passed, Waiting, Stored, Inv, TypeOK, Halting, Placed
<1>9. Persisted(m)'
  BY <1>2 DEF Persisted, Waiting, Stored, Inv, TypeOK, Placed
<1>10. Threaded(m)'
  BY <1>2, <1>6, ThreadedKept DEF Waiting, Stored, Inv, TypeOK, Placed
<1> QED
  BY <1>5, <1>6, <1>7, <1>8, <1>9, <1>10 DEF Good, Inv

LEMMA ApplyFilterRulesStep ==
  ASSUME TypeOK, NEW m \in Msg, Inv(m), ApplyFilterRules(m), UNCHANGED expected
  PROVE  Good(m)
<1>1. at[m] = 7 /\ phase[m] = "run"
  BY RunsAt DEF ApplyFilterRules
<1>2. PICK st \in {"pass", "error"} :
        /\ Return(m, st)
        /\ \/ UNCHANGED ictx
           \/ \E a \in Actions[m] : ictx' = [ictx EXCEPT ![m] = Matched(@, a)]
  BY DEF ApplyFilterRules, Matched
<1>3. UNCHANGED <<threadId, ingestion, steplog, blob, thread, email, attachment, failedJobs,
                  bell, checks, spam, moved, known, swallowed>>
  BY DEF ApplyFilterRules, tables, history
<1>4. /\ ictx' \in [Msg -> Context]
      /\ ictx'[m].matched \/ (ictx'[m].matched = ictx[m].matched /\ ictx'[m].action = ictx[m].action)
      /\ ictx'[m].isRead = ictx[m].isRead /\ ictx'[m].raw = ictx[m].raw
      /\ \A n \in Msg \ {m} : ictx'[n] = ictx[n]
  <2>1. ictx[m] \in Context /\ \A a \in Actions[m] : a \in FilterAction
    BY PipelineAssumption DEF TypeOK
  <2>2. CASE UNCHANGED ictx
    BY <2>2 DEF TypeOK
  <2>3. ASSUME NEW a \in Actions[m], ictx' = [ictx EXCEPT ![m] = Matched(@, a)]
        PROVE  /\ ictx' \in [Msg -> Context]
               /\ ictx'[m].matched
               /\ ictx'[m].isRead = ictx[m].isRead /\ ictx'[m].raw = ictx[m].raw
               /\ \A n \in Msg \ {m} : ictx'[n] = ictx[n]
    BY <2>1, <2>3, MatchedFields DEF TypeOK
  <2> QED
    BY <1>2, <2>2, <2>3
<1> USE <1>1, <1>3, <1>4 DEF Return
<1>5. TypeOK'
  BY <1>2 DEF TypeOK, Phase, StepStatus
<1>6. Growing /\ \A n \in Msg \ {m} : Untouched(n)
  BY <1>2 DEF TypeOK, Growing, Untouched, Stored
<1>7. Placed(m)' /\ LoggedSoFar(m)' /\ Honest(m)' /\ Done(m)'
  BY <1>2 DEF Placed, LoggedSoFar, Honest, Done, Inv, TypeOK, Passed, Stored, Spam, Halting
<1>8. Screened(m)'
  BY <1>2 DEF Screened, Spam, Passed, Waiting, Stored, Inv, TypeOK, Halting, Placed
<1>9. Persisted(m)'
  BY <1>2 DEF Persisted, Waiting, Stored, Inv, TypeOK, Placed
<1>10. Threaded(m)'
  BY <1>2, <1>6, ThreadedKept DEF Waiting, Stored, Inv, TypeOK, Placed
<1> QED
  BY <1>5, <1>6, <1>7, <1>8, <1>9, <1>10 DEF Good, Inv

LEMMA FinalizeStep ==
  ASSUME TypeOK, NEW m \in Msg, Inv(m), Finalize(m), UNCHANGED expected
  PROVE  Good(m)
<1>1. at[m] = 8 /\ phase[m] = "run"
  BY RunsAt DEF Finalize
<1>2. PICK st \in {"pass", "error"} :
        /\ Return(m, st)
        /\ \/ UNCHANGED <<email, ictx, moved>>
           \/ /\ email' = [email EXCEPT ![m] = Filed(@, Resolved(ictx[m].action))]
              /\ ictx' = [ictx EXCEPT ![m] = ReadAs(@, Resolved(ictx[m].action).is_read)]
              /\ moved' = moved \ {m}
  BY DEF Finalize, SetEmailFields, Filed, ReadAs
<1>3. UNCHANGED <<threadId, ingestion, steplog, blob, thread, attachment, failedJobs, bell,
                  checks, spam, known, swallowed>>
  BY DEF Finalize, tables, history
<1>4. /\ ictx' \in [Msg -> Context]
      /\ ictx'[m].action = ictx[m].action /\ ictx'[m].matched = ictx[m].matched
      /\ ictx'[m].raw = ictx[m].raw
      /\ \A n \in Msg \ {m} : ictx'[n] = ictx[n]
  <2>1. ictx[m] \in Context /\ ictx[m].action \in FilterAction \cup {""}
    BY DEF TypeOK, Context
  <2> DEFINE b == Resolved(ictx[m].action).is_read
  <2>2. b \in BOOLEAN
    BY <2>1, ResolvedFields
  <2>3. \/ UNCHANGED ictx
        \/ ictx' = [ictx EXCEPT ![m] = ReadAs(@, b)]
    BY <1>2
  <2> HIDE DEF b
  <2> DEFINE x == ReadAs(ictx[m], b)
  <2>4. /\ x \in Context /\ x.action = ictx[m].action
        /\ x.matched = ictx[m].matched /\ x.raw = ictx[m].raw
    BY <2>1, <2>2, ReadAsFields
  <2>5. CASE UNCHANGED ictx
    BY <2>5 DEF TypeOK
  <2>6. CASE ictx' = [ictx EXCEPT ![m] = x]
    <3> HIDE DEF x
    <3> QED
      BY <2>4, <2>6 DEF TypeOK
  <2> QED
    BY <2>3, <2>5, <2>6
<1>5. /\ email' \in [Msg -> Email \cup {NoEmail}]
      /\ email[m] # NoEmail /\ email'[m] # NoEmail
      /\ email'[m].thread = email[m].thread
      /\ \/ moved' = moved /\ email'[m].status = email[m].status
         \/ moved' = moved \ {m} /\ email'[m].status = Resolved(ictx[m].action).status
      /\ \A n \in Msg \ {m} : email'[n] = email[n]
  <2>1. Stored(m) /\ email[m] \in Email
    BY <1>1, StoredIsEmail DEF Inv, Done, Passed
  <2>2. ictx[m].action \in FilterAction \cup {""}
    BY DEF TypeOK, Context
  <2> DEFINE f == Resolved(ictx[m].action)
  <2>3. f.status \in EmailStatus /\ f.is_read \in BOOLEAN /\ f.is_star \in BOOLEAN
    BY <2>2, ResolvedFields
  <2> HIDE DEF f
  <2>4. Filed(email[m], f) \in Email /\ NoEmail \notin Email
    BY <2>1, <2>3, FiledFields DEF NoEmail, Email
  <2>5. CASE UNCHANGED <<email, moved>>
    BY <2>1, <2>5 DEF TypeOK, Stored
  <2>6. CASE email' = [email EXCEPT ![m] = Filed(@, f)] /\ moved' = moved \ {m}
    BY <2>1, <2>3, <2>4, <2>6, FiledFields DEF TypeOK, Stored, f
  <2> QED
    BY <1>2, <2>5, <2>6 DEF f
<1> USE <1>1, <1>3, <1>4, <1>5 DEF Return
<1>6. TypeOK'
  BY <1>2 DEF TypeOK, Phase, StepStatus
<1>7. Growing /\ \A n \in Msg \ {m} : Untouched(n)
  BY <1>2 DEF TypeOK, Growing, Untouched, Stored
<1>8. Placed(m)' /\ LoggedSoFar(m)' /\ Honest(m)' /\ Done(m)'
  BY <1>2 DEF Placed, LoggedSoFar, Honest, Done, Inv, TypeOK, Passed, Stored, Spam, Halting
<1>9. Screened(m)'
  BY <1>2 DEF Screened, Spam, Passed, Waiting, Stored, Inv, TypeOK, Halting, Placed
<1>10. Persisted(m)'
  BY <1>2 DEF Persisted, Waiting, Stored, Inv, TypeOK, Placed
<1>11. Threaded(m)'
  BY <1>2, <1>7, ThreadedKept DEF Waiting, Stored, Inv, TypeOK, Placed
<1> QED
  BY <1>6, <1>7, <1>8, <1>9, <1>10, <1>11 DEF Good, Inv

LEMMA NotifyStep ==
  ASSUME TypeOK, NEW m \in Msg, Inv(m), Notify(m), UNCHANGED expected
  PROVE  Good(m)
<1>1. at[m] = 9 /\ phase[m] = "run"
  BY RunsAt DEF Notify
<1>2. PICK st \in {"skipped", "pass", "error"} :
        /\ Return(m, st)
        /\ \/ st = "skipped" /\ ictx[m].isRead /\ UNCHANGED bell
           \/ st = "pass" /\ bell' = bell \cup {m}
           \/ st = "error" /\ UNCHANGED bell
  BY DEF Notify
<1>3. UNCHANGED <<ictx, threadId, ingestion, steplog, blob, thread, email, attachment,
                  failedJobs, checks, spam, moved, known, swallowed>>
  BY DEF Notify, tables, history
<1>4. /\ bell' \subseteq Msg /\ bell \subseteq bell'
      /\ \A n \in Msg \ {m} : n \in bell' <=> n \in bell
  BY <1>2 DEF TypeOK
<1> USE <1>1, <1>3, <1>4 DEF Return
<1>5. TypeOK'
  BY <1>2 DEF TypeOK, Phase, StepStatus
<1>6. Growing /\ \A n \in Msg \ {m} : Untouched(n)
  BY <1>2 DEF TypeOK, Growing, Untouched, Stored
<1>7. Placed(m)' /\ LoggedSoFar(m)' /\ Honest(m)' /\ Done(m)'
  BY <1>2 DEF Placed, LoggedSoFar, Honest, Done, Inv, TypeOK, Passed, Stored, Spam, Halting
<1>8. Screened(m)'
  BY <1>2 DEF Screened, Spam, Passed, Waiting, Stored, Inv, TypeOK, Halting, Placed
<1>9. Persisted(m)'
  BY <1>2 DEF Persisted, Waiting, Stored, Inv, TypeOK, Placed
<1>10. Threaded(m)'
  BY <1>2, <1>6, ThreadedKept DEF Waiting, Stored, Inv, TypeOK, Placed
<1> QED
  BY <1>5, <1>6, <1>7, <1>8, <1>9, <1>10 DEF Good, Inv

LEMMA CloseStep ==
  ASSUME TypeOK, NEW m \in Msg, Inv(m), Close(m), UNCHANGED expected
  PROVE  Good(m)
<1>1. phase[m] = "close" /\ (result[m] \in Halting \/ at[m] = 9) /\ at[m] \in 1..9
  BY RunsAt DEF Close, Inv, Placed
<1>2. /\ Goto(m, "end")
      /\ ingestion' = [ingestion EXCEPT ![m] = Closing(result[m])]
  BY DEF Close
<1>3. UNCHANGED <<ictx, threadId, steplog, blob, thread, email, attachment, failedJobs, bell,
                  checks, spam, moved, known, swallowed>>
  BY DEF Close, tables, history
<1>4. /\ ingestion' \in [Msg -> {"absent", "processing", "accepted", "rejected", "failed"}]
      /\ ingestion'[m] = "accepted" => at[m] = 9 /\ result[m] \notin Halting
      /\ ingestion'[m] = "rejected" <=> result[m] = "fail"
      /\ \A n \in Msg \ {m} : ingestion'[n] = ingestion[n]
  BY <1>1, <1>2 DEF TypeOK, Closing, Halting
<1>5. Spam(m) <=> result[m] = "fail"
  BY <1>1 DEF Inv, Screened
<1>6. at[m] = 9 /\ result[m] \notin Halting =>
        /\ Stored(m)
        /\ m \in bell \/ ictx[m].isRead
        /\ "attachment" \in Traits[m] => m \in attachment \/ <<m, "attachment">> \in swallowed
        /\ "bounce" \in Traits[m] => m \in failedJobs \/ <<m, "bounce">> \in swallowed
        /\ \A i \in 1..Len(Steps) : steplog[m][i] = "unlogged" => <<m, "log">> \in swallowed
  BY <1>1, StepNumbers DEF Inv, Done, Passed, LoggedSoFar
<1> USE <1>1, <1>3, <1>4, <1>5, <1>6 DEF Goto
<1>7. TypeOK'
  BY <1>2 DEF TypeOK, Phase, StepStatus
<1>8. Growing /\ \A n \in Msg \ {m} : Untouched(n)
  BY <1>2 DEF TypeOK, Growing, Untouched, Stored
<1>9. Placed(m)' /\ LoggedSoFar(m)' /\ Honest(m)' /\ Done(m)'
  <2>1. Placed(m)' /\ LoggedSoFar(m)' /\ Done(m)'
    BY <1>2 DEF Placed, LoggedSoFar, Done, Inv, TypeOK, Passed, Stored, Halting
  <2>2. Stored(m)' <=> Stored(m)
    BY DEF Stored
  <2>3. Spam(m)' <=> Spam(m)
    BY DEF Spam
  <2>4. Honest(m)'
    <3>1. ingestion'[m] = "accepted" => Stored(m) /\ ~Spam(m)
      BY DEF Halting
    <3>2. \A i \in 1..Len(Steps) : steplog'[m][i] = "unlogged" /\ ingestion'[m] = "accepted" => <<m, "log">> \in swallowed'
      OBVIOUS
    <3> QED
      BY <2>2, <2>3, <3>1, <3>2 DEF Honest
  <2> QED
    BY <2>1, <2>4
<1>10. Screened(m)'
  BY <1>2 DEF Screened, Spam, Passed, Waiting, Stored, Inv, TypeOK, Halting, Placed
<1>11. Persisted(m)'
  BY <1>2 DEF Persisted, Waiting, Stored, Inv, TypeOK, Placed
<1>12. Threaded(m)'
  BY <1>2, <1>8, ThreadedKept DEF Waiting, Stored, Inv, TypeOK, Placed
<1> QED
  BY <1>7, <1>8, <1>9, <1>10, <1>11, <1>12 DEF Good, Inv

LEMMA CloseFailsStep ==
  ASSUME TypeOK, NEW m \in Msg, Inv(m), CloseFails(m), UNCHANGED expected
  PROVE  Good(m)
<1>1. phase[m] = "close" /\ at[m] \in 1..9
  BY RunsAt DEF CloseFails
<1>2. Goto(m, "end")
  BY DEF CloseFails
<1>3. UNCHANGED <<ictx, threadId, ingestion, steplog, blob, thread, email, attachment,
                  failedJobs, bell, checks, spam, moved, known>>
  BY DEF CloseFails, tables, history
<1>4. /\ swallowed' \subseteq Msg \X Calls
      /\ \A d : <<m, d>> \in swallowed => <<m, d>> \in swallowed'
      /\ \A n \in Msg \ {m} : \A d : <<n, d>> \in swallowed' <=> <<n, d>> \in swallowed
      /\ <<m, "close">> \in swallowed'
  BY Swallowed DEF CloseFails, Calls
<1> USE <1>1, <1>3, <1>4 DEF Goto
<1>5. TypeOK'
  BY <1>2 DEF TypeOK, Phase, StepStatus, Calls
<1>6. Growing /\ \A n \in Msg \ {m} : Untouched(n)
  BY <1>2 DEF TypeOK, Growing, Untouched, Stored
<1>7. Placed(m)' /\ LoggedSoFar(m)' /\ Honest(m)' /\ Done(m)'
  BY <1>2 DEF Placed, LoggedSoFar, Honest, Done, Inv, TypeOK, Passed, Stored, Spam, Halting
<1>8. Screened(m)'
  BY <1>2 DEF Screened, Spam, Passed, Waiting, Stored, Inv, TypeOK, Halting, Placed
<1>9. Persisted(m)'
  BY <1>2 DEF Persisted, Waiting, Stored, Inv, TypeOK, Placed
<1>10. Threaded(m)'
  BY <1>2, <1>6, ThreadedKept DEF Waiting, Stored, Inv, TypeOK, Placed
<1> QED
  BY <1>5, <1>6, <1>7, <1>8, <1>9, <1>10 DEF Good, Inv

LEMMA AbortStep ==
  ASSUME TypeOK, NEW m \in Msg, Inv(m), Abort(m), UNCHANGED expected
  PROVE  Good(m)
<1>1. phase[m] # "end" /\ at[m] \in 1..9
  BY RunsAt DEF Abort
<1>2. Goto(m, "end")
  BY DEF Abort
<1>3. UNCHANGED <<ictx, threadId, ingestion, steplog, blob, thread, email, attachment,
                  failedJobs, bell, checks, spam, moved, known>>
  BY DEF Abort, tables, history
<1>4. /\ swallowed' \subseteq Msg \X Calls
      /\ \A d : <<m, d>> \in swallowed => <<m, d>> \in swallowed'
      /\ \A n \in Msg \ {m} : \A d : <<n, d>> \in swallowed' <=> <<n, d>> \in swallowed
      /\ <<m, "abort">> \in swallowed'
  BY Swallowed DEF Abort, Calls
<1> USE <1>1, <1>3, <1>4 DEF Goto
<1>5. TypeOK'
  BY <1>2 DEF TypeOK, Phase, StepStatus, Calls
<1>6. Growing /\ \A n \in Msg \ {m} : Untouched(n)
  BY <1>2 DEF TypeOK, Growing, Untouched, Stored
<1>7. Placed(m)' /\ LoggedSoFar(m)' /\ Honest(m)' /\ Done(m)'
  BY <1>2 DEF Placed, LoggedSoFar, Honest, Done, Inv, TypeOK, Passed, Stored, Spam, Halting
<1>8. Screened(m)'
  BY <1>2 DEF Screened, Spam, Passed, Waiting, Stored, Inv, TypeOK, Halting, Placed
<1>9. Persisted(m)'
  BY <1>2 DEF Persisted, Waiting, Stored, Inv, TypeOK, Placed
<1>10. Threaded(m)'
  BY <1>2, <1>6, ThreadedKept DEF Waiting, Stored, Inv, TypeOK, Placed
<1> QED
  BY <1>5, <1>6, <1>7, <1>8, <1>9, <1>10 DEF Good, Inv

\* The thread found is that of an earlier reference, or of one that has come since.
LEMMA JoinThreadStep ==
  ASSUME TypeOK, PipelineInv, NEW m \in Msg, JoinThread(m), UNCHANGED expected
  PROVE  Good(m)
<1>1. at[m] = 3 /\ phase[m] = "thread" /\ Inv(m)
  BY DEF JoinThread, PipelineInv, Inv, Placed
<1>2. PICK r \in Related(m) : threadId' = [threadId EXCEPT ![m] = email[r].thread]
  BY DEF JoinThread
<1>3. Goto(m, "insert")
  BY DEF JoinThread
<1>4. UNCHANGED <<ictx, ingestion, steplog, blob, thread, email, attachment, failedJobs, bell,
                  checks, spam, moved, known, swallowed>>
  BY DEF JoinThread, tables, history
<1>5. r \in Msg /\ Stored(r) /\ MailboxOf[r] = MailboxOf[m] /\ r \in RefersTo[m]
  BY PipelineAssumption DEF Related
<1>6. email[r].thread \in thread /\ MailboxOf[email[r].thread] = MailboxOf[m]
  BY <1>5 DEF PipelineInv, Inv, Threaded
<1>7. r # m
  BY <1>1, <1>5 DEF Inv, Persisted
<1>8. threadId' \in [Msg -> Msg]
  BY <1>2, <1>6 DEF TypeOK
<1> USE <1>1, <1>3, <1>4 DEF Goto
<1>9. TypeOK'
  BY <1>8 DEF TypeOK, Phase
<1>10. Growing /\ \A n \in Msg \ {m} : Untouched(n)
  BY <1>2 DEF TypeOK, Growing, Untouched, Stored
<1>11. Placed(m)' /\ LoggedSoFar(m)' /\ Honest(m)' /\ Done(m)'
  BY DEF Placed, LoggedSoFar, Honest, Done, Inv, TypeOK, Passed, Stored, Spam, Halting
<1>12. Screened(m)'
  BY DEF Screened, Spam, Passed, Waiting, Stored, Inv, TypeOK
<1>13. Persisted(m)'
  BY DEF Persisted, Waiting, Stored, Inv, TypeOK
<1>14. Threaded(m)'
  <2>1. threadId'[m] = email[r].thread /\ ~Stored(m)
    BY <1>2 DEF TypeOK, Inv, Persisted
  <2>2. phase'[m] = "insert" /\ ~Waiting(m, 3)'
    BY DEF TypeOK, Waiting
  <2> QED
    BY <1>5, <1>6, <1>7, <2>1, <2>2 DEF Threaded, Earlier, Stored, Inv
<1> QED
  BY <1>9, <1>10, <1>11, <1>12, <1>13, <1>14 DEF Good, Inv

LEMMA LogStep ==
  ASSUME TypeOK, NEW m \in Msg, Inv(m), Log(m), UNCHANGED expected
  PROVE  Good(m)
<1>1. phase[m] = "log" /\ at[m] \in 1..9 /\ result[m] \in StepStatus /\ result[m] # "unlogged"
  BY RunsAt DEF Log, TypeOK, StepStatus
<1>2. /\ result[m] \in Halting \/ at[m] = 9 =>
           phase' = [phase EXCEPT ![m] = "close"] /\ UNCHANGED at
      /\ ~(result[m] \in Halting \/ at[m] = 9) =>
           phase' = [phase EXCEPT ![m] = "run"] /\ at' = [at EXCEPT ![m] = @ + 1]
  BY StepNumbers DEF Log
<1>3. UNCHANGED <<result, ictx, threadId, ingestion, blob, thread, email, attachment, failedJobs,
                  bell, checks, spam, moved, known>>
  BY DEF Log
<1>4. /\ swallowed' \subseteq Msg \X Calls
      /\ \A d : <<m, d>> \in swallowed => <<m, d>> \in swallowed'
      /\ \A n \in Msg \ {m} : \A d : <<n, d>> \in swallowed' <=> <<n, d>> \in swallowed
  <2>1. CASE UNCHANGED swallowed
    BY <2>1 DEF TypeOK, Calls
  <2>2. CASE Swallow(m, "log")
    BY <2>2, Swallowed DEF Calls
  <2> QED
    BY <2>1, <2>2 DEF Log
<1>5. /\ steplog' \in [Msg -> [1..9 -> StepStatus \cup {"unlogged"}]]
      /\ \A n \in Msg \ {m} : steplog'[n] = steplog[n]
      /\ \A i \in 1..9 : i # at[m] => steplog'[m][i] = steplog[m][i]
      /\ \/ steplog'[m][at[m]] = result[m]
         \/ steplog'[m][at[m]] = steplog[m][at[m]] /\ <<m, "log">> \in swallowed'
  <2>1. steplog \in [Msg -> [1..9 -> StepStatus \cup {"unlogged"}]]
    BY StepNumbers DEF TypeOK
  <2>2. CASE steplog' = [steplog EXCEPT ![m][at[m]] = result[m]]
    BY <1>1, <2>1, <2>2
  <2>3. CASE UNCHANGED steplog /\ Swallow(m, "log")
    BY <2>1, <2>3 DEF Swallow
  <2> QED
    BY <2>2, <2>3 DEF Log
<1>6. /\ at' \in [Msg -> 1..9] /\ phase' \in [Msg -> Phase]
      /\ \A n \in Msg \ {m} : at'[n] = at[n] /\ phase'[n] = phase[n]
      /\ \/ /\ result[m] \in Halting \/ at[m] = 9
            /\ at'[m] = at[m] /\ phase'[m] = "close"
         \/ /\ result[m] \notin Halting /\ at[m] < 9
            /\ at'[m] = at[m] + 1 /\ phase'[m] = "run"
  <2>1. at \in [Msg -> 1..9] /\ phase \in [Msg -> Phase]
    BY StepNumbers DEF TypeOK
  <2>2. CASE result[m] \in Halting \/ at[m] = 9
    BY <1>2, <2>1, <2>2 DEF Phase
  <2>3. CASE ~(result[m] \in Halting \/ at[m] = 9)
    BY <1>1, <1>2, <2>1, <2>3 DEF Phase
  <2> QED
    BY <2>2, <2>3
<1> USE <1>1, <1>3, <1>4, <1>5, <1>6
<1>7. TypeOK'
  BY StepNumbers DEF TypeOK, Calls
<1>8. Growing /\ \A n \in Msg \ {m} : Untouched(n)
  BY DEF Growing, Untouched, Stored
<1>9. Placed(m)'
  BY DEF Placed, Inv
<1>10. Done(m)'
  BY DEF Done, Passed, Stored, Inv
<1>11. LoggedSoFar(m)'
  <2>1. \A i \in 1..9 : steplog[m][i] # "unlogged" => i < at[m]
    BY DEF LoggedSoFar, Inv
  <2>2. \A i \in 1..9 : steplog[m][i] \notin Halting
    BY <2>1 DEF LoggedSoFar, Inv, Halting
  <2>3. \A i \in 1..9 : steplog[m][i] = "unlogged" /\ i < at[m] => <<m, "log">> \in swallowed
    BY DEF LoggedSoFar, Inv
  <2> SUFFICES ASSUME NEW i \in 1..9
               PROVE  /\ steplog'[m][i] # "unlogged" =>
                           i < at'[m] \/ (i = at'[m] /\ phase'[m] \in {"close", "end"})
                      /\ steplog'[m][i] \in Halting => i = at'[m]
                      /\ steplog'[m][i] = "unlogged" /\ (i < at'[m] \/ (i = at'[m] /\ phase'[m] = "close")) =>
                           <<m, "log">> \in swallowed'
    BY DEF LoggedSoFar
  <2>4. CASE i = at[m]
    BY <2>1, <2>2, <2>4
  <2>5. CASE i # at[m]
    BY <2>1, <2>2, <2>3, <2>5
  <2> QED
    BY <2>4, <2>5
<1>12. Honest(m)'
  BY DEF Honest, Placed, Inv
<1>13. Screened(m)'
  BY DEF Screened, Spam, Passed, Waiting, Stored, Inv, Halting
<1>14. Persisted(m)'
  BY DEF Persisted, Waiting, Stored, Inv
<1>15. Threaded(m)'
  BY <1>8, ThreadedKept DEF Waiting, Stored, Inv
<1> QED
  BY <1>7, <1>8, <1>9, <1>10, <1>11, <1>12, <1>13, <1>14, <1>15 DEF Good, Inv

\* A user's step: it moves nothing but the email's status, and is remembered.
LEMMA MoveStep ==
  ASSUME TypeOK, NEW m \in Msg, Inv(m), NEW s \in UserMoves[m], Move(m, s), UNCHANGED expected
  PROVE  Good(m)
<1>1. Stored(m) /\ email[m] \in Email /\ s \in EmailStatus
  BY StoredIsEmail, PipelineAssumption DEF Move
<1>2. email' = [email EXCEPT ![m] = MovedTo(@, s)] /\ moved' = moved \cup {m}
  BY DEF Move, MovedTo
<1>3. UNCHANGED <<at, phase, result, ictx, threadId, ingestion, steplog, blob, thread, attachment,
                  failedJobs, bell, checks, spam, known, swallowed>>
  BY DEF Move
<1>4. /\ email' \in [Msg -> Email \cup {NoEmail}]
      /\ email'[m] # NoEmail /\ email[m] # NoEmail /\ email'[m].thread = email[m].thread
      /\ \A n \in Msg \ {m} : email'[n] = email[n]
  <2>1. MovedTo(email[m], s) \in Email /\ NoEmail \notin Email
    BY <1>1, MovedToFields DEF Email, NoEmail
  <2> QED
    BY <1>1, <1>2, <2>1, MovedToFields DEF TypeOK, Stored
<1> USE <1>3, <1>4
<1>5. TypeOK'
  BY <1>2 DEF TypeOK
<1>6. Growing /\ \A n \in Msg \ {m} : Untouched(n)
  BY <1>2 DEF Growing, Untouched, Stored
<1>7. Placed(m)' /\ LoggedSoFar(m)' /\ Honest(m)' /\ Done(m)'
  BY DEF Placed, LoggedSoFar, Honest, Done, Inv, Passed, Stored, Spam
<1>8. Screened(m)'
  BY <1>2 DEF Screened, Spam, Passed, Waiting, Stored, Inv
<1>9. Persisted(m)'
  BY DEF Persisted, Waiting, Stored, Inv
<1>10. Threaded(m)'
  BY <1>6, ThreadedKept DEF Waiting, Stored, Inv
<1> QED
  BY <1>5, <1>6, <1>7, <1>8, <1>9, <1>10 DEF Good, Inv

-----------------------------------------------------------------------------
(* The invariant *)

LEMMA InitInv ==
  ASSUME Init
  PROVE  IInv
<1>1. TypeOK
  <2>1. ictx \in [Msg -> Context]
    BY DEF Init, Context
  <2>2. blob \in [Msg -> Blob]
    BY DEF Init, Blob
  <2>3. /\ email \in [Msg -> Email \cup {NoEmail}]
        /\ checks \in [Msg -> SenderChecks \cup {NoChecks}] /\ spam \in [Msg -> Answer \cup {Unasked}]
        /\ steplog \in [Msg -> [1..Len(Steps) -> StepStatus \cup {"unlogged"}]]
    BY DEF Init
  <2>4. at \in [Msg -> 1..Len(Steps)] /\ phase \in [Msg -> Phase] /\ result \in [Msg -> StepStatus]
    <3>1. 1 \in 1..Len(Steps) /\ "none" \in Phase /\ "pass" \in StepStatus
      BY StepNumbers DEF Phase, StepStatus
    <3> QED
      BY <3>1 DEF Init
  <2>5. /\ expected \in Workloads /\ threadId \in [Msg -> Msg] /\ known \in [Msg -> SUBSET Msg]
        /\ ingestion \in [Msg -> {"absent", "processing", "accepted", "rejected", "failed"}]
        /\ thread = {} /\ attachment = {} /\ failedJobs = {} /\ bell = {} /\ moved = {}
        /\ swallowed = {}
    BY DEF Init
  <2> QED
    BY <2>1, <2>2, <2>3, <2>4, <2>5 DEF TypeOK
<1>2. ASSUME NEW m \in Msg
      PROVE  Inv(m)
  <2>1. /\ at[m] = 1 /\ phase[m] = "none" /\ ingestion[m] = "absent" /\ email[m] = NoEmail
        /\ spam[m] = Unasked /\ ~Spam(m)
        /\ \A i \in 1..9 : steplog[m][i] = "unlogged"
        /\ ictx[m].raw = "received" /\ blob[m].processed = "none"
        /\ attachment = {} /\ known[m] = {} /\ threadId[m] = m
    BY StepNumbers DEF Init, Spam
  <2>2. Placed(m) /\ Done(m) /\ Honest(m) /\ LoggedSoFar(m)
    BY <2>1 DEF Placed, Done, Honest, LoggedSoFar, Passed, Halting
  <2>3. Screened(m) /\ Persisted(m) /\ Threaded(m)
    BY <2>1 DEF Screened, Persisted, Threaded, Passed, Waiting, Stored
  <2> QED
    BY <2>2, <2>3 DEF Inv
<1> QED
  BY <1>1, <1>2 DEF IInv, PipelineInv

LEMMA StepIsGood ==
  ASSUME TypeOK, PipelineInv, NEW m \in Msg, UNCHANGED expected,
         Receive(m) \/ Step(m) \/ Fault(m) \/ \E s \in UserMoves[m] : Move(m, s)
  PROVE  Good(m)
<1>1. Inv(m)
  BY DEF PipelineInv
<1>2. CASE Receive(m)
  BY <1>1, <1>2, ReceiveStep
<1>3. CASE Step(m)
  BY <1>1, <1>3, BeginStep, ValidateSenderStep, LeavePixelsStep, StripPixelsStep, SaveBodyStep,
     JoinThreadStep, OpenThreadStep, InsertEmailStep, SaveAttachmentStep, CreateAttachmentStep,
     ParseDSNStep, CheckSpamStep, ClassifyEmailStep, ApplyFilterRulesStep, FinalizeStep,
     NotifyStep, LogStep, CloseStep DEF Step
<1>4. CASE Fault(m)
  BY <1>1, <1>4, BeginFailsStep, SaveBodyFailsStep, PersistFailsStep, SkipAttachmentStep,
     CloseFailsStep, AbortStep DEF Fault
<1>5. CASE \E s \in UserMoves[m] : Move(m, s)
  BY <1>1, <1>5, MoveStep
<1> QED
  BY <1>2, <1>3, <1>4, <1>5

LEMMA NextInv ==
  ASSUME IInv, [Next]_vars
  PROVE  IInv'
<1>1. CASE Next
  <2>1. PICK m \in Msg : Good(m)
    BY <1>1, StepIsGood DEF Next, IInv
  <2>2. \A n \in Msg \ {m} : Inv(n)'
    BY <2>1, UntouchedInv DEF Good, IInv, PipelineInv
  <2> QED
    BY <2>1, <2>2 DEF Good, IInv, PipelineInv
<1>2. CASE UNCHANGED vars
  <2>1. Growing /\ \A n \in Msg : Untouched(n)
    BY <1>2 DEF vars, tables, history, Growing, Untouched, Stored
  <2>2. TypeOK'
    BY <1>2 DEF vars, tables, history, IInv, TypeOK
  <2> QED
    BY <2>1, <2>2, UntouchedInv DEF IInv, PipelineInv
<1> QED
  BY <1>1, <1>2

\* The pipeline keeps its inductive invariant, whatever the messages and the faults.
THEOREM Invariance == Spec => []IInv
<1>1. Init => IInv
  BY InitInv
<1>2. IInv /\ [Next]_vars => IInv'
  BY NextInv
<1> QED
  BY <1>1, <1>2, PTL DEF Spec

-----------------------------------------------------------------------------
(* What it gives *)

\* Every variable of the data stage keeps its type.
THEOREM TypeCorrect == Spec => []TypeOK
<1>1. IInv => TypeOK
  BY DEF IInv
<1> QED
  BY <1>1, Invariance, PTL

\* Alignment is authentication of the From domain: ValidateSender lets no message
\* through that its policy asks to quarantine or to reject.
LEMMA PassingIsNotForged ==
  ASSUME NEW c, SenderPasses(c)
  PROVE  ~Forged(c)
<1> DEFINE from == HeaderFromDomain(c.from)
<1>1. CASE from = ""
  BY <1>1 DEF Forged
<1>2. CASE from # ""
  <2>1. c.dmarc[from] = "absent" \/ c.dmarc[from] = "none" \/ Aligned(c)
    BY <1>2 DEF SenderPasses
  <2>2. CASE Aligned(c)
    BY <2>2 DEF Aligned, Forged
  <2>3. CASE c.dmarc[from] \in {"absent", "none"}
    BY <2>3 DEF Forged
  <2> QED
    BY <2>1, <2>2, <2>3
<1> QED
  BY <1>1, <1>2

\* An email that ValidateSender has quarantined, that rspamd calls spam, or whose
\* step failed stays in quarantine until a user or a filter rule takes it out.
THEOREM ScreenedTheorem == Spec => []ScreenedBeforeInbox
<1>1. IInv => ScreenedBeforeInbox
  <2> SUFFICES ASSUME IInv, NEW m \in Msg,
                      Stored(m), m \notin moved, email[m].status # "QUARANTINED"
               PROVE  /\ ~Spam(m)
                      /\ ictx[m].matched \/ (SenderPasses(checks[m]) /\ ~Forged(checks[m]))
                      /\ email[m].status = Resolved(ictx[m].action).status
    BY DEF ScreenedBeforeInbox
  <2>1. at[m] >= 8 /\ email[m].status = Resolved(ictx[m].action).status
    BY DEF IInv, PipelineInv, Inv, Screened
  <2>2. ~Spam(m)
    BY <2>1 DEF IInv, PipelineInv, Inv, Screened
  <2>3. ictx[m].matched \/ SenderPasses(checks[m])
    <3>1. Passed(m, 1)
      BY <2>1, RunsAt DEF Passed, IInv
    <3>2. ictx[m].action # "quarantine"
      BY <2>1 DEF Resolved
    <3> QED
      BY <3>1, <3>2 DEF IInv, PipelineInv, Inv, Screened
  <2>4. SenderPasses(checks[m]) => ~Forged(checks[m])
    BY PassingIsNotForged DEF IInv, TypeOK
  <2> QED
    BY <2>1, <2>2, <2>3, <2>4
<1> QED
  BY <1>1, Invariance, PTL

\* The closing status of an ingestion is the truth about its message: "accepted" only
\* after everything it called for, "rejected" only for spam.
THEOREM HonestTheorem == Spec => []HonestIngestion
<1>1. IInv => HonestIngestion
  BY DEF IInv, PipelineInv, Inv, Honest, HonestIngestion
<1> QED
  BY <1>1, Invariance, PTL

\* No fault and no crash leaves an email without its body or its thread, or an
\* attachment row without its content.
THEOREM NothingDanglesTheorem == Spec => []NothingDangles
<1>1. IInv => NothingDangles
  BY DEF IInv, PipelineInv, Inv, Persisted, Threaded, NothingDangles
<1> QED
  BY <1>1, Invariance, PTL

\* The rows of ingestion_step tell of one run of the steps, in which at most the last
\* one failed.
THEOREM LogIsOneRunTheorem == Spec => []LogIsOneRun
<1>1. IInv => LogIsOneRun
  <2> SUFFICES ASSUME IInv, NEW m \in Msg, NEW i \in 1..9, NEW k \in 1..9
               PROVE  /\ steplog[m][i] \in Halting /\ k > i => steplog[m][k] = "unlogged"
                      /\ steplog[m][i] # "unlogged" /\ k < i /\ steplog[m][k] = "unlogged" =>
                           <<m, "log">> \in swallowed
    BY StepNumbers DEF LogIsOneRun
  <2>1. at[m] \in 1..9
    BY RunsAt DEF IInv
  <2>2. LoggedSoFar(m)
    BY DEF IInv, PipelineInv, Inv
  <2> QED
    BY <2>1, <2>2 DEF LoggedSoFar
<1> QED
  BY <1>1, Invariance, PTL

\* A reply is put with a message it refers to whenever one was there in time.
THEOREM RepliesJoinTheorem == Spec => []RepliesJoin
<1>1. IInv => RepliesJoin
  BY DEF IInv, PipelineInv, Inv, Threaded, Earlier, RepliesJoin
<1> QED
  BY <1>1, Invariance, PTL
=============================================================================
