--------------------------- MODULE OutboundQueue ---------------------------
(***************************************************************************)
(* The outbound delivery queue: the outbound_job and outbound_job_attempt  *)
(* tables (internal/db/outbound_db.go), the polling workers                *)
(* (internal/outbound/queue.go) and the bounces that the ingestion         *)
(* pipeline applies to the same rows (internal/pipeline/step_parse_dsn.go).*)
(*                                                                         *)
(* A worker is the queue goroutine of one running process.  Two of them    *)
(* coexist when the program is replicated, or for a moment when an old     *)
(* process is still stopping while its successor runs; the claim's FOR     *)
(* UPDATE SKIP LOCKED is there for them.                                   *)
(*                                                                         *)
(* One call of the database is one step.  Time is abstracted to whether a  *)
(* row's next_attempt_datetime has passed: delay is the index of the entry *)
(* of retryDelays the row still waits for, 0 when it is due.               *)
(***************************************************************************)
EXTENDS Naturals, FiniteSets

CONSTANTS
  Job,          \* the ids of outbound_job rows
  Worker,       \* queue goroutines
  MaxAttempts,  \* outbound_job.max_attempts (5 by default)
  NumDelays,    \* Len(retryDelays) (5 in the code)
  ClaimLimit,   \* the limit process() passes to ClaimOutboundJobs (10)
  Faults        \* which of {"crash", "db"} may happen

ASSUME QueueAssumption ==
  /\ MaxAttempts \in Nat \ {0}
  /\ NumDelays \in Nat \ {0}
  /\ ClaimLimit \in Nat \ {0}
  /\ Faults \subseteq {"crash", "db"}

VARIABLES
  row,       \* outbound_job
  attempts,  \* outbound_job_attempt: how many rows say job, number and outcome
  batch,     \* per worker: the claimed jobs not yet started, as read by the claim
  cur,       \* per worker: the attempt in progress
  pc,        \* per worker: where deliver() stands
  routable,  \* jobs whose message has a destination: one of the recipients is
             \* well-formed, or MTA.relay is set
  sends,     \* history: calls of SendWithResponse per job
  answer,    \* history: what the last of them returned
  reached,   \* history: some remote server took the message
  bounced,   \* history: a DSN marked the job
  lost       \* history: the worker that held the job vanished or could not write

tables == <<row, attempts>>
workers == <<batch, cur, pc>>
history == <<routable, sends, answer, reached, bounced, lost>>
vars == <<row, attempts, batch, cur, pc, routable, sends, answer, reached, bounced, lost>>

-----------------------------------------------------------------------------
(* Types *)

Claimable == {"QUEUED", "DEFERRED"}
Terminal == {"DELIVERED", "FAILED"}
Status == {"absent", "SENDING"} \cup Claimable \cup Terminal
Outcome == {"DELIVERED", "DEFERRED", "FAILED"}

\* The last attempt is never written to attempt_count: it ends the job.
Count == 0..(MaxAttempts - 1)
Row == [status : Status, attempt_count : Count, delay : 0..NumDelays]
ClaimedJob == [job : Job, attempt_count : Count]
Attempt == {a \in [job : Job, n : 1..MaxAttempts, outcome : Outcome] :
              a.outcome = "DEFERRED" => a.n < MaxAttempts}
NoAttempt == [outcome |-> "none"]

Init ==
  /\ row = [j \in Job |-> [status |-> "absent", attempt_count |-> 0, delay |-> 0]]
  /\ attempts = [a \in Attempt |-> 0]
  /\ batch = [w \in Worker |-> {}]
  /\ cur = [w \in Worker |-> NoAttempt]
  /\ pc = [w \in Worker |-> "loop"]
  /\ routable \in SUBSET Job
  /\ sends = [j \in Job |-> 0]
  /\ answer = [j \in Job |-> "none"]
  /\ reached = [j \in Job |-> FALSE]
  /\ bounced = [j \in Job |-> FALSE]
  /\ lost = [j \in Job |-> FALSE]

-----------------------------------------------------------------------------
(* Helpers *)

\* Mutants of Due: a claim query that also takes rows in SENDING, and one that has
\* forgotten DEFERRED.
DueReclaims(j) == row[j].status \in {"QUEUED", "DEFERRED", "SENDING"} /\ row[j].delay = 0
DueOnlyQueued(j) == row[j].status = "QUEUED" /\ row[j].delay = 0

Due(j) == row[j].status \in Claimable /\ row[j].delay = 0

\* Worker w still has to send, or to write the outcome of, job j.
Holds(w, j) ==
  \/ \E b \in batch[w] : b.job = j
  \/ pc[w] = "update" /\ cur[w].job = j

Held(j) == \E w \in Worker : Holds(w, j)

\* Job j has a verdict, and no attempt is left that could change it.
Settled(j) == row[j].status \in Terminal /\ ~Held(j)

SameNumber(a, b) == a.job = b.job /\ a.n = b.n

\* delayIdx of deliver(), one-based: the last delay serves all later attempts.
DelayIndex(n) == IF n > NumDelays THEN NumDelays ELSE n

\* Mutant of Verdict: the attempt before the last one gives up.
VerdictEarly(n, ok) ==
  IF ok THEN "DELIVERED" ELSE IF n + 1 >= MaxAttempts THEN "FAILED" ELSE "DEFERRED"

\* Which branch of deliver() attempt number n takes.
Verdict(n, ok) ==
  IF ok THEN "DELIVERED" ELSE IF n >= MaxAttempts THEN "FAILED" ELSE "DEFERRED"

\* Mutant of Updated: a deferral does not write attempt_count.
UpdatedKeepsCount(r, a) ==
  IF a.outcome = "DEFERRED"
  THEN [r EXCEPT !.status = "DEFERRED", !.delay = DelayIndex(a.n)]
  ELSE [r EXCEPT !.status = a.outcome]

\* The row each of UpdateOutboundJobDelivered, -Failed and -Deferred leaves
\* (UPDATE ... WHERE id = $1: the status the row has by then is not looked at).
Updated(r, a) ==
  CASE a.outcome = "DELIVERED" -> [r EXCEPT !.status = "DELIVERED"]
    [] a.outcome = "FAILED" -> [r EXCEPT !.status = "FAILED"]
    [] a.outcome = "DEFERRED" ->
         [status |-> "DEFERRED", attempt_count |-> a.n, delay |-> DelayIndex(a.n)]

\* Mutant of Claimed: the rows are only read, the UPDATE is missing.
ClaimedReadOnly(S) == row

\* The rows of S as the claim's UPDATE leaves them.
Claimed(S) == [j \in Job |-> IF j \in S THEN [row[j] EXCEPT !.status = "SENDING"] ELSE row[j]]

-----------------------------------------------------------------------------
(* Actions *)

\* InsertOutboundJob: a message is sent from the compose form.
Submit(j) ==
  /\ row[j].status = "absent"
  /\ row' = [row EXCEPT ![j] = [status |-> "QUEUED", attempt_count |-> 0, delay |-> 0]]
  /\ UNCHANGED <<attempts, workers, history>>

\* next_attempt_datetime passes.
RetryTimeArrives(j) ==
  /\ row[j].delay > 0
  /\ row' = [row EXCEPT ![j].delay = 0]
  /\ UNCHANGED <<attempts, workers, history>>

\* What a claim may take: due rows no concurrent claim has locked.
ClaimSet(S) ==
  /\ S # {}
  /\ \A j \in S : Due(j)
  /\ Cardinality(S) <= ClaimLimit

\* process(): ClaimOutboundJobs commits and returns the rows it selected.
Claim(w, S) ==
  /\ pc[w] = "loop"
  /\ batch[w] = {}
  /\ ClaimSet(S)
  /\ row' = Claimed(S)
  /\ batch' = [batch EXCEPT ![w] = {[job |-> j, attempt_count |-> row[j].attempt_count] : j \in S}]
  /\ UNCHANGED <<attempts, cur, pc, history>>

\* ClaimOutboundJobs commits, but the worker sees an error and returns.
ClaimUnconfirmed(w, S) ==
  /\ "db" \in Faults
  /\ pc[w] = "loop"
  /\ batch[w] = {}
  /\ ClaimSet(S)
  /\ row' = Claimed(S)
  /\ lost' = [j \in Job |-> j \in S \/ lost[j]]
  /\ UNCHANGED <<attempts, workers, routable, sends, answer, reached, bounced>>

\* deliver(): SendWithResponse returns, as Sending says and Delivery does.  An
\* error does not mean that nobody took the message: one domain of several, or a
\* lost 250, makes it an error.  A message without a destination is a success.
Send(w, b, ok) ==
  LET n == b.attempt_count + 1 IN
  /\ pc[w] = "loop"
  /\ b \in batch[w]
  /\ batch' = [batch EXCEPT ![w] = @ \ {b}]
  /\ cur' = [cur EXCEPT ![w] = [job |-> b.job, n |-> n, outcome |-> Verdict(n, ok)]]
  /\ pc' = [pc EXCEPT ![w] = "update"]
  /\ sends' = [sends EXCEPT ![b.job] = @ + 1]
  /\ answer' = [answer EXCEPT ![b.job] = IF ok THEN "ok" ELSE "error"]
  /\ ok \/ b.job \in routable
  /\ \E taken \in BOOLEAN :
       /\ IF ok THEN taken = (b.job \in routable) ELSE taken => b.job \in routable
       /\ reached' = [reached EXCEPT ![b.job] = @ \/ taken]
  /\ UNCHANGED <<tables, routable, bounced, lost>>

\* deliver(): the row is updated, whatever its status has become meanwhile.
Update(w) ==
  /\ pc[w] = "update"
  /\ row' = [row EXCEPT ![cur[w].job] = Updated(@, cur[w])]
  /\ pc' = [pc EXCEPT ![w] = "record"]
  /\ UNCHANGED <<attempts, batch, cur, history>>

\* The update fails: the error is only logged.
UpdateFails(w) ==
  /\ "db" \in Faults
  /\ pc[w] = "update"
  /\ pc' = [pc EXCEPT ![w] = "record"]
  /\ lost' = [lost EXCEPT ![cur[w].job] = TRUE]
  /\ UNCHANGED <<tables, batch, cur, routable, sends, answer, reached, bounced>>

\* Mutant of Record: the worker returns after one job and drops its batch.
RecordDropsBatch(w) ==
  /\ pc[w] = "record"
  /\ attempts' = [attempts EXCEPT ![cur[w]] = @ + 1]
  /\ pc' = [pc EXCEPT ![w] = "loop"]
  /\ cur' = [cur EXCEPT ![w] = NoAttempt]
  /\ batch' = [batch EXCEPT ![w] = {}]
  /\ UNCHANGED <<row, history>>

\* recordAttempt(): InsertOutboundJobAttempt, then the next job of the batch.
Record(w) ==
  /\ pc[w] = "record"
  /\ attempts' = [attempts EXCEPT ![cur[w]] = @ + 1]
  /\ pc' = [pc EXCEPT ![w] = "loop"]
  /\ cur' = [cur EXCEPT ![w] = NoAttempt]
  /\ UNCHANGED <<row, batch, history>>

RecordFails(w) ==
  /\ "db" \in Faults
  /\ pc[w] = "record"
  /\ pc' = [pc EXCEPT ![w] = "loop"]
  /\ cur' = [cur EXCEPT ![w] = NoAttempt]
  /\ UNCHANGED <<tables, batch, history>>

\* The process dies (or main returns while deliver() runs) and is restarted.
Crash(w) ==
  /\ "crash" \in Faults
  /\ batch[w] # {} \/ pc[w] # "loop"
  /\ lost' = [j \in Job |-> Holds(w, j) \/ lost[j]]
  /\ batch' = [batch EXCEPT ![w] = {}]
  /\ cur' = [cur EXCEPT ![w] = NoAttempt]
  /\ pc' = [pc EXCEPT ![w] = "loop"]
  /\ UNCHANGED <<tables, routable, sends, answer, reached, bounced>>

\* ParseDSN: a message to bounces+<job id>@domain arrives through the pipeline.
\* Only a server that took the message sends one.
Bounce(j) ==
  /\ reached[j]
  /\ row' = [row EXCEPT ![j].status = "FAILED"]
  /\ bounced' = [bounced EXCEPT ![j] = TRUE]
  /\ UNCHANGED <<attempts, workers, routable, sends, answer, reached, lost>>

WorkerStep(w) ==
  \/ \E S \in SUBSET Job : Claim(w, S)
  \/ \E b \in batch[w], ok \in BOOLEAN : Send(w, b, ok)
  \/ Update(w)
  \/ Record(w)

Fault(w) ==
  \/ \E S \in SUBSET Job : ClaimUnconfirmed(w, S)
  \/ UpdateFails(w)
  \/ RecordFails(w)
  \/ Crash(w)

Next ==
  \/ \E j \in Job : Submit(j) \/ RetryTimeArrives(j) \/ Bounce(j)
  \/ \E w \in Worker : WorkerStep(w) \/ Fault(w)

Spec == Init /\ [][Next]_vars

\* A running worker polls every ten seconds, the MTA's calls return, and time
\* passes.  Nobody has to send mail, and no remote server has to bounce it.
Fairness ==
  /\ \A w \in Worker : WF_vars(WorkerStep(w))
  /\ \A j \in Job : WF_vars(RetryTimeArrives(j))

FairSpec == Spec /\ Fairness

-----------------------------------------------------------------------------
(* Properties *)

TypeOK ==
  /\ row \in [Job -> Row]
  /\ attempts \in [Attempt -> Nat]
  /\ batch \in [Worker -> SUBSET ClaimedJob]
  /\ pc \in [Worker -> {"loop", "update", "record"}]
  /\ cur \in [Worker -> Attempt \cup {NoAttempt}]
  /\ \A w \in Worker : pc[w] # "loop" => cur[w] \in Attempt
  /\ sends \in [Job -> Nat]
  /\ routable \in SUBSET Job
  /\ answer \in [Job -> {"none", "ok", "error"}]
  /\ reached \in [Job -> BOOLEAN]
  /\ bounced \in [Job -> BOOLEAN]
  /\ lost \in [Job -> BOOLEAN]

\* No two workers work on one job, and no worker has it twice: whatever the
\* claims, crashes, late updates and bounces, one job has one attempt in flight.
\* ImplementsLifecycle says so of a job; the proof of the latter rests on this.
ExclusiveAttempt ==
  /\ \A w, v \in Worker, j \in Job : Holds(w, j) /\ Holds(v, j) => w = v
  /\ \A w \in Worker : \A b, c \in batch[w] : b.job = c.job => b = c
  /\ \A w \in Worker : \A b \in batch[w] : pc[w] = "update" => b.job # cur[w].job

\* The attempt log tells one story: an attempt number appears at most once for
\* a job, and no row that is still to be inserted repeats a number.
AttemptLogUnique ==
  /\ \A a \in Attempt : attempts[a] <= 1
  /\ \A a, b \in Attempt : attempts[a] > 0 /\ attempts[b] > 0 /\ SameNumber(a, b) => a = b
  /\ \A w \in Worker, a \in Attempt :
       pc[w] # "loop" /\ SameNumber(a, cur[w]) => attempts[a] = 0

\* A message is handed to the MTA at most max_attempts times; the worker gives
\* up only after the last one, and DELIVERED means some server took it, unless
\* there was none to take it to.
HonestVerdict ==
  \A j \in Job :
    /\ sends[j] <= MaxAttempts
    /\ row[j].status = "FAILED" => bounced[j] \/ sends[j] = MaxAttempts
    /\ row[j].status = "DELIVERED" => reached[j] \/ j \notin routable

\* Only a crash or a database error leaves a job SENDING with nobody on it.
StrandedOnlyByFault ==
  \A j \in Job : row[j].status = "SENDING" => Held(j) \/ lost[j]

\* Once a job is DELIVERED or FAILED and no attempt on it is in flight, no worker
\* ever picks it up again: its message is not sent and its row stays settled.
NoSendAfterSettled ==
  [][\A j \in Job : Settled(j) => Settled(j)' /\ sends'[j] = sends[j]]_vars

\* The jobs as JobLifecycle sees them.
VerdictOf(j) ==
  CASE row[j].status = "absent" -> "absent"
    [] row[j].status = "DELIVERED" -> "delivered"
    [] row[j].status = "FAILED" -> "failed"
    [] OTHER -> "pending"

Taken(j) == \E w \in Worker : \E b \in batch[w] : b.job = j
Tried(j) == \E w \in Worker : pc[w] = "update" /\ cur[w].job = j

PhaseOf(j) ==
  IF lost[j] THEN "lost"
  ELSE IF Taken(j) THEN "taken"
  ELSE IF Tried(j) THEN "tried" ELSE "idle"

Lifecycle == INSTANCE JobLifecycle WITH
  verdict <- [j \in Job |-> VerdictOf(j)],
  phase <- [j \in Job |-> PhaseOf(j)],
  tries <- sends

\* Workers, batches and snapshots implement the life of one job.
ImplementsLifecycle == Lifecycle!Spec

\* What the MTA promises of one message, the queue relies on and keeps its side:
\* however an update is lost, a worker dies or a bounce interferes, no call is made
\* after one that succeeded, nor more than max_attempts.
Message(j) == INSTANCE Sending WITH
  MaxTries <- MaxAttempts,
  routable <- j \in routable,
  tries <- sends[j],
  answer <- answer[j],
  reached <- reached[j]

SendsAsAgreed ==
  /\ \A j \in Job : Message(j)!Init
  /\ [][\A j \in Job : [Message(j)!Next]_(Message(j)!vars)]_vars

\* Every job comes to a verdict and, bounces racing the worker or not, stays at
\* one, unless a crash or a failed call has taken it from its worker.
EveryJobSettles ==
  \A j \in Job : row[j].status = "QUEUED" ~> (lost[j] \/ [](row[j].status \in Terminal))
=============================================================================
