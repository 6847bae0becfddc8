------------------------ MODULE OutboundQueueProofs ------------------------
(***************************************************************************)
(* Proofs about OutboundQueue, for any sets of jobs and workers, any       *)
(* number of attempts and delays, and any of the faults.                   *)
(*                                                                         *)
(* ExclusiveAttempt, AttemptLogUnique, HonestVerdict and                   *)
(* StrandedOnlyByFault are not inductive by themselves: that a claim takes *)
(* a job nobody holds follows from what the row's status says about its    *)
(* holders (HeldRow), that a number is new in the log from where           *)
(* attempt_count stands (LogBehind), and that the budget is not exceeded   *)
(* from how attempt_count follows the sends (CountFollowsSends).           *)
(*                                                                         *)
(* Sending is what the queue and the MTA have agreed on about one message, *)
(* and both sides of it are proved: that the queue sends nothing after an  *)
(* answer it should have heard (Concluded), and that the MTA gives no      *)
(* answer that nothing stands for (Contract).                              *)
(*                                                                         *)
(* The last part is about Delivery, what a worker's send does, for any     *)
(* recipients, exchangers, messages, administrators and numbers of         *)
(* attempts.  An attempt that may still bring the message to somebody has  *)
(* brought one copy less than it may (Bounded), and one that has not       *)
(* failed leaves nobody out whom it does not come to yet (NobodyLeft).  Of *)
(* administrators who take turns, the one whose page shows a key shows the *)
(* one that signs, and somebody's does until it is published (InTurns,     *)
(* InDns).  Its types rest on the rows of keys there are (KeyRows) and on  *)
(* what an attempt in progress is at (Calls).                              *)
(***************************************************************************)
EXTENDS OutboundQueue, Sequences, TLAPS

\* A row somebody works on is SENDING, or FAILED by a bounce, and what the
\* worker read of it is still what it says.
HeldRow ==
  \A w \in Worker :
    /\ \A b \in batch[w] :
         /\ row[b.job].status \in {"SENDING", "FAILED"}
         /\ row[b.job].status = "FAILED" => bounced[b.job]
         /\ row[b.job].attempt_count = b.attempt_count
    /\ pc[w] = "update" =>
         /\ row[cur[w].job].status \in {"SENDING", "FAILED"}
         /\ row[cur[w].job].status = "FAILED" => bounced[cur[w].job]
         /\ cur[w].n = row[cur[w].job].attempt_count + 1

\* The outcome a worker is about to write is justified.
JustifiedOutcome ==
  \A w \in Worker : pc[w] = "update" =>
    /\ cur[w].outcome = "DELIVERED" => reached[cur[w].job] \/ cur[w].job \notin routable
    /\ cur[w].outcome = "FAILED" => cur[w].n = MaxAttempts
    /\ sends[cur[w].job] = cur[w].n

\* attempt_count is the number of sends as long as the job can be claimed or
\* waits in a batch, and at most one behind afterwards.
CountFollowsSends ==
  /\ \A j \in Job :
       /\ sends[j] <= row[j].attempt_count + 1
       /\ row[j].status \in Claimable \cup {"absent"} => sends[j] = row[j].attempt_count
       /\ row[j].status = "absent" => row[j].attempt_count = 0
  /\ \A w \in Worker : \A b \in batch[w] : sends[b.job] = b.attempt_count

\* Attempt n of job j is in the log, or the only thing left to do is to log it.
Logged(j, n) ==
  \/ \E a \in Attempt : attempts[a] > 0 /\ a.job = j /\ a.n = n
  \/ \E w \in Worker : pc[w] = "record" /\ cur[w].job = j /\ cur[w].n = n

\* A number beyond attempt_count is in the log only of a job that nobody
\* holds and nobody can claim.
LogBehind ==
  \A j \in Job, n \in 1..MaxAttempts :
    Logged(j, n) /\ n > row[j].attempt_count =>
      ~Held(j) /\ row[j].status \notin Claimable \cup {"absent"}

\* No two attempts in progress share job and number.
DistinctNumbers ==
  \A w, v \in Worker :
    pc[w] # "loop" /\ pc[v] # "loop" /\ SameNumber(cur[w], cur[v]) => w = v

QueueInv ==
  /\ ExclusiveAttempt
  /\ HeldRow
  /\ JustifiedOutcome
  /\ CountFollowsSends
  /\ LogBehind
  /\ DistinctNumbers
  /\ AttemptLogUnique
  /\ HonestVerdict
  /\ StrandedOnlyByFault

IInv == TypeOK /\ QueueInv

-----------------------------------------------------------------------------
(* Type correctness *)

LEMMA InitTypeOK == Init => TypeOK
BY QueueAssumption
   DEF Init, TypeOK, Row, Status, Claimable, Terminal, Count, Outcome, NoAttempt

\* The rows a claim leaves are rows.
LEMMA ClaimedRows ==
  ASSUME TypeOK, NEW S \in SUBSET Job
  PROVE  /\ Claimed(S) \in [Job -> Row]
         /\ {[job |-> j, attempt_count |-> row[j].attempt_count] : j \in S} \in SUBSET ClaimedJob
<1>1. ASSUME NEW j \in Job
      PROVE  /\ row[j] \in Row
             /\ [row[j] EXCEPT !.status = "SENDING"] \in Row
             /\ [job |-> j, attempt_count |-> row[j].attempt_count] \in ClaimedJob
  BY DEF TypeOK, Row, ClaimedJob, Status
<1>2. Claimed(S) \in [Job -> Row]
  BY <1>1 DEF Claimed
<1>3. QED
  BY <1>1, <1>2

\* deliver()'s outcome is one of the three, and DEFERRED before the last try.
LEMMA VerdictType ==
  ASSUME NEW n \in 1..MaxAttempts, NEW ok \in BOOLEAN
  PROVE  /\ Verdict(n, ok) \in Outcome
         /\ Verdict(n, ok) = "DEFERRED" => n < MaxAttempts
         /\ Verdict(n, ok) = "FAILED" => n = MaxAttempts
         /\ Verdict(n, ok) = "DELIVERED" => ok
BY QueueAssumption DEF Verdict, Outcome

\* The delay is an index of retryDelays.
LEMMA DelayIndexType ==
  ASSUME NEW n \in 1..MaxAttempts
  PROVE  DelayIndex(n) \in 1..NumDelays
BY QueueAssumption DEF DelayIndex

LEMMA UpdatedRow ==
  ASSUME NEW r \in Row, NEW a \in Attempt
  PROVE  Updated(r, a) \in Row
<1>1. a.n \in 1..MaxAttempts /\ a.outcome \in Outcome /\ (a.outcome = "DEFERRED" => a.n < MaxAttempts)
  BY DEF Attempt
<1>2. CASE a.outcome = "DELIVERED"
  BY <1>2 DEF Updated, Row, Status, Terminal
<1>3. CASE a.outcome = "FAILED"
  BY <1>3 DEF Updated, Row, Status, Terminal
<1>4. CASE a.outcome = "DEFERRED"
  <2>1. Updated(r, a) = [status |-> "DEFERRED", attempt_count |-> a.n, delay |-> DelayIndex(a.n)]
    BY <1>4 DEF Updated
  <2>2. a.n \in Count /\ DelayIndex(a.n) \in 0..NumDelays
    BY <1>1, <1>4, DelayIndexType, QueueAssumption DEF Count
  <2>3. QED
    BY <2>1, <2>2 DEF Row, Status, Claimable
<1>5. QED
  BY <1>1, <1>2, <1>3, <1>4 DEF Outcome

LEMMA NextTypeOK == TypeOK /\ [Next]_vars => TypeOK'
<1> SUFFICES ASSUME TypeOK, [Next]_vars
             PROVE  TypeOK'
  OBVIOUS
<1> USE DEF TypeOK, tables, workers, history
<1>1. ASSUME NEW j \in Job, Submit(j)
      PROVE  TypeOK'
  BY <1>1, QueueAssumption DEF Submit, Row, Status, Claimable, Count
<1>2. ASSUME NEW j \in Job, RetryTimeArrives(j)
      PROVE  TypeOK'
  <2>1. [row[j] EXCEPT !.delay = 0] \in Row
    <3>1. row[j] \in Row /\ 0 \in 0..NumDelays
      BY QueueAssumption
    <3> QED BY <3>1 DEF Row
  <2>2. row' = [row EXCEPT ![j] = [row[j] EXCEPT !.delay = 0]]
    BY <1>2 DEF RetryTimeArrives
  <2>3. QED
    BY <1>2, <2>1, <2>2 DEF RetryTimeArrives
<1>3. ASSUME NEW j \in Job, Bounce(j)
      PROVE  TypeOK'
  <2>1. row' \in [Job -> Row]
    BY <1>3 DEF Bounce, Row, Status, Terminal
  <2>2. bounced' \in [Job -> BOOLEAN]
    BY <1>3 DEF Bounce
  <2>3. QED
    BY <1>3, <2>1, <2>2 DEF Bounce
<1>4. ASSUME NEW w \in Worker, NEW S \in SUBSET Job, Claim(w, S)
      PROVE  TypeOK'
  BY <1>4, ClaimedRows DEF Claim
<1>5. ASSUME NEW w \in Worker, NEW S \in SUBSET Job, ClaimUnconfirmed(w, S)
      PROVE  TypeOK'
  BY <1>5, ClaimedRows DEF ClaimUnconfirmed
<1>6. ASSUME NEW w \in Worker, NEW b \in batch[w], NEW ok \in BOOLEAN, Send(w, b, ok)
      PROVE  TypeOK'
  <2> DEFINE n == b.attempt_count + 1
             a == [job |-> b.job, n |-> n, outcome |-> Verdict(n, ok)]
  <2>1. b \in ClaimedJob /\ b.job \in Job /\ n \in 1..MaxAttempts
    BY QueueAssumption DEF ClaimedJob, Count
  <2>2. a \in Attempt
    BY <2>1, VerdictType DEF Attempt
  <2>3. cur' = [cur EXCEPT ![w] = a] /\ pc' = [pc EXCEPT ![w] = "update"]
    BY <1>6 DEF Send
  <2>4. batch' \in [Worker -> SUBSET ClaimedJob]
    BY <1>6 DEF Send
  <2>5. /\ sends' \in [Job -> Nat] /\ reached' \in [Job -> BOOLEAN]
        /\ answer' \in [Job -> {"none", "ok", "error"}]
    BY <1>6, <2>1 DEF Send
  <2>6. UNCHANGED <<row, attempts, routable, bounced, lost>>
    BY <1>6 DEF Send
  <2>7. /\ cur' \in [Worker -> Attempt \cup {NoAttempt}]
        /\ pc' \in [Worker -> {"loop", "update", "record"}]
        /\ \A v \in Worker : pc'[v] # "loop" => cur'[v] \in Attempt
    <3> HIDE DEF a
    <3> QED BY <2>2, <2>3
  <2>8. QED
    BY <2>4, <2>5, <2>6, <2>7
<1>7. ASSUME NEW w \in Worker, Update(w)
      PROVE  TypeOK'
  <2>1. cur[w] \in Attempt /\ cur[w].job \in Job
    BY <1>7 DEF Update, Attempt
  <2>2. row' \in [Job -> Row]
    BY <1>7, <2>1, UpdatedRow DEF Update
  <2>3. QED
    BY <1>7, <2>1, <2>2 DEF Update
<1>8. ASSUME NEW w \in Worker, UpdateFails(w)
      PROVE  TypeOK'
  BY <1>8 DEF UpdateFails
<1>9. ASSUME NEW w \in Worker, Record(w)
      PROVE  TypeOK'
  BY <1>9 DEF Record
<1>10. ASSUME NEW w \in Worker, RecordFails(w)
       PROVE  TypeOK'
  BY <1>10 DEF RecordFails
<1>11. ASSUME NEW w \in Worker, Crash(w)
       PROVE  TypeOK'
  <2>1. lost' \in [Job -> BOOLEAN]
    BY <1>11 DEF Crash, Holds
  <2>2. QED
    BY <1>11, <2>1 DEF Crash
<1>12. CASE UNCHANGED vars
  BY <1>12 DEF vars
<1>13. QED
  BY <1>1, <1>2, <1>3, <1>4, <1>5, <1>6, <1>7, <1>8, <1>9, <1>10, <1>11, <1>12
     DEF Next, WorkerStep, Fault

\* Every variable keeps its type; in particular attempt_count never reaches
\* max_attempts and the delay is always an index of retryDelays.
THEOREM TypeCorrect == Spec => []TypeOK
BY InitTypeOK, NextTypeOK, PTL DEF Spec

-----------------------------------------------------------------------------
(* The inductive invariant *)

LEMMA InitIInv == Init => IInv
BY InitTypeOK, QueueAssumption
   DEF Init, IInv, QueueInv, ExclusiveAttempt, HeldRow, JustifiedOutcome, CountFollowsSends, LogBehind,
       DistinctNumbers, AttemptLogUnique, HonestVerdict, StrandedOnlyByFault, Holds, Held,
       Logged, SameNumber, Claimable, Terminal, NoAttempt

\* Nobody holds a job that can be claimed or does not exist yet.
LEMMA UnheldRow ==
  ASSUME TypeOK, HeldRow, NEW j \in Job, row[j].status \in Claimable \cup {"absent"}
  PROVE  ~Held(j)
BY DEF TypeOK, HeldRow, Held, Holds, Claimable, ClaimedJob

\* An attempt that has not been written to the row yet is not in the log either.
LEMMA NotLogged ==
  ASSUME TypeOK, LogBehind, NEW j \in Job, NEW n \in 1..MaxAttempts,
         n > row[j].attempt_count, Held(j)
  PROVE  ~Logged(j, n)
BY DEF LogBehind

LEMMA SubmitIInv ==
  ASSUME IInv, NEW j \in Job, Submit(j)
  PROVE  QueueInv'
<1> USE DEF IInv, QueueInv, Submit, tables, workers, history, TypeOK
<1>1. row[j].attempt_count = 0 /\ ~Held(j)
  BY UnheldRow DEF CountFollowsSends
<1>2. ExclusiveAttempt' /\ DistinctNumbers' /\ AttemptLogUnique' /\ JustifiedOutcome'
  BY DEF ExclusiveAttempt, DistinctNumbers, AttemptLogUnique, JustifiedOutcome, Holds,
     SameNumber
<1>3. HeldRow'
  BY DEF HeldRow, ClaimedJob, Attempt
<1>4. CountFollowsSends'
  BY <1>1 DEF CountFollowsSends, Claimable, ClaimedJob
<1>5. LogBehind'
  BY <1>1 DEF LogBehind, Logged, Held, Holds
<1>6. HonestVerdict' /\ StrandedOnlyByFault'
  BY DEF HonestVerdict, StrandedOnlyByFault, Held, Holds
<1>7. QED
  BY <1>2, <1>3, <1>4, <1>5, <1>6

LEMMA RetryTimeArrivesIInv ==
  ASSUME IInv, NEW j \in Job, RetryTimeArrives(j)
  PROVE  QueueInv'
<1> USE DEF IInv, QueueInv, RetryTimeArrives, tables, workers, history, TypeOK
<1>1. \A k \in Job : row'[k].status = row[k].status /\ row'[k].attempt_count = row[k].attempt_count
  BY DEF Row
<1>2. ExclusiveAttempt' /\ DistinctNumbers' /\ AttemptLogUnique' /\ JustifiedOutcome'
  BY DEF ExclusiveAttempt, DistinctNumbers, AttemptLogUnique, JustifiedOutcome, Holds,
     SameNumber
<1>3. HeldRow' /\ CountFollowsSends'
  BY <1>1 DEF HeldRow, CountFollowsSends, ClaimedJob, Attempt
<1>4. LogBehind'
  BY <1>1 DEF LogBehind, Logged, Held, Holds
<1>5. HonestVerdict' /\ StrandedOnlyByFault'
  BY <1>1 DEF HonestVerdict, StrandedOnlyByFault, Held, Holds
<1>6. QED
  BY <1>2, <1>3, <1>4, <1>5

LEMMA BounceIInv ==
  ASSUME IInv, NEW j \in Job, Bounce(j)
  PROVE  QueueInv'
<1> USE DEF IInv, QueueInv, Bounce, tables, workers, history, TypeOK
<1>1. /\ \A k \in Job : row'[k].attempt_count = row[k].attempt_count
      /\ \A k \in Job \ {j} : row'[k] = row[k] /\ bounced'[k] = bounced[k]
      /\ row'[j].status = "FAILED" /\ bounced'[j]
  BY DEF Row
<1>2. ExclusiveAttempt' /\ DistinctNumbers' /\ AttemptLogUnique' /\ JustifiedOutcome'
  BY DEF ExclusiveAttempt, DistinctNumbers, AttemptLogUnique, JustifiedOutcome, Holds,
     SameNumber
<1>3. HeldRow'
  BY <1>1 DEF HeldRow, ClaimedJob, Attempt
<1>4. CountFollowsSends'
  BY <1>1 DEF CountFollowsSends, Claimable, ClaimedJob
<1>5. LogBehind'
  BY <1>1 DEF LogBehind, Logged, Held, Holds, Claimable
<1>6. HonestVerdict' /\ StrandedOnlyByFault'
  BY <1>1 DEF HonestVerdict, StrandedOnlyByFault, Held, Holds
<1>7. QED
  BY <1>2, <1>3, <1>4, <1>5, <1>6

\* What a claim's UPDATE does to the rows.
LEMMA ClaimRows ==
  ASSUME TypeOK, NEW S \in SUBSET Job, ClaimSet(S), row' = Claimed(S)
  PROVE  /\ \A k \in S : row[k].status \in Claimable /\ row'[k].status = "SENDING"
         /\ \A k \in Job \ S : row'[k] = row[k]
         /\ \A k \in Job : row'[k].attempt_count = row[k].attempt_count
BY DEF TypeOK, ClaimSet, Due, Claimed, Row

LEMMA ClaimIInv ==
  ASSUME IInv, NEW w \in Worker, NEW S \in SUBSET Job, Claim(w, S)
  PROVE  QueueInv'
<1> USE DEF IInv, QueueInv, tables, workers, history, TypeOK
<1>1. /\ \A k \in S : row[k].status \in Claimable /\ row'[k].status = "SENDING"
      /\ \A k \in Job \ S : row'[k] = row[k]
      /\ \A k \in Job : row'[k].attempt_count = row[k].attempt_count
  BY ClaimRows DEF Claim
<1>2. /\ \A c \in batch'[w] : c.job \in S /\ c.attempt_count = row[c.job].attempt_count
                              /\ c = [job |-> c.job, attempt_count |-> c.attempt_count]
      /\ \A k \in S : \E c \in batch'[w] : c.job = k
      /\ \A v \in Worker \ {w} : batch'[v] = batch[v]
      /\ UNCHANGED <<attempts, cur, pc, routable, sends, answer, reached, bounced, lost>>
      /\ pc[w] = "loop" /\ batch[w] = {}
  <2> DEFINE B == {[job |-> k, attempt_count |-> row[k].attempt_count] : k \in S}
  <2>1. batch' = [batch EXCEPT ![w] = B] /\ pc[w] = "loop" /\ batch[w] = {}
    BY DEF Claim
  <2>2. UNCHANGED <<attempts, cur, pc, routable, sends, answer, reached, bounced, lost>>
    BY DEF Claim
  <2>3. ASSUME NEW k \in S
        PROVE  \E c \in B : c.job = k
    <3>1. [job |-> k, attempt_count |-> row[k].attempt_count] \in B
      OBVIOUS
    <3>2. [job |-> k, attempt_count |-> row[k].attempt_count].job = k
      OBVIOUS
    <3> HIDE DEF B
    <3> QED BY <3>1, <3>2
  <2>4. \A c \in B : c.job \in S /\ c.attempt_count = row[c.job].attempt_count
                     /\ c = [job |-> c.job, attempt_count |-> c.attempt_count]
    OBVIOUS
  <2>5. batch'[w] = B /\ \A v \in Worker \ {w} : batch'[v] = batch[v]
    <3> HIDE DEF B
    <3> QED BY <2>1
  <2>6. QED
    <3> HIDE DEF B
    <3> QED BY <2>1, <2>2, <2>3, <2>4, <2>5
<1>3. \A k \in S : ~Held(k)
  BY <1>1, UnheldRow
<1>4. /\ \A k \in Job : Holds(w, k)' <=> k \in S
      /\ \A v \in Worker \ {w}, k \in Job : Holds(v, k)' <=> Holds(v, k)
      /\ \A k \in Job : ~Holds(w, k)
      /\ \A v \in Worker, k \in S : ~Holds(v, k)
  BY <1>2, <1>3 DEF Holds, Held
<1>5. ExclusiveAttempt'
  BY <1>2, <1>4 DEF ExclusiveAttempt
<1>6. HeldRow'
  <2>1. ASSUME NEW c \in batch'[w]
        PROVE  row'[c.job].status = "SENDING" /\ row'[c.job].attempt_count = c.attempt_count
    BY <1>1, <1>2, <2>1
  <2>2. ASSUME NEW v \in Worker \ {w}, NEW k \in Job, Holds(v, k) PROVE row'[k] = row[k]
    BY <1>1, <1>4, <2>2
  <2>3. ASSUME NEW v \in Worker \ {w}, NEW c \in batch'[v]
        PROVE  c \in batch[v] /\ row'[c.job] = row[c.job]
    BY <1>2, <2>2, <2>3 DEF Holds, ClaimedJob
  <2>4. ASSUME NEW v \in Worker, pc'[v] = "update"
        PROVE  v # w /\ pc[v] = "update" /\ cur'[v] = cur[v] /\ row'[cur[v].job] = row[cur[v].job]
    BY <1>2, <2>2, <2>4 DEF Holds, Attempt
  <2> QED
    BY <1>2, <2>1, <2>3, <2>4 DEF HeldRow
<1>7. JustifiedOutcome' /\ DistinctNumbers' /\ AttemptLogUnique'
  <2>1. JustifiedOutcome'
    BY <1>2 DEF JustifiedOutcome
  <2>2. DistinctNumbers'
    BY <1>2 DEF DistinctNumbers, SameNumber
  <2>3. AttemptLogUnique'
    BY <1>2 DEF AttemptLogUnique, SameNumber
  <2> QED
    BY <2>1, <2>2, <2>3
<1>8. CountFollowsSends'
  <2>1. ASSUME NEW k \in Job
        PROVE  /\ sends'[k] <= row'[k].attempt_count + 1
               /\ row'[k].status \in Claimable \cup {"absent"} => sends'[k] = row'[k].attempt_count
               /\ row'[k].status = "absent" => row'[k].attempt_count = 0
    BY <1>1, <1>2 DEF CountFollowsSends, Claimable
  <2>2. ASSUME NEW v \in Worker, NEW c \in batch'[v]
        PROVE  sends'[c.job] = c.attempt_count
    <3>1. CASE v = w
      BY <1>1, <1>2, <2>2, <3>1 DEF CountFollowsSends
    <3>2. CASE v # w
      BY <1>2, <2>2, <3>2 DEF CountFollowsSends
    <3> QED
      BY <3>1, <3>2
  <2> QED
    BY <2>1, <2>2 DEF CountFollowsSends
<1>9. LogBehind'
  BY <1>1, <1>2, <1>4 DEF LogBehind, Logged, Held, Claimable
<1>10. HonestVerdict'
  BY <1>1, <1>2 DEF HonestVerdict
<1>11. StrandedOnlyByFault'
  BY <1>1, <1>2, <1>4 DEF StrandedOnlyByFault, Held
<1>12. QED
  BY <1>5, <1>6, <1>7, <1>8, <1>9, <1>10, <1>11

LEMMA ClaimUnconfirmedIInv ==
  ASSUME IInv, NEW w \in Worker, NEW S \in SUBSET Job, ClaimUnconfirmed(w, S)
  PROVE  QueueInv'
<1> USE DEF IInv, QueueInv, tables, workers, history, TypeOK
<1>1. /\ \A k \in S : row[k].status \in Claimable /\ row'[k].status = "SENDING"
      /\ \A k \in Job \ S : row'[k] = row[k]
      /\ \A k \in Job : row'[k].attempt_count = row[k].attempt_count
  BY ClaimRows DEF ClaimUnconfirmed
<1>2. /\ UNCHANGED <<attempts, batch, cur, pc, routable, sends, answer, reached, bounced>>
      /\ \A k \in Job : lost'[k] <=> k \in S \/ lost[k]
  BY DEF ClaimUnconfirmed
<1>3. \A k \in S : ~Held(k)
  BY <1>1, UnheldRow
<1>4. ExclusiveAttempt' /\ JustifiedOutcome' /\ DistinctNumbers' /\ AttemptLogUnique'
  BY <1>2 DEF ExclusiveAttempt, JustifiedOutcome, DistinctNumbers, AttemptLogUnique, Holds,
     SameNumber
<1>5. HeldRow'
  BY <1>1, <1>2, <1>3 DEF HeldRow, Held, Holds, ClaimedJob, Attempt
<1>6. CountFollowsSends'
  BY <1>1, <1>2 DEF CountFollowsSends, Claimable, ClaimedJob
<1>7. LogBehind'
  BY <1>1, <1>2 DEF LogBehind, Logged, Held, Holds, Claimable
<1>8. HonestVerdict' /\ StrandedOnlyByFault'
  BY <1>1, <1>2 DEF HonestVerdict, StrandedOnlyByFault, Held, Holds
<1>9. QED
  BY <1>4, <1>5, <1>6, <1>7, <1>8

LEMMA SendIInv ==
  ASSUME IInv, NEW w \in Worker, NEW b \in batch[w], NEW ok \in BOOLEAN, Send(w, b, ok)
  PROVE  QueueInv'
<1> DEFINE j == b.job
           n == b.attempt_count + 1
<1> USE DEF IInv, QueueInv, tables, workers, history, TypeOK
<1>1. /\ b \in ClaimedJob /\ j \in Job /\ n \in 1..MaxAttempts
      /\ row[j].attempt_count = b.attempt_count /\ sends[j] = b.attempt_count
      /\ Holds(w, j) /\ Held(j)
  BY QueueAssumption DEF ClaimedJob, Count, HeldRow, CountFollowsSends, Holds, Held
<1>2. /\ cur'[w].job = j /\ cur'[w].n = n /\ cur'[w].outcome = Verdict(n, ok)
      /\ pc[w] = "loop" /\ pc'[w] = "update" /\ batch'[w] = batch[w] \ {b}
      /\ \A v \in Worker \ {w} : batch'[v] = batch[v] /\ cur'[v] = cur[v] /\ pc'[v] = pc[v]
      /\ UNCHANGED <<row, attempts, routable, bounced, lost>>
  BY DEF Send
<1>3. /\ sends'[j] = n
      /\ \A k \in Job \ {j} : sends'[k] = sends[k]
      /\ \A k \in Job : reached[k] => reached'[k]
      /\ ok => reached'[j] \/ j \notin routable
  BY <1>1 DEF Send
<1>4. \A v \in Worker, k \in Job : Holds(v, k)' <=> Holds(v, k)
  BY <1>1, <1>2 DEF Holds, ExclusiveAttempt
<1>5. ~Logged(j, n)
  BY <1>1, NotLogged
<1>6. ExclusiveAttempt'
  BY <1>1, <1>2, <1>4 DEF ExclusiveAttempt
<1>7. HeldRow'
  BY <1>1, <1>2 DEF HeldRow
<1>8. JustifiedOutcome'
  <2>1. \A v \in Worker \ {w} : pc[v] = "update" => cur[v].job # j /\ cur[v].job \in Job
    BY <1>1 DEF ExclusiveAttempt, Holds, Attempt
  <2>2. Verdict(n, ok) = "FAILED" => n = MaxAttempts
    BY <1>1, VerdictType
  <2>3. Verdict(n, ok) = "DELIVERED" => ok
    BY <1>1, VerdictType
  <2>4. QED
    BY <1>1, <1>2, <1>3, <2>1, <2>2, <2>3 DEF JustifiedOutcome
<1>9. CountFollowsSends'
  <2>1. row[j].status \notin Claimable \cup {"absent"}
    BY <1>1, UnheldRow
  <2>2. \A v \in Worker : \A c \in batch'[v] : c \in batch[v] /\ c.job # j
    BY <1>1, <1>2 DEF ExclusiveAttempt, Holds
  <2>3. QED
    BY <1>1, <1>2, <1>3, <2>1, <2>2 DEF CountFollowsSends, ClaimedJob
<1>10. LogBehind'
  BY <1>2, <1>4 DEF LogBehind, Logged, Held
<1>11. DistinctNumbers'
  <2>1. \A v \in Worker \ {w} : pc[v] # "loop" /\ cur[v].job = j => cur[v].n # n
    BY <1>1, <1>5 DEF Logged, ExclusiveAttempt, Holds
  <2>2. QED
    BY <1>2, <2>1 DEF DistinctNumbers, SameNumber
<1>12. AttemptLogUnique'
  <2>1. \A a \in Attempt : a.job = j /\ a.n = n => attempts[a] = 0
    BY <1>5 DEF Logged
  <2>2. QED
    BY <1>2, <2>1 DEF AttemptLogUnique, SameNumber
<1>13. HonestVerdict'
  <2>1. row[j].status = "FAILED" => bounced[j]
    BY DEF HeldRow
  <2>2. QED
    BY <1>1, <1>2, <1>3, <2>1 DEF HonestVerdict
<1>14. StrandedOnlyByFault'
  BY <1>2, <1>4 DEF StrandedOnlyByFault, Held
<1>15. QED
  BY <1>6, <1>7, <1>8, <1>9, <1>10, <1>11, <1>12, <1>13, <1>14

\* What the outcome's UPDATE does to the row.
LEMMA UpdateRows ==
  ASSUME TypeOK, NEW w \in Worker, Update(w)
  PROVE  LET j == cur[w].job IN
         /\ j \in Job
         /\ \A k \in Job \ {j} : row'[k] = row[k]
         /\ row'[j].status = cur[w].outcome
         /\ cur[w].outcome = "DEFERRED" => row'[j].attempt_count = cur[w].n
         /\ cur[w].outcome # "DEFERRED" => row'[j].attempt_count = row[j].attempt_count
<1>1. cur[w] \in Attempt /\ cur[w].job \in Job /\ cur[w].outcome \in Outcome
  BY DEF TypeOK, Update, Attempt
<1>2. row'[cur[w].job] = Updated(row[cur[w].job], cur[w])
      /\ \A k \in Job \ {cur[w].job} : row'[k] = row[k]
  BY <1>1 DEF TypeOK, Update
<1>3. row[cur[w].job] \in Row
  BY <1>1 DEF TypeOK
<1>4. QED
  BY <1>1, <1>2, <1>3 DEF Updated, Outcome, Row

LEMMA UpdateIInv ==
  ASSUME IInv, NEW w \in Worker, Update(w)
  PROVE  QueueInv'
<1> USE DEF IInv, QueueInv, tables, workers, history, TypeOK
<1>0. PICK j \in Job, n \in 1..MaxAttempts : j = cur[w].job /\ n = cur[w].n
  BY DEF Update, Attempt
<1>1. /\ cur[w].outcome \in Outcome
      /\ n = row[j].attempt_count + 1 /\ sends[j] = n
      /\ Holds(w, j) /\ Held(j)
  BY <1>0 DEF Update, Attempt, HeldRow, JustifiedOutcome, Holds, Held
<1>2. /\ \A k \in Job \ {j} : row'[k] = row[k]
      /\ row'[j].status = cur[w].outcome
      /\ cur[w].outcome = "DEFERRED" => row'[j].attempt_count = n
      /\ cur[w].outcome # "DEFERRED" => row'[j].attempt_count = row[j].attempt_count
  BY <1>0, UpdateRows
<1>3. /\ pc[w] = "update" /\ pc'[w] = "record"
      /\ \A v \in Worker \ {w} : pc'[v] = pc[v]
      /\ UNCHANGED <<attempts, batch, cur, routable, sends, answer, reached, bounced, lost>>
  BY DEF Update
<1>4. /\ \A v \in Worker : ~Holds(v, j)'
      /\ \A v \in Worker, k \in Job \ {j} : Holds(v, k)' <=> Holds(v, k)
  BY <1>0, <1>1, <1>3 DEF Holds, ExclusiveAttempt
<1>5. ExclusiveAttempt'
  BY <1>0, <1>1, <1>3, <1>4 DEF ExclusiveAttempt
<1>6. HeldRow'
  <2>1. \A v \in Worker : \A c \in batch[v] : c.job \in Job /\ c.job # j
    BY <1>0, <1>1, <1>3 DEF ExclusiveAttempt, Holds, ClaimedJob
  <2>2. \A v \in Worker \ {w} : pc[v] = "update" => cur[v].job \in Job /\ cur[v].job # j
    BY <1>0, <1>1 DEF ExclusiveAttempt, Holds, Attempt
  <2>3. QED
    BY <1>0, <1>2, <1>3, <2>1, <2>2 DEF HeldRow
<1>7. JustifiedOutcome' /\ DistinctNumbers' /\ AttemptLogUnique'
  BY <1>0, <1>3 DEF JustifiedOutcome, DistinctNumbers, AttemptLogUnique, SameNumber
<1>8. CountFollowsSends'
  BY <1>0, <1>1, <1>2, <1>3 DEF CountFollowsSends, Claimable, Outcome
<1>9. LogBehind'
  <2>1. ASSUME NEW k \in Job, NEW m \in 1..MaxAttempts, Logged(k, m)', m > row'[k].attempt_count
        PROVE  ~Held(k)' /\ row'[k].status \notin Claimable \cup {"absent"}
    <3>1. CASE k = j
      <4>1. ~Held(j)'
        BY <1>0, <1>4 DEF Held
      <4>2. m # n => Logged(j, m)
        BY <1>0, <1>3, <2>1, <3>1 DEF Logged
      <4>3. /\ row'[j].attempt_count >= row[j].attempt_count
            /\ row[j].attempt_count \in Nat /\ row'[j].attempt_count \in Nat
        BY <1>0, <1>1, <1>2 DEF Row, Count
      <4>4. m # n => m <= row[j].attempt_count
        BY <1>0, <1>1, <4>2, <4>3, NotLogged
      <4>5. m = n
        BY <2>1, <3>1, <4>3, <4>4
      <4>6. cur[w].outcome # "DEFERRED"
        BY <1>0, <1>1, <1>2, <2>1, <3>1, <4>5
      <4>7. QED
        BY <1>0, <1>1, <1>2, <1>4, <3>1, <4>6 DEF Outcome, Claimable, Held
    <3>2. CASE k # j
      <4>1. Logged(k, m) /\ (Held(k)' <=> Held(k)) /\ row'[k] = row[k]
        BY <1>0, <1>2, <1>3, <1>4, <2>1, <3>2 DEF Logged, Held
      <4>2. QED
        BY <2>1, <4>1 DEF LogBehind
    <3>3. QED
      BY <3>1, <3>2
  <2>2. QED
    BY <2>1 DEF LogBehind
<1>10. HonestVerdict'
  BY <1>0, <1>1, <1>2, <1>3 DEF HonestVerdict, JustifiedOutcome, Outcome
<1>11. StrandedOnlyByFault'
  BY <1>0, <1>1, <1>2, <1>3, <1>4 DEF StrandedOnlyByFault, Held, Outcome
<1>12. QED
  BY <1>5, <1>6, <1>7, <1>8, <1>9, <1>10, <1>11

LEMMA UpdateFailsIInv ==
  ASSUME IInv, NEW w \in Worker, UpdateFails(w)
  PROVE  QueueInv'
<1> USE DEF IInv, QueueInv, tables, workers, history, TypeOK
<1>0. PICK j \in Job, n \in 1..MaxAttempts : j = cur[w].job /\ n = cur[w].n
  BY DEF UpdateFails, Attempt
<1>1. /\ n = row[j].attempt_count + 1
      /\ Holds(w, j) /\ Held(j) /\ row[j].status \notin Claimable \cup {"absent"}
  BY <1>0, UnheldRow DEF UpdateFails, Attempt, HeldRow, Holds, Held
<1>2. /\ pc[w] = "update" /\ pc'[w] = "record"
      /\ \A v \in Worker \ {w} : pc'[v] = pc[v]
      /\ UNCHANGED <<row, attempts, batch, cur, routable, sends, answer, reached, bounced>>
      /\ \A k \in Job : lost'[k] <=> k = j \/ lost[k]
  BY <1>0, <1>1 DEF UpdateFails
<1>3. /\ \A v \in Worker : ~Holds(v, j)'
      /\ \A v \in Worker, k \in Job \ {j} : Holds(v, k)' <=> Holds(v, k)
  BY <1>0, <1>1, <1>2 DEF Holds, ExclusiveAttempt
<1>4. ExclusiveAttempt'
  BY <1>0, <1>1, <1>2, <1>3 DEF ExclusiveAttempt
<1>5. HeldRow' /\ JustifiedOutcome' /\ CountFollowsSends' /\ HonestVerdict'
  BY <1>0, <1>2 DEF HeldRow, JustifiedOutcome, CountFollowsSends, HonestVerdict
<1>6. DistinctNumbers' /\ AttemptLogUnique'
  BY <1>0, <1>2 DEF DistinctNumbers, AttemptLogUnique, SameNumber
<1>7. LogBehind'
  <2>1. ASSUME NEW k \in Job, NEW m \in 1..MaxAttempts, Logged(k, m)', m > row[k].attempt_count
        PROVE  ~Held(k)' /\ row[k].status \notin Claimable \cup {"absent"}
    <3>1. CASE k = j
      BY <1>0, <1>1, <1>3, <3>1 DEF Held
    <3>2. CASE k # j
      <4>1. Logged(k, m) /\ (Held(k)' <=> Held(k))
        BY <1>0, <1>2, <1>3, <2>1, <3>2 DEF Logged, Held
      <4>2. QED
        BY <2>1, <4>1 DEF LogBehind
    <3>3. QED
      BY <3>1, <3>2
  <2>2. QED
    BY <1>0, <1>2, <2>1 DEF LogBehind
<1>8. StrandedOnlyByFault'
  BY <1>0, <1>2, <1>3 DEF StrandedOnlyByFault, Held
<1>9. QED
  BY <1>4, <1>5, <1>6, <1>7, <1>8

LEMMA RecordIInv ==
  ASSUME IInv, NEW w \in Worker, Record(w)
  PROVE  QueueInv'
<1> USE DEF IInv, QueueInv, tables, workers, history, TypeOK
<1>1. /\ pc[w] = "record" /\ pc'[w] = "loop" /\ cur[w] \in Attempt
      /\ \A v \in Worker \ {w} : pc'[v] = pc[v] /\ cur'[v] = cur[v]
      /\ UNCHANGED <<row, batch, routable, sends, answer, reached, bounced, lost>>
      /\ attempts'[cur[w]] = attempts[cur[w]] + 1
      /\ \A a \in Attempt \ {cur[w]} : attempts'[a] = attempts[a]
  BY DEF Record
<1>2. \A v \in Worker, k \in Job : Holds(v, k)' <=> Holds(v, k)
  BY <1>1 DEF Holds
<1>3. ExclusiveAttempt' /\ StrandedOnlyByFault'
  BY <1>1, <1>2 DEF ExclusiveAttempt, StrandedOnlyByFault, Held
<1>4. HeldRow' /\ JustifiedOutcome' /\ CountFollowsSends' /\ HonestVerdict' /\ DistinctNumbers'
  <2>1. HeldRow'
    BY <1>1 DEF HeldRow
  <2>2. JustifiedOutcome' /\ HonestVerdict'
    BY <1>1 DEF JustifiedOutcome, HonestVerdict
  <2>3. CountFollowsSends'
    BY <1>1 DEF CountFollowsSends
  <2>4. DistinctNumbers'
    BY <1>1 DEF DistinctNumbers, SameNumber
  <2> QED
    BY <2>1, <2>2, <2>3, <2>4
<1>5. \A k \in Job, m \in 1..MaxAttempts : Logged(k, m)' => Logged(k, m)
  BY <1>1 DEF Logged
<1>6. LogBehind'
  BY <1>1, <1>2, <1>5 DEF LogBehind, Held
<1>7. AttemptLogUnique'
  <2>1. \A a \in Attempt : SameNumber(a, cur[w]) => attempts[a] = 0
    BY <1>1 DEF AttemptLogUnique
  <2>2. \A a \in Attempt : attempts'[a] <= 1
    BY <1>1, <2>1 DEF AttemptLogUnique, SameNumber
  <2>3. \A a, c \in Attempt : attempts'[a] > 0 /\ attempts'[c] > 0 /\ SameNumber(a, c) => a = c
    BY <1>1, <2>1 DEF AttemptLogUnique, SameNumber
  <2>4. \A v \in Worker, a \in Attempt :
          pc'[v] # "loop" /\ SameNumber(a, cur'[v]) => attempts'[a] = 0
    BY <1>1 DEF AttemptLogUnique, DistinctNumbers, SameNumber
  <2>5. QED
    BY <2>2, <2>3, <2>4 DEF AttemptLogUnique, SameNumber
<1>8. QED
  BY <1>3, <1>4, <1>6, <1>7

LEMMA RecordFailsIInv ==
  ASSUME IInv, NEW w \in Worker, RecordFails(w)
  PROVE  QueueInv'
<1> USE DEF IInv, QueueInv, tables, workers, history, TypeOK
<1>1. /\ pc[w] = "record" /\ pc'[w] = "loop"
      /\ \A v \in Worker \ {w} : pc'[v] = pc[v] /\ cur'[v] = cur[v]
      /\ UNCHANGED <<row, attempts, batch, routable, sends, answer, reached, bounced, lost>>
  BY DEF RecordFails
<1>2. \A v \in Worker, k \in Job : Holds(v, k)' <=> Holds(v, k)
  BY <1>1 DEF Holds
<1>3. ExclusiveAttempt' /\ StrandedOnlyByFault'
  BY <1>1, <1>2 DEF ExclusiveAttempt, StrandedOnlyByFault, Held
<1>4. HeldRow' /\ JustifiedOutcome' /\ CountFollowsSends' /\ HonestVerdict' /\ DistinctNumbers'
  <2>1. HeldRow'
    BY <1>1 DEF HeldRow
  <2>2. JustifiedOutcome' /\ HonestVerdict'
    BY <1>1 DEF JustifiedOutcome, HonestVerdict
  <2>3. CountFollowsSends'
    BY <1>1 DEF CountFollowsSends
  <2>4. DistinctNumbers'
    BY <1>1 DEF DistinctNumbers, SameNumber
  <2> QED
    BY <2>1, <2>2, <2>3, <2>4
<1>5. LogBehind' /\ AttemptLogUnique'
  <2>1. \A k \in Job, n \in 1..MaxAttempts : Logged(k, n)' => Logged(k, n)
    BY <1>1 DEF Logged
  <2>2. LogBehind'
    BY <1>1, <1>2, <2>1 DEF LogBehind, Held
  <2>3. AttemptLogUnique'
    BY <1>1 DEF AttemptLogUnique, SameNumber
  <2> QED
    BY <2>2, <2>3
<1>6. QED
  BY <1>3, <1>4, <1>5

LEMMA CrashIInv ==
  ASSUME IInv, NEW w \in Worker, Crash(w)
  PROVE  QueueInv'
<1> USE DEF IInv, QueueInv, tables, workers, history, TypeOK
<1>1. /\ pc'[w] = "loop" /\ batch'[w] = {}
      /\ \A v \in Worker \ {w} : pc'[v] = pc[v] /\ cur'[v] = cur[v] /\ batch'[v] = batch[v]
      /\ UNCHANGED <<row, attempts, routable, sends, answer, reached, bounced>>
      /\ \A k \in Job : lost'[k] <=> Holds(w, k) \/ lost[k]
  BY DEF Crash
<1>2. /\ \A k \in Job : ~Holds(w, k)'
      /\ \A v \in Worker \ {w}, k \in Job : Holds(v, k)' <=> Holds(v, k)
  BY <1>1 DEF Holds
<1>3. ExclusiveAttempt' /\ StrandedOnlyByFault'
  BY <1>1, <1>2 DEF ExclusiveAttempt, StrandedOnlyByFault, Held
<1>4. HeldRow' /\ JustifiedOutcome' /\ CountFollowsSends' /\ HonestVerdict' /\ DistinctNumbers'
  <2>1. HeldRow'
    BY <1>1 DEF HeldRow
  <2>2. JustifiedOutcome' /\ HonestVerdict'
    BY <1>1 DEF JustifiedOutcome, HonestVerdict
  <2>3. CountFollowsSends'
    BY <1>1 DEF CountFollowsSends
  <2>4. DistinctNumbers'
    BY <1>1 DEF DistinctNumbers, SameNumber
  <2> QED
    BY <2>1, <2>2, <2>3, <2>4
<1>5. LogBehind' /\ AttemptLogUnique'
  <2>1. /\ \A k \in Job, n \in 1..MaxAttempts : Logged(k, n)' => Logged(k, n)
        /\ \A k \in Job : Held(k)' => Held(k)
    BY <1>1, <1>2 DEF Logged, Held
  <2>2. LogBehind'
    BY <1>1, <2>1 DEF LogBehind
  <2>3. AttemptLogUnique'
    BY <1>1 DEF AttemptLogUnique, SameNumber
  <2> QED
    BY <2>2, <2>3
<1>6. QED
  BY <1>3, <1>4, <1>5

LEMMA NextIInv == IInv /\ [Next]_vars => IInv'
<1> SUFFICES ASSUME IInv, [Next]_vars
             PROVE  IInv'
  OBVIOUS
<1>1. TypeOK'
  BY NextTypeOK DEF IInv
<1>2. QueueInv'
  <2>1. CASE UNCHANGED vars
    BY <2>1 DEF vars, IInv, QueueInv, ExclusiveAttempt, HeldRow, JustifiedOutcome,
       CountFollowsSends,
                LogBehind, DistinctNumbers, AttemptLogUnique, HonestVerdict, StrandedOnlyByFault,
                Holds, Held, Logged, SameNumber
  <2>2. CASE Next
    BY <2>2, SubmitIInv, RetryTimeArrivesIInv, BounceIInv, ClaimIInv, ClaimUnconfirmedIInv,
       SendIInv, UpdateIInv, UpdateFailsIInv, RecordIInv, RecordFailsIInv, CrashIInv
       DEF Next, WorkerStep, Fault
  <2>3. QED
    BY <2>1, <2>2
<1>3. QED
  BY <1>1, <1>2 DEF IInv

\* The strengthened invariant holds throughout.
THEOREM InductiveInvariant == Spec => []IInv
BY InitIInv, NextIInv, PTL DEF Spec

\* Whatever the workers, crashes, database errors and bounces do, a job never
\* has two attempts in flight.
THEOREM ExclusiveAttemptHolds == Spec => []ExclusiveAttempt
<1>1. IInv => ExclusiveAttempt
  BY DEF IInv, QueueInv
<1>2. QED
  BY <1>1, InductiveInvariant, PTL

\* The attempt log never holds a job's attempt number twice.
THEOREM AttemptLogUniqueHolds == Spec => []AttemptLogUnique
<1>1. IInv => AttemptLogUnique
  BY DEF IInv, QueueInv
<1>2. QED
  BY <1>1, InductiveInvariant, PTL

\* At most max_attempts sends, FAILED only after the last of them or a bounce,
\* DELIVERED only when a server took the message or there was none to take it to.
THEOREM HonestVerdictHolds == Spec => []HonestVerdict
<1>1. IInv => HonestVerdict
  BY DEF IInv, QueueInv
<1>2. QED
  BY <1>1, InductiveInvariant, PTL

\* A job is stranded in SENDING by a crash or a database error and by nothing
\* else.
THEOREM StrandedOnlyByFaultHolds == Spec => []StrandedOnlyByFault
<1>1. IInv => StrandedOnlyByFault
  BY DEF IInv, QueueInv
<1>2. QED
  BY <1>1, InductiveInvariant, PTL

\* No step of a worker takes up a settled job.
LEMMA SettledStep ==
  ASSUME IInv, Next, NEW j \in Job, Settled(j)
  PROVE  Settled(j)' /\ sends'[j] = sends[j]
<1> USE DEF IInv, TypeOK, tables, workers, history
<1>1. ASSUME NEW k \in Job, Submit(k) \/ RetryTimeArrives(k) \/ Bounce(k)
      PROVE  Settled(j)' /\ sends'[j] = sends[j]
  <2>1. row'[j].status \in Terminal
    BY <1>1 DEF Submit, RetryTimeArrives, Bounce, Settled, Terminal, Row
  <2>2. UNCHANGED <<batch, cur, pc, sends>>
    BY <1>1 DEF Submit, RetryTimeArrives, Bounce
  <2>3. QED
    BY <2>1, <2>2 DEF Settled, Held, Holds
<1>2. ASSUME NEW w \in Worker, NEW S \in SUBSET Job, Claim(w, S)
      PROVE  Settled(j)' /\ sends'[j] = sends[j]
  <2>1. j \notin S /\ row'[j] = row[j]
    BY <1>2, ClaimRows DEF Claim, Settled, Claimable, Terminal
  <2>2. \A c \in batch'[w] : c.job # j
    BY <1>2, <2>1 DEF Claim
  <2>3. /\ \A v \in Worker \ {w} : batch'[v] = batch[v]
        /\ UNCHANGED <<cur, pc, sends>>
        /\ pc[w] = "loop"
    BY <1>2 DEF Claim
  <2>4. QED
    BY <2>1, <2>2, <2>3 DEF Settled, Held, Holds
<1>3. ASSUME NEW w \in Worker, NEW S \in SUBSET Job, ClaimUnconfirmed(w, S)
      PROVE  Settled(j)' /\ sends'[j] = sends[j]
  <2>1. row'[j] = row[j]
    BY <1>3, ClaimRows DEF ClaimUnconfirmed, Settled, Claimable, Terminal
  <2>2. QED
    BY <1>3, <2>1 DEF ClaimUnconfirmed, Settled, Held, Holds
<1>4. ASSUME NEW w \in Worker, NEW b \in batch[w], NEW ok \in BOOLEAN, Send(w, b, ok)
      PROVE  Settled(j)' /\ sends'[j] = sends[j]
  <2>1. b.job # j /\ b.job \in Job
    BY <1>4 DEF Settled, Held, Holds, ClaimedJob
  <2>2. /\ cur'[w].job = b.job /\ batch'[w] = batch[w] \ {b}
        /\ \A v \in Worker \ {w} : batch'[v] = batch[v] /\ cur'[v] = cur[v] /\ pc'[v] = pc[v]
        /\ row' = row /\ sends'[j] = sends[j]
    BY <1>4, <2>1 DEF Send
  <2>3. QED
    BY <2>1, <2>2 DEF Settled, Held, Holds
<1>5. ASSUME NEW w \in Worker, Update(w)
      PROVE  Settled(j)' /\ sends'[j] = sends[j]
  <2>1. cur[w].job # j
    BY <1>5 DEF Update, Settled, Held, Holds
  <2>2. row'[j] = row[j]
    BY <1>5, <2>1 DEF Update
  <2>3. /\ \A v \in Worker : pc'[v] = "update" => pc[v] = "update"
        /\ UNCHANGED <<batch, cur, sends>>
    BY <1>5 DEF Update
  <2>4. QED
    BY <2>2, <2>3 DEF Settled, Held, Holds
<1>6. ASSUME NEW w \in Worker, UpdateFails(w) \/ Record(w) \/ RecordFails(w) \/ Crash(w)
      PROVE  Settled(j)' /\ sends'[j] = sends[j]
  <2>1. UNCHANGED <<row, sends>>
    BY <1>6 DEF UpdateFails, Record, RecordFails, Crash
  <2>2. \A v \in Worker : /\ pc'[v] = "update" => pc[v] = "update" /\ cur'[v] = cur[v]
                          /\ batch'[v] \subseteq batch[v]
    BY <1>6 DEF UpdateFails, Record, RecordFails, Crash
  <2>3. QED
    BY <2>1, <2>2 DEF Settled, Held, Holds
<1>7. QED
  BY <1>1, <1>2, <1>3, <1>4, <1>5, <1>6 DEF Next, WorkerStep, Fault

\* Once a job has its verdict and nobody works on it, no claim, late update or
\* bounce brings it back: its message is not sent again.
THEOREM NoSendAfterSettledHolds == Spec => NoSendAfterSettled
<1>1. IInv /\ [Next]_vars =>
        [\A j \in Job : Settled(j) => Settled(j)' /\ sends'[j] = sends[j]]_vars
  <2> SUFFICES ASSUME IInv, [Next]_vars, vars' # vars, NEW j \in Job, Settled(j)
               PROVE  Settled(j)' /\ sends'[j] = sends[j]
    OBVIOUS
  <2>1. QED
    BY SettledStep
<1>2. QED
  BY <1>1, InductiveInvariant, PTL DEF Spec, NoSendAfterSettled

-----------------------------------------------------------------------------
(* The queue implements the life of a job *)

\* A job that a fault took from its worker is out of reach of the claims and of
\* all workers, and no server bounces a message it was never sent.
OutOfReach ==
  \A j \in Job :
    /\ lost[j] => ~Held(j) /\ row[j].status \in {"SENDING", "FAILED"}
    /\ reached[j] => sends[j] > 0

LEMMA ReachSubmit ==
  ASSUME IInv, OutOfReach, NEW j \in Job, Submit(j) \/ RetryTimeArrives(j) \/ Bounce(j)
  PROVE  OutOfReach'
<1>1. UNCHANGED <<batch, cur, pc, lost, reached, sends>>
  BY DEF Submit, RetryTimeArrives, Bounce, workers, history
<1>2. \A k \in Job : Held(k)' => Held(k)
  BY <1>1 DEF Held, Holds
<1>3. row \in [Job -> Row]
  BY DEF IInv, TypeOK
<1>4. ASSUME NEW k \in Job, row[k].status \in {"SENDING", "FAILED"}
      PROVE  row'[k].status \in {"SENDING", "FAILED"}
  BY <1>3, <1>4 DEF Submit, RetryTimeArrives, Bounce, Row
<1> QED
  BY <1>1, <1>2, <1>4 DEF OutOfReach

LEMMA ReachClaim ==
  ASSUME IInv, OutOfReach, NEW w \in Worker, NEW S \in SUBSET Job,
         Claim(w, S) \/ ClaimUnconfirmed(w, S)
  PROVE  OutOfReach'
<1>1. /\ \A k \in S : row[k].status \in Claimable /\ row'[k].status = "SENDING"
      /\ \A k \in Job \ S : row'[k] = row[k]
  BY ClaimRows DEF Claim, ClaimUnconfirmed, IInv
<1>2. UNCHANGED <<reached, sends>>
  BY DEF Claim, ClaimUnconfirmed, history
<1>3. \A k \in S : ~Held(k) /\ ~lost[k]
  BY <1>1, UnheldRow DEF OutOfReach, Claimable, IInv, QueueInv
<1>4. CASE Claim(w, S)
  <2>1. \A k \in Job \ S : Held(k)' => Held(k)
    BY <1>4 DEF Claim, Held, Holds, IInv, TypeOK
  <2> QED
    BY <1>1, <1>2, <1>3, <1>4, <2>1 DEF OutOfReach, Claim, history
<1>5. CASE ClaimUnconfirmed(w, S)
  <2>1. \A k \in Job : Held(k)' <=> Held(k)
    BY <1>5 DEF ClaimUnconfirmed, Held, Holds, workers
  <2>2. \A k \in Job : lost'[k] => k \in S \/ lost[k]
    BY <1>5 DEF ClaimUnconfirmed
  <2> QED
    BY <1>1, <1>2, <1>3, <2>1, <2>2 DEF OutOfReach
<1> QED
  BY <1>4, <1>5

LEMMA ReachWork ==
  ASSUME IInv, OutOfReach, NEW w \in Worker,
         (\E b \in batch[w], ok \in BOOLEAN : Send(w, b, ok)) \/ Update(w) \/ Record(w) \/ RecordFails(w)
  PROVE  OutOfReach'
<1> USE DEF IInv, TypeOK, tables, workers, history
<1>1. ASSUME NEW b \in batch[w], NEW ok \in BOOLEAN, Send(w, b, ok)
      PROVE  OutOfReach'
  <2>1. b.job \in Job /\ Held(b.job)
    BY DEF ClaimedJob, Held, Holds
  <2>2. \A k \in Job : Held(k)' => Held(k)
    BY <1>1, <2>1 DEF Send, Held, Holds
  <2>3. /\ sends'[b.job] = sends[b.job] + 1 /\ sends[b.job] \in Nat
        /\ \A k \in Job \ {b.job} : sends'[k] = sends[k] /\ reached'[k] = reached[k]
        /\ UNCHANGED <<row, lost>>
    BY <1>1, <2>1 DEF Send
  <2> QED
    BY <2>1, <2>2, <2>3 DEF OutOfReach
<1>2. ASSUME Update(w)
      PROVE  OutOfReach'
  <2>1. cur[w].job \in Job /\ Held(cur[w].job)
    BY <1>2 DEF Update, Attempt, Held, Holds
  <2>2. \A k \in Job : Held(k)' => Held(k)
    BY <1>2 DEF Update, Held, Holds
  <2>3. /\ \A k \in Job \ {cur[w].job} : row'[k] = row[k]
        /\ UNCHANGED <<lost, reached, sends>>
    BY <1>2 DEF Update
  <2> QED
    BY <2>1, <2>2, <2>3 DEF OutOfReach
<1>3. ASSUME Record(w) \/ RecordFails(w)
      PROVE  OutOfReach'
  <2>1. UNCHANGED <<row, lost, reached, sends>> /\ \A k \in Job : Held(k)' => Held(k)
    BY <1>3 DEF Record, RecordFails, Held, Holds
  <2> QED
    BY <2>1 DEF OutOfReach
<1> QED
  BY <1>1, <1>2, <1>3

LEMMA ReachFault ==
  ASSUME IInv, OutOfReach, NEW w \in Worker, UpdateFails(w) \/ Crash(w)
  PROVE  OutOfReach'
<1> USE DEF IInv, TypeOK, tables, workers, history
<1>1. \A k \in Job : Held(k)' => Held(k)
  BY DEF UpdateFails, Crash, Held, Holds
<1>2. \A k \in Job : lost'[k] => lost[k] \/ (Holds(w, k) /\ ~Held(k)')
  <2>1. CASE UpdateFails(w)
    <3>1. /\ \A k \in Job : lost'[k] => lost[k] \/ k = cur[w].job
          /\ pc[w] = "update" /\ pc' = [pc EXCEPT ![w] = "record"] /\ UNCHANGED <<batch, cur>>
      BY <2>1 DEF UpdateFails
    <3> QED
      BY <3>1 DEF Holds, Held, QueueInv, ExclusiveAttempt
  <2>2. CASE Crash(w)
    <3>1. /\ \A k \in Job : lost'[k] => lost[k] \/ Holds(w, k)
          /\ pc' = [pc EXCEPT ![w] = "loop"] /\ batch' = [batch EXCEPT ![w] = {}]
          /\ cur' = [cur EXCEPT ![w] = NoAttempt]
      BY <2>2 DEF Crash
    <3>2. \A v \in Worker, k \in Job : Holds(v, k)' => v # w /\ Holds(v, k)
      BY <3>1 DEF Holds
    <3> QED
      BY <3>1, <3>2 DEF Held, QueueInv, ExclusiveAttempt
  <2> QED
    BY <2>1, <2>2
<1>3. \A k \in Job : Holds(w, k) => row[k].status \in {"SENDING", "FAILED"}
  BY DEF Holds, QueueInv, HeldRow
<1>4. UNCHANGED <<row, reached, sends>>
  BY DEF UpdateFails, Crash
<1> QED
  BY <1>1, <1>2, <1>3, <1>4 DEF OutOfReach

LEMMA InitReach == Init => OutOfReach
BY DEF Init, OutOfReach

LEMMA NextReach == IInv /\ OutOfReach /\ [Next]_vars => OutOfReach'
<1> SUFFICES ASSUME IInv, OutOfReach, [Next]_vars
             PROVE  OutOfReach'
  OBVIOUS
<1>1. CASE Next
  BY <1>1, ReachSubmit, ReachClaim, ReachWork, ReachFault DEF Next, WorkerStep, Fault
<1>2. CASE UNCHANGED vars
  BY <1>2 DEF vars, OutOfReach, Held, Holds
<1> QED
  BY <1>1, <1>2

\* The phases, told from what the workers hold.
LEMMA Phases ==
  ASSUME IInv, OutOfReach, NEW j \in Job
  PROVE  /\ Held(j) <=> Taken(j) \/ Tried(j)
         /\ ~(Taken(j) /\ Tried(j))
         /\ PhaseOf(j) = "lost" <=> lost[j]
         /\ Taken(j) => PhaseOf(j) = "taken"
         /\ Tried(j) => PhaseOf(j) = "tried"
         /\ ~Held(j) /\ ~lost[j] => PhaseOf(j) = "idle"
<1>1. /\ Held(j) <=> Taken(j) \/ Tried(j)
      /\ ~(Taken(j) /\ Tried(j))
  BY DEF Held, Holds, Taken, Tried, IInv, QueueInv, ExclusiveAttempt
<1>2. lost[j] => ~Held(j)
  BY DEF OutOfReach
<1> QED
  BY <1>1, <1>2 DEF PhaseOf

\* The steps of JobLifecycle, job by job.
LEMMA AbstractOne ==
  ASSUME NEW j \in Job, \A k \in Job \ {j} : UNCHANGED <<VerdictOf(k), PhaseOf(k)>>
  PROVE  /\ /\ VerdictOf(j) = "absent" /\ VerdictOf(j)' = "pending"
            /\ UNCHANGED <<PhaseOf(j), sends>>
            => Lifecycle!Submit(j)
         /\ /\ PhaseOf(j) = "taken" /\ PhaseOf(j)' = "tried"
            /\ UNCHANGED VerdictOf(j) /\ sends' = [sends EXCEPT ![j] = @ + 1]
            => Lifecycle!Try(j)
         /\ /\ sends[j] > 0 /\ VerdictOf(j)' = "failed"
            /\ UNCHANGED <<PhaseOf(j), sends>>
            => Lifecycle!Bounce(j)
         /\ \A v \in {"pending", "delivered", "failed"} :
              /\ PhaseOf(j) = "tried" /\ PhaseOf(j)' = "idle" /\ VerdictOf(j)' = v
              /\ v = "failed" => sends[j] = MaxAttempts
              /\ v = "pending" => sends[j] < MaxAttempts
              /\ UNCHANGED sends
              => Lifecycle!Conclude(j, v)
BY DEF Lifecycle!Submit, Lifecycle!Try, Lifecycle!Bounce, Lifecycle!Conclude

LEMMA AbstractSome ==
  ASSUME NEW S \in SUBSET Job, \A k \in Job : UNCHANGED VerdictOf(k), UNCHANGED sends,
         \A k \in Job \ S : UNCHANGED PhaseOf(k)
  PROVE  /\ (\A k \in S : /\ VerdictOf(k) = "pending" /\ PhaseOf(k) = "idle"
                          /\ PhaseOf(k)' = "taken" /\ sends[k] < MaxAttempts)
            => Lifecycle!Take(S)
         /\ (\A k \in S : VerdictOf(k) # "absent" /\ PhaseOf(k) # "lost" /\ PhaseOf(k)' = "lost")
            => Lifecycle!Abandon(S)
BY DEF Lifecycle!Take, Lifecycle!Abandon

LEMMA AbstractStutter ==
  ASSUME \A k \in Job : UNCHANGED <<VerdictOf(k), PhaseOf(k)>>, UNCHANGED sends
  PROVE  UNCHANGED Lifecycle!vars
BY DEF Lifecycle!vars

\* The steps of the queue, one by one.
Safe == IInv /\ OutOfReach

AbstractStep == [Lifecycle!Next]_(Lifecycle!vars)

LEMMA SubmitMaps ==
  ASSUME Safe, NEW j \in Job, Submit(j)
  PROVE  Lifecycle!Submit(j)
<1>1. VerdictOf(j) = "absent" /\ VerdictOf(j)' = "pending"
  BY DEF Submit, VerdictOf, Safe, IInv, TypeOK
<1>2. \A k \in Job \ {j} : UNCHANGED VerdictOf(k)
  BY DEF Submit, VerdictOf
<1>3. \A k \in Job : UNCHANGED PhaseOf(k)
  BY DEF Submit, PhaseOf, Taken, Tried, workers, history
<1>4. UNCHANGED sends
  BY DEF Submit, history
<1> QED
  BY <1>1, <1>2, <1>3, <1>4, AbstractOne

LEMMA RetryTimeArrivesMaps ==
  ASSUME Safe, NEW j \in Job, RetryTimeArrives(j)
  PROVE  UNCHANGED Lifecycle!vars
<1>1. \A k \in Job : row'[k].status = row[k].status
  BY DEF RetryTimeArrives, Safe, IInv, TypeOK, Row
<1>2. \A k \in Job : UNCHANGED <<VerdictOf(k), PhaseOf(k)>>
  BY <1>1 DEF RetryTimeArrives, VerdictOf, PhaseOf, Taken, Tried, workers, history
<1>3. UNCHANGED sends
  BY DEF RetryTimeArrives, history
<1> QED
  BY <1>2, <1>3, AbstractStutter

LEMMA BounceMaps ==
  ASSUME Safe, NEW j \in Job, Bounce(j)
  PROVE  Lifecycle!Bounce(j)
<1>1. /\ row'[j].status = "FAILED"
      /\ \A k \in Job \ {j} : row'[k] = row[k]
  BY DEF Bounce, Safe, IInv, TypeOK, Row
<1>2. VerdictOf(j)' = "failed" /\ \A k \in Job \ {j} : UNCHANGED VerdictOf(k)
  BY <1>1 DEF VerdictOf
<1>3. \A k \in Job : UNCHANGED PhaseOf(k)
  BY DEF Bounce, PhaseOf, Taken, Tried, workers
<1>4. sends[j] > 0 /\ UNCHANGED sends
  BY DEF Bounce, Safe, OutOfReach
<1> QED
  BY <1>2, <1>3, <1>4, AbstractOne

\* The jobs of a claim, which nobody holds and no fault has touched.
LEMMA ClaimedJobs ==
  ASSUME Safe, NEW S \in SUBSET Job, ClaimSet(S), row' = Claimed(S)
  PROVE  /\ \A k \in S : /\ VerdictOf(k) = "pending" /\ PhaseOf(k) = "idle"
                         /\ ~Held(k) /\ ~lost[k] /\ sends[k] < MaxAttempts
         /\ \A k \in Job : UNCHANGED VerdictOf(k)
<1>1. /\ \A k \in S : row[k].status \in Claimable /\ row'[k].status = "SENDING"
      /\ \A k \in Job \ S : row'[k] = row[k]
  BY ClaimRows DEF Safe, IInv
<1>2. \A k \in S : ~Held(k) /\ ~lost[k]
  BY <1>1, UnheldRow DEF Safe, OutOfReach, Claimable, IInv, QueueInv
<1>3. \A k \in S : PhaseOf(k) = "idle"
  BY <1>2, Phases DEF Safe
<1>4. \A k \in S : sends[k] < MaxAttempts
  BY <1>1, QueueAssumption DEF Safe, IInv, QueueInv, CountFollowsSends, TypeOK, Row, Count
<1>5. \A k \in Job : UNCHANGED VerdictOf(k)
  BY <1>1 DEF VerdictOf, Claimable
<1>6. \A k \in S : VerdictOf(k) = "pending"
  BY <1>1 DEF VerdictOf, Claimable
<1> QED
  BY <1>2, <1>3, <1>4, <1>5, <1>6

LEMMA ClaimMaps ==
  ASSUME Safe, NEW w \in Worker, NEW S \in SUBSET Job, Claim(w, S)
  PROVE  Lifecycle!Take(S)
<1>1. /\ \A k \in S : /\ VerdictOf(k) = "pending" /\ PhaseOf(k) = "idle" /\ sends[k] < MaxAttempts
      /\ \A k \in Job : UNCHANGED VerdictOf(k)
  BY ClaimedJobs DEF Claim
<1>2. /\ batch'[w] = {[job |-> k, attempt_count |-> row[k].attempt_count] : k \in S}
      /\ batch[w] = {} /\ \A v \in Worker \ {w} : batch'[v] = batch[v]
      /\ UNCHANGED <<cur, pc, sends, lost>>
  BY DEF Claim, Safe, IInv, TypeOK, history
<1>3. \A k \in S : Taken(k)'
  <2>1. ASSUME NEW k \in S
        PROVE  \E b \in batch'[w] : b.job = k
    <3>1. [job |-> k, attempt_count |-> row[k].attempt_count] \in batch'[w]
      BY <1>2
    <3> QED
      BY <3>1
  <2> QED
    BY <2>1 DEF Taken
<1>4. \A k \in S : PhaseOf(k)' = "taken"
  <2>1. \A k \in S : ~lost'[k]
    BY <1>2, ClaimedJobs DEF Claim
  <2>2. ASSUME NEW k \in S
        PROVE  PhaseOf(k)' = "taken"
    BY <1>3, <2>1 DEF PhaseOf
  <2> QED
    BY <2>2
<1>5. \A k \in Job \ S : UNCHANGED PhaseOf(k)
  <2>1. \A k \in Job \ S : Taken(k)' <=> Taken(k)
    BY <1>2 DEF Taken
  <2>2. \A k \in Job : Tried(k)' <=> Tried(k)
    BY <1>2 DEF Tried
  <2> QED
    BY <1>2, <2>1, <2>2 DEF PhaseOf
<1> QED
  BY <1>1, <1>2, <1>4, <1>5, AbstractSome

LEMMA ClaimUnconfirmedMaps ==
  ASSUME Safe, NEW w \in Worker, NEW S \in SUBSET Job, ClaimUnconfirmed(w, S)
  PROVE  Lifecycle!Abandon(S)
<1>1. /\ \A k \in S : VerdictOf(k) # "absent" /\ PhaseOf(k) # "lost"
      /\ \A k \in Job : UNCHANGED VerdictOf(k)
  BY ClaimedJobs DEF ClaimUnconfirmed
<1>2. /\ \A k \in S : lost'[k]
      /\ \A k \in Job \ S : lost'[k] = lost[k]
      /\ UNCHANGED <<batch, cur, pc, sends>>
  BY DEF ClaimUnconfirmed, workers, Safe, IInv, TypeOK
<1>3. ASSUME NEW k \in S
      PROVE  PhaseOf(k)' = "lost"
  BY <1>2 DEF PhaseOf
<1>4. \A k \in Job \ S : UNCHANGED PhaseOf(k)
  BY <1>2 DEF PhaseOf, Taken, Tried
<1> QED
  BY <1>1, <1>2, <1>3, <1>4, AbstractSome

LEMMA SendMaps ==
  ASSUME Safe, NEW w \in Worker, NEW b \in batch[w], NEW ok \in BOOLEAN, Send(w, b, ok)
  PROVE  Lifecycle!Try(b.job)
<1> DEFINE j == b.job
<1>1. j \in Job /\ Taken(j) /\ Held(j)
  BY DEF Taken, Held, Holds, Safe, IInv, TypeOK, ClaimedJob
<1>2. ~lost[j] /\ PhaseOf(j) = "taken"
  BY <1>1, Phases DEF Safe, OutOfReach
<1>3. /\ batch'[w] = batch[w] \ {b} /\ cur'[w].job = j /\ pc'[w] = "update" /\ pc[w] = "loop"
      /\ \A v \in Worker \ {w} : batch'[v] = batch[v] /\ cur'[v] = cur[v] /\ pc'[v] = pc[v]
      /\ UNCHANGED <<row, lost>> /\ sends' = [sends EXCEPT ![j] = @ + 1]
  BY DEF Send, Safe, IInv, TypeOK, tables
<1>4. ~Taken(j)' /\ Tried(j)'
  <2>1. ~Taken(j)'
    BY <1>1, <1>3 DEF Taken, Safe, IInv, QueueInv, ExclusiveAttempt, Holds
  <2> QED
    BY <1>3, <2>1 DEF Tried
<1>5. \A k \in Job \ {j} : (Taken(k)' <=> Taken(k)) /\ (Tried(k)' <=> Tried(k))
  BY <1>3 DEF Taken, Tried
<1>6. PhaseOf(j)' = "tried"
  BY <1>1, <1>2, <1>3, <1>4 DEF PhaseOf
<1>7. \A k \in Job \ {j} : UNCHANGED PhaseOf(k)
  BY <1>3, <1>5 DEF PhaseOf
<1>8. \A k \in Job : UNCHANGED VerdictOf(k)
  BY <1>3 DEF VerdictOf
<1> QED
  BY <1>1, <1>2, <1>3, <1>6, <1>7, <1>8, AbstractOne

LEMMA UpdateMaps ==
  ASSUME Safe, NEW w \in Worker, Update(w)
  PROVE  \E v \in {"pending", "delivered", "failed"} : Lifecycle!Conclude(cur[w].job, v)
<1>0. PICK j \in Job : j = cur[w].job
  BY DEF Update, Safe, IInv, TypeOK, Attempt
<1> USE <1>0
<1>1. pc[w] = "update" /\ cur[w] \in Attempt
  BY DEF Update, Safe, IInv, TypeOK, Attempt
<1>2. Tried(j) /\ Held(j)
  BY <1>1 DEF Tried, Held, Holds
<1>3. ~lost[j] /\ PhaseOf(j) = "tried" /\ ~Taken(j)
  BY <1>1, <1>2, Phases DEF Safe, OutOfReach
<1>4. /\ row'[j].status = cur[w].outcome
      /\ \A k \in Job \ {j} : row'[k] = row[k]
  BY UpdateRows DEF Safe, IInv
<1>5. /\ pc'[w] = "record" /\ \A v \in Worker \ {w} : pc'[v] = pc[v]
      /\ UNCHANGED <<batch, cur, sends, lost>>
  BY DEF Update, Safe, IInv, TypeOK, history
<1>6. ~Taken(j)' /\ ~Tried(j)'
  BY <1>1, <1>3, <1>5 DEF Taken, Tried, Safe, IInv, QueueInv, ExclusiveAttempt, Holds
<1>7. \A k \in Job \ {j} : UNCHANGED <<VerdictOf(k), PhaseOf(k)>>
  <2>1. \A k \in Job \ {j} : (Taken(k)' <=> Taken(k)) /\ (Tried(k)' <=> Tried(k))
    BY <1>5 DEF Taken, Tried
  <2> QED
    BY <1>4, <1>5, <2>1 DEF VerdictOf, PhaseOf
<1>8. PhaseOf(j)' = "idle"
  BY <1>1, <1>3, <1>5, <1>6 DEF PhaseOf
<1>9. /\ cur[w].outcome \in Outcome
      /\ cur[w].outcome = "FAILED" => sends[j] = MaxAttempts
      /\ cur[w].outcome = "DEFERRED" => sends[j] < MaxAttempts
  BY <1>1 DEF Safe, IInv, QueueInv, JustifiedOutcome, Attempt
<1>10. CASE cur[w].outcome = "DELIVERED"
  <2>1. VerdictOf(j)' = "delivered"
    BY <1>4, <1>10 DEF VerdictOf
  <2> QED
    BY <1>1, <1>3, <1>5, <1>7, <1>8, <2>1, AbstractOne
<1>11. CASE cur[w].outcome = "FAILED"
  <2>1. VerdictOf(j)' = "failed"
    BY <1>4, <1>11 DEF VerdictOf
  <2> QED
    BY <1>1, <1>3, <1>5, <1>7, <1>8, <1>9, <1>11, <2>1, AbstractOne
<1>12. CASE cur[w].outcome = "DEFERRED"
  <2>1. VerdictOf(j)' = "pending"
    BY <1>4, <1>12 DEF VerdictOf
  <2> QED
    BY <1>1, <1>3, <1>5, <1>7, <1>8, <1>9, <1>12, <2>1, AbstractOne
<1> QED
  BY <1>9, <1>10, <1>11, <1>12 DEF Outcome

\* The attempts that a fault takes from worker w.
LEMMA FaultMaps ==
  ASSUME Safe, NEW w \in Worker, UpdateFails(w) \/ Crash(w)
  PROVE  \E S \in SUBSET Job : Lifecycle!Abandon(S)
<1> DEFINE S == {k \in Job : lost'[k] /\ ~lost[k]}
<1>1. /\ \A v \in Worker \ {w} : batch'[v] = batch[v] /\ cur'[v] = cur[v] /\ pc'[v] = pc[v]
      /\ UNCHANGED <<row, sends>>
  BY DEF UpdateFails, Crash, Safe, IInv, TypeOK, tables
<1>2. \A k \in S : Holds(w, k)
  BY DEF UpdateFails, Crash, Holds, Safe, IInv, TypeOK
<1>3. \A k \in S : VerdictOf(k) # "absent" /\ PhaseOf(k) # "lost"
  <2>1. \A k \in S : row[k].status \in {"SENDING", "FAILED"}
    BY <1>2 DEF Holds, Safe, IInv, QueueInv, HeldRow
  <2> QED
    BY <2>1, Phases DEF VerdictOf, Safe
<1>4. ASSUME NEW k \in S
      PROVE  PhaseOf(k)' = "lost"
  BY DEF PhaseOf
<1>5. \A k \in Job : lost[k] => lost'[k]
  BY DEF UpdateFails, Crash, Safe, IInv, TypeOK
<1>6. \A k \in Job \ S : UNCHANGED PhaseOf(k)
  <2> SUFFICES ASSUME NEW k \in Job \ S
               PROVE  UNCHANGED PhaseOf(k)
    OBVIOUS
  <2>1. CASE lost[k]
    BY <1>5, <2>1 DEF PhaseOf
  <2>2. CASE ~lost[k]
    <3>1. ~lost'[k]
      BY <2>2
    <3>2. CASE UpdateFails(w)
      <4>1. cur[w].job # k /\ pc'[w] = "record" /\ UNCHANGED batch
        BY <3>1, <3>2 DEF UpdateFails, Safe, IInv, TypeOK
      <4>2. (Taken(k)' <=> Taken(k)) /\ (Tried(k)' <=> Tried(k))
        BY <1>1, <4>1 DEF Taken, Tried
      <4> QED
        BY <2>2, <3>1, <4>2 DEF PhaseOf
    <3>3. CASE Crash(w)
      <4>1. ~Holds(w, k) /\ pc'[w] = "loop" /\ batch'[w] = {}
        BY <3>1, <3>3 DEF Crash, Safe, IInv, TypeOK
      <4>2. (Taken(k)' <=> Taken(k)) /\ (Tried(k)' <=> Tried(k))
        BY <1>1, <4>1 DEF Taken, Tried, Holds
      <4> QED
        BY <2>2, <3>1, <4>2 DEF PhaseOf
    <3> QED
      BY <3>2, <3>3
  <2> QED
    BY <2>1, <2>2
<1>7. \A k \in Job : UNCHANGED VerdictOf(k)
  BY <1>1 DEF VerdictOf
<1> QED
  BY <1>1, <1>3, <1>4, <1>6, <1>7, AbstractSome

LEMMA RecordMaps ==
  ASSUME Safe, NEW w \in Worker, Record(w) \/ RecordFails(w)
  PROVE  UNCHANGED Lifecycle!vars
<1>1. /\ pc[w] = "record" /\ pc'[w] = "loop"
      /\ \A v \in Worker \ {w} : cur'[v] = cur[v] /\ pc'[v] = pc[v]
      /\ UNCHANGED <<row, batch, lost, sends>>
  BY DEF Record, RecordFails, Safe, IInv, TypeOK, tables, history
<1>2. \A k \in Job : (Taken(k)' <=> Taken(k)) /\ (Tried(k)' <=> Tried(k))
  BY <1>1 DEF Taken, Tried
<1>3. \A k \in Job : UNCHANGED <<VerdictOf(k), PhaseOf(k)>>
  BY <1>1, <1>2 DEF VerdictOf, PhaseOf
<1> QED
  BY <1>1, <1>3, AbstractStutter

LEMMA NextMaps == Safe /\ [Next]_vars => AbstractStep
<1> SUFFICES ASSUME Safe, [Next]_vars
             PROVE  AbstractStep
  OBVIOUS
<1>1. ASSUME NEW j \in Job, Submit(j) \/ RetryTimeArrives(j) \/ Bounce(j)
      PROVE  AbstractStep
  BY <1>1, SubmitMaps, RetryTimeArrivesMaps, BounceMaps DEF AbstractStep, Lifecycle!Next
<1>2. ASSUME NEW w \in Worker, NEW S \in SUBSET Job, Claim(w, S) \/ ClaimUnconfirmed(w, S)
      PROVE  AbstractStep
  BY <1>2, ClaimMaps, ClaimUnconfirmedMaps DEF AbstractStep, Lifecycle!Next
<1>3. ASSUME NEW w \in Worker, NEW b \in batch[w], NEW ok \in BOOLEAN, Send(w, b, ok)
      PROVE  AbstractStep
  <2>1. b.job \in Job
    BY DEF Safe, IInv, TypeOK, ClaimedJob
  <2> QED
    BY <1>3, <2>1, SendMaps DEF AbstractStep, Lifecycle!Next
<1>4. ASSUME NEW w \in Worker, Update(w)
      PROVE  AbstractStep
  <2>1. cur[w].job \in Job
    BY <1>4 DEF Update, Safe, IInv, TypeOK, Attempt
  <2> QED
    BY <1>4, <2>1, UpdateMaps DEF AbstractStep, Lifecycle!Next
<1>5. ASSUME NEW w \in Worker, UpdateFails(w) \/ Crash(w)
      PROVE  AbstractStep
  BY <1>5, FaultMaps DEF AbstractStep, Lifecycle!Next
<1>6. ASSUME NEW w \in Worker, Record(w) \/ RecordFails(w)
      PROVE  AbstractStep
  BY <1>6, RecordMaps DEF AbstractStep
<1>7. CASE UNCHANGED vars
  <2>1. \A k \in Job : UNCHANGED <<VerdictOf(k), PhaseOf(k)>>
    BY <1>7 DEF vars, VerdictOf, PhaseOf, Taken, Tried
  <2> QED
    BY <1>7, <2>1, AbstractStutter DEF vars, AbstractStep
<1> QED
  BY <1>1, <1>2, <1>3, <1>4, <1>5, <1>6, <1>7 DEF Next, WorkerStep, Fault

\* Workers, batches, snapshots and the log implement the life of one job, for any
\* jobs, workers, attempts and faults: what JobLifecycle promises, the queue does.
THEOREM ImplementsLifecycleHolds == Spec => ImplementsLifecycle
<1>1. Init => Lifecycle!Init
  BY DEF Init, Lifecycle!Init, VerdictOf, PhaseOf, Taken, Tried
<1>2. Init => Safe
  BY InitIInv, InitReach DEF Safe
<1>3. Safe /\ [Next]_vars => Safe'
  BY NextIInv, NextReach DEF Safe
<1>4. Safe /\ [Next]_vars => [Lifecycle!Next]_(Lifecycle!vars)
  BY NextMaps DEF AbstractStep
<1> QED
  BY <1>1, <1>2, <1>3, <1>4, PTL DEF Spec, ImplementsLifecycle, Lifecycle!Spec

-----------------------------------------------------------------------------
(* The queue keeps its side of the agreement with the MTA *)

\* Once a call for a job has succeeded, nothing leads to another one: the job is
\* in no batch, its row cannot be claimed, and the write that is under way, if
\* there still is one, says DELIVERED.
Concluded ==
  \A j \in Job : answer[j] = "ok" =>
    /\ row[j].status \notin Claimable \cup {"absent"}
    /\ \A w \in Worker :
         /\ \A b \in batch[w] : b.job # j
         /\ pc[w] = "update" /\ cur[w].job = j => cur[w].outcome = "DELIVERED"

\* Steps that take nothing into a batch, begin no write and make no row claimable.
LEMMA ConcludedKept ==
  ASSUME Concluded, UNCHANGED answer,
         \A j \in Job : row[j].status \notin Claimable \cup {"absent"} =>
                          row'[j].status \notin Claimable \cup {"absent"},
         \A w \in Worker : /\ batch'[w] \subseteq batch[w]
                           /\ pc'[w] = "update" => pc[w] = "update" /\ cur'[w] = cur[w]
  PROVE  Concluded'
BY DEF Concluded

LEMMA ConcludedRows ==
  ASSUME IInv, Concluded, NEW j \in Job, Submit(j) \/ RetryTimeArrives(j) \/ Bounce(j)
  PROVE  Concluded'
<1>1. UNCHANGED <<batch, cur, pc, answer>>
  BY DEF Submit, RetryTimeArrives, Bounce, workers, history
<1>2. \A k \in Job : row[k].status \notin Claimable \cup {"absent"} =>
                       row'[k].status \notin Claimable \cup {"absent"}
  <2>1. /\ row \in [Job -> Row]
        /\ \A k \in Job \ {j} : row'[k] = row[k]
    BY DEF Submit, RetryTimeArrives, Bounce, IInv, TypeOK
  <2>2. \/ row[j].status = "absent"
        \/ row'[j].status = row[j].status
        \/ row'[j].status = "FAILED"
    BY <2>1 DEF Submit, RetryTimeArrives, Bounce, Row
  <2> QED
    BY <2>1, <2>2 DEF Claimable
<1> QED
  BY <1>1, <1>2, ConcludedKept

LEMMA ConcludedClaim ==
  ASSUME IInv, Concluded, NEW w \in Worker, NEW S \in SUBSET Job,
         Claim(w, S) \/ ClaimUnconfirmed(w, S)
  PROVE  Concluded'
<1>1. /\ UNCHANGED <<cur, pc, answer>>
      /\ \A k \in S : row[k].status \in Claimable
  BY DEF Claim, ClaimUnconfirmed, ClaimSet, Due, history, workers
<1>2. \A k \in Job : row[k].status \notin Claimable \cup {"absent"} => row'[k] = row[k]
  BY <1>1 DEF Claim, ClaimUnconfirmed, Claimed
<1>3. \A v \in Worker : \A b \in batch'[v] : b \in batch[v] \/ row[b.job].status \in Claimable
  BY <1>1 DEF Claim, ClaimUnconfirmed, workers, IInv, TypeOK
<1> QED
  BY <1>1, <1>2, <1>3 DEF Concluded

\* The call that succeeds is the job's last.
LEMMA ConcludedSend ==
  ASSUME IInv, Concluded, NEW w \in Worker, NEW b \in batch[w], NEW ok \in BOOLEAN, Send(w, b, ok)
  PROVE  Concluded'
<1> DEFINE j == b.job
<1>1. j \in Job /\ Holds(w, j) /\ Held(j) /\ b.attempt_count + 1 \in 1..MaxAttempts
  BY QueueAssumption DEF IInv, TypeOK, ClaimedJob, Count, Holds, Held
<1>2. /\ UNCHANGED row
      /\ cur'[w].job = j /\ cur'[w].outcome = Verdict(b.attempt_count + 1, ok)
      /\ batch'[w] = batch[w] \ {b}
      /\ \A v \in Worker \ {w} : batch'[v] = batch[v] /\ cur'[v] = cur[v] /\ pc'[v] = pc[v]
      /\ answer' = [answer EXCEPT ![j] = IF ok THEN "ok" ELSE "error"]
  BY DEF Send, IInv, TypeOK, tables
<1>3. row[j].status \notin Claimable \cup {"absent"}
  BY <1>1 DEF IInv, QueueInv, HeldRow, Claimable
<1>4. /\ \A v \in Worker : \A c \in batch'[v] : c.job # j
      /\ \A v \in Worker \ {w} : pc[v] = "update" => cur[v].job # j
  BY <1>1, <1>2 DEF IInv, QueueInv, ExclusiveAttempt, Holds
<1>5. ok => Verdict(b.attempt_count + 1, ok) = "DELIVERED"
  BY DEF Verdict
<1>6. answer'[j] = "ok" => ok
  BY <1>1, <1>2 DEF IInv, TypeOK
<1>7. \A k \in Job \ {j} : answer'[k] = answer[k]
  BY <1>2 DEF IInv, TypeOK
<1> QED
  BY <1>1, <1>2, <1>3, <1>4, <1>5, <1>6, <1>7 DEF Concluded

LEMMA ConcludedWork ==
  ASSUME IInv, Concluded, NEW w \in Worker,
         Update(w) \/ UpdateFails(w) \/ Record(w) \/ RecordFails(w) \/ Crash(w)
  PROVE  Concluded'
<1>1. CASE Update(w)
  <2>1. /\ UNCHANGED <<batch, cur, answer>> /\ pc[w] = "update"
        /\ \A v \in Worker : pc'[v] = "update" => pc[v] = "update"
    BY <1>1 DEF Update, history, IInv, TypeOK
  <2>2. /\ \A k \in Job \ {cur[w].job} : row'[k] = row[k]
        /\ cur[w].job \in Job /\ row'[cur[w].job].status = cur[w].outcome
    BY <1>1, UpdateRows DEF IInv
  <2>3. "DELIVERED" \notin Claimable \cup {"absent"}
    BY DEF Claimable
  <2> QED
    BY <2>1, <2>2, <2>3 DEF Concluded
<1>2. CASE UpdateFails(w) \/ Record(w) \/ RecordFails(w) \/ Crash(w)
  <2>1. UNCHANGED <<row, answer>>
    BY <1>2 DEF UpdateFails, Record, RecordFails, Crash, tables, history
  <2>2. \A v \in Worker : /\ batch'[v] \subseteq batch[v]
                          /\ pc'[v] = "update" => pc[v] = "update" /\ cur'[v] = cur[v]
    BY <1>2 DEF UpdateFails, Record, RecordFails, Crash, IInv, TypeOK
  <2> QED
    BY <2>1, <2>2, ConcludedKept
<1> QED
  BY <1>1, <1>2

Agreed == IInv /\ Concluded

LEMMA NextAgreed == Agreed /\ [Next]_vars => Agreed'
<1> SUFFICES ASSUME Agreed, [Next]_vars PROVE Agreed'
  OBVIOUS
<1>1. CASE Next
  BY <1>1, NextIInv, ConcludedRows, ConcludedClaim, ConcludedSend, ConcludedWork
     DEF Next, WorkerStep, Fault, Agreed
<1>2. CASE UNCHANGED vars
  BY <1>2, NextIInv, ConcludedKept DEF vars, Agreed
<1> QED
  BY <1>1, <1>2

\* Only a send is seen from outside, and only for its job: a call that returns.
LEMMA SendAnswers ==
  ASSUME Agreed, NEW w \in Worker, NEW b \in batch[w], NEW ok \in BOOLEAN, Send(w, b, ok),
         NEW j \in Job
  PROVE  [Message(j)!Next]_(Message(j)!vars)
<1>1. b \in ClaimedJob /\ b.job \in Job
  BY DEF Agreed, IInv, TypeOK, ClaimedJob
<1>2. CASE j # b.job
  BY <1>1, <1>2 DEF Send, Message!vars, Agreed, IInv, TypeOK
<1>3. CASE j = b.job
  <2>1. answer[b.job] # "ok"
    BY <1>1 DEF Agreed, Concluded
  <2>2. sends[b.job] < MaxAttempts
    BY <1>1, QueueAssumption DEF Agreed, IInv, QueueInv, CountFollowsSends, ClaimedJob, Count
  <2>3. Message(b.job)!Answer(ok)
    BY <1>1, <2>1, <2>2 DEF Message!Answer, Message!Open, Send, Agreed, IInv, TypeOK, ClaimedJob
  <2> QED
    BY <1>3, <2>3 DEF Message!Next
<1> QED
  BY <1>2, <1>3

LEMMA NextAnswers ==
  Agreed /\ [Next]_vars => \A j \in Job : [Message(j)!Next]_(Message(j)!vars)
<1> SUFFICES ASSUME Agreed, [Next]_vars, NEW j \in Job
             PROVE  [Message(j)!Next]_(Message(j)!vars)
  OBVIOUS
<1>1. ASSUME NEW k \in Job, Submit(k) \/ RetryTimeArrives(k) \/ Bounce(k)
      PROVE  UNCHANGED Message(j)!vars
  BY <1>1 DEF Submit, RetryTimeArrives, Bounce, history, Message!vars
<1>2. ASSUME NEW w \in Worker, NEW S \in SUBSET Job, Claim(w, S) \/ ClaimUnconfirmed(w, S)
      PROVE  UNCHANGED Message(j)!vars
  BY <1>2 DEF Claim, ClaimUnconfirmed, history, Message!vars
<1>3. ASSUME NEW w \in Worker,
             Update(w) \/ UpdateFails(w) \/ Record(w) \/ RecordFails(w) \/ Crash(w)
      PROVE  UNCHANGED Message(j)!vars
  BY <1>3 DEF Update, UpdateFails, Record, RecordFails, Crash, history, Message!vars
<1>4. CASE UNCHANGED vars
  BY <1>4 DEF vars, Message!vars
<1> QED
  BY <1>1, <1>2, <1>3, <1>4, SendAnswers DEF Next, WorkerStep, Fault

\* Whatever updates are lost, whichever workers die and whenever bounces come in,
\* the queue calls the MTA for one message as Sending says: never again after a
\* success, and at most max_attempts times.
THEOREM SendsAsAgreedHolds == Spec => SendsAsAgreed
<1>1. Init => \A j \in Job : Message(j)!Init
  BY DEF Init, Message!Init
<1>2. Init => Agreed
  BY InitIInv DEF Init, Agreed, Concluded
<1>3. Agreed /\ [Next]_vars => [\A j \in Job : [Message(j)!Next]_(Message(j)!vars)]_vars
  BY NextAnswers
<1> QED
  BY <1>1, <1>2, <1>3, NextAgreed, PTL DEF Spec, SendsAsAgreed

-----------------------------------------------------------------------------
(* Delivery *)

CONSTANTS Recipient, Domain, Host, DomainOf, Exchangers, Smarthost, Admin, Tool, MaxKeys, MaxTrips,
          Mailings
VARIABLES mailing, keys, dns, page, rotating, booting, generated, sig, trip, attempt, verdict,
          copies, unheard, refused, stale, shown, crossed

\* MaxAttempts is the queue's: here it bounds the attempts to deliver one message.
Mta == INSTANCE Delivery WITH MaxAttempts <- MaxTrips

\* What the proofs need of the constants.
MtaConstants ==
  /\ Mailings \subseteq Mta!Mailing
  /\ DomainOf \in [Recipient -> Domain \cup {"malformed"}] /\ "relay" \notin Domain

Place == Domain \cup {"relay"}
Talk == {"dial", "tls", "mail", "rcpt"}
QuietTrip == [at : {"build", "rest", "stalled"}]
RouteTrip == [at : {"next"}, left : SUBSET Place, failed : BOOLEAN]
TalkTrip == [at : Talk, left : SUBSET Place, failed : BOOLEAN, domain : Place, host : Nat,
             asked : SUBSET Recipient, accepted : SUBSET Recipient]

TripTypes ==
  /\ mailing \in Mta!Mailing
  /\ trip \in QuietTrip \cup RouteTrip \cup TalkTrip
  /\ attempt \in Nat
  /\ copies \in [Recipient -> Nat] /\ unheard \in [Recipient -> Nat]

Talking == trip.at \in Talk
Underway == Talking \/ trip.at = "next"

\* The attempt may still bring the message to r.
Pending(r) == Underway /\ \E d \in trip.left : r \in Mta!RecipientsAt(d)

\* One attempt, one copy: while it is still to come, there is one less.
Bounded ==
  \A r \in Recipient :
    /\ copies[r] <= attempt + unheard[r]
    /\ Pending(r) => copies[r] < attempt + unheard[r]

Served(r) == copies[r] > 0 \/ r \in refused \/ DomainOf[r] = "malformed"

\* An attempt that has not failed leaves nobody out.
NobodyLeft ==
  Underway /\ ~trip.failed => \A r \in mailing.to : Served(r) \/ Pending(r)

\* Whom the server was asked about it has accepted or refused.
Dialogue ==
  /\ Underway => trip.left \subseteq Mta!Destinations
  /\ Talking =>
       /\ trip.domain \in trip.left
       /\ trip.accepted \subseteq trip.asked
       /\ trip.asked \subseteq Mta!RecipientsAt(trip.domain)
       /\ trip.at # "dial" => trip.asked \subseteq trip.accepted \cup refused
       /\ trip.at = "dial" => trip.accepted = {}

TripInv == TripTypes /\ Bounded /\ NobodyLeft /\ Dialogue /\ Mta!OkMeansTaken

-----------------------------------------------------------------------------
LEMMA TripShapes ==
  ASSUME TripTypes
  PROVE  /\ Talking <=> trip \in TalkTrip
         /\ trip.at = "next" <=> trip \in RouteTrip
         /\ Underway => trip.left \subseteq Place /\ trip.failed \in BOOLEAN
BY DEF TripTypes, Talking, Talk, Underway, QuietTrip, RouteTrip, TalkTrip

LEMMA ToRecipients ==
  ASSUME TripTypes
  PROVE  mailing.to \subseteq Recipient /\ mailing.relay \in BOOLEAN /\ mailing.tls \in BOOLEAN
BY DEF TripTypes, Mta!Mailing

\* A recipient is served at one place.
LEMMA OnePlace ==
  ASSUME MtaConstants, TripTypes, NEW d \in Mta!Destinations, NEW e \in Mta!Destinations,
         NEW r \in Mta!RecipientsAt(d), r \in Mta!RecipientsAt(e)
  PROVE  d = e
<1>1. CASE mailing.relay
  BY <1>1 DEF Mta!Destinations
<1>2. CASE ~mailing.relay
  <2>1. "relay" \notin Mta!Destinations
    BY <1>2, ToRecipients DEF Mta!Destinations, MtaConstants
  <2> QED
    BY <2>1 DEF Mta!RecipientsAt
<1> QED
  BY <1>1, <1>2

\* Every recipient has a place, unless his address is malformed.
LEMMA SomePlace ==
  ASSUME MtaConstants, TripTypes, NEW r \in mailing.to
  PROVE  \/ DomainOf[r] = "malformed"
         \/ \E d \in Mta!Destinations : r \in Mta!RecipientsAt(d)
<1>1. CASE mailing.relay
  BY <1>1 DEF Mta!Destinations, Mta!RecipientsAt
<1>2. CASE ~mailing.relay /\ DomainOf[r] # "malformed"
  <2>1. DomainOf[r] \in Mta!Destinations /\ DomainOf[r] # "relay"
    BY <1>2, ToRecipients DEF Mta!Destinations, MtaConstants
  <2> QED
    BY <2>1 DEF Mta!RecipientsAt
<1> QED
  BY <1>1, <1>2

LEMMA TripInit == MtaConstants /\ Mta!Init => TripInv
<1> SUFFICES ASSUME MtaConstants, Mta!Init PROVE TripInv
  OBVIOUS
<1>1. TripTypes
  BY DEF Mta!Init, TripTypes, MtaConstants, QuietTrip
<1>2. trip.at = "build" /\ ~Underway /\ ~Talking
  BY DEF Mta!Init, Underway, Talking, Talk
<1> QED
  BY <1>1, <1>2 DEF Mta!Init, TripInv, Bounded, Pending, NobodyLeft, Dialogue, Mta!OkMeansTaken

\* Nobody gets a copy for which no answer is owed, and nobody is left out.
LEMMA SteadyStep ==
  ASSUME TripInv, TripTypes', Dialogue', UNCHANGED <<mailing, attempt, verdict>>,
         refused \subseteq refused',
         \A r \in Recipient : /\ copies'[r] >= copies[r]
                              /\ copies'[r] + unheard[r] = copies[r] + unheard'[r]
                              /\ Pending(r)' => Pending(r),
         Underway' /\ ~trip'.failed =>
           /\ Underway /\ ~trip.failed
           /\ \A r \in Recipient : Pending(r) => Pending(r)' \/ Served(r)'
  PROVE  TripInv'
<1>1. /\ copies \in [Recipient -> Nat] /\ unheard \in [Recipient -> Nat] /\ attempt \in Nat
      /\ copies' \in [Recipient -> Nat] /\ unheard' \in [Recipient -> Nat]
      /\ mailing.to \subseteq Recipient
  BY ToRecipients DEF TripInv, TripTypes
<1>2. \A r \in Recipient : Served(r) => Served(r)'
  BY <1>1 DEF Served
<1>3. Bounded'
  BY <1>1 DEF TripInv, Bounded
<1>4. NobodyLeft'
  BY <1>1, <1>2 DEF TripInv, NobodyLeft
<1>5. Mta!OkMeansTaken'
  BY <1>1, <1>2 DEF TripInv, Mta!OkMeansTaken, Served
<1> QED
  BY <1>3, <1>4, <1>5 DEF TripInv

\* The rest of a step in which no server takes anything.
LEMMA QuietStep ==
  ASSUME TripInv, TripTypes', Dialogue', UNCHANGED <<mailing, attempt, verdict, copies, unheard>>,
         refused \subseteq refused',
         Underway' => Underway /\ trip'.left \subseteq trip.left,
         Underway' /\ ~trip'.failed => ~trip.failed /\ trip'.left = trip.left
  PROVE  TripInv'
<1>1. \A r \in Recipient : Pending(r)' => Pending(r)
  BY DEF Pending, Mta!RecipientsAt
<1>2. Underway' /\ ~trip'.failed => \A r \in Recipient : Pending(r) => Pending(r)'
  BY DEF Pending, Mta!RecipientsAt
<1> QED
  BY <1>1, <1>2, SteadyStep DEF TripInv, TripTypes

\* The next host, or the next domain.
LEMMA NextHost ==
  ASSUME TripInv, Talking, Mta!TryNextHost, UNCHANGED mailing
  PROVE  /\ trip' \in QuietTrip \cup RouteTrip \cup TalkTrip
         /\ Dialogue'
         /\ Underway' /\ trip'.left \subseteq trip.left
         /\ ~trip'.failed => ~trip.failed /\ trip'.left = trip.left
<1>1. PICK t \in TalkTrip : t = trip
  BY TripShapes DEF TripInv
<1>2. PICK x : x = [t EXCEPT !.at = "dial", !.host = t.host + 1, !.accepted = {}]
  OBVIOUS
<1>3. /\ x \in TalkTrip /\ x.at = "dial" /\ x.accepted = {} /\ x.left = t.left
      /\ x.failed = t.failed /\ x.domain = t.domain /\ x.asked = t.asked
  <2>1. t.host + 1 \in Nat
    BY DEF TalkTrip
  <2>2. PICK y : y = [t EXCEPT !.at = "dial", !.host = t.host + 1]
    OBVIOUS
  <2>3. /\ y \in TalkTrip /\ y.at = "dial" /\ y.left = t.left
        /\ y.failed = t.failed /\ y.domain = t.domain /\ y.asked = t.asked
    BY <2>1, <2>2 DEF TalkTrip, Talk
  <2>4. x = [y EXCEPT !.accepted = {}]
    BY <1>2, <2>2
  <2> QED
    BY <2>3, <2>4 DEF TalkTrip
<1>4. CASE trip' = x
  <2>1. Underway' /\ Talking'
    BY <1>4, <1>3 DEF Underway, Talking, Talk
  <2>2. Dialogue'
    BY <1>1, <1>3, <1>4, <2>1 DEF TripInv, Dialogue, Underway, Mta!Destinations,
       Mta!RecipientsAt
  <2> QED
    BY <1>1, <1>3, <1>4, <2>1, <2>2
<1>5. CASE trip' = [at |-> "next", left |-> t.left \ {t.domain}, failed |-> TRUE]
  <2>1. trip' \in RouteTrip /\ trip'.left = t.left \ {t.domain} /\ trip'.failed /\ trip'.at = "next"
    BY <1>5 DEF TalkTrip, RouteTrip
  <2>2. Underway' /\ ~Talking'
    BY <2>1 DEF Underway, Talking, Talk
  <2>3. Dialogue'
    BY <1>1, <2>1, <2>2 DEF TripInv, Dialogue, Underway, Mta!Destinations
  <2> QED
    BY <1>1, <2>1, <2>2, <2>3
<1> QED
  BY <1>1, <1>2, <1>4, <1>5 DEF Mta!TryNextHost, Mta!DomainDone, Mta!Outcome, Mta!HostAfter

LEMMA NextHostStep ==
  ASSUME TripInv, Talking, Mta!TryNextHost,
         UNCHANGED <<mailing, attempt, verdict, copies, unheard, refused>>
  PROVE  TripInv'
BY NextHost, QuietStep DEF TripInv, TripTypes, Underway

\* The dialogue goes on.
LEMMA TalkStep ==
  ASSUME TripInv, Talking, NEW x \in TalkTrip, trip' = x,
         x.left = trip.left, x.failed = trip.failed, x.domain = trip.domain, x.at # "dial",
         x.accepted \subseteq x.asked, x.asked \subseteq Mta!RecipientsAt(trip.domain),
         x.asked \subseteq x.accepted \cup refused', refused \subseteq refused',
         UNCHANGED <<mailing, attempt, verdict, copies, unheard>>
  PROVE  TripInv'
<1>1. Talking' /\ Underway' /\ Underway
  BY DEF TalkTrip, Talking, Underway
<1>2. Dialogue'
  BY <1>1 DEF TripInv, Dialogue, Mta!Destinations, Mta!RecipientsAt
<1> QED
  BY <1>1, <1>2, QuietStep DEF TripInv, TripTypes

LEMMA TalkingSteps ==
  ASSUME TripInv, Mta!Dial \/ Mta!Secure \/ Mta!Mail
  PROVE  TripInv'
<1>0. /\ UNCHANGED <<mailing, attempt, verdict, copies, unheard, refused>>
      /\ Talking
      /\ trip \in TalkTrip
  BY TripShapes DEF Mta!Dial, Mta!Secure, Mta!Mail, Mta!Quiet, Mta!At, TripInv, Talking, Talk
<1>1. CASE Mta!TryNextHost
  BY <1>0, <1>1, NextHostStep
<1>2. CASE trip.at = "dial" /\ trip' = [trip EXCEPT !.at = "tls", !.asked = {}]
  <2>1. PICK x : x = [trip EXCEPT !.at = "tls", !.asked = {}]
    OBVIOUS
  <2>2. /\ x \in TalkTrip /\ x.at = "tls" /\ x.asked = {} /\ x.accepted = trip.accepted
        /\ x.left = trip.left /\ x.failed = trip.failed /\ x.domain = trip.domain
    BY <1>0, <2>1 DEF TalkTrip, Talk
  <2>3. trip.accepted = {}
    BY <1>0, <1>2 DEF TripInv, Dialogue
  <2> QED
    BY <1>0, <1>2, <2>1, <2>2, <2>3, TalkStep
<1>3. ASSUME NEW place \in {"mail", "rcpt"}, trip.at # "dial", trip' = [trip EXCEPT !.at = place]
      PROVE  TripInv'
  <2>1. PICK x : x = [trip EXCEPT !.at = place]
    OBVIOUS
  <2>2. /\ x \in TalkTrip /\ x.at = place /\ x.asked = trip.asked /\ x.accepted = trip.accepted
        /\ x.left = trip.left /\ x.failed = trip.failed /\ x.domain = trip.domain
    BY <1>0, <2>1 DEF TalkTrip, Talk
  <2>3. /\ trip.accepted \subseteq trip.asked
        /\ trip.asked \subseteq Mta!RecipientsAt(trip.domain)
        /\ trip.asked \subseteq trip.accepted \cup refused
    BY <1>0, <1>3 DEF TripInv, Dialogue
  <2> QED
    BY <1>0, <1>3, <2>1, <2>2, <2>3, TalkStep
<1> QED
  BY <1>0, <1>1, <1>2, <1>3 DEF Mta!Dial, Mta!Secure, Mta!Mail, Mta!At, Mta!Goto

LEMMA RcptStep ==
  ASSUME TripInv, NEW r \in Recipient, Mta!Rcpt(r)
  PROVE  TripInv'
<1>0. /\ UNCHANGED <<mailing, attempt, verdict, copies, unheard>>
      /\ trip.at = "rcpt" /\ Talking /\ trip \in TalkTrip
      /\ r \in Mta!RecipientsAt(trip.domain)
  BY TripShapes DEF Mta!Rcpt, Mta!At, TripInv, Talking, Talk, Mta!keyState
<1>1. /\ trip.accepted \subseteq trip.asked
      /\ trip.asked \subseteq Mta!RecipientsAt(trip.domain)
      /\ trip.asked \subseteq trip.accepted \cup refused
  BY <1>0 DEF TripInv, Dialogue
<1>2. CASE trip' = [trip EXCEPT !.asked = @ \cup {r}, !.accepted = @ \cup {r}] /\ UNCHANGED refused
  <2>1. PICK x : x = [trip EXCEPT !.asked = @ \cup {r}, !.accepted = @ \cup {r}]
    OBVIOUS
  <2>2. /\ x \in TalkTrip /\ x.at = "rcpt" /\ x.asked = trip.asked \cup {r}
        /\ x.accepted = trip.accepted \cup {r}
        /\ x.left = trip.left /\ x.failed = trip.failed /\ x.domain = trip.domain
    BY <1>0, <2>1 DEF TalkTrip, Talk
  <2> QED
    BY <1>0, <1>1, <1>2, <2>1, <2>2, TalkStep
<1>3. CASE trip' = [trip EXCEPT !.asked = @ \cup {r}] /\ refused' = refused \cup {r}
  <2>1. PICK x : x = [trip EXCEPT !.asked = @ \cup {r}]
    OBVIOUS
  <2>2. /\ x \in TalkTrip /\ x.at = "rcpt" /\ x.asked = trip.asked \cup {r}
        /\ x.accepted = trip.accepted
        /\ x.left = trip.left /\ x.failed = trip.failed /\ x.domain = trip.domain
    BY <1>0, <2>1 DEF TalkTrip, Talk
  <2> QED
    BY <1>0, <1>1, <1>3, <2>1, <2>2, TalkStep
<1> QED
  BY <1>2, <1>3 DEF Mta!Rcpt

LEMMA RouteSteps ==
  ASSUME TripInv, NEW d, Mta!PickDomain(d) \/ Mta!LookupFails(d)
  PROVE  TripInv'
<1>0. /\ UNCHANGED <<mailing, attempt, verdict, copies, unheard, refused>>
      /\ trip.at = "next" /\ Underway /\ trip \in RouteTrip /\ d \in trip.left
  BY TripShapes DEF Mta!PickDomain, Mta!LookupFails, Mta!Quiet, Mta!At, TripInv, Underway
<1>1. CASE Mta!PickDomain(d)
  <2>1. PICK x : x = [at |-> "dial", left |-> trip.left, failed |-> trip.failed,
                      domain |-> d, host |-> 1, asked |-> {}, accepted |-> {}]
    OBVIOUS
  <2>2. x \in TalkTrip /\ x.at = "dial" /\ x.left = trip.left /\ x.failed = trip.failed
        /\ x.domain = d /\ x.asked = {} /\ x.accepted = {}
    BY <1>0, <2>1 DEF TalkTrip, RouteTrip, Talk
  <2>3. trip' = x /\ Talking' /\ Underway'
    BY <1>1, <2>1, <2>2 DEF Mta!PickDomain, Talking, Underway, Talk
  <2>4. Dialogue'
    BY <1>0, <2>2, <2>3 DEF TripInv, Dialogue, Mta!Destinations
  <2> QED
    BY <1>0, <2>2, <2>3, <2>4, QuietStep DEF TripInv, TripTypes
<1>2. CASE Mta!LookupFails(d)
  <2>1. PICK x : x = [trip EXCEPT !.left = @ \ {d}, !.failed = TRUE]
    OBVIOUS
  <2>2. x \in RouteTrip /\ x.at = "next" /\ x.left = trip.left \ {d} /\ x.failed
    BY <1>0, <2>1 DEF RouteTrip
  <2>3. trip' = x /\ ~Talking' /\ Underway'
    BY <1>2, <2>1, <2>2 DEF Mta!LookupFails, Talking, Underway, Talk
  <2>4. Dialogue'
    BY <1>0, <2>2, <2>3 DEF TripInv, Dialogue, Mta!Destinations
  <2> QED
    BY <1>0, <2>2, <2>3, <2>4, QuietStep DEF TripInv, TripTypes
<1> QED
  BY <1>1, <1>2

LEMMA DataTakenStep ==
  ASSUME MtaConstants, TripInv, Mta!DataTaken
  PROVE  TripInv'
<1>0. /\ UNCHANGED <<mailing, attempt, verdict, unheard, refused>>
      /\ trip.at = "rcpt" /\ Talking /\ Underway /\ trip \in TalkTrip
      /\ Mta!RecipientsAt(trip.domain) \subseteq trip.asked
      /\ copies' = [r \in Recipient |-> IF r \in trip.accepted THEN copies[r] + 1 ELSE copies[r]]
  BY TripShapes DEF Mta!DataTaken, Mta!AllAsked, Mta!At, TripInv, Talking, Talk, Underway,
     Mta!keyState,
                    Mta!OneMore
<1>1. PICK x : x = [at |-> "next", left |-> trip.left \ {trip.domain}, failed |-> trip.failed]
  OBVIOUS
<1>2. x \in RouteTrip /\ x.at = "next" /\ x.left = trip.left \ {trip.domain} /\ x.failed = trip.failed
  BY <1>0, <1>1 DEF RouteTrip, TalkTrip
<1>3. trip' = x
  BY <1>0, <1>1 DEF Mta!DataTaken, Mta!AfterAnswer, Mta!DomainDone, Mta!Outcome, TalkTrip
<1>4. Underway' /\ ~Talking'
  BY <1>2, <1>3 DEF Talking, Underway, Talk
<1>5. /\ trip.domain \in trip.left
      /\ trip.asked = Mta!RecipientsAt(trip.domain)
      /\ trip.asked \subseteq trip.accepted \cup refused
      /\ trip.accepted \subseteq trip.asked /\ trip.left \subseteq Mta!Destinations
  BY <1>0 DEF TripInv, Dialogue
<1>6. TripTypes'
  BY <1>0, <1>2, <1>3 DEF TripInv, TripTypes
<1>7. Dialogue'
  BY <1>0, <1>2, <1>3, <1>4, <1>5 DEF Dialogue, Mta!Destinations
<1>8. ASSUME NEW r \in Recipient, Pending(r)' PROVE Pending(r) /\ r \notin trip.accepted
  <2>1. PICK d \in trip.left : d # trip.domain /\ r \in Mta!RecipientsAt(d)
    BY <1>0, <1>2, <1>3, <1>8 DEF Pending, Mta!RecipientsAt
  <2> QED
    BY <1>0, <1>5, <2>1, OnePlace DEF TripInv, Pending
<1>9. ASSUME NEW r \in Recipient, Pending(r) PROVE Pending(r)' \/ Served(r)'
  <2>1. PICK d \in trip.left : r \in Mta!RecipientsAt(d)
    BY <1>9 DEF Pending
  <2>2. CASE d = trip.domain
    BY <1>0, <1>5, <2>1, <2>2 DEF Served, TripInv, TripTypes
  <2>3. CASE d # trip.domain
    BY <1>0, <1>2, <1>3, <1>4, <2>1, <2>3 DEF Pending, Mta!RecipientsAt
  <2> QED
    BY <2>2, <2>3
<1>10. \A r \in Recipient : Served(r) => Served(r)'
  BY <1>0 DEF Served, TripInv, TripTypes
<1>11. Bounded'
  <2> SUFFICES ASSUME NEW r \in Recipient
               PROVE  /\ copies'[r] <= attempt + unheard[r]
                      /\ Pending(r)' => copies'[r] < attempt + unheard[r]
    BY <1>0 DEF Bounded
  <2>1. CASE r \in trip.accepted
    <3>1. Pending(r)
      BY <1>0, <1>5, <2>1 DEF Pending
    <3> QED
      BY <1>0, <1>8, <2>1, <3>1 DEF TripInv, TripTypes, Bounded
  <2>2. CASE r \notin trip.accepted
    BY <1>0, <1>8, <2>2 DEF TripInv, Bounded
  <2> QED
    BY <2>1, <2>2
<1>12. mailing.to \subseteq Recipient
  BY ToRecipients DEF TripInv
<1>13. NobodyLeft'
  BY <1>0, <1>2, <1>3, <1>9, <1>10, <1>12 DEF TripInv, NobodyLeft
<1>14. Mta!OkMeansTaken'
  BY <1>0, <1>10, <1>12 DEF TripInv, Mta!OkMeansTaken, Served
<1> QED
  BY <1>6, <1>7, <1>11, <1>13, <1>14 DEF TripInv

LEMMA DataUnheardStep ==
  ASSUME TripInv, Mta!DataUnheard
  PROVE  TripInv'
<1>0. /\ UNCHANGED <<mailing, attempt, verdict, refused>> /\ Talking /\ Underway
      /\ copies' = [r \in Recipient |-> IF r \in trip.accepted THEN copies[r] + 1 ELSE copies[r]]
      /\ unheard' = [r \in Recipient |-> IF r \in trip.accepted THEN unheard[r] + 1 ELSE unheard[r]]
  BY DEF Mta!DataUnheard, Mta!AllAsked, Mta!At, Talking, Talk, Underway, Mta!keyState,
     Mta!OneMore
<1>1. /\ trip' \in QuietTrip \cup RouteTrip \cup TalkTrip
      /\ Dialogue'
      /\ Underway' /\ trip'.left \subseteq trip.left
      /\ ~trip'.failed => ~trip.failed /\ trip'.left = trip.left
  BY <1>0, NextHost DEF Mta!DataUnheard
<1>2. TripTypes'
  BY <1>0, <1>1 DEF TripInv, TripTypes
<1>3. ASSUME NEW r \in Recipient
      PROVE  /\ copies'[r] >= copies[r]
             /\ copies'[r] + unheard[r] = copies[r] + unheard'[r]
  BY <1>0 DEF TripInv, TripTypes
<1>4. \A r \in Recipient : Pending(r)' => Pending(r)
  BY <1>0, <1>1 DEF Pending, Mta!RecipientsAt
<1>5. ~trip'.failed => \A r \in Recipient : Pending(r) => Pending(r)'
  BY <1>0, <1>1 DEF Pending, Mta!RecipientsAt
<1> QED
  BY <1>0, <1>1, <1>2, <1>3, <1>4, <1>5, SteadyStep

\* An attempt begins or ends.
LEMMA EndSteps ==
  ASSUME MtaConstants, TripInv, Mta!Start \/ Mta!Return \/ Mta!Silence \/ Mta!Build
  PROVE  TripInv'
<1>1. CASE Mta!Start
  <2>0. /\ UNCHANGED <<mailing, verdict, copies, unheard, refused>> /\ verdict # "ok"
        /\ attempt' = attempt + 1
        /\ trip' = [at |-> "next", left |-> Mta!Destinations, failed |-> FALSE]
    BY <1>1 DEF Mta!Start, Mta!keyState
  <2>1. Mta!Destinations \subseteq Place /\ mailing.to \subseteq Recipient
    BY ToRecipients DEF Mta!Destinations, Place, MtaConstants, TripInv
  <2>2. trip' \in RouteTrip /\ Underway' /\ ~Talking'
    BY <2>0, <2>1 DEF RouteTrip, Underway, Talking, Talk
  <2>3. TripTypes'
    BY <2>0, <2>2 DEF TripInv, TripTypes
  <2>4. Bounded'
    BY <2>0 DEF TripInv, TripTypes, Bounded
  <2>5. NobodyLeft'
    <3> SUFFICES ASSUME NEW r \in mailing.to PROVE Served(r)' \/ Pending(r)'
      BY <2>0 DEF NobodyLeft
    <3>1. DomainOf[r] = "malformed" \/ \E d \in Mta!Destinations : r \in Mta!RecipientsAt(d)
      BY SomePlace DEF TripInv
    <3>2. CASE DomainOf[r] = "malformed"
      BY <3>2 DEF Served
    <3>3. CASE \E d \in Mta!Destinations : r \in Mta!RecipientsAt(d)
      BY <2>0, <2>2, <3>3 DEF Pending, Mta!RecipientsAt
    <3> QED
      BY <3>1, <3>2, <3>3
  <2>6. Dialogue'
    BY <2>0, <2>2 DEF Dialogue, Mta!Destinations
  <2> QED
    BY <2>0, <2>3, <2>4, <2>5, <2>6 DEF TripInv, Mta!OkMeansTaken
<1>2. CASE Mta!Return
  <2>0. /\ UNCHANGED <<mailing, attempt, copies, unheard, refused>> /\ trip' = Mta!Rest
        /\ trip.at = "next" /\ trip.left = {} /\ trip \in RouteTrip
        /\ verdict' = IF trip.failed THEN "error" ELSE "ok"
    BY <1>2, TripShapes DEF Mta!Return, Mta!keyState, Mta!At, TripInv
  <2>1. trip' \in QuietTrip /\ ~Underway' /\ ~Talking' /\ Underway
    BY <2>0 DEF QuietTrip, Mta!Rest, Underway, Talking, Talk
  <2>2. TripTypes' /\ Bounded' /\ NobodyLeft' /\ Dialogue'
    BY <2>0, <2>1 DEF TripInv, TripTypes, Bounded, Pending, NobodyLeft, Dialogue
  <2>3. Mta!OkMeansTaken'
    BY <2>0, <2>1 DEF TripInv, NobodyLeft, Pending, Served, Mta!OkMeansTaken
  <2> QED
    BY <2>2, <2>3 DEF TripInv
<1>3. CASE Mta!Silence \/ Mta!Build
  <2>0. /\ UNCHANGED <<mailing, attempt, verdict, copies, unheard, refused>>
        /\ trip' \in {[at |-> "stalled"], [at |-> "rest"]}
    BY <1>3 DEF Mta!Silence, Mta!Quiet, Mta!Build, Mta!Rest
  <2>1. trip' \in QuietTrip /\ ~Underway' /\ ~Talking'
    BY <2>0 DEF QuietTrip, Underway, Talking, Talk
  <2>2. TripTypes' /\ Bounded' /\ NobodyLeft' /\ Dialogue'
    BY <2>0, <2>1 DEF TripInv, TripTypes, Bounded, Pending, NobodyLeft, Dialogue
  <2> QED
    BY <2>0, <2>2 DEF TripInv, Mta!OkMeansTaken
<1> QED
  BY <1>1, <1>2, <1>3

LEMMA OthersKeepTrip ==
  ASSUME TripInv, UNCHANGED <<mailing, trip, attempt, verdict, copies, unheard, refused>>
  PROVE  TripInv'
BY DEF TripInv, TripTypes, Bounded, Pending, Underway, Talking, Mta!RecipientsAt, NobodyLeft,
   Served,
       Dialogue, Mta!Destinations, Mta!OkMeansTaken

LEMMA AdministerKeepsTrip ==
  ASSUME Mta!Administer
  PROVE  UNCHANGED <<mailing, sig, trip, attempt, verdict, copies, unheard, refused>>
BY DEF Mta!Administer, Mta!CreateDomain, Mta!AddKey, Mta!BootstrapRead, Mta!BootstrapInsert,
       Mta!BootstrapFails, Mta!Insert,
   Mta!RotateRead,
       Mta!RotateWrite, Mta!RotateFails, Mta!ShowDns, Mta!ShowDnsCmd, Mta!Show, Mta!Publish, Mta!trips

LEMMA TripNextStep ==
  ASSUME MtaConstants, TripInv, [Mta!Next]_Mta!vars
  PROVE  TripInv'
<1>1. ASSUME Mta!Deliver PROVE TripInv'
  <2>1. CASE Mta!DataFails
    <3>1. Talking /\ Mta!TryNextHost /\ UNCHANGED <<mailing, attempt, verdict, copies, unheard, refused>>
      BY <2>1 DEF Mta!DataFails, Mta!AllAsked, Mta!At, Mta!Quiet, Talking, Talk
    <3> QED
      BY <3>1, NextHostStep
  <2> QED
    BY <1>1, <2>1, RouteSteps, TalkingSteps, RcptStep, DataTakenStep, DataUnheardStep, EndSteps
       DEF Mta!Deliver
<1>2. CASE UNCHANGED Mta!vars
  BY <1>2, OthersKeepTrip DEF Mta!vars, Mta!trips
<1>3. CASE Mta!Administer
  BY <1>3, AdministerKeepsTrip, OthersKeepTrip
<1> QED
  BY <1>1, <1>2, <1>3, EndSteps DEF Mta!Next

\* SendWithResponse, deliverToDomain, sendToHost: after any attempts, "ok" was returned
\* only if every recipient was served by some server, refused, or malformed.
THEOREM SuccessIsTrue ==
  ASSUME MtaConstants PROVE Mta!Spec => []Mta!OkMeansTaken
<1>1. Mta!Init => TripInv
  BY TripInit
<1>2. TripInv /\ [Mta!Next]_Mta!vars => TripInv'
  BY TripNextStep
<1>3. TripInv => Mta!OkMeansTaken
  BY DEF TripInv
<1> QED
  BY <1>1, <1>2, <1>3, PTL DEF Mta!Spec

\* The same: no fallback to another host, and no failure of another domain, sends a
\* recipient more than a copy per attempt and per answer that was lost.
THEOREM CopiesStayBounded ==
  ASSUME MtaConstants PROVE Mta!Spec => []Mta!CopiesAreBounded
<1>1. Mta!Init => TripInv
  BY TripInit
<1>2. TripInv /\ [Mta!Next]_Mta!vars => TripInv'
  BY TripNextStep
<1>3. TripInv => Mta!CopiesAreBounded
  BY DEF TripInv, Bounded, Mta!CopiesAreBounded
<1> QED
  BY <1>1, <1>2, <1>3, PTL DEF Mta!Spec

-----------------------------------------------------------------------------
(* Delivery keeps the MTA's side of the agreement with the queue *)

Reached == \E r \in Recipient : copies[r] > 0
Away == trip.at \notin {"build", "rest"}

\* Where an attempt stands with respect to what its return will say: it fails only
\* if there was something to fail, and it is through with a destination without
\* failing only if some server has taken the message.
Contract ==
  /\ verdict \in {"none", "ok", "error"}
  /\ attempt <= MaxTrips
  /\ Away => attempt > 0 /\ verdict # "ok"
  /\ Underway =>
       /\ trip.failed => Mta!Destinations # {}
       /\ ~trip.failed /\ trip.left # Mta!Destinations => Reached

AgreedStep == [Mta!Agreement!Next]_(Mta!Agreement!vars)

LEMMA UnderwayIsAway == Underway => Away
BY DEF Underway, Away, Talking, Talk

\* An attempt goes on and no server takes anything.
LEMMA GoOn ==
  ASSUME Contract, Underway, Underway', Mta!Destinations # {},
         ~trip'.failed => ~trip.failed /\ trip'.left = trip.left,
         UNCHANGED <<mailing, attempt, verdict, copies>>
  PROVE  Contract' /\ AgreedStep
<1>1. Away /\ Away'
  BY UnderwayIsAway DEF Underway, Away, Talking, Talk
<1>2. UNCHANGED <<Mta!Destinations, Mta!Returned, Reached>>
  BY <1>1 DEF Mta!Destinations, Mta!Returned, Mta!At, Away, Reached
<1>3. Contract'
  BY <1>1, <1>2 DEF Contract
<1>4. UNCHANGED Mta!Agreement!vars
  BY <1>2 DEF Mta!Agreement!vars, Reached
<1> QED
  BY <1>3, <1>4 DEF AgreedStep

\* The host that is spoken to is one of a destination.
LEMMA TalkingSomewhere ==
  ASSUME TripInv, Talking
  PROVE  Mta!Destinations # {} /\ Underway
BY DEF TripInv, Dialogue, Underway

LEMMA TalkAgrees ==
  ASSUME TripInv, Contract, Mta!Dial \/ Mta!Secure \/ Mta!Mail \/ Mta!DataFails
  PROVE  Contract' /\ AgreedStep
<1>1. /\ UNCHANGED <<mailing, attempt, verdict, copies>>
      /\ Talking
      /\ trip \in TalkTrip
  BY TripShapes
     DEF Mta!Dial, Mta!Secure, Mta!Mail, Mta!DataFails, Mta!AllAsked, Mta!Quiet, Mta!At, TripInv,
         Talking, Talk
<1>2. CASE Mta!TryNextHost
  BY <1>1, <1>2, TalkingSomewhere, NextHost, GoOn
<1>3. CASE trip' = [trip EXCEPT !.at = "tls", !.asked = {}]
  <2>1. trip' \in TalkTrip /\ trip'.left = trip.left /\ trip'.failed = trip.failed
    BY <1>1, <1>3 DEF TalkTrip, Talk
  <2>2. Underway'
    BY <2>1 DEF Underway, Talking, TalkTrip
  <2> QED
    BY <1>1, <2>1, <2>2, TalkingSomewhere, GoOn
<1>4. ASSUME NEW place \in {"mail", "rcpt"}, trip' = [trip EXCEPT !.at = place]
      PROVE  Contract' /\ AgreedStep
  <2>1. trip' \in TalkTrip /\ trip'.left = trip.left /\ trip'.failed = trip.failed
    BY <1>1, <1>4 DEF TalkTrip, Talk
  <2>2. Underway'
    BY <2>1 DEF Underway, Talking, TalkTrip
  <2> QED
    BY <1>1, <2>1, <2>2, TalkingSomewhere, GoOn
<1> QED
  BY <1>2, <1>3, <1>4 DEF Mta!Dial, Mta!Secure, Mta!Mail, Mta!DataFails, Mta!Goto

LEMMA RcptAgrees ==
  ASSUME TripInv, Contract, NEW r \in Recipient, Mta!Rcpt(r)
  PROVE  Contract' /\ AgreedStep
<1>1. /\ UNCHANGED <<mailing, attempt, verdict, copies>>
      /\ Talking
      /\ trip \in TalkTrip
  BY TripShapes DEF Mta!Rcpt, Mta!At, TripInv, Talking, Talk
<1>2. /\ trip' \in TalkTrip
      /\ trip'.left = trip.left /\ trip'.failed = trip.failed
  <2>1. CASE trip' = [trip EXCEPT !.asked = @ \cup {r}, !.accepted = @ \cup {r}]
    BY <1>1, <2>1 DEF TalkTrip
  <2>2. CASE trip' = [trip EXCEPT !.asked = @ \cup {r}]
    BY <1>1, <2>2 DEF TalkTrip
  <2> QED
    BY <2>1, <2>2 DEF Mta!Rcpt
<1>3. Underway'
  BY <1>2 DEF Underway, Talking, TalkTrip
<1> QED
  BY <1>1, <1>2, <1>3, TalkingSomewhere, GoOn

LEMMA RouteAgrees ==
  ASSUME TripInv, Contract, NEW d, Mta!PickDomain(d) \/ Mta!LookupFails(d)
  PROVE  Contract' /\ AgreedStep
<1>1. /\ UNCHANGED <<mailing, attempt, verdict, copies>>
      /\ trip.at = "next" /\ Underway /\ trip \in RouteTrip /\ d \in trip.left
  BY TripShapes DEF Mta!PickDomain, Mta!LookupFails, Mta!Quiet, Mta!At, TripInv, Underway
<1>2. Mta!Destinations # {}
  BY <1>1 DEF TripInv, Dialogue
<1>3. CASE Mta!PickDomain(d)
  <2>1. trip'.at = "dial" /\ trip'.left = trip.left /\ trip'.failed = trip.failed
    BY <1>3 DEF Mta!PickDomain
  <2>2. Underway'
    BY <2>1 DEF Underway, Talking, Talk
  <2> QED
    BY <1>1, <1>2, <2>1, <2>2, GoOn
<1>4. CASE Mta!LookupFails(d)
  <2>1. trip'.at = "next" /\ trip'.failed
    BY <1>1, <1>4 DEF Mta!LookupFails, RouteTrip
  <2>2. Underway'
    BY <2>1 DEF Underway
  <2> QED
    BY <1>1, <1>2, <2>1, <2>2, GoOn
<1> QED
  BY <1>3, <1>4

\* A server takes the message, whether the MTA hears of it or not.
LEMMA TakenAgrees ==
  ASSUME MtaConstants, MaxTrips \in Nat, TripInv, Contract, Mta!DataTaken \/ Mta!DataUnheard
  PROVE  Contract' /\ AgreedStep
<1>1. /\ UNCHANGED <<mailing, attempt, verdict>>
      /\ Talking
      /\ trip \in TalkTrip
      /\ trip.accepted # {}
      /\ copies' = [r \in Recipient |-> IF r \in trip.accepted THEN copies[r] + 1 ELSE copies[r]]
  BY TripShapes
     DEF Mta!DataTaken, Mta!DataUnheard, Mta!AllAsked, Mta!OneMore, Mta!At, TripInv, Talking, Talk
<1>2. Underway /\ Mta!Destinations # {}
  BY <1>1, TalkingSomewhere
<1>3. Underway'
  <2>1. CASE Mta!DataTaken
    BY <2>1 DEF Mta!DataTaken, Mta!AfterAnswer, Mta!DomainDone, Underway
  <2>2. CASE Mta!DataUnheard
    BY <1>1, <2>2, NextHost DEF Mta!DataUnheard
  <2> QED
    BY <2>1, <2>2
<1>4. Away /\ Away'
  BY <1>2, <1>3, UnderwayIsAway DEF Underway, Away, Talking, Talk
<1>5. Reached'
  <2>1. PICK r \in trip.accepted : r \in Recipient
    BY <1>1 DEF TalkTrip
  <2> QED
    BY <1>1, <2>1 DEF Reached, TripInv, TripTypes
<1>6. UNCHANGED <<Mta!Destinations, Mta!Returned>>
  BY <1>1, <1>4 DEF Mta!Destinations, Mta!Returned, Mta!At, Away
<1>7. Contract'
  BY <1>1, <1>2, <1>4, <1>5, <1>6 DEF Contract
<1>8. Mta!Returned < MaxTrips /\ verdict # "ok"
  BY <1>4 DEF Contract, Away, Mta!Returned, Mta!At, TripInv, TripTypes
<1>9. Mta!Agreement!Take
  BY <1>1, <1>2, <1>5, <1>6, <1>8 DEF Mta!Agreement!Take, Mta!Agreement!Open, Reached
<1> QED
  BY <1>7, <1>9 DEF AgreedStep, Mta!Agreement!Next

\* A call begins, returns, or never does.
LEMMA EndAgrees ==
  ASSUME MtaConstants, MaxTrips \in Nat, TripInv, Contract,
         Mta!Start \/ Mta!Return \/ Mta!Silence \/ Mta!Build
  PROVE  Contract' /\ AgreedStep
<1>0. attempt \in Nat
  BY DEF TripInv, TripTypes
<1>1. CASE Mta!Start
  <2>1. /\ UNCHANGED <<mailing, verdict, copies>>
        /\ trip.at = "rest" /\ verdict # "ok" /\ attempt < MaxTrips
        /\ attempt' = attempt + 1
        /\ trip'.at = "next" /\ trip'.left = Mta!Destinations /\ trip'.failed = FALSE
    BY <1>1 DEF Mta!Start, Mta!At
  <2>2. UNCHANGED <<Mta!Destinations, Mta!Returned, Reached>>
    BY <1>0, <2>1 DEF Mta!Destinations, Mta!Returned, Mta!At, Reached
  <2>3. Contract'
    BY <1>0, <2>1, <2>2 DEF Contract
  <2>4. UNCHANGED Mta!Agreement!vars
    BY <2>1, <2>2 DEF Mta!Agreement!vars, Reached
  <2> QED
    BY <2>3, <2>4 DEF AgreedStep
<1>2. CASE Mta!Return
  <2>1. /\ UNCHANGED <<mailing, attempt, copies>>
        /\ trip.at = "next" /\ trip.left = {} /\ trip'.at = "rest"
        /\ verdict' = IF trip.failed THEN "error" ELSE "ok"
    BY <1>2 DEF Mta!Return, Mta!At, Mta!Rest
  <2>2. Underway /\ Away /\ ~Underway' /\ ~Away' /\ trip.failed \in BOOLEAN
    BY <2>1, TripShapes DEF Underway, Away, Talking, Talk, TripInv
  <2>3. UNCHANGED <<Mta!Destinations, Reached>> /\ Mta!Returned' = Mta!Returned + 1
    BY <1>0, <2>1 DEF Mta!Destinations, Mta!Returned, Mta!At, Reached
  <2>4. Contract'
    BY <2>1, <2>2 DEF Contract
  <2>5. Mta!Returned < MaxTrips /\ verdict # "ok"
    BY <1>0, <2>2 DEF Contract, Away, Mta!Returned, Mta!At
  <2>6. /\ trip.failed => Mta!Destinations # {}
        /\ ~trip.failed /\ Mta!Destinations # {} => Reached
    BY <2>1, <2>2 DEF Contract
  <2>7. ASSUME trip.failed PROVE Mta!Agreement!Answer(FALSE)
    BY <2>1, <2>2, <2>3, <2>5, <2>6, <2>7
       DEF Mta!Agreement!Answer, Mta!Agreement!Open, Reached
  <2>8. ASSUME ~trip.failed PROVE Mta!Agreement!Answer(TRUE)
    BY <2>1, <2>2, <2>3, <2>5, <2>6, <2>8
       DEF Mta!Agreement!Answer, Mta!Agreement!Open, Reached
  <2>9. \E ok \in BOOLEAN : Mta!Agreement!Answer(ok)
    BY <2>7, <2>8
  <2> QED
    BY <2>4, <2>9 DEF AgreedStep, Mta!Agreement!Next
<1>3. CASE Mta!Silence \/ Mta!Build
  <2>1. /\ UNCHANGED <<mailing, attempt, verdict, copies>>
        /\ ~Underway' /\ (Away' <=> Away)
    BY <1>3 DEF Mta!Silence, Mta!Quiet, Mta!Build, Mta!Rest, Underway, Away, Talking, Talk
  <2>2. UNCHANGED <<Mta!Destinations, Mta!Returned, Reached>>
    BY <2>1 DEF Mta!Destinations, Mta!Returned, Mta!At, Away, Reached
  <2>3. Contract'
    BY <2>1 DEF Contract
  <2>4. UNCHANGED Mta!Agreement!vars
    BY <2>1, <2>2 DEF Mta!Agreement!vars, Reached
  <2> QED
    BY <2>3, <2>4 DEF AgreedStep
<1> QED
  BY <1>1, <1>2, <1>3

LEMMA OthersAgree ==
  ASSUME Contract, UNCHANGED <<mailing, trip, attempt, verdict, copies>>
  PROVE  Contract' /\ AgreedStep
<1>1. UNCHANGED <<Mta!Destinations, Mta!Returned, Reached, Away, Underway>>
  BY DEF Mta!Destinations, Mta!Returned, Mta!At, Reached, Away, Underway, Talking
<1>2. Contract'
  BY <1>1 DEF Contract
<1>3. UNCHANGED Mta!Agreement!vars
  BY <1>1 DEF Mta!Agreement!vars, Reached
<1> QED
  BY <1>2, <1>3 DEF AgreedStep

LEMMA NextAgrees ==
  ASSUME MtaConstants, MaxTrips \in Nat, TripInv, Contract, [Mta!Next]_Mta!vars
  PROVE  Contract' /\ AgreedStep
<1>1. CASE Mta!Deliver
  BY <1>1, RouteAgrees, TalkAgrees, RcptAgrees, TakenAgrees, EndAgrees DEF Mta!Deliver
<1>2. CASE UNCHANGED Mta!vars
  BY <1>2, OthersAgree DEF Mta!vars, Mta!trips
<1>3. CASE Mta!Administer
  BY <1>3, AdministerKeepsTrip, OthersAgree
<1> QED
  BY <1>1, <1>2, <1>3, EndAgrees DEF Mta!Next

\* SendWithResponse: over any domains, exchangers, recipients and answers, an attempt
\* that succeeds has brought the message to a server, if it had a destination, and
\* one without a destination brings it nowhere: what the queue's Send takes for
\* granted.
THEOREM DeliversAsAgreedHolds ==
  ASSUME MtaConstants, MaxTrips \in Nat PROVE Mta!Spec => Mta!DeliversAsAgreed
<1>1. Mta!Init => TripInv
  BY TripInit
<1>2. Mta!Init => Contract
  BY DEF Mta!Init, Contract, Away, Underway, Talking, Talk
<1>3. Mta!Init => Mta!Agreement!Init
  BY DEF Mta!Init, Mta!Agreement!Init, Mta!Returned, Mta!At
<1>4. TripInv /\ [Mta!Next]_Mta!vars => TripInv'
  BY TripNextStep
<1>5. TripInv /\ Contract /\ [Mta!Next]_Mta!vars => Contract' /\ AgreedStep
  BY NextAgrees
<1>6. AgreedStep => [Mta!Agreement!Next]_(Mta!Agreement!vars)
  BY DEF AgreedStep
<1> QED
  BY <1>1, <1>2, <1>3, <1>4, <1>5, <1>6, PTL
     DEF Mta!Spec, Mta!DeliversAsAgreed, Mta!Agreement!Spec

-----------------------------------------------------------------------------
KeyRow == [selector : Mta!Selector, key : Nat, under : Mta!EncKey]

KeyTypes ==
  /\ keys \in Seq(KeyRow)
  /\ dns \in [Mta!Selector -> Seq([is : {"dkim"}, p : [halfOf : Nat]])]
  /\ page \in [Admin -> KeyRow \cup {Mta!NoRow}]
  /\ rotating \in [Admin -> Nat] /\ booting \subseteq Admin
  /\ generated \in Nat /\ crossed \in BOOLEAN /\ stale \in BOOLEAN

\* A rotation has read a row that is still there, and nobody does two things at once.
Readable ==
  \A a \in Admin : rotating[a] <= Len(keys) /\ (a \in booting => rotating[a] = 0)

\* No two rows have a selector in common.
Unique == \A i, j \in 1..Len(keys) : keys[i].selector = keys[j].selector => i = j

\* Keys are numbered as they are generated.
Numbered ==
  /\ shown \subseteq 1..generated
  /\ \A i \in 1..Len(keys) : keys[i].key \in 1..generated

\* The key that signs has been published, or an administrator is about to, unless no page
\* has ever shown it.
InDns ==
  keys # <<>> /\ Mta!Active.key \in shown =>
    \/ dns[Mta!Active.selector] = <<Mta!DERToDNSValue(Mta!Active.key)>>
    \/ \E a \in Admin : page[a] = Mta!Active

\* As long as administrators take turns, their pages show rows as they are, and
\* they rotate the newest.
InTurns ==
  \A a \in Admin :
    /\ page[a] # Mta!NoRow => \E i \in 1..Len(keys) : page[a] = keys[i]
    /\ rotating[a] \in {0, Len(keys)}

\* The message is signed with the key that signs.
SignedByActive == sig # Mta!NoRow /\ ~stale => keys # <<>> /\ sig = Mta!Active

KeyInv ==
  KeyTypes /\ Readable /\ Unique /\ Numbered /\ (~crossed => InDns /\ InTurns) /\ SignedByActive

LEMMA ActiveRow ==
  ASSUME KeyTypes, keys # <<>>
  PROVE  /\ Mta!Active = keys[Len(keys)] /\ Len(keys) \in Nat \ {0}
         /\ Mta!Active \in KeyRow /\ Mta!Active # Mta!NoRow
         /\ Mta!Active.selector \in Mta!Selector /\ Mta!Active.key \in Nat
<1>1. Mta!Active = keys[Len(keys)] /\ Len(keys) \in Nat \ {0} /\ keys[Len(keys)] \in KeyRow
  BY DEF Mta!Active, Mta!Last, KeyTypes
<1>2. \A x \in KeyRow : x # Mta!NoRow /\ x.selector \in Mta!Selector /\ x.key \in Nat
  BY DEF KeyRow, Mta!NoRow
<1> QED
  BY <1>1, <1>2

LEMMA KeyInit == Mta!Init => KeyInv
<1> SUFFICES ASSUME Mta!Init PROVE KeyInv
  OBVIOUS
<1>1. KeyTypes
  <2>1. keys \in Seq(KeyRow)
    BY DEF Mta!Init
  <2>2. dns \in [Mta!Selector -> Seq([is : {"dkim"}, p : [halfOf : Nat]])]
    <3>1. <<>> \in Seq([is : {"dkim"}, p : [halfOf : Nat]])
      OBVIOUS
    <3> QED
      BY <3>1 DEF Mta!Init
  <2>3. page \in [Admin -> KeyRow \cup {Mta!NoRow}]
    BY DEF Mta!Init
  <2> QED
    BY <2>1, <2>2, <2>3 DEF Mta!Init, KeyTypes
<1>2. Readable
  BY DEF Mta!Init, Readable
<1>3. InDns /\ InTurns /\ SignedByActive
  BY DEF Mta!Init, InDns, InTurns, SignedByActive
<1>4. Unique /\ Numbered
  <2>1. keys = <<>> /\ shown = {} /\ 1..Len(keys) = {}
    BY DEF Mta!Init
  <2> QED
    BY <2>1 DEF Unique, Numbered
<1> QED
  BY <1>1, <1>2, <1>3, <1>4 DEF KeyInv

\* A row that comes or is replaced has a number of its own, and leaves no two with one selector.
LEMMA RowsStayUnique ==
  ASSUME KeyTypes, Unique, Numbered, generated' = generated + 1, NEW x \in KeyRow,
         x.key = generated + 1, shown' \in {shown, shown \cup {x.key}},
         \/ keys' = Append(keys, x) /\ \A i \in 1..Len(keys) : keys[i].selector # x.selector
         \/ \E i \in 1..Len(keys) :
              keys' = [keys EXCEPT ![i] = x] /\ x.selector = keys[i].selector
  PROVE  Unique' /\ Numbered'
<1>1. generated \in Nat /\ generated + 1 \in 1..generated' /\ 1..generated \subseteq 1..generated'
  BY DEF KeyTypes
<1>2. CASE keys' = Append(keys, x) /\ \A i \in 1..Len(keys) : keys[i].selector # x.selector
  <2>1. keys \in Seq(KeyRow) /\ Len(keys) \in Nat
    BY DEF KeyTypes
  <2>2. /\ Len(keys') = Len(keys) + 1 /\ keys'[Len(keys) + 1] = x
        /\ \A i \in 1..Len(keys) : keys'[i] = keys[i]
    BY <1>2, <2>1
  <2>3. \A i \in 1..Len(keys') : i = Len(keys) + 1 \/ i \in 1..Len(keys)
    BY <2>1, <2>2
  <2>4. ASSUME NEW i \in 1..Len(keys'), NEW j \in 1..Len(keys'),
               keys'[i].selector = keys'[j].selector
        PROVE  i = j
    <3>1. CASE i = Len(keys) + 1
      BY <1>2, <2>2, <2>3, <2>4, <3>1
    <3>2. CASE j = Len(keys) + 1
      BY <1>2, <2>2, <2>3, <2>4, <3>2
    <3>3. CASE i \in 1..Len(keys) /\ j \in 1..Len(keys)
      BY <2>2, <2>4, <3>3 DEF Unique
    <3> QED
      BY <2>3, <3>1, <3>2, <3>3
  <2>5. Unique'
    BY <2>4 DEF Unique
  <2>6. \A i \in 1..Len(keys') : keys'[i].key \in 1..generated'
    BY <1>1, <2>2, <2>3 DEF Numbered
  <2> QED
    BY <1>1, <2>5, <2>6 DEF Numbered
<1>3. ASSUME NEW n \in 1..Len(keys), keys' = [keys EXCEPT ![n] = x], x.selector = keys[n].selector
      PROVE  Unique' /\ Numbered'
  <2>1. /\ keys \in Seq(KeyRow) /\ Len(keys') = Len(keys)
        /\ DOMAIN keys = 1..Len(keys) /\ 1..Len(keys') = 1..Len(keys)
    BY <1>3 DEF KeyTypes
  <2>2. \A i \in 1..Len(keys') : keys'[i] = IF i = n THEN x ELSE keys[i]
    BY <1>3, <2>1
  <2>3. \A i \in 1..Len(keys') : keys'[i].selector = keys[i].selector
    BY <1>3, <2>1, <2>2
  <2>4. Unique'
    BY <2>1, <2>3 DEF Unique
  <2>5. \A i \in 1..Len(keys') : keys'[i].key \in 1..generated'
    BY <1>1, <2>1, <2>2 DEF Numbered
  <2> QED
    BY <1>1, <2>4, <2>5 DEF Numbered
<1> QED
  BY <1>2, <1>3

\* Who changes the keys in turn has a page that shows the new one, and nobody else has one.
LEMMA ChangeStep ==
  ASSUME KeyInv, NEW a \in Admin, NEW x \in KeyRow, keys' \in Seq(KeyRow), keys' # <<>>,
         page' = [page EXCEPT ![a] = x], UNCHANGED <<dns, sig, booting>>,
         rotating' \in [Admin -> Nat], generated' \in Nat,
         Mta!Changed(a), rotating'[a] = 0,
         \A b \in Admin \ {a} : rotating'[b] = rotating[b],
         Len(keys') >= Len(keys), Unique', Numbered',
         ~crossed => Mta!Active' = x
  PROVE  KeyInv'
<1>1. /\ stale' /\ (crossed' <=> crossed \/ Mta!Busy(a)) /\ crossed' \in BOOLEAN
  BY DEF Mta!Changed, KeyInv, KeyTypes
<1>2. KeyTypes'
  BY <1>1 DEF KeyInv, KeyTypes
<1>5. Len(keys) \in Nat /\ Len(keys') \in Nat
  BY DEF KeyInv, KeyTypes
<1>7. Readable'
  <2>2. ASSUME NEW b \in Admin
        PROVE  rotating'[b] <= Len(keys') /\ (b \in booting' => rotating'[b] = 0)
    <3>1. rotating'[b] = 0 \/ (rotating'[b] = rotating[b] /\ rotating[b] \in Nat)
      BY DEF KeyInv, KeyTypes
    <3>2. rotating[b] <= Len(keys) /\ (b \in booting => rotating[b] = 0)
      BY DEF KeyInv, Readable
    <3> QED
      BY <1>5, <3>1, <3>2
  <2> QED
    BY <2>2 DEF Readable
<1>3. SignedByActive'
  BY <1>1 DEF SignedByActive
<1>4. ASSUME ~crossed' PROVE InDns' /\ InTurns'
  <2>1. ~crossed /\ \A b \in Admin \ {a} : page[b] = Mta!NoRow /\ rotating[b] = 0
    BY <1>1, <1>4 DEF Mta!Busy
  <2>2. page'[a] = x /\ \A b \in Admin \ {a} : page'[b] = Mta!NoRow
    BY <2>1 DEF KeyInv, KeyTypes
  <2>3. x = keys'[Len(keys')] /\ Len(keys') \in 1..Len(keys')
    <3>1. Mta!Active' = x
      BY <2>1
    <3>2. Mta!Active' = keys'[Len(keys')]
      BY DEF Mta!Active, Mta!Last
    <3> QED
      BY <1>5, <3>1, <3>2
  <2>4. InTurns'
    BY <2>1, <2>2, <2>3 DEF InTurns, Mta!NoRow
  <2>5. InDns'
    BY <2>1, <2>2 DEF InDns
  <2> QED
    BY <2>4, <2>5
<1> QED
  BY <1>2, <1>7, <1>3, <1>4 DEF KeyInv

LEMMA EncryptedRow ==
  ASSUME NEW s \in Mta!Selector, NEW k \in Nat, NEW tool
  PROVE  /\ Mta!Encrypted(s, k, tool) \in KeyRow /\ Mta!Encrypted(s, k, tool).selector = s
         /\ Mta!Encrypted(s, k, tool).key = k
BY DEF Mta!Encrypted, Mta!RowOf, Mta!EncKeyOf, KeyRow, Mta!EncKey

LEMMA InsertStep ==
  ASSUME KeyInv, MaxKeys \in Nat, NEW a \in Admin, NEW s \in Mta!Selector, Mta!Insert(a, s)
  PROVE  KeyInv'
<1>1. PICK x \in KeyRow : x = Mta!Encrypted(s, generated + 1, Tool[a]) /\ x.key = generated + 1
  BY EncryptedRow DEF KeyInv, KeyTypes
<1>2. /\ keys' = Append(keys, x) /\ page' = [page EXCEPT ![a] = x]
      /\ UNCHANGED <<dns, sig, rotating, booting>>
      /\ Mta!Changed(a) /\ rotating[a] = 0 /\ generated' = generated + 1
      /\ shown' = shown \cup {x.key} /\ \A i \in DOMAIN keys : keys[i].selector # x.selector
  BY <1>1 DEF Mta!Insert, Mta!InsertRow, Mta!Generate, Mta!Idle
<1>3. /\ keys' \in Seq(KeyRow) /\ keys' # <<>> /\ Len(keys') = Len(keys) + 1
      /\ keys'[Len(keys')] = x
  <2>1. keys \in Seq(KeyRow) /\ keys' = Append(keys, x)
    BY <1>2 DEF KeyInv, KeyTypes
  <2> QED
    BY <2>1
<1>4. Mta!Active' = x
  BY <1>3 DEF Mta!Active, Mta!Last
<1>5. Len(keys') >= Len(keys)
  BY <1>3 DEF KeyInv, KeyTypes
<1>6. rotating' \in [Admin -> Nat] /\ generated' \in Nat /\ rotating'[a] = 0
  BY <1>2 DEF KeyInv, KeyTypes
<1>7. Unique' /\ Numbered'
  <2>1. DOMAIN keys = 1..Len(keys)
    BY DEF KeyInv, KeyTypes
  <2> QED
    BY <1>1, <1>2, <2>1, RowsStayUnique DEF KeyInv
<1> QED
  BY <1>2, <1>3, <1>4, <1>5, <1>6, <1>7, ChangeStep

\* What the bootstrap inserts has been shown to nobody.
LEMMA BootstrapStep ==
  ASSUME KeyInv, NEW a \in Admin, Mta!BootstrapInsert(a)
  PROVE  KeyInv'
<1>1. PICK s \in Mta!Selector, under \in {Mta!EncKeyOf("command"), "none"} :
        Mta!InsertRow(a, Mta!RowOf(s, generated + 1, under))
  BY DEF Mta!BootstrapInsert
<1>2. PICK x \in KeyRow : x = Mta!RowOf(s, generated + 1, under) /\ x.key = generated + 1
  <2>1. under \in Mta!EncKey /\ generated + 1 \in Nat
    BY DEF KeyInv, KeyTypes, Mta!EncKeyOf, Mta!EncKey
  <2>2. [selector |-> s, key |-> generated + 1, under |-> under] \in KeyRow
    BY <2>1 DEF KeyRow
  <2> QED
    BY <2>2 DEF Mta!RowOf
<1>3. /\ keys' = Append(keys, x) /\ Mta!Changed(a) /\ generated' = generated + 1
      /\ \A i \in DOMAIN keys : keys[i].selector # x.selector
      /\ UNCHANGED <<dns, page, rotating, shown, sig>> /\ booting' = booting \ {a}
  BY <1>1, <1>2 DEF Mta!InsertRow, Mta!Generate, Mta!BootstrapInsert
<1>4. keys \in Seq(KeyRow) /\ Len(keys) \in Nat /\ DOMAIN keys = 1..Len(keys) /\ generated \in Nat
  BY DEF KeyInv, KeyTypes
<1>5. /\ keys' \in Seq(KeyRow) /\ keys' # <<>> /\ Len(keys') = Len(keys) + 1
      /\ keys'[Len(keys')] = x /\ \A i \in 1..Len(keys) : keys'[i] = keys[i]
  BY <1>3, <1>4
<1>6. Mta!Active' = x
  BY <1>5 DEF Mta!Active, Mta!Last
<1>7. stale' /\ (crossed' <=> crossed \/ Mta!Busy(a)) /\ crossed' \in BOOLEAN
  BY <1>3 DEF Mta!Changed, KeyInv, KeyTypes
<1>8. KeyTypes'
  BY <1>3, <1>4, <1>5, <1>7 DEF KeyInv, KeyTypes
<1>9. Readable'
  <2>1. \A b \in Admin : /\ rotating[b] \in Nat /\ rotating[b] <= Len(keys)
                         /\ b \in booting => rotating[b] = 0
    BY DEF KeyInv, KeyTypes, Readable
  <2> QED
    BY <1>3, <1>4, <1>5, <2>1 DEF Readable
<1>10. Unique' /\ Numbered'
  BY <1>2, <1>3, <1>4, RowsStayUnique DEF KeyInv
<1>11. SignedByActive'
  BY <1>7 DEF SignedByActive
<1>12. x.key \notin shown'
  <2>1. shown \subseteq 1..generated /\ generated + 1 \notin 1..generated
    BY <1>4 DEF KeyInv, Numbered
  <2> QED
    BY <1>2, <1>3, <2>1
<1>13. InDns'
  BY <1>6, <1>12 DEF InDns
<1>14. ASSUME ~crossed' PROVE InTurns'
  <2>1. ~crossed /\ \A b \in Admin \ {a} : page[b] = Mta!NoRow /\ rotating[b] = 0
    BY <1>7, <1>14 DEF Mta!Busy
  <2>2. rotating[a] = 0
    BY DEF Mta!BootstrapInsert, KeyInv, Readable
  <2>3. \A b \in Admin : page[b] # Mta!NoRow => \E i \in 1..Len(keys) : page[b] = keys[i]
    BY <2>1 DEF KeyInv, InTurns
  <2>4. \A b \in Admin : page'[b] # Mta!NoRow => \E i \in 1..Len(keys') : page'[b] = keys'[i]
    BY <1>3, <1>4, <1>5, <2>3 DEF Mta!NoRow
  <2> QED
    BY <1>3, <2>1, <2>2, <2>4 DEF InTurns, Mta!NoRow
<1> QED
  BY <1>8, <1>9, <1>10, <1>11, <1>13, <1>14 DEF KeyInv

LEMMA RotateWriteStep ==
  ASSUME KeyInv, NEW a \in Admin, Mta!RotateWrite(a)
  PROVE  KeyInv'
<1>0. rotating[a] \in 1..Len(keys) /\ keys[rotating[a]] \in KeyRow
  <2>1. rotating[a] # 0 /\ rotating[a] \in Nat /\ rotating[a] <= Len(keys)
    BY DEF Mta!RotateWrite, KeyInv, KeyTypes, Readable
  <2> QED
    BY <2>1 DEF KeyInv, KeyTypes
<1>1. keys[rotating[a]].selector \in Mta!Selector
  BY <1>0 DEF KeyRow
<1>2. PICK x \in KeyRow : /\ x = Mta!Rotated(a) /\ x.key = generated + 1
                          /\ x.selector = keys[rotating[a]].selector
  <2>1. generated + 1 \in Nat
    BY DEF KeyInv, KeyTypes
  <2>2. /\ Mta!Rotated(a) \in KeyRow /\ Mta!Rotated(a).key = generated + 1
        /\ Mta!Rotated(a).selector = keys[rotating[a]].selector
    BY <1>1, <2>1, EncryptedRow DEF Mta!Rotated
  <2> QED
    BY <2>2
<1>3. /\ keys' = [keys EXCEPT ![rotating[a]] = x] /\ page' = [page EXCEPT ![a] = x]
      /\ UNCHANGED <<dns, sig, booting>> /\ rotating' = [rotating EXCEPT ![a] = 0]
      /\ Mta!Changed(a) /\ generated' = generated + 1 /\ shown' = shown \cup {x.key}
  BY <1>2 DEF Mta!RotateWrite, Mta!Published, Mta!Generate, Mta!trips
<1>4. keys' \in Seq(KeyRow) /\ Len(keys') = Len(keys) /\ keys' # <<>>
  BY <1>0, <1>3 DEF KeyInv, KeyTypes
<1>5. ASSUME ~crossed PROVE Mta!Active' = x
  <2>1. rotating[a] = Len(keys)
    BY <1>0, <1>5 DEF KeyInv, InTurns
  <2> QED
    BY <1>0, <1>3, <1>4, <2>1 DEF Mta!Active, Mta!Last, KeyInv, KeyTypes
<1>6. Len(keys') >= Len(keys)
  BY <1>4 DEF KeyInv, KeyTypes
<1>7. /\ rotating' \in [Admin -> Nat] /\ generated' \in Nat /\ rotating'[a] = 0
      /\ \A b \in Admin \ {a} : rotating'[b] = rotating[b]
  BY <1>3 DEF KeyInv, KeyTypes
<1>8. Unique' /\ Numbered'
  BY <1>0, <1>2, <1>3, RowsStayUnique DEF KeyInv
<1> QED
  BY <1>3, <1>4, <1>5, <1>6, <1>7, <1>8, ChangeStep

LEMMA ShowStep ==
  ASSUME KeyInv, NEW a \in Admin, Mta!Show(a)
  PROVE  KeyInv'
<1>1. /\ page' = [page EXCEPT ![a] = Mta!Active] /\ keys # <<>>
      /\ shown' = shown \cup {Mta!Active.key}
      /\ UNCHANGED <<keys, dns, rotating, booting, generated, sig, stale, crossed>>
  BY DEF Mta!Show
<1>2. Mta!Active' = Mta!Active
  BY <1>1 DEF Mta!Active, Mta!Last
<1>3. KeyTypes' /\ page'[a] = Mta!Active
  BY <1>1, ActiveRow DEF KeyInv, KeyTypes
<1>4. SignedByActive'
  BY <1>1, <1>2 DEF KeyInv, SignedByActive
<1>6. Mta!Active = keys[Len(keys)] /\ Len(keys) \in 1..Len(keys)
  BY <1>1, ActiveRow DEF KeyInv
<1>7. Readable' /\ Unique' /\ Numbered'
  BY <1>1, <1>6 DEF KeyInv, Readable, Unique, Numbered
<1>8. InDns'
  BY <1>2, <1>3 DEF InDns
<1>9. ASSUME InTurns PROVE InTurns'
  <2>1. \A b \in Admin : page'[b] = Mta!Active \/ page'[b] = page[b]
    BY <1>1 DEF KeyInv, KeyTypes
  <2> QED
    BY <1>1, <1>6, <1>9, <2>1 DEF InTurns, Mta!NoRow
<1> QED
  BY <1>1, <1>3, <1>4, <1>7, <1>8, <1>9 DEF KeyInv

LEMMA PublishStep ==
  ASSUME KeyInv, NEW a \in Admin, Mta!Publish(a)
  PROVE  KeyInv'
<1>1. /\ dns' = [dns EXCEPT ![page[a].selector] = <<Mta!DERToDNSValue(page[a].key)>>]
      /\ page[a] # Mta!NoRow /\ page' = [page EXCEPT ![a] = Mta!NoRow]
      /\ UNCHANGED <<keys, rotating, booting, generated, sig, stale, shown, crossed>>
  BY DEF Mta!Publish
<1>2. Mta!Active' = Mta!Active
  BY <1>1 DEF Mta!Active, Mta!Last
<1>3. page[a] \in KeyRow /\ page[a].selector \in Mta!Selector /\ page[a].key \in Nat
  BY <1>1 DEF KeyInv, KeyTypes, KeyRow
<1>4. Mta!DERToDNSValue(page[a].key) \in [is : {"dkim"}, p : [halfOf : Nat]]
  BY <1>3 DEF Mta!DERToDNSValue, Mta!Dkim
<1>5. KeyTypes'
  BY <1>1, <1>3, <1>4 DEF KeyInv, KeyTypes
<1>6. SignedByActive'
  BY <1>1, <1>2 DEF KeyInv, SignedByActive
<1>8. Readable' /\ Unique' /\ Numbered'
  BY <1>1 DEF KeyInv, Readable, Unique, Numbered
<1>9. \A b \in Admin \ {a} : page'[b] = page[b]
  BY <1>1 DEF KeyInv, KeyTypes
<1>10. page'[a] = Mta!NoRow
  BY <1>1 DEF KeyInv, KeyTypes
<1>7. ASSUME ~crossed PROVE InDns' /\ InTurns'
  <2>1. PICK i \in 1..Len(keys) : page[a] = keys[i]
    BY <1>1, <1>7 DEF KeyInv, InTurns
  <2>2. ASSUME keys # <<>>, Mta!Active.key \in shown
        PROVE  \/ dns'[Mta!Active.selector] = <<Mta!DERToDNSValue(Mta!Active.key)>>
               \/ \E b \in Admin : page'[b] = Mta!Active
    <3>1. /\ Mta!Active = keys[Len(keys)] /\ Len(keys) \in 1..Len(keys)
          /\ Mta!Active # Mta!NoRow /\ Mta!Active.selector \in Mta!Selector
      BY <2>2, ActiveRow DEF KeyInv
    <3>2. CASE page[a] = Mta!Active
      BY <1>1, <1>3, <3>2 DEF KeyInv, KeyTypes
    <3>3. CASE page[a] # Mta!Active
      <4>1. page[a].selector # Mta!Active.selector
        BY <2>1, <3>1, <3>3 DEF KeyInv, Unique
      <4>2. dns'[Mta!Active.selector] = dns[Mta!Active.selector]
        BY <1>1, <3>1, <4>1 DEF KeyInv, KeyTypes
      <4>3. \/ dns[Mta!Active.selector] = <<Mta!DERToDNSValue(Mta!Active.key)>>
            \/ \E b \in Admin : page[b] = Mta!Active
        BY <1>7, <2>2 DEF KeyInv, InDns
      <4> QED
        BY <1>9, <3>3, <4>2, <4>3
    <3> QED
      BY <3>2, <3>3
  <2>3. InDns'
    <3>1. InDns' <=>
            (keys # <<>> /\ Mta!Active.key \in shown =>
              \/ dns'[Mta!Active.selector] = <<Mta!DERToDNSValue(Mta!Active.key)>>
              \/ \E b \in Admin : page'[b] = Mta!Active)
      BY <1>1, <1>2 DEF InDns, Mta!DERToDNSValue, Mta!Dkim
    <3> QED
      BY <2>2, <3>1
  <2>4. InTurns'
    BY <1>1, <1>7, <1>9, <1>10 DEF KeyInv, InTurns, Mta!NoRow
  <2> QED
    BY <2>3, <2>4
<1> QED
  BY <1>1, <1>5, <1>6, <1>7, <1>8 DEF KeyInv

\* Steps that only begin or end something.
LEMMA AsideStep ==
  ASSUME KeyInv, UNCHANGED <<keys, dns, page, generated, sig, stale, shown, crossed>>,
         rotating' \in [Admin -> Nat], booting' \subseteq Admin, Readable',
         \A b \in Admin : rotating'[b] \in {0, Len(keys), rotating[b]}
  PROVE  KeyInv'
<1>1. Mta!Active' = Mta!Active
  BY DEF Mta!Active, Mta!Last
<1>2. KeyTypes' /\ Unique' /\ Numbered'
  BY DEF KeyInv, KeyTypes, Unique, Numbered
<1>3. InDns' <=> InDns
  BY <1>1 DEF InDns, Mta!DERToDNSValue, Mta!Dkim
<1>4. InTurns => InTurns'
  BY DEF InTurns, Mta!NoRow
<1>5. SignedByActive'
  BY <1>1 DEF KeyInv, SignedByActive
<1> QED
  BY <1>2, <1>3, <1>4, <1>5 DEF KeyInv

LEMMA RotatingStep ==
  ASSUME KeyInv, NEW a \in Admin, Mta!RotateRead(a) \/ Mta!RotateFails(a)
  PROVE  KeyInv'
<1>1. /\ UNCHANGED <<keys, dns, page, booting, generated, sig, stale, shown, crossed>>
      /\ \/ a \notin booting /\ rotating' = [rotating EXCEPT ![a] = Len(keys)]
         \/ rotating' = [rotating EXCEPT ![a] = 0]
  BY DEF Mta!RotateRead, Mta!RotateFails, Mta!Idle
<1>2. Len(keys) \in Nat /\ rotating \in [Admin -> Nat] /\ booting \subseteq Admin
  BY DEF KeyInv, KeyTypes
<1>3. rotating' \in [Admin -> Nat]
  BY <1>1, <1>2
<1>4. \A b \in Admin : /\ rotating'[b] \in {0, Len(keys), rotating[b]}
                       /\ b # a => rotating'[b] = rotating[b]
                       /\ b = a /\ b \in booting => rotating'[b] = 0
  BY <1>1, <1>2
<1>5. \A b \in Admin : rotating[b] <= Len(keys) /\ (b \in booting => rotating[b] = 0)
  BY DEF KeyInv, Readable
<1>6. Readable'
  <2>1. ASSUME NEW b \in Admin
        PROVE  rotating'[b] <= Len(keys) /\ (b \in booting => rotating'[b] = 0)
    BY <1>2, <1>4, <1>5
  <2> QED
    BY <1>1, <2>1 DEF Readable
<1> QED
  BY <1>1, <1>2, <1>3, <1>4, <1>6, AsideStep

LEMMA BootingStep ==
  ASSUME KeyInv, NEW a \in Admin, Mta!BootstrapRead(a) \/ Mta!BootstrapFails(a)
  PROVE  KeyInv'
<1>1. /\ UNCHANGED <<keys, dns, page, rotating, generated, sig, stale, shown, crossed>>
      /\ \/ rotating[a] = 0 /\ booting' = booting \cup {a}
         \/ booting' = booting \ {a}
  BY DEF Mta!BootstrapRead, Mta!BootstrapFails, Mta!Idle
<1>2. rotating \in [Admin -> Nat] /\ booting' \subseteq Admin
  BY <1>1 DEF KeyInv, KeyTypes
<1>3. Readable'
  BY <1>1 DEF KeyInv, Readable
<1> QED
  BY <1>1, <1>2, <1>3, AsideStep

LEMMA BuildSigns ==
  ASSUME KeyInv, Mta!Build
  PROVE  KeyInv'
<1>1. UNCHANGED <<keys, dns, page, rotating, booting, generated, shown, crossed>> /\ stale' = FALSE
  BY DEF Mta!Build
<1>2. sig' # Mta!NoRow => keys # <<>> /\ sig' = Mta!Active
  BY DEF Mta!Build, Mta!Sign, Mta!LoadKey
<1>3. Mta!Active' = Mta!Active
  BY <1>1 DEF Mta!Active, Mta!Last
<1>4. KeyTypes' /\ Readable' /\ Unique' /\ Numbered'
  BY <1>1 DEF KeyInv, KeyTypes, Readable, Unique, Numbered
<1>5. (InDns' <=> InDns) /\ (InTurns' <=> InTurns)
  BY <1>1, <1>3 DEF InDns, InTurns, Mta!DERToDNSValue, Mta!Dkim
<1>6. SignedByActive'
  BY <1>1, <1>2, <1>3 DEF SignedByActive
<1> QED
  BY <1>1, <1>4, <1>5, <1>6 DEF KeyInv

LEMMA OthersKeepKeys ==
  ASSUME KeyInv,
         UNCHANGED <<keys, dns, page, rotating, booting, generated, sig, stale, shown, crossed>>
  PROVE  KeyInv'
<1>1. Mta!Active' = Mta!Active
  BY DEF Mta!Active, Mta!Last
<1>2. KeyTypes' /\ Readable' /\ Unique' /\ Numbered'
  BY DEF KeyInv, KeyTypes, Readable, Unique, Numbered
<1>3. (InDns' <=> InDns) /\ (InTurns' <=> InTurns)
  BY <1>1 DEF InDns, InTurns, Mta!DERToDNSValue, Mta!Dkim
<1>4. SignedByActive'
  BY <1>1 DEF KeyInv, SignedByActive
<1> QED
  BY <1>2, <1>3, <1>4 DEF KeyInv

LEMMA DeliverKeepsKeys ==
  ASSUME Mta!Start \/ Mta!Deliver \/ Mta!Silence
  PROVE  UNCHANGED <<keys, dns, page, rotating, booting, generated, sig, stale, shown, crossed>>
BY DEF Mta!Start, Mta!Deliver, Mta!Silence, Mta!PickDomain, Mta!LookupFails, Mta!Dial,
   Mta!Secure, Mta!Mail,
       Mta!Rcpt, Mta!DataTaken, Mta!DataUnheard, Mta!DataFails, Mta!Return, Mta!Quiet, Mta!keyState

LEMMA KeyNext ==
  ASSUME KeyInv, MaxKeys \in Nat, [Mta!Next]_Mta!vars
  PROVE  KeyInv'
<1>1. CASE Mta!Administer
  <2>1. PICK a \in Admin :
          \/ Mta!CreateDomain(a) \/ Mta!AddKey(a)
          \/ Mta!BootstrapRead(a) \/ Mta!BootstrapInsert(a) \/ Mta!BootstrapFails(a)
          \/ Mta!RotateRead(a) \/ Mta!RotateWrite(a) \/ Mta!RotateFails(a)
          \/ Mta!ShowDns(a) \/ Mta!ShowDnsCmd(a) \/ Mta!Publish(a)
    BY <1>1 DEF Mta!Administer
  <2>2. CASE Mta!CreateDomain(a) \/ Mta!AddKey(a)
    <3>1. "mailaroo" \in Mta!Selector
      BY DEF Mta!Selector
    <3> QED
      BY <2>2, <3>1, InsertStep DEF Mta!CreateDomain, Mta!AddKey
  <2>3. CASE Mta!BootstrapRead(a) \/ Mta!BootstrapInsert(a) \/ Mta!BootstrapFails(a)
    BY <2>3, BootstrapStep, BootingStep
  <2> QED
    BY <2>1, <2>2, <2>3, RotatingStep, RotateWriteStep, ShowStep, PublishStep DEF Mta!ShowDns,
       Mta!ShowDnsCmd
<1>2. CASE UNCHANGED Mta!vars
  BY <1>2, OthersKeepKeys DEF Mta!vars, Mta!keyState
<1> QED
  BY <1>1, <1>2, BuildSigns, DeliverKeepsKeys, OthersKeepKeys DEF Mta!Next

LEMMA PublishedVerifies ==
  ASSUME NEW k
  PROVE  Mta!DKIMPasses(<<Mta!DERToDNSValue(k)>>, Mta!DERToDNSValue(k))
BY DEF Mta!DKIMPasses, Mta!DERToDNSValue, Mta!Dkim, Mta!Last

LEMMA KeysAgree == ASSUME KeyInv PROVE Mta!SignaturesVerify
<1> SUFFICES ASSUME sig # Mta!NoRow, sig.key \in shown, ~stale, ~crossed,
                    \A a \in Admin : page[a] = Mta!NoRow /\ rotating[a] = 0
             PROVE  Mta!DKIMPasses(dns[sig.selector], Mta!DERToDNSValue(sig.key))
  BY DEF Mta!SignaturesVerify
<1>1. keys # <<>> /\ sig = Mta!Active /\ Mta!Active # Mta!NoRow
  BY ActiveRow DEF KeyInv, SignedByActive
<1>2. dns[sig.selector] = <<Mta!DERToDNSValue(sig.key)>>
  BY <1>1 DEF KeyInv, InDns
<1> QED
  BY <1>2, PublishedVerifies

\* The keys of handleAdminDomainCreate, dkimAddCmd, bootstrapFromConfig and the rotations,
\* in any order: what BuildMessage signs verifies with what the pages had published, as
\* long as no administrator changes a key before another has finished, and once a page
\* has shown the key, which bootstrapFromConfig does not do.
THEOREM SignaturesAgree ==
  ASSUME MaxKeys \in Nat PROVE Mta!Spec => []Mta!SignaturesVerify
<1>1. KeyInv /\ [Mta!Next]_Mta!vars => KeyInv'
  BY KeyNext
<1>2. KeyInv => Mta!SignaturesVerify
  BY KeysAgree
<1> QED
  BY <1>1, <1>2, KeyInit, PTL DEF Mta!Spec

-----------------------------------------------------------------------------
\* Rows, pages, signatures and records hold keys that have been generated.
KeyRows ==
  /\ generated \in 0..MaxKeys
  /\ \A i \in 1..Len(keys) : keys[i] \in Mta!Row
  /\ page \in [Admin -> Mta!Row \cup {Mta!NoRow}]
  /\ sig \in Mta!Row \cup {Mta!NoRow}
  /\ dns \in [Mta!Selector -> {<<>>} \cup {<<Mta!DERToDNSValue(k)>> : k \in 1..MaxKeys}]

LEMMA EncryptedKey ==
  ASSUME KeyRows, MaxKeys \in Nat, Mta!Generate, NEW s \in Mta!Selector, NEW tool
  PROVE  /\ Mta!Encrypted(s, generated + 1, tool) \in Mta!Row
         /\ generated' \in 0..MaxKeys
<1>1. generated + 1 \in 1..MaxKeys /\ generated' = generated + 1
  BY DEF KeyRows, Mta!Generate
<1> QED
  BY <1>1 DEF Mta!Encrypted, Mta!RowOf, Mta!EncKeyOf, Mta!Row, Mta!EncKey

LEMMA RowsInserted ==
  ASSUME KeyInv, KeyRows, MaxKeys \in Nat, NEW a \in Admin, NEW x, Mta!InsertRow(a, x),
         x \in Mta!Row, page' \in [Admin -> Mta!Row \cup {Mta!NoRow}], UNCHANGED <<dns, sig>>
  PROVE  KeyRows'
<1>1. keys' = Append(keys, x) /\ generated' \in 0..MaxKeys
  BY DEF Mta!InsertRow, Mta!Generate, KeyRows
<1>2. \A i \in 1..Len(keys') : keys'[i] \in Mta!Row
  <2>1. keys \in Seq(KeyRow)
    BY DEF KeyInv, KeyTypes
  <2>2. \A i \in 1..Len(keys') : keys'[i] = x \/ (i \in 1..Len(keys) /\ keys'[i] = keys[i])
    BY <1>1, <2>1
  <2> QED
    BY <2>2 DEF KeyRows
<1> QED
  BY <1>1, <1>2 DEF KeyRows, Mta!DERToDNSValue, Mta!Dkim

LEMMA RowsAdded ==
  ASSUME KeyInv, KeyRows, MaxKeys \in Nat, NEW a \in Admin, NEW s \in Mta!Selector,
         Mta!Insert(a, s)
  PROVE  KeyRows'
<1>1. PICK x : x = Mta!Encrypted(s, generated + 1, Tool[a])
  OBVIOUS
<1>2. Mta!InsertRow(a, x) /\ page' = [page EXCEPT ![a] = x] /\ UNCHANGED <<dns, sig>>
  BY <1>1 DEF Mta!Insert
<1>3. x \in Mta!Row
  BY <1>1, <1>2, EncryptedKey DEF Mta!InsertRow
<1>4. page' \in [Admin -> Mta!Row \cup {Mta!NoRow}]
  BY <1>2, <1>3 DEF KeyRows
<1> QED
  BY <1>2, <1>3, <1>4, RowsInserted

LEMMA RowsBooted ==
  ASSUME KeyInv, KeyRows, MaxKeys \in Nat, NEW a \in Admin, Mta!BootstrapInsert(a)
  PROVE  KeyRows'
<1>1. PICK s \in Mta!Selector, under \in {Mta!EncKeyOf("command"), "none"} :
        Mta!InsertRow(a, Mta!RowOf(s, generated + 1, under))
  BY DEF Mta!BootstrapInsert
<1>2. PICK x : x = Mta!RowOf(s, generated + 1, under)
  OBVIOUS
<1>3. generated + 1 \in 1..MaxKeys
  BY <1>1 DEF Mta!InsertRow, Mta!Generate, KeyRows
<1>4. x \in Mta!Row
  BY <1>2, <1>3 DEF Mta!RowOf, Mta!Row, Mta!EncKeyOf, Mta!EncKey
<1>5. UNCHANGED <<dns, sig, page>>
  BY DEF Mta!BootstrapInsert
<1>6. page' \in [Admin -> Mta!Row \cup {Mta!NoRow}] /\ Mta!InsertRow(a, x)
  BY <1>1, <1>2, <1>5 DEF KeyRows
<1> QED
  BY <1>4, <1>5, <1>6, RowsInserted

LEMMA RowsRotated ==
  ASSUME KeyInv, KeyRows, MaxKeys \in Nat, NEW a \in Admin, Mta!RotateWrite(a)
  PROVE  KeyRows'
<1>0. rotating[a] \in 1..Len(keys)
  <2>1. rotating[a] # 0 /\ rotating[a] \in Nat /\ rotating[a] <= Len(keys)
    BY DEF Mta!RotateWrite, KeyInv, KeyTypes, Readable
  <2> QED
    BY <2>1 DEF KeyInv, KeyTypes
<1>1. keys[rotating[a]].selector \in Mta!Selector
  BY <1>0 DEF KeyRows, Mta!Row
<1>2. PICK x \in Mta!Row : x = Mta!Rotated(a)
  BY <1>1, EncryptedKey DEF Mta!RotateWrite, Mta!Rotated
<1>3. /\ keys' = [keys EXCEPT ![rotating[a]] = x] /\ page' = [page EXCEPT ![a] = x]
      /\ UNCHANGED <<dns, sig>> /\ generated' \in 0..MaxKeys
  BY <1>1, <1>2, EncryptedKey DEF Mta!RotateWrite, Mta!Published, Mta!trips
<1>4. \A i \in 1..Len(keys') : keys'[i] \in Mta!Row
  BY <1>3 DEF KeyInv, KeyTypes, KeyRows
<1> QED
  BY <1>3, <1>4 DEF KeyRows, Mta!DERToDNSValue, Mta!Dkim

\* The newest row is one of them.
LEMMA ActiveKey == ASSUME KeyTypes, KeyRows, keys # <<>> PROVE Mta!Active \in Mta!Row
BY ActiveRow DEF KeyRows

LEMMA RowsShown ==
  ASSUME KeyInv, KeyRows, NEW a \in Admin, Mta!Show(a) PROVE KeyRows'
<1>1. Mta!Active \in Mta!Row
  BY ActiveKey DEF Mta!Show, KeyInv
<1> QED
  BY <1>1 DEF Mta!Show, KeyRows, Mta!DERToDNSValue, Mta!Dkim

LEMMA RowsPublished ==
  ASSUME KeyInv, KeyRows, NEW a \in Admin, Mta!Publish(a) PROVE KeyRows'
<1>1. page[a].selector \in Mta!Selector /\ page[a].key \in 1..MaxKeys
  BY DEF Mta!Publish, KeyRows, Mta!Row
<1>2. dns' \in [Mta!Selector -> {<<>>} \cup {<<Mta!DERToDNSValue(k)>> : k \in 1..MaxKeys}]
  BY <1>1 DEF Mta!Publish, KeyRows
<1>3. page' \in [Admin -> Mta!Row \cup {Mta!NoRow}] /\ UNCHANGED <<keys, generated, sig>>
  BY DEF Mta!Publish, KeyRows
<1> QED
  BY <1>2, <1>3 DEF KeyRows, Mta!DERToDNSValue, Mta!Dkim

LEMMA RowsSigned ==
  ASSUME KeyInv, KeyRows, Mta!Build PROVE KeyRows'
<1>1. sig' \in Mta!Row \cup {Mta!NoRow}
  BY ActiveKey DEF Mta!Build, Mta!Sign, Mta!LoadKey, KeyInv
<1> QED
  BY <1>1 DEF Mta!Build, KeyRows, Mta!DERToDNSValue, Mta!Dkim

LEMMA RowsStay ==
  ASSUME KeyRows, UNCHANGED <<keys, dns, page, generated, sig>> PROVE KeyRows'
BY DEF KeyRows, Mta!DERToDNSValue, Mta!Dkim

LEMMA RowsNext ==
  ASSUME KeyInv, KeyRows, MaxKeys \in Nat, [Mta!Next]_Mta!vars PROVE KeyRows'
<1>1. CASE Mta!Administer
  <2>1. PICK a \in Admin :
          \/ Mta!CreateDomain(a) \/ Mta!AddKey(a)
          \/ Mta!BootstrapRead(a) \/ Mta!BootstrapInsert(a) \/ Mta!BootstrapFails(a)
          \/ Mta!RotateRead(a) \/ Mta!RotateWrite(a) \/ Mta!RotateFails(a)
          \/ Mta!ShowDns(a) \/ Mta!ShowDnsCmd(a) \/ Mta!Publish(a)
    BY <1>1 DEF Mta!Administer
  <2>2. CASE Mta!CreateDomain(a) \/ Mta!AddKey(a)
    <3>1. "mailaroo" \in Mta!Selector
      BY DEF Mta!Selector
    <3> QED
      BY <2>2, <3>1, RowsAdded DEF Mta!CreateDomain, Mta!AddKey
  <2>3. CASE Mta!RotateRead(a) \/ Mta!RotateFails(a) \/ Mta!BootstrapRead(a) \/ Mta!BootstrapFails(a)
    BY <2>3, RowsStay DEF Mta!RotateRead, Mta!RotateFails, Mta!BootstrapRead, Mta!BootstrapFails
  <2> QED
    BY <2>1, <2>2, <2>3, RowsBooted, RowsRotated, RowsShown, RowsPublished DEF Mta!ShowDns, Mta!ShowDnsCmd
<1>2. CASE UNCHANGED Mta!vars
  BY <1>2, RowsStay DEF Mta!vars, Mta!keyState
<1> QED
  BY <1>1, <1>2, RowsSigned, DeliverKeepsKeys, RowsStay DEF Mta!Next

\* The message is one of those considered, and the caller gives up in time.
Calls ==
  /\ mailing \in Mailings
  /\ attempt \in 0..MaxTrips /\ verdict \in {"none", "ok", "error"}
  /\ refused \subseteq Recipient

LEMMA CallsNext ==
  ASSUME Calls, MaxTrips \in Nat, [Mta!Next]_Mta!vars PROVE Calls'
<1>1. CASE Mta!Administer
  BY <1>1, AdministerKeepsTrip DEF Calls
<1>2. CASE Mta!Start
  BY <1>2 DEF Mta!Start, Calls
<1>3. CASE Mta!Build \/ Mta!Silence \/ UNCHANGED Mta!vars
  BY <1>3 DEF Mta!Build, Mta!Silence, Mta!Quiet, Mta!vars, Mta!trips, Calls
<1>4. CASE Mta!Deliver
  <2>1. /\ UNCHANGED <<mailing, attempt>>
        /\ verdict' \in {verdict, "ok", "error"}
        /\ refused' = refused \/ \E r \in Recipient : refused' = refused \cup {r}
    BY <1>4 DEF Mta!Deliver, Mta!PickDomain, Mta!LookupFails, Mta!Dial, Mta!Secure, Mta!Mail,
                Mta!Rcpt, Mta!DataTaken, Mta!DataUnheard, Mta!DataFails, Mta!Return, Mta!Quiet
  <2> QED
    BY <2>1 DEF Calls
<1> QED
  BY <1>1, <1>2, <1>3, <1>4 DEF Mta!Next

LEMMA MtaTyped ==
  ASSUME TripInv, KeyInv, KeyRows, Calls PROVE Mta!TypeOK
<1>1. DOMAIN keys = 1..Len(keys) /\ Len(keys) \in Nat
  BY DEF KeyInv, KeyTypes
<1>2. rotating \in [Admin -> 0..Len(keys)]
  BY <1>1 DEF KeyInv, KeyTypes, Readable
<1>3. trip.at \in {"build", "rest", "next", "dial", "tls", "mail", "rcpt", "stalled"}
  BY DEF TripInv, TripTypes, QuietTrip, RouteTrip, TalkTrip, Talk
<1>4. /\ copies \in [Recipient -> Nat] /\ unheard \in [Recipient -> Nat]
      /\ stale \in BOOLEAN /\ crossed \in BOOLEAN
      /\ booting \subseteq Admin /\ shown \subseteq 1..generated
  BY DEF TripInv, TripTypes, KeyInv, KeyTypes, Numbered
<1> QED
  BY <1>1, <1>2, <1>3, <1>4 DEF Mta!TypeOK, KeyRows, Calls

\* The types of Delivery: rows, pages and signatures hold generated keys, the DNS what a page
\* said, and no more attempts are made than the queue allows (UpdateDKIMKeyData, BuildMessage).
THEOREM MtaTypesHold ==
  ASSUME MtaConstants, MaxKeys \in Nat, MaxTrips \in Nat
  PROVE  Mta!Spec => []Mta!TypeOK
<1>1. Mta!Init => TripInv /\ KeyInv /\ KeyRows /\ Calls
  <2>1. Mta!Init => KeyRows
    BY DEF Mta!Init, KeyRows
  <2>2. Mta!Init => Calls
    BY DEF Mta!Init, Calls
  <2> QED
    BY <2>1, <2>2, TripInit, KeyInit
<1>2. TripInv /\ KeyInv /\ KeyRows /\ Calls /\ [Mta!Next]_Mta!vars
        => TripInv' /\ KeyInv' /\ KeyRows' /\ Calls'
  BY TripNextStep, KeyNext, RowsNext, CallsNext
<1>3. TripInv /\ KeyInv /\ KeyRows /\ Calls => Mta!TypeOK
  BY MtaTyped
<1> QED
  BY <1>1, <1>2, <1>3, PTL DEF Mta!Spec
=============================================================================
