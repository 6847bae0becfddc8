---------------------------- MODULE JobLifecycle ----------------------------
(***************************************************************************)
(* What the outbound queue promises about ONE delivery job, whoever works  *)
(* on it: a job is in the hands of at most one attempt at a time, it is    *)
(* tried at most MaxAttempts times, it is given up only after the last of  *)
(* these tries or because a remote server bounced it, and a job whose      *)
(* worker vanished is never picked up again.  Workers, batches, snapshots  *)
(* and the attempt log of OutboundQueue do not exist at this level.        *)
(***************************************************************************)
EXTENDS Naturals

CONSTANTS Job,         \* the delivery jobs
          MaxAttempts  \* outbound_job.max_attempts

VARIABLES verdict,     \* what the database says of the job
          phase,       \* where the current attempt, if any, stands
          tries        \* times the message was handed to the MTA

vars == <<verdict, phase, tries>>

Init ==
  /\ verdict = [j \in Job |-> "absent"]
  /\ phase = [j \in Job |-> "idle"]
  /\ tries = [j \in Job |-> 0]

\* A user sends a message: the job is enqueued.
Submit(j) ==
  /\ verdict[j] = "absent"
  /\ verdict' = [verdict EXCEPT ![j] = "pending"]
  /\ UNCHANGED <<phase, tries>>

\* A set of pending jobs is taken for delivery.
Take(S) ==
  /\ \A j \in S : verdict[j] = "pending" /\ phase[j] = "idle" /\ tries[j] < MaxAttempts
  /\ phase' = [j \in Job |-> IF j \in S THEN "taken" ELSE phase[j]]
  /\ UNCHANGED <<verdict, tries>>

\* The message is handed to the MTA.
Try(j) ==
  /\ phase[j] = "taken"
  /\ phase' = [phase EXCEPT ![j] = "tried"]
  /\ tries' = [tries EXCEPT ![j] = @ + 1]
  /\ UNCHANGED verdict

\* The outcome of the try is written down: only the last try may give up.
Conclude(j, v) ==
  /\ phase[j] = "tried"
  /\ v = "failed" => tries[j] = MaxAttempts
  /\ v = "pending" => tries[j] < MaxAttempts
  /\ phase' = [phase EXCEPT ![j] = "idle"]
  /\ verdict' = [verdict EXCEPT ![j] = v]
  /\ UNCHANGED tries

\* The attempts on the jobs of S vanish (a crash, a failed database call).
Abandon(S) ==
  /\ \A j \in S : phase[j] # "lost" /\ verdict[j] # "absent"
  /\ phase' = [j \in Job |-> IF j \in S THEN "lost" ELSE phase[j]]
  /\ UNCHANGED <<verdict, tries>>

\* A remote server reports that it could not deliver what it was given.
Bounce(j) ==
  /\ tries[j] > 0
  /\ verdict' = [verdict EXCEPT ![j] = "failed"]
  /\ UNCHANGED <<phase, tries>>

Next ==
  \/ \E j \in Job :
       \/ Submit(j) \/ Try(j) \/ Bounce(j)
       \/ \E v \in {"pending", "delivered", "failed"} : Conclude(j, v)
  \/ \E S \in SUBSET Job : Take(S) \/ Abandon(S)

Spec == Init /\ [][Next]_vars
=============================================================================
