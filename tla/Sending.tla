------------------------------ MODULE Sending ------------------------------
(***************************************************************************)
(* What the outbound queue and the MTA agree on about ONE message: a call  *)
(* of SendWithResponse that succeeds has brought the message to some       *)
(* server, if there was anywhere to bring it; one that fails may have      *)
(* brought it there all the same, and then only if there was; and nobody   *)
(* calls again after a success.  Domains, hosts, recipients and signatures *)
(* are Delivery's; jobs, workers and the database are OutboundQueue's.     *)
(***************************************************************************)
EXTENDS Naturals

CONSTANT MaxTries   \* outbound_job.max_attempts

VARIABLES
  routable, \* the message has a destination
  tries,    \* calls that have returned
  answer,   \* what the last of them returned, or "none"
  reached   \* some server has taken the message

vars == <<routable, tries, answer, reached>>

Init ==
  /\ routable \in BOOLEAN
  /\ tries = 0 /\ answer = "none"
  /\ reached = FALSE

\* The caller may call, or is waiting for a call to return.
Open == tries < MaxTries /\ answer # "ok"

\* A server takes the message; the caller does not know yet, or never will.
Take ==
  /\ Open /\ routable
  /\ reached' = TRUE
  /\ UNCHANGED <<routable, tries, answer>>

\* A call returns.  Without a destination there is nothing that could fail.
Answer(ok) ==
  /\ Open
  /\ tries' = tries + 1
  /\ answer' = IF ok THEN "ok" ELSE "error"
  /\ \E taken \in BOOLEAN : (taken => routable) /\ reached' = (reached \/ taken)
  /\ ok \/ routable
  /\ ok /\ routable => reached'
  /\ UNCHANGED routable

Next == Take \/ \E ok \in BOOLEAN : Answer(ok)

Spec == Init /\ [][Next]_vars
=============================================================================
