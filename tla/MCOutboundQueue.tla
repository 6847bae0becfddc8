-------------------------- MODULE MCOutboundQueue --------------------------
(* A small instance of OutboundQueue for TLC. *)
EXTENDS OutboundQueue, TLC

CONSTANTS j1, j2, w1, w2

MCJobs == {j1, j2}
MCWorkers == {w1, w2}
AllFaults == {"crash", "db"}
=============================================================================
