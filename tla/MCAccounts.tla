----------------------------- MODULE MCAccounts -----------------------------
(* A small instance of Accounts for TLC: three workloads. *)
EXTENDS Accounts, TLC

CONSTANTS u1, u2, r1, r2, s1, p1, t1, t2

MCUser == {u1, u2}
MCRequest == {r1, r2}
MCSession == {s1}
MCPending == {p1}
MCToken == {t1, t2}

\* One user's second factor; the two administrators' switches; reset links.
SecondFactorTraffic ==
  {u1} \X {"login", "verify", "setup", "enable", "disable", "regenerate"}
AdminTraffic == MCUser \X {"login", "cancel", "toggleActive", "toggleAdmin"}
ResetTraffic == {u1} \X {"login", "forgot", "reset"}
MCWorkloads == {SecondFactorTraffic, AdminTraffic, ResetTraffic}

Alike == Permutations(MCRequest) \cup Permutations(MCToken)
=============================================================================
