--------------------------- MODULE MCSmtpSession ---------------------------
(* Small instances of SmtpSession for TLC. *)
EXTENDS SmtpSession, TLC

CONSTANTS s1, s2, u1, f1, f2, r1, remote, local

MCSession == {s1, s2}
MCIp == {remote, local}
MCExempt == {local}
MCUser == {u1}
MCAddress == {f1, f2}
MCRecipient == {r1}

Symmetry == Permutations(MCSession) \cup Permutations(MCAddress)
=============================================================================
