------------------------- MODULE MCConnectionGuard -------------------------
(* Small instances of ConnectionGuard for TLC. *)
EXTENDS ConnectionGuard, TLC

CONSTANTS c1, c2, c3, c4, a1, a2

MCConn == {c1, c2, c3, c4}
MCIp == {a1, a2}

Symmetry == Permutations(MCConn) \cup Permutations(MCIp)
=============================================================================
