----------------------------- MODULE MCCompose -----------------------------
(* Small instances of Compose for TLC. *)
EXTENDS Compose, TLC

CONSTANTS w1, w2, d1, d2, x1

TwoWindows == {w1, w2}
TwoDrafts == {d1, d2}
OneMsg == {x1}

Alike == Permutations(TwoWindows) \cup Permutations(TwoDrafts)
=============================================================================
