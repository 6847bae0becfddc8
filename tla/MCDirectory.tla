----------------------------- MODULE MCDirectory -----------------------------
(* Two users, two mailboxes, one address; one or two creations of users while *)
(* the configuration file is applied once or twice.                            *)
EXTENDS Directory, TLC

CONSTANTS ann, bob
MCUser == {ann, bob}
MCWorkloads == {
  {"create", "member"}, {"create", "mapping"}, {"create", "user", "mailbox"}, {"sending", "user"}}
Swaps == Permutations(Mailbox)
=============================================================================
