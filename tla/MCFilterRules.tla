--------------------------- MODULE MCFilterRules ---------------------------
(* Two members: one edits two or three rules while the other orders or       *)
(* deletes them, over messages that match one, both or neither of two        *)
(* conditions, and a third that is not well formed; or they block and        *)
(* unblock two senders, the address of one being part of the other's, and    *)
(* keep them as contacts.                                                    *)
EXTENDS FilterRules, TLC

B(active, all, conditions) == [active |-> active, all |-> all, conditions |-> conditions]
Orders(rules) == {l \in UNION {[1..n -> rules] : n \in 2..Cardinality(rules)} :
                    Cardinality(Range(l)) = Len(l)}
Work(rules, bodies, lists) ==
  [rules |-> rules, bodies |-> bodies, lists |-> lists, addresses |-> {}, contacts |-> {}, forms |-> {}]
Blocks(addresses, contacts, forms) ==
  [rules |-> {}, bodies |-> {}, lists |-> {}, addresses |-> addresses, contacts |-> contacts, forms |-> forms]
Form(a, css) == [email |-> a, favorite |-> TRUE, css |-> css]

MCRule == {"r1", "r2", "r3"}
MCHolds ==
  [c \in Condition |-> [msg \in Message |->
     IF c = "bad" THEN "error" ELSE IF c \in msg THEN "yes" ELSE "no"]]
MCMessage == SUBSET {"news", "long"}
MCWithin == ("ann" :> {"ann"}) @@ ("joann" :> {"ann", "joann"})
MCWorkloads ==
  {Work({"r1", "r2"},
        {B(TRUE, FALSE, {"news"}), B(TRUE, TRUE, {"news", "long"}), B(FALSE, TRUE, {})},
        Orders({"r1", "r2"})),
   Work({"r1", "r2"}, {B(TRUE, TRUE, {"long", "bad"}), B(TRUE, FALSE, {"long"})}, Orders({"r1", "r2"})),
   Work({"r1", "r2", "r3"}, {B(TRUE, FALSE, {"news"})}, Orders({"r1", "r2", "r3"})),
   Blocks(Address, {"c1", "c2"}, {Form("joann", <<>>), Form("ann", <<"}", "{">>)})}

\* Of up to four braces those are accepted that are balanced.
ASSUME BalancedCSS ==
  {css \in UNION {[1..n -> {"{", "}"}] : n \in 0..4} : ValidateCSS(css)}
  = {<<>>, <<"{", "}">>, <<"{", "}", "{", "}">>, <<"{", "{", "}", "}">>}
=============================================================================
