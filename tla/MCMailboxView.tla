--------------------------- MODULE MCMailboxView ---------------------------
(* Four emails, two of them received at the same time, in pages of two: read *)
(* and deleted, or marked with a category, while another one arrives; or all *)
(* arriving while two tabs listen for events.                                *)
EXTENDS MailboxView, TLC

MCEmail == 1..4
MCTimeOf == (1 :> 1) @@ (2 :> 2) @@ (3 :> 2) @@ (4 :> 3)
V(f, c) == [filter |-> f, category |-> c]
Rows(statuses, reads, categories) ==
  [status : statuses, read : reads, star : {FALSE}, category : categories]
MCScenes ==
  [rows : {Rows({"INBOX", "DELETED"}, BOOLEAN, {""})}, old : {{1, 3, 4}},
   views : {{V("unread", ""), V("mail", "")}}, tabs : {{}}]
    \cup [rows : {Rows({"INBOX"}, {FALSE}, Category)}, old : {{1, 2, 3}},
          views : {{V("mail", ""), V("mail", "none")}}, tabs : {{}}]
    \cup [rows : {[status : {"INBOX", "QUARANTINED"}, read : {TRUE}, star : BOOLEAN, category : {""}]},
          old : {{2, 3, 4}}, views : {{V("starred", "")}}, tabs : {{}}]
    \cup [rows : {Rows({"INBOX"}, {FALSE}, {""})}, old : {{}}, views : {{}}, tabs : {Tab}]

\* The numbers of views and of categories are those of the emails that a look at the
\* list brings, for any two emails, but that an email set to "none" is counted there
\* and not listed; a search has no number of its own.
ASSUME CountsAgree ==
  \A x, y \in Row \cup {Absent}, filter \in Filter :
    LET rows == [e \in Email |-> IF e = 1 THEN x ELSE IF e = 2 THEN y ELSE Absent]
        counts == CountByCategory(filter, rows)
        Shown(c) == Matching(V(filter, c), rows)
        setToNone == {e \in Shown("") : rows[e].category = "none"}
    IN /\ filter # "search" => CountEmails(filter, rows) = Cardinality(Shown(""))
       /\ \A c \in DOMAIN counts :
            counts[c] = Cardinality(IF c = "none" THEN Shown(c) \cup setToNone ELSE Shown(c))
       /\ \A c \in (Category \cup {"none"}) \ {""} : c \in DOMAIN counts \/ Shown(c) = {}
=============================================================================
