---------------------------- MODULE FilterRules ----------------------------
(***************************************************************************)
(* The filter rules, the block rules and the contacts of a mailbox, which  *)
(* several members edit (internal/web/filter_handlers, email_handlers,     *)
(* contact_handlers; db.filter_db, contact_db), and the first two of which *)
(* every message that arrives is held against (internal/filterengine,      *)
(* internal/pipeline).                                                     *)
(*                                                                         *)
(* PostgreSQL runs each statement of a transaction on what is committed    *)
(* by then; a row that a transaction has written stays locked until it     *)
(* ends.  The rows of an email address are matched by a pattern that may   *)
(* be found anywhere in the sender.                                        *)
(***************************************************************************)
EXTENDS Integers, Sequences, Functions, FiniteSets

CONSTANTS
  Member,      \* members at work, each with one request at a time
  Rule,        \* IDs of filter rules, each used once
  Condition,
  Message,
  Holds,       \* [Condition -> [Message -> {"yes", "no", "error"}]]: a condition that
               \* is not well formed is an error
  Contact,     \* IDs of contacts, each used once
  Address,
  Within,      \* [Address -> SUBSET Address]: the addresses found in an address
  MaxBlocks,   \* bound: block rules ever made
  Workloads    \* bound: the rules, bodies, addresses, contacts and forms in play

\* What parseFilterRuleForm takes from a form.
Body == [active : BOOLEAN, all : BOOLEAN, conditions : SUBSET Condition]

\* The page that is sorted shows each rule once.
ASSUME FilterRulesAssumption ==
  /\ Holds \in [Condition -> [Message -> {"yes", "no", "error"}]]
  /\ Within \in [Address -> SUBSET Address] /\ \A a \in Address : a \in Within[a]
  /\ MaxBlocks \in Nat
  /\ Rule \cap {"error", "none"} = {}
  /\ \A w \in Workloads :
       /\ w.addresses \subseteq Address /\ w.contacts \subseteq Contact
       /\ \A f \in w.forms : f.email \in Address /\ f.favorite \in BOOLEAN
       /\ w.rules \subseteq Rule /\ w.bodies \subseteq Body
       /\ \A l \in w.lists : l \in Seq(Rule) /\ IsInjective(l)

VARIABLES
  work,     \* which of the workloads this is
  rule,     \* mailbox_filter_rule, with the rows of mailbox_filter_condition
  tx,       \* per member: the transaction of the request, if there is one
  block,    \* mailbox_block_rule
  blocks,   \* block rules made so far
  contact,  \* contact
  toggle,   \* per member: the block that a request turns round
  saved,    \* history: what was last saved of each rule
  ranked,   \* history: the pairs of rules, in their order, that the last order sent put in
            \* order, without the rules saved or deleted since
  held,     \* history: the addresses whose block was confirmed and that nobody has
            \* asked to let through since
  swept     \* history: those of them that a rule deleted for another address covered

vars == <<work, rule, tx, block, blocks, contact, toggle, saved, ranked, held, swept>>
filterVars == <<rule, tx, saved, ranked>>
history == <<held, swept>>
blockVars == <<block, blocks, contact, toggle, history>>

-----------------------------------------------------------------------------
None == [is |-> "none"]
Gone == [is |-> "gone"]
Idle == [do |-> "none", locks |-> {}]

Init ==
  /\ work \in Workloads
  /\ rule = [r \in Rule |-> None] /\ saved = [r \in Rule |-> None]
  /\ tx = [m \in Member |-> Idle] /\ ranked = {}
  /\ block = {} /\ blocks = 0 /\ held = {} /\ swept = {}
  /\ contact = [c \in Contact |-> None]
  /\ toggle = [m \in Member |-> Idle]

Here(r) == rule[r] \notin {None, Gone}
\* handleFilterRulesList has shown the rule; by now it may be gone.
Seen(r) == rule[r] # None
Free(m) == tx[m] = Idle /\ toggle[m] = Idle
Without(pairs, r) == {p \in pairs : p[1] # r /\ p[2] # r}

-----------------------------------------------------------------------------
(* internal/filterengine: what a message may meet.  The conditions of a rule come *)
(* in the order of their IDs, which are random, and rules of the same priority in *)
(* no order at all.                                                               *)

\* evaluateRule goes on until a condition decides.
Evaluate(body, msg) ==
  LET found == {Holds[c][msg] : c \in body.conditions}
      deciding == IF body.all THEN "no" ELSE "yes"
  IN IF body.conditions = {} THEN {"no"}
     ELSE IF found \cap {deciding, "error"} # {} THEN found \cap {deciding, "error"}
     ELSE {IF body.all THEN "yes" ELSE "no"}

\* GetActiveFilterRulesForMailbox
Active == {r \in Rule : Here(r) /\ rule[r].active}

\* Match: the rule that applies, "none" of them, or an "error".
Chosen(msg) ==
  LET Passed(q) == "no" \in Evaluate(rule[q], msg)
      Reached(r) == \A q \in Active : rule[q].priority < rule[r].priority => Passed(q)
  IN {r \in Active : Reached(r) /\ "yes" \in Evaluate(rule[r], msg)}
       \cup {x \in {"error"} : \E r \in Active : Reached(r) /\ "error" \in Evaluate(rule[r], msg)}
       \cup {x \in {"none"} : \A r \in Active : Passed(r)}

-----------------------------------------------------------------------------
(* Filter rules *)

Row(body, priority) ==
  [is |-> "here", priority |-> priority, active |-> body.active, all |-> body.all,
   conditions |-> body.conditions]

\* handleFilterRuleCreate: nobody sees the rule before its transaction commits.
CreateFilterRule(m, r, body) ==
  /\ Free(m) /\ rule[r] = None
  /\ rule' = [rule EXCEPT ![r] = Row(body, 0)]
  /\ saved' = [saved EXCEPT ![r] = body]
  /\ UNCHANGED <<work, tx, ranked, blockVars>>

\* handleFilterRuleUpdate.
StartUpdate(m, r, body) ==
  /\ Free(m) /\ Seen(r)
  /\ tx' = [tx EXCEPT ![m] = [do |-> "save", rule |-> r, body |-> body, at |-> "update",
                              locks |-> {}, cleared |-> {}]]
  /\ UNCHANGED <<work, rule, saved, ranked, blockVars>>

Locked(m, r) == \E n \in Member \ {m} : r \in tx[n].locks

\* The UPDATE waits for whoever has the row; it is no error if there is none.
UpdateRow(m) ==
  /\ tx[m].do = "save" /\ tx[m].at = "update" /\ ~Locked(m, tx[m].rule)
  /\ tx' = [tx EXCEPT ![m].at = "clear",
                      ![m].locks = IF Here(tx[m].rule) THEN {tx[m].rule} ELSE {}]
  /\ UNCHANGED <<work, rule, saved, ranked, blockVars>>

\* The DELETE of the conditions that are there now.
ClearConditions(m) ==
  /\ tx[m].do = "save" /\ tx[m].at = "clear"
  /\ tx' = [tx EXCEPT ![m].at = "insert",
                      ![m].cleared = IF Here(tx[m].rule) THEN rule[tx[m].rule].conditions ELSE {}]
  /\ UNCHANGED <<work, rule, saved, ranked, blockVars>>

\* The INSERTs, which fail if the rule they refer to is gone.
InsertConditions(m) ==
  /\ tx[m].do = "save" /\ tx[m].at = "insert"
  /\ tx' = [tx EXCEPT ![m] = IF @.locks = {} /\ @.body.conditions # {} THEN Idle
                             ELSE [@ EXCEPT !.at = "commit"]]
  /\ UNCHANGED <<work, rule, saved, ranked, blockVars>>

\* A form has no priority: the rule is back at 0.
CommitUpdate(m) ==
  /\ tx[m].do = "save" /\ tx[m].at = "commit"
  /\ LET t == tx[m]
         kept(r) == rule[r].conditions \ t.cleared
     IN /\ rule' = [r \in Rule |->
                      IF r \in t.locks
                      THEN [Row(t.body, 0) EXCEPT !.conditions = @ \cup kept(r)] ELSE rule[r]]
        /\ saved' = [r \in Rule |-> IF r \in t.locks THEN t.body ELSE saved[r]]
        /\ ranked' = IF t.locks = {} THEN ranked ELSE Without(ranked, t.rule)
  /\ tx' = [tx EXCEPT ![m] = Idle]
  /\ UNCHANGED <<work, blockVars>>

\* handleFilterRuleDelete: the conditions go with the rule.
DeleteFilterRule(m, r) ==
  /\ Free(m) /\ Here(r) /\ ~Locked(m, r)
  /\ rule' = [rule EXCEPT ![r] = Gone]
  /\ saved' = [saved EXCEPT ![r] = Gone]
  /\ ranked' = Without(ranked, r)
  /\ UNCHANGED <<work, tx, blockVars>>

\* handleFilterRuleReorder.
StartReorder(m, list) ==
  /\ Free(m) /\ \A r \in Range(list) : Seen(r)
  /\ tx' = [tx EXCEPT ![m] = [do |-> "reorder", list |-> list, at |-> 1, locks |-> {}]]
  /\ UNCHANGED <<work, rule, saved, ranked, blockVars>>

Placing(m) ==
  /\ tx[m].do = "reorder" /\ tx[m].at <= Len(tx[m].list)
  /\ ~Locked(m, tx[m].list[tx[m].at])

\* Mutant of PlaceNext: the statements are not in a transaction.
PlaceNextAtOnce(m) ==
  /\ Placing(m)
  /\ LET r == tx[m].list[tx[m].at] IN
       rule' = IF Here(r) THEN [rule EXCEPT ![r].priority = tx[m].at - 1] ELSE rule
  /\ tx' = [tx EXCEPT ![m].at = @ + 1]
  /\ UNCHANGED <<work, saved, ranked, blockVars>>

\* The next UPDATE, which waits for whoever has the row.
PlaceNext(m) ==
  /\ Placing(m)
  /\ LET r == tx[m].list[tx[m].at] IN
       tx' = [tx EXCEPT ![m].at = @ + 1, ![m].locks = @ \cup {q \in {r} : Here(q)}]
  /\ UNCHANGED <<work, rule, saved, ranked, blockVars>>

\* What the members have put in order.
Pairs(list) ==
  {p \in Range(list) \X Range(list) :
     \E i, j \in DOMAIN list : i < j /\ p = <<list[i], list[j]>>}

CommitReorder(m) ==
  /\ tx[m].do = "reorder" /\ tx[m].at > Len(tx[m].list)
  /\ LET t == tx[m]
         place(r) == CHOOSE i \in DOMAIN t.list : t.list[i] = r
     IN /\ rule' = [r \in Rule |-> IF r \in t.locks
                                   THEN [rule[r] EXCEPT !.priority = place(r) - 1] ELSE rule[r]]
        /\ ranked' = {p \in Pairs(t.list) : Here(p[1]) /\ Here(p[2])}
  /\ tx' = [tx EXCEPT ![m] = Idle]
  /\ UNCHANGED <<work, saved, blockVars>>

\* A statement or the commit fails, or PostgreSQL breaks a deadlock.
RollBack(m) ==
  /\ tx[m] # Idle
  /\ tx' = [tx EXCEPT ![m] = Idle]
  /\ UNCHANGED <<work, rule, saved, ranked, blockVars>>

-----------------------------------------------------------------------------
(* Contacts: one row for an address, by the table's constraint. *)

Listed(c) == contact[c] \notin {None, Gone}
Known(a) == \E c \in Contact : Listed(c) /\ contact[c].email = a

\* validateCSS, of which the braces and the quotes count.
ValidateCSS(css) ==
  LET depth[i \in 0..Len(css)] ==
        IF i = 0 THEN 0
        ELSE depth[i - 1] + (CASE css[i] = "{" -> 1 [] css[i] = "}" -> -1 [] OTHER -> 0)
      Count(ch) == Cardinality({i \in DOMAIN css : css[i] = ch})
  IN /\ \A i \in 0..Len(css) : depth[i] >= 0
     /\ depth[Len(css)] = 0
     /\ Count("'") % 2 = 0 /\ Count("\"") % 2 = 0

Entry(a, favorite) == [is |-> "here", email |-> a, favorite |-> favorite]

SetContact(c, row) ==
  /\ contact' = [contact EXCEPT ![c] = row]
  /\ UNCHANGED <<work, filterVars, block, blocks, toggle, history>>

\* handleContactCreate: a form has an address, or is refused.
CreateContact(m, c, form) ==
  /\ Free(m) /\ contact[c] = None /\ ValidateCSS(form.css)
  /\ ~Known(form.email)
  /\ SetContact(c, Entry(form.email, form.favorite))

\* handleContactUpdate: one that is gone stays so, which is no error.
UpdateContact(m, c, form) ==
  /\ Free(m) /\ Listed(c) /\ ValidateCSS(form.css)
  /\ contact[c].email = form.email \/ ~Known(form.email)
  /\ SetContact(c, Entry(form.email, form.favorite))

\* handleContactDelete
DeleteContact(m, c) == Free(m) /\ Listed(c) /\ SetContact(c, Gone)

\* handleContactToggleFavorite
ToggleFavorite(m, c) ==
  /\ Free(m) /\ Listed(c)
  /\ SetContact(c, Entry(contact[c].email, ~contact[c].favorite))

\* handleAddContactFromEmail, UpsertContactFromEmail: who is known stays as it is.
AddContactFromEmail(m, c, a) ==
  /\ Free(m) /\ contact[c] = None /\ ~Known(a)
  /\ SetContact(c, Entry(a, FALSE))

-----------------------------------------------------------------------------
(* Block rules *)

\* address_pattern is the quoted address.
Covers(b, a) == b.pattern \in Within[a]
Blocking(a) == {b \in block : Covers(b, a)}

\* IsBlockedByMailboxRules, for CheckBlockingRules as for the pages.
Refused(a) == Blocking(a) # {}

\* ON CONFLICT DO NOTHING: but there is no constraint to be in conflict with.
CreateBlockRule(a) ==
  /\ blocks < MaxBlocks
  /\ block' = block \cup {[id |-> blocks, pattern |-> a]}
  /\ blocks' = blocks + 1

\* Mutant of DeleteBlockRule: every rule with the pattern goes.
DeleteByPattern(b) == block' = {c \in block : c.pattern # b.pattern}

DeleteBlockRule(b) == block' = block \ {b}

\* Who lets the address a through, by the deletion of b, lets through all that b covers.
LetThrough(a, b) ==
  /\ held' = held \ {a}
  /\ swept' = {c \in held \ {a} : c \in swept \/ Covers(b, c)}

\* A member is told that the address is blocked.
Confirmed(a) == held' = held \cup {a} /\ swept' = swept \ {a}

\* handleEmailBlockSender, handleManualBlockSender, handleEmailDeleteAndBlock: the
\* last may fail to delete the email afterwards, and the block stands without an
\* answer that says so.
BlockSender(m, a, confirmed) ==
  /\ Free(m) /\ CreateBlockRule(a)
  /\ IF confirmed THEN Confirmed(a) ELSE UNCHANGED history
  /\ UNCHANGED <<work, filterVars, contact, toggle>>

\* handleUnblockSender, with a rule of the page.
UnblockSender(m, b) ==
  /\ Free(m) /\ DeleteBlockRule(b) /\ LetThrough(b.pattern, b)
  /\ UNCHANGED <<work, filterVars, blocks, contact, toggle>>

\* handleContactToggleBlock: one of the rules is read, an error is taken for none ...
ReadBlock(m, a) ==
  /\ Free(m)
  /\ \/ \E b \in Blocking(a) :
          /\ toggle' = [toggle EXCEPT ![m] = [do |-> "delete", block |-> b, locks |-> {}]]
          /\ LetThrough(a, b)
     \/ /\ toggle' = [toggle EXCEPT ![m] = [do |-> "create", address |-> a, locks |-> {}]]
        /\ UNCHANGED history
  /\ UNCHANGED <<work, filterVars, block, blocks, contact>>

\* ... for the address that the contact has, whatever becomes of it ...
ToggleRead(m, c) == Listed(c) /\ ReadBlock(m, contact[c].email)

\* ... and deleted, or one is made ...
ToggleDelete(m) ==
  /\ toggle[m].do = "delete" /\ DeleteBlockRule(toggle[m].block)
  /\ toggle' = [toggle EXCEPT ![m] = Idle]
  /\ UNCHANGED <<work, filterVars, blocks, contact, history>>

ToggleCreate(m) ==
  /\ toggle[m].do = "create" /\ CreateBlockRule(toggle[m].address)
  /\ Confirmed(toggle[m].address)
  /\ toggle' = [toggle EXCEPT ![m] = Idle]
  /\ UNCHANGED <<work, filterVars, contact>>

\* ... unless that fails.
ToggleFails(m) ==
  /\ toggle[m] # Idle
  /\ toggle' = [toggle EXCEPT ![m] = Idle]
  /\ UNCHANGED <<work, filterVars, block, blocks, contact, history>>

-----------------------------------------------------------------------------
Filtering(m) ==
  \/ \E r \in work.rules : \E body \in work.bodies :
       CreateFilterRule(m, r, body) \/ StartUpdate(m, r, body)
  \/ \E r \in work.rules : DeleteFilterRule(m, r)
  \/ \E list \in work.lists : StartReorder(m, list)
  \/ UpdateRow(m) \/ ClearConditions(m) \/ InsertConditions(m) \/ CommitUpdate(m)
  \/ PlaceNext(m) \/ CommitReorder(m) \/ RollBack(m)

Blocked(m) ==
  \/ \E a \in work.addresses :
       \E confirmed \in BOOLEAN : BlockSender(m, a, confirmed)
  \/ \E c \in work.contacts : ToggleRead(m, c)
  \/ \E b \in block : UnblockSender(m, b)
  \/ ToggleDelete(m) \/ ToggleCreate(m) \/ ToggleFails(m)

Contacts(m) ==
  \E c \in work.contacts :
    \/ \E form \in work.forms : CreateContact(m, c, form) \/ UpdateContact(m, c, form)
    \/ DeleteContact(m, c) \/ ToggleFavorite(m, c)
    \/ \E a \in work.addresses : AddContactFromEmail(m, c, a)

Next == \E m \in Member : Filtering(m) \/ Blocked(m) \/ Contacts(m)

Spec == Init /\ [][Next]_vars

-----------------------------------------------------------------------------
(* Properties *)

TypeOK ==
  /\ \A r \in Rule : Here(r) => rule[r].priority \in Nat /\ saved[r] \in Body
  /\ \A p \in ranked : Here(p[1]) /\ Here(p[2])
  /\ block \subseteq [id : 0..MaxBlocks, pattern : Address] /\ blocks \in 0..MaxBlocks
  /\ held \subseteq Address /\ swept \subseteq held
  /\ \A c \in Contact : Listed(c) => contact[c].email \in Address /\ contact[c].favorite \in BOOLEAN

\* A rule is only ever applied to a message that it matches as somebody last saved
\* it, and of the rules that are still as the last order sent left them, only the
\* first that matches: however the saves, deletions and orders of several members
\* came between each other.
RulesActAsSaved ==
  \A msg \in Message : \A r \in Chosen(msg) \cap Rule :
    /\ saved[r].active /\ "yes" \in Evaluate(saved[r], msg)
    /\ \A p \in ranked : p[2] = r /\ saved[p[1]].active => "no" \in Evaluate(saved[p[1]], msg)

\* Once a member has been told that an address is blocked, it is refused until
\* somebody asks to let it through, or asks that for another address and the rule
\* deleted covers this one too: who unblocks the contact joann@x deletes the rule made
\* for ann@x, which is found in that address (handleContactToggleBlock), and ann@x is
\* let through unasked.  But for that, a request to unblock that was under way does
\* not undo the new block.  What is refused is the sender of the envelope
\* (CheckBlockingRules), which need not be the one of the header that the block was
\* made from (handleEmailBlockSender).
BlockHolds == \A a \in held : Refused(a) \/ a \in swept
=============================================================================
