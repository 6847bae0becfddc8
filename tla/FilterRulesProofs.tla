------------------------- MODULE FilterRulesProofs -------------------------
(***************************************************************************)
(* A confirmed block holds, for any members, addresses and patterns, and   *)
(* messages meet the rules as they were last saved, for any rules.         *)
(*                                                                         *)
(* BlockHolds is not inductive: a request that is about to delete a rule   *)
(* could take the last one that covers a held address.  It cannot, since   *)
(* all that a rule covers counts as let through from when the rule is read *)
(* on: what holds an address is a rule that no request is about to delete. *)
(*                                                                         *)
(* RulesActAsSaved rests on the row locks of the transactions: what one    *)
(* has locked nobody else has (Exclusive), so a rule that is half written  *)
(* is its writer's alone (Saving), and a list of rules gets priorities in  *)
(* its own order, of which no other list has part (Ordering, Ranked).      *)
(***************************************************************************)
EXTENDS FilterRules, TLAPS

Deleted(m, b) == toggle[m].do = "delete" /\ toggle[m].block = b

ToggleOK ==
  /\ \A m \in Member :
       /\ toggle[m].do \in {"none", "create", "delete"}
       /\ toggle[m].do = "create" => toggle[m].address \in Address
       /\ toggle[m].do = "delete" => toggle[m].block.id \in Nat /\ toggle[m].block.id < blocks
  /\ toggle = [m \in Member |-> toggle[m]]

\* The IDs of block rules are not used twice.
BlocksOK == blocks \in Nat /\ \A b \in block : b.id \in Nat /\ b.id < blocks

\* Every held address that no other's unblocking has swept away is covered by a rule
\* that no request is about to delete.
Safe(a) == \E b \in block : Covers(b, a) /\ \A m \in Member : ~Deleted(m, b)

HeldSafely ==
  held \subseteq Address /\ swept \subseteq held /\ \A a \in held \ swept : Safe(a)

BlockInv == work \in Workloads /\ ToggleOK /\ BlocksOK /\ HeldSafely

\* What a request that starts at a contact blocks is an address.
ContactsOK ==
  /\ \A c \in Contact : Listed(c) => contact[c].email \in Address
  /\ contact = [c \in Contact |-> contact[c]]

-----------------------------------------------------------------------------
LEMMA BlockInit == Init => BlockInv /\ ContactsOK
BY FilterRulesAssumption DEF Init, Idle, BlockInv, ToggleOK, BlocksOK, HeldSafely,
                             ContactsOK, Listed

\* An address stays covered if the rules that are there, and about to be deleted, stay
\* the same.
LEMMA FilteringKeepsBlocks ==
  ASSUME BlockInv, UNCHANGED <<work, block, blocks, toggle, history>>
  PROVE  BlockInv'
BY DEF history, BlockInv, ToggleOK, BlocksOK, HeldSafely, Safe, Covers, Deleted

LEMMA ContactsKept == ASSUME ContactsOK, UNCHANGED contact PROVE ContactsOK'
BY DEF ContactsOK, Listed

\* A rule that is about to be deleted is not the new one.
LEMMA NewBlockHolds ==
  ASSUME BlockInv, NEW a \in Address, CreateBlockRule(a),
         Confirmed(a) \/ UNCHANGED history, ToggleOK', work' = work,
         \A m \in Member : toggle'[m] = toggle[m] \/ toggle'[m].do # "delete"
  PROVE  BlockInv'
<1>0. PICK b : b = [id |-> blocks, pattern |-> a]
  OBVIOUS
<1>1. BlocksOK'
  BY DEF BlockInv, BlocksOK, CreateBlockRule
<1>2. ASSUME NEW m \in Member PROVE ~Deleted(m, b)'
  <2>1. SUFFICES ASSUME toggle'[m].do = "delete", toggle'[m].block = b PROVE FALSE
    BY DEF Deleted
  <2>2. toggle[m] = toggle'[m]
    BY <2>1
  <2>3. toggle[m].block.id \in Nat /\ toggle[m].block.id < blocks
    BY <2>1, <2>2 DEF BlockInv, ToggleOK
  <2>4. blocks \in Nat /\ b.id = blocks
    BY <1>0 DEF BlockInv, BlocksOK
  <2> QED
    BY <2>1, <2>2, <2>3, <2>4
<1>3. Safe(a)'
  <2>1. b \in block' /\ a \in Within[a]
    BY <1>0, FilterRulesAssumption DEF CreateBlockRule
  <2>2. b.pattern = a
    BY <1>0
  <2> QED
    BY <1>2, <2>1, <2>2 DEF Safe, Covers
<1>4. ASSUME NEW c \in held \ swept PROVE Safe(c)'
  <2>1. PICK d \in block : Covers(d, c) /\ \A m \in Member : ~Deleted(m, d)
    BY DEF BlockInv, HeldSafely, Safe
  <2>2. d \in block' /\ Covers(d, c)'
    BY <2>1 DEF CreateBlockRule, Covers
  <2>3. ASSUME NEW m \in Member PROVE ~Deleted(m, d)'
    BY <2>1 DEF Deleted
  <2> QED
    BY <2>2, <2>3 DEF Safe
<1>5. HeldSafely'
  <2>1. /\ swept' \subseteq held' /\ held' \subseteq Address
        /\ held' \ swept' \subseteq (held \ swept) \cup {a}
    BY DEF Confirmed, history, BlockInv, HeldSafely
  <2> QED
    BY <1>3, <1>4, <2>1 DEF HeldSafely
<1> QED
  BY <1>1, <1>5 DEF BlockInv

\* Letting an address through by a rule leaves none that the rule alone must hold.
LEMMA LetThroughHolds ==
  ASSUME HeldSafely, NEW a, NEW b, LetThrough(a, b)
  PROVE  /\ held' \subseteq Address /\ swept' \subseteq held'
         /\ held' \ swept' \subseteq held \ swept
         /\ \A c \in held' \ swept' : ~Covers(b, c)
BY DEF HeldSafely, LetThrough

\* What a rule covers has been let through by the time the rule goes.
LEMMA DeletedBlockHoldsNothing ==
  ASSUME BlockInv, NEW b, DeleteBlockRule(b),
         \/ \E a : LetThrough(a, b)
         \/ (UNCHANGED history /\ \E m \in Member : Deleted(m, b)),
         ToggleOK', work' = work, blocks' = blocks,
         \A m \in Member : toggle'[m] = toggle[m] \/ toggle'[m].do # "delete"
  PROVE  BlockInv'
<1>1. BlocksOK'
  BY DEF BlockInv, BlocksOK, DeleteBlockRule
<1>2. /\ held' \subseteq Address /\ swept' \subseteq held'
      /\ held' \ swept' \subseteq held \ swept
  BY LetThroughHolds DEF BlockInv, HeldSafely, history
<1>3. ASSUME NEW a \in held' \ swept' PROVE Safe(a)'
  <2>1. PICK d \in block : Covers(d, a) /\ \A m \in Member : ~Deleted(m, d)
    BY <1>2, <1>3 DEF BlockInv, HeldSafely, Safe
  <2>2. d # b
    BY <2>1, <1>3, LetThroughHolds DEF BlockInv
  <2>3. d \in block' /\ Covers(d, a)'
    BY <2>1, <2>2 DEF DeleteBlockRule, Covers
  <2>4. ASSUME NEW m \in Member PROVE ~Deleted(m, d)'
    BY <2>1 DEF Deleted
  <2> QED
    BY <2>3, <2>4 DEF Safe
<1> QED
  BY <1>1, <1>2, <1>3 DEF BlockInv, HeldSafely

-----------------------------------------------------------------------------
LEMMA BlockSenderStep ==
  ASSUME BlockInv, NEW m \in Member, NEW a \in Address, NEW confirmed \in BOOLEAN,
         BlockSender(m, a, confirmed)
  PROVE  BlockInv'
<1>1. blocks \in Nat /\ blocks' = blocks + 1 /\ toggle' = toggle
  BY DEF BlockInv, BlocksOK, BlockSender, CreateBlockRule
<1>2. ToggleOK'
  <2>1. ASSUME NEW n \in Member, toggle[n].do = "delete"
        PROVE  toggle[n].block.id \in Nat /\ toggle[n].block.id < blocks + 1
    <3>1. toggle[n].block.id \in Nat /\ toggle[n].block.id < blocks
      BY <2>1 DEF BlockInv, ToggleOK
    <3>2. \A x \in Nat : x < blocks => x < blocks + 1
      BY <1>1
    <3> QED
      BY <3>1, <3>2
  <2> QED
    BY <1>1, <2>1 DEF BlockInv, ToggleOK
<1> QED
  BY <1>1, <1>2, NewBlockHolds DEF BlockSender

LEMMA ReadBlockStep ==
  ASSUME BlockInv, NEW m \in Member, NEW a \in Address, ReadBlock(m, a)
  PROVE  BlockInv'
<1>1. BlocksOK' /\ work' = work /\ block' = block /\ blocks' = blocks
  BY DEF ReadBlock, BlockInv, BlocksOK
<1>2. CASE /\ toggle' = [toggle EXCEPT ![m] = [do |-> "create", address |-> a, locks |-> {}]]
           /\ UNCHANGED history
  <2>1. ToggleOK'
    BY <1>1, <1>2 DEF BlockInv, ToggleOK
  <2>2. ASSUME NEW n \in Member, NEW b PROVE Deleted(n, b)' => Deleted(n, b)
    BY <1>2 DEF Deleted, BlockInv, ToggleOK
  <2>3. HeldSafely'
    BY <1>1, <1>2, <2>2 DEF history, BlockInv, HeldSafely, Safe, Covers
  <2> QED
    BY <1>1, <2>1, <2>3 DEF BlockInv
<1>3. ASSUME NEW b \in Blocking(a),
             toggle' = [toggle EXCEPT ![m] = [do |-> "delete", block |-> b, locks |-> {}]],
             LetThrough(a, b)
      PROVE  BlockInv'
  <2>1. b \in block /\ b.id \in Nat /\ b.id < blocks
    BY DEF Blocking, BlockInv, BlocksOK
  <2>2. ToggleOK'
    BY <1>1, <1>3, <2>1 DEF BlockInv, ToggleOK
  <2>3. ASSUME NEW n \in Member, NEW d, d # b PROVE Deleted(n, d)' => Deleted(n, d)
    BY <1>3, <2>3 DEF Deleted, BlockInv, ToggleOK
  <2>4. ASSUME NEW c \in held' \ swept' PROVE Safe(c)'
    <3>1. c \in held \ swept /\ ~Covers(b, c)
      BY <1>3, LetThroughHolds DEF BlockInv
    <3>2. PICK d \in block : Covers(d, c) /\ \A n \in Member : ~Deleted(n, d)
      BY <3>1 DEF BlockInv, HeldSafely, Safe
    <3>3. d # b
      BY <3>1, <3>2
    <3> QED
      BY <1>1, <2>3, <3>2, <3>3 DEF Safe, Covers
  <2>5. held' \subseteq Address /\ swept' \subseteq held'
    BY <1>3, LetThroughHolds DEF BlockInv
  <2> QED
    BY <1>1, <2>2, <2>4, <2>5 DEF BlockInv, HeldSafely
<1> QED
  BY <1>2, <1>3 DEF ReadBlock

LEMMA BlockedStep ==
  ASSUME BlockInv, ContactsOK, work.contacts \subseteq Contact, NEW m \in Member, Blocked(m)
  PROVE  BlockInv'
<1>1. work.addresses \subseteq Address
  BY FilterRulesAssumption DEF BlockInv
<1>2. ASSUME NEW a \in work.addresses, NEW confirmed \in BOOLEAN, BlockSender(m, a, confirmed)
      PROVE  BlockInv'
  BY <1>1, <1>2, BlockSenderStep
<1>3. ASSUME NEW c \in work.contacts, ToggleRead(m, c) PROVE BlockInv'
  <2>1. contact[c].email \in Address /\ ReadBlock(m, contact[c].email)
    BY <1>3 DEF ToggleRead, ContactsOK
  <2> QED
    BY <2>1, ReadBlockStep
<1>4. ASSUME NEW b \in block, UnblockSender(m, b) PROVE BlockInv'
  <2>1. ToggleOK' /\ toggle' = toggle
    BY <1>4 DEF UnblockSender, BlockInv, ToggleOK
  <2> QED
    BY <1>4, <2>1, DeletedBlockHoldsNothing DEF UnblockSender
<1>5. ASSUME ToggleDelete(m) PROVE BlockInv'
  <2>0. PICK b : b = toggle[m].block
    OBVIOUS
  <2>1. Deleted(m, b) /\ DeleteBlockRule(b)
    BY <1>5, <2>0 DEF ToggleDelete, Deleted
  <2>2. ToggleOK' /\ \A n \in Member : toggle'[n] = toggle[n] \/ toggle'[n].do # "delete"
    BY <1>5 DEF ToggleDelete, BlockInv, ToggleOK, Idle
  <2>3. UNCHANGED history /\ work' = work /\ blocks' = blocks
    BY <1>5 DEF ToggleDelete
  <2> QED
    BY <2>1, <2>2, <2>3, DeletedBlockHoldsNothing
<1>6. ASSUME ToggleCreate(m) PROVE BlockInv'
  <2>0. PICK a : a = toggle[m].address
    OBVIOUS
  <2>1. a \in Address /\ CreateBlockRule(a) /\ Confirmed(a) /\ work' = work
    BY <1>6, <2>0 DEF ToggleCreate, BlockInv, ToggleOK
  <2>2. blocks \in Nat /\ blocks' = blocks + 1
    BY <2>1 DEF BlockInv, BlocksOK, CreateBlockRule
  <2>3. \A x \in Nat : x < blocks => x < blocks'
    BY <2>2
  <2>4. ToggleOK' /\ \A n \in Member : toggle'[n] = toggle[n] \/ toggle'[n].do # "delete"
    BY <1>6, <2>3 DEF ToggleCreate, BlockInv, ToggleOK, Idle
  <2> QED
    BY <2>1, <2>4, NewBlockHolds
<1>7. ASSUME ToggleFails(m) PROVE BlockInv'
  <2>1. ToggleOK' /\ BlocksOK' /\ work' = work
    BY <1>7 DEF ToggleFails, BlockInv, ToggleOK, BlocksOK, Idle
  <2>2. ASSUME NEW n \in Member, NEW b PROVE Deleted(n, b)' => Deleted(n, b)
    BY <1>7 DEF ToggleFails, Deleted, BlockInv, ToggleOK, Idle
  <2>3. HeldSafely'
    BY <1>7, <2>2 DEF ToggleFails, history, BlockInv, HeldSafely, Safe, Covers
  <2> QED
    BY <2>1, <2>3 DEF BlockInv
<1> QED
  BY <1>2, <1>3, <1>4, <1>5, <1>6, <1>7 DEF Blocked

LEMMA FilteringStep ==
  ASSUME BlockInv, NEW m \in Member, Filtering(m)
  PROVE  BlockInv'
<1>1. UNCHANGED <<work, block, blocks, toggle, history>>
  BY DEF Filtering, CreateFilterRule, StartUpdate, DeleteFilterRule, StartReorder,
         UpdateRow, ClearConditions, InsertConditions, CommitUpdate, PlaceNext,
         CommitReorder, RollBack, blockVars
<1> QED
  BY <1>1, FilteringKeepsBlocks

LEMMA ContactsStep ==
  ASSUME BlockInv, ContactsOK, NEW m \in Member, Contacts(m)
  PROVE  BlockInv' /\ ContactsOK'
<1>1. work.addresses \subseteq Address /\ \A f \in work.forms : f.email \in Address
  BY FilterRulesAssumption DEF BlockInv
<1>2. \E c \in work.contacts : \E row :
        SetContact(c, row) /\ (row \notin {None, Gone} => row.email \in Address)
  <2>1. PICK c \in work.contacts :
          \/ \E form \in work.forms : CreateContact(m, c, form) \/ UpdateContact(m, c, form)
          \/ DeleteContact(m, c) \/ ToggleFavorite(m, c)
          \/ \E a \in work.addresses : AddContactFromEmail(m, c, a)
    BY DEF Contacts
  <2>2. CASE DeleteContact(m, c)
    BY <2>2 DEF DeleteContact
  <2>3. CASE ToggleFavorite(m, c)
    BY <2>3, FilterRulesAssumption DEF ToggleFavorite, Entry, ContactsOK, BlockInv
  <2>4. CASE \E form \in work.forms : CreateContact(m, c, form) \/ UpdateContact(m, c, form)
    BY <2>4, <1>1 DEF CreateContact, UpdateContact, Entry
  <2>5. CASE \E a \in work.addresses : AddContactFromEmail(m, c, a)
    BY <2>5, <1>1 DEF AddContactFromEmail, Entry
  <2> QED
    BY <2>1, <2>2, <2>3, <2>4, <2>5
<1>3. ContactsOK'
  BY <1>2 DEF SetContact, ContactsOK, Listed
<1>4. BlockInv'
  BY <1>2, FilteringKeepsBlocks DEF SetContact
<1> QED
  BY <1>3, <1>4

LEMMA ContactsLeftAlone ==
  ASSUME ContactsOK, NEW m \in Member, Filtering(m) \/ Blocked(m)
  PROVE  ContactsOK'
<1>1. CASE Filtering(m)
  <2>1. CASE \E r \in work.rules : \E body \in work.bodies :
               CreateFilterRule(m, r, body) \/ StartUpdate(m, r, body)
    BY <2>1, ContactsKept DEF CreateFilterRule, StartUpdate, blockVars
  <2>2. CASE \E r \in work.rules : DeleteFilterRule(m, r)
    BY <2>2, ContactsKept DEF DeleteFilterRule, blockVars
  <2>3. CASE \E list \in work.lists : StartReorder(m, list)
    BY <2>3, ContactsKept DEF StartReorder, blockVars
  <2>4. CASE UpdateRow(m) \/ ClearConditions(m)
    BY <2>4, ContactsKept DEF UpdateRow, ClearConditions, blockVars
  <2>5. CASE InsertConditions(m) \/ CommitUpdate(m)
    BY <2>5, ContactsKept DEF InsertConditions, CommitUpdate, blockVars
  <2>6. CASE PlaceNext(m) \/ CommitReorder(m) \/ RollBack(m)
    BY <2>6, ContactsKept DEF PlaceNext, CommitReorder, RollBack, blockVars
  <2> QED
    BY <1>1, <2>1, <2>2, <2>3, <2>4, <2>5, <2>6 DEF Filtering
<1>2. CASE Blocked(m)
  BY <1>2, ContactsKept
     DEF Blocked, BlockSender, UnblockSender, ToggleRead, ReadBlock, ToggleDelete,
         ToggleCreate, ToggleFails
<1> QED
  BY <1>1, <1>2

LEMMA BlockNext == BlockInv /\ ContactsOK /\ [Next]_vars => BlockInv' /\ ContactsOK'
<1> SUFFICES ASSUME BlockInv, ContactsOK, [Next]_vars PROVE BlockInv' /\ ContactsOK'
  OBVIOUS
<1>1. work.contacts \subseteq Contact
  BY FilterRulesAssumption DEF BlockInv
<1>2. CASE \E m \in Member : Filtering(m) \/ Blocked(m)
  BY <1>1, <1>2, FilteringStep, BlockedStep, ContactsLeftAlone
<1>3. CASE \E m \in Member : Contacts(m)
  BY <1>3, ContactsStep
<1>4. CASE UNCHANGED vars
  BY <1>4, FilteringKeepsBlocks, ContactsKept DEF vars, history
<1> QED
  BY <1>2, <1>3, <1>4 DEF Next

-----------------------------------------------------------------------------
\* A sender whose block a member has been told of (handleEmailBlockSender,
\* handleManualBlockSender, handleContactToggleBlock) is refused until somebody asks to
\* let it through, or another address with a rule that covers it too.
THEOREM BlocksHold == Spec => []BlockHolds
<1>1. Init => BlockInv /\ ContactsOK
  BY BlockInit
<1>2. BlockInv /\ ContactsOK /\ [Next]_vars => BlockInv' /\ ContactsOK'
  BY BlockNext
<1>3. BlockInv => BlockHolds
  BY DEF BlockInv, HeldSafely, Safe, BlockHolds, Refused, Blocking
<1> QED
  BY <1>1, <1>2, <1>3, PTL DEF Spec
-----------------------------------------------------------------------------
(* The rules themselves.  A member who saves a rule holds its row from the UPDATE  *)
(* to the commit, so that the conditions deleted are all that there are; one who   *)
(* orders rules holds each row from its UPDATE on, so that the places given are    *)
(* those of the rules still there at the commit.                                   *)

Rows == [is : {"here"}, priority : Nat, active : BOOLEAN, all : BOOLEAN,
         conditions : SUBSET Condition]
SaveTx == [do : {"save"}, rule : Rule, body : Body,
           at : {"update", "clear", "insert", "commit"}, locks : SUBSET Rule,
           cleared : SUBSET Condition]
OrderTx == [do : {"reorder"}, list : Seq(Rule), at : Nat \ {0}, locks : SUBSET Rule]

RuleTypes ==
  /\ rule \in [Rule -> Rows \cup {None, Gone}]
  /\ saved \in [Rule -> Body \cup {None, Gone}]
  /\ tx \in [Member -> SaveTx \cup OrderTx \cup {Idle}]

\* A rule is what was last saved of it.
AsSaved(r) ==
  Here(r) => /\ saved[r] \in Body
             /\ rule[r].active = saved[r].active /\ rule[r].all = saved[r].all
             /\ rule[r].conditions = saved[r].conditions

\* Nobody else holds what m holds, which is there.
Exclusive(m) == \A r \in tx[m].locks : Here(r) /\ ~Locked(m, r)

Saving(m) ==
  tx[m] \in SaveTx =>
    /\ tx[m].at = "update" => tx[m].locks = {}
    /\ tx[m].locks \subseteq {tx[m].rule}
    /\ tx[m].at \in {"insert", "commit"} /\ tx[m].locks # {}
         => tx[m].cleared = rule[tx[m].rule].conditions

Ordering(m) ==
  tx[m] \in OrderTx =>
    /\ IsInjective(tx[m].list)
    /\ \A i \in DOMAIN tx[m].list : Seen(tx[m].list[i])
    /\ \A i \in DOMAIN tx[m].list :
         i < tx[m].at /\ Here(tx[m].list[i]) => tx[m].list[i] \in tx[m].locks
    /\ tx[m].locks \subseteq Range(tx[m].list)

\* The last order sent is that of the priorities.
Ranked ==
  \A p \in ranked :
    /\ p \in Rule \X Rule /\ Here(p[1]) /\ Here(p[2])
    /\ rule[p[1]].priority < rule[p[2]].priority

RuleInv ==
  /\ work \in Workloads /\ RuleTypes /\ Ranked
  /\ \A r \in Rule : AsSaved(r)
  /\ \A m \in Member : Exclusive(m) /\ Saving(m) /\ Ordering(m)

LEMMA Kinds ==
  ASSUME RuleTypes, NEW m \in Member
  PROVE  /\ tx[m].do = "save" => tx[m] \in SaveTx
         /\ tx[m].do = "reorder" => tx[m] \in OrderTx
         /\ Idle \notin SaveTx /\ Idle \notin OrderTx
         /\ \A t \in SaveTx : t \notin OrderTx
         /\ tx[m].locks \subseteq Rule
BY DEF RuleTypes, SaveTx, OrderTx, Idle

LEMMA HereIsARow ==
  ASSUME RuleTypes, NEW r \in Rule
  PROVE  /\ Here(r) <=> rule[r] \in Rows
         /\ ~Here(r) <=> rule[r] \in {None, Gone}
BY DEF RuleTypes, Here, Rows, None, Gone

LEMMA RuleInitially == Init => RuleInv
<1> SUFFICES ASSUME Init PROVE RuleInv
  OBVIOUS
<1>1. RuleTypes
  BY DEF Init, RuleTypes
<1>2. ASSUME NEW m \in Member PROVE Exclusive(m) /\ Saving(m) /\ Ordering(m)
  <2>1. tx[m] = Idle /\ Idle.locks = {}
    BY DEF Init, Idle
  <2> QED
    BY <1>1, <2>1, Kinds DEF Exclusive, Saving, Ordering
<1> QED
  BY <1>1, <1>2 DEF Init, RuleInv, Ranked, AsSaved, Here

LEMMA RulesLeftAlone ==
  ASSUME RuleInv, UNCHANGED <<work, filterVars>>
  PROVE  RuleInv'
BY DEF RuleInv, RuleTypes, Ranked, AsSaved, Exclusive, Saving, Ordering, Here, Seen, Locked,
       filterVars

\* A step that only takes a request of m further.
LEMMA RequestStep ==
  ASSUME RuleInv, NEW m \in Member, NEW t \in SaveTx \cup OrderTx \cup {Idle},
         tx' = [tx EXCEPT ![m] = t], UNCHANGED <<work, rule, saved, ranked>>,
         \A r \in t.locks : r \in tx[m].locks \/ (Here(r) /\ ~Locked(m, r)),
         Saving(m)', Ordering(m)'
  PROVE  RuleInv'
<1>1. tx'[m] = t /\ \A n \in Member \ {m} : tx'[n] = tx[n]
  BY DEF RuleInv, RuleTypes
<1>2. RuleTypes' /\ Ranked' /\ \A r \in Rule : AsSaved(r)'
  BY DEF RuleInv, RuleTypes, Ranked, AsSaved, Here
<1>3. ASSUME NEW r \in t.locks PROVE Here(r) /\ ~Locked(m, r)
  BY DEF RuleInv, Exclusive
<1>4. Exclusive(m)'
  BY <1>1, <1>3 DEF Exclusive, Here, Locked
<1>5. ASSUME NEW n \in Member, n # m PROVE Exclusive(n)' /\ Saving(n)' /\ Ordering(n)'
  <2>1. Exclusive(n) /\ Saving(n) /\ Ordering(n) /\ tx'[n] = tx[n]
    BY <1>1, <1>5 DEF RuleInv
  <2>2. ASSUME NEW r \in tx[n].locks PROVE Here(r)' /\ ~Locked(n, r)'
    <3>1. r \notin t.locks
      BY <1>3, <1>5 DEF Locked
    <3>2. Here(r) /\ ~Locked(n, r)
      BY <2>1 DEF Exclusive
    <3> QED
      BY <1>1, <3>1, <3>2 DEF Here, Locked
  <2> QED
    BY <2>1, <2>2 DEF Exclusive, Saving, Ordering, Here, Seen
<1> QED
  BY <1>2, <1>4, <1>5 DEF RuleInv

\* A step that ends a request of m, and changes only rows that nobody else holds.
LEMMA EndsAlone ==
  ASSUME RuleInv, NEW m \in Member, tx' = [tx EXCEPT ![m] = Idle], RuleTypes',
         \A r \in Rule : rule'[r] = rule[r] \/ ~Locked(m, r),
         \A r \in Rule : Here(r)' => Here(r) \/ ~Seen(r),
         \A r \in Rule : Seen(r) => Seen(r)'
  PROVE  \A n \in Member : Exclusive(n)' /\ Saving(n)' /\ Ordering(n)'
<1>1. tx'[m] = Idle /\ \A n \in Member \ {m} : tx'[n] = tx[n]
  BY DEF RuleInv, RuleTypes
<1>2. Exclusive(m)' /\ Saving(m)' /\ Ordering(m)'
  <2>1. tx'[m].locks = {}
    BY <1>1 DEF Idle
  <2>2. tx'[m] \notin SaveTx /\ tx'[m] \notin OrderTx
    BY <1>1, Kinds DEF RuleInv
  <2> QED
    BY <2>1, <2>2 DEF Exclusive, Saving, Ordering
<1>3. ASSUME NEW n \in Member, n # m PROVE Exclusive(n)' /\ Saving(n)' /\ Ordering(n)'
  <2>1. /\ Exclusive(n) /\ Saving(n) /\ Ordering(n) /\ tx'[n] = tx[n]
        /\ tx[n].locks \subseteq Rule
    BY <1>1, <1>3, Kinds DEF RuleInv
  <2>2. ASSUME NEW r \in tx[n].locks PROVE rule'[r] = rule[r] /\ Here(r)' /\ ~Locked(n, r)'
    <3>1. rule'[r] = rule[r]
      BY <1>3, <2>1 DEF Locked
    <3>2. Here(r) /\ ~Locked(n, r)
      BY <2>1 DEF Exclusive
    <3>3. ~Locked(n, r)'
      BY <1>1, <3>2 DEF Locked, Idle
    <3> QED
      BY <3>1, <3>2, <3>3 DEF Here
  <2>3. Saving(n)'
    BY <2>1, <2>2 DEF Saving
  <2>4. Ordering(n)'
    <3> SUFFICES ASSUME tx[n] \in OrderTx PROVE Ordering(n)'
      BY <2>1 DEF Ordering
    <3>1. \A i \in DOMAIN tx[n].list : tx[n].list[i] \in Rule
      BY DEF OrderTx
    <3> QED
      BY <2>1, <3>1 DEF Ordering
  <2> QED
    BY <2>1, <2>2, <2>3, <2>4 DEF Exclusive
<1> QED
  BY <1>2, <1>3

LEMMA CreateStep ==
  ASSUME RuleInv, NEW m \in Member, NEW r \in Rule, NEW body \in Body,
         CreateFilterRule(m, r, body)
  PROVE  RuleInv'
<1>1. /\ rule[r] = None /\ rule' = [rule EXCEPT ![r] = Row(body, 0)]
      /\ saved' = [saved EXCEPT ![r] = body]
      /\ tx[m] = Idle /\ tx' = tx /\ ranked' = ranked /\ work' = work
  BY DEF CreateFilterRule, Free
<1>2. Row(body, 0) \in Rows
  BY DEF Row, Rows, Body
<1>3. RuleTypes'
  BY <1>1, <1>2 DEF RuleInv, RuleTypes
<1>4. /\ rule'[r] = Row(body, 0) /\ saved'[r] = body /\ ~Here(r) /\ ~Seen(r)
      /\ \A q \in Rule \ {r} : rule'[q] = rule[q] /\ saved'[q] = saved[q]
  BY <1>1 DEF RuleInv, RuleTypes, Here, Seen
<1>5. \A q \in Rule : AsSaved(q)'
  BY <1>4 DEF RuleInv, AsSaved, Here, Row
<1>6. Ranked'
  BY <1>1, <1>4 DEF RuleInv, Ranked, Here
<1>7. ~Locked(m, r) /\ tx' = [tx EXCEPT ![m] = Idle]
  BY <1>1, <1>4 DEF RuleInv, RuleTypes, Exclusive, Locked
<1>8. Seen(r)'
  BY <1>4, <1>2 DEF Seen, Rows, None
<1>9. \A n \in Member : Exclusive(n)' /\ Saving(n)' /\ Ordering(n)'
  BY <1>3, <1>4, <1>7, <1>8, EndsAlone DEF Here, Seen
<1> QED
  BY <1>1, <1>3, <1>5, <1>6, <1>9 DEF RuleInv

LEMMA DeleteStep ==
  ASSUME RuleInv, NEW m \in Member, NEW r \in Rule, DeleteFilterRule(m, r)
  PROVE  RuleInv'
<1>1. /\ rule' = [rule EXCEPT ![r] = Gone] /\ saved' = [saved EXCEPT ![r] = Gone]
      /\ tx[m] = Idle /\ tx' = tx /\ ranked' = Without(ranked, r) /\ work' = work
      /\ ~Locked(m, r)
  BY DEF DeleteFilterRule, Free
<1>2. RuleTypes'
  BY <1>1 DEF RuleInv, RuleTypes
<1>3. /\ rule'[r] = Gone /\ ~Here(r)' /\ Seen(r)'
      /\ \A q \in Rule \ {r} : rule'[q] = rule[q] /\ saved'[q] = saved[q]
  BY <1>1 DEF RuleInv, RuleTypes, Here, Seen, None, Gone
<1>4. \A q \in Rule : AsSaved(q)'
  BY <1>3 DEF RuleInv, AsSaved, Here
<1>5. Ranked'
  BY <1>1, <1>3 DEF RuleInv, Ranked, Here, Without
<1>6. tx' = [tx EXCEPT ![m] = Idle]
  BY <1>1 DEF RuleInv, RuleTypes
<1>7. \A n \in Member : Exclusive(n)' /\ Saving(n)' /\ Ordering(n)'
  BY <1>1, <1>2, <1>3, <1>6, EndsAlone DEF Here, Seen
<1> QED
  BY <1>1, <1>2, <1>4, <1>5, <1>7 DEF RuleInv

LEMMA SaveStep ==
  ASSUME RuleInv, NEW m \in Member,
         UpdateRow(m) \/ ClearConditions(m) \/ InsertConditions(m)
  PROVE  RuleInv'
<1>1. tx[m] \in SaveTx
  BY Kinds DEF RuleInv, UpdateRow, ClearConditions, InsertConditions
<1> DEFINE t == tx[m]
<1>2. /\ t.rule \in Rule /\ t.at \in {"update", "clear", "insert", "commit"}
      /\ t.at = "update" => t.locks = {}
      /\ t.locks \subseteq {t.rule}
      /\ t.at \in {"insert", "commit"} /\ t.locks # {} => t.cleared = rule[t.rule].conditions
  <2>1. Saving(m)
    BY DEF RuleInv
  <2> QED
    BY <1>1, <2>1 DEF Saving, SaveTx
<1>3. UNCHANGED <<work, rule, saved, ranked>>
  BY DEF UpdateRow, ClearConditions, InsertConditions
<1>4. ASSUME NEW u \in SaveTx, tx' = [tx EXCEPT ![m] = u],
             \A r \in u.locks : r \in t.locks \/ (Here(r) /\ ~Locked(m, r)),
             u.at # "update", u.rule = t.rule, u.locks \subseteq {t.rule},
             u.at \in {"insert", "commit"} /\ u.locks # {} => u.cleared = rule[t.rule].conditions
      PROVE  RuleInv'
  <2>1. tx'[m] = u /\ u \notin OrderTx
    BY <1>4, Kinds DEF RuleInv, RuleTypes
  <2>2. Saving(m)' /\ Ordering(m)'
    BY <1>3, <1>4, <2>1 DEF Saving, Ordering
  <2> QED
    BY <1>3, <1>4, <2>2, RequestStep
<1>5. CASE UpdateRow(m)
  <2> DEFINE l == IF Here(t.rule) THEN {t.rule} ELSE {}
             u == [t EXCEPT !.at = "clear", !.locks = l]
  <2>1. tx' = [tx EXCEPT ![m] = u] /\ ~Locked(m, t.rule)
    BY <1>5 DEF UpdateRow
  <2>2. u \in SaveTx /\ u.at = "clear" /\ u.rule = t.rule /\ u.locks = l
    BY <1>1, <1>2 DEF SaveTx
  <2>3. l \subseteq {t.rule} /\ \A r \in l : Here(r) /\ ~Locked(m, r)
    BY <2>1
  <2> HIDE DEF u, l
  <2> QED
    BY <1>4, <2>1, <2>2, <2>3
<1>6. CASE ClearConditions(m)
  <2> DEFINE c == IF Here(t.rule) THEN rule[t.rule].conditions ELSE {}
             u == [t EXCEPT !.at = "insert", !.cleared = c]
  <2>1. tx' = [tx EXCEPT ![m] = u]
    BY <1>6 DEF ClearConditions
  <2>2. c \subseteq Condition
    BY <1>2, HereIsARow DEF RuleInv, Rows
  <2>3. u \in SaveTx /\ u.at = "insert" /\ u.rule = t.rule /\ u.locks = t.locks /\ u.cleared = c
    BY <1>1, <2>2 DEF SaveTx
  <2>4. t.locks # {} => c = rule[t.rule].conditions
    BY <1>2 DEF RuleInv, Exclusive
  <2> HIDE DEF u, c
  <2> QED
    BY <1>2, <1>4, <2>1, <2>3, <2>4
<1>7. CASE InsertConditions(m)
  <2>1. t.at = "insert"
    BY <1>7 DEF InsertConditions
  <2>2. CASE t.locks = {} /\ t.body.conditions # {}
    <3>1. tx' = [tx EXCEPT ![m] = Idle]
      BY <1>7, <2>2 DEF InsertConditions
    <3>2. tx'[m] = Idle
      BY <3>1 DEF RuleInv, RuleTypes
    <3>3. Saving(m)' /\ Ordering(m)'
      BY <3>2, Kinds DEF RuleInv, Saving, Ordering
    <3>4. Idle.locks = {}
      BY DEF Idle
    <3> QED
      BY <1>3, <3>1, <3>3, <3>4, RequestStep
  <2>3. CASE ~(t.locks = {} /\ t.body.conditions # {})
    <3> DEFINE u == [t EXCEPT !.at = "commit"]
    <3>1. tx' = [tx EXCEPT ![m] = u]
      BY <1>7, <2>3 DEF InsertConditions
    <3>2. /\ u \in SaveTx /\ u.at = "commit" /\ u.rule = t.rule /\ u.locks = t.locks
          /\ u.cleared = t.cleared
      BY <1>1 DEF SaveTx
    <3> HIDE DEF u
    <3> QED
      BY <1>2, <1>4, <2>1, <3>1, <3>2
  <2> QED
    BY <2>2, <2>3
<1> QED
  BY <1>5, <1>6, <1>7

LEMMA StartUpdateStep ==
  ASSUME RuleInv, NEW m \in Member, NEW r \in Rule, NEW body \in Body, StartUpdate(m, r, body)
  PROVE  RuleInv'
<1> DEFINE t == [do |-> "save", rule |-> r, body |-> body, at |-> "update",
                 locks |-> {}, cleared |-> {}]
<1>1. tx' = [tx EXCEPT ![m] = t] /\ UNCHANGED <<work, rule, saved, ranked>>
  BY DEF StartUpdate
<1>2. t \in SaveTx /\ t.locks = {}
  BY DEF SaveTx
<1> HIDE DEF t
<1>3. tx'[m] = t /\ t \notin OrderTx
  BY <1>1, <1>2, Kinds DEF RuleInv, RuleTypes
<1>4. Saving(m)' /\ Ordering(m)'
  BY <1>2, <1>3 DEF Saving, Ordering
<1> QED
  BY <1>1, <1>2, <1>4, RequestStep

LEMMA CommitUpdateStep ==
  ASSUME RuleInv, NEW m \in Member, CommitUpdate(m)
  PROVE  RuleInv'
<1> DEFINE t == tx[m]
           old(r) == rule[r].conditions \ t.cleared
<1>1. /\ t.at = "commit" /\ t.do = "save" /\ work' = work
      /\ rule' = [r \in Rule |->
                    IF r \in t.locks
                    THEN [Row(t.body, 0) EXCEPT !.conditions = @ \cup old(r)] ELSE rule[r]]
      /\ saved' = [r \in Rule |-> IF r \in t.locks THEN t.body ELSE saved[r]]
      /\ ranked' = IF t.locks = {} THEN ranked ELSE Without(ranked, t.rule)
      /\ tx' = [tx EXCEPT ![m] = Idle]
  BY DEF CommitUpdate
<1>2. t \in SaveTx /\ Saving(m) /\ Exclusive(m)
  BY <1>1, Kinds DEF RuleInv
<1>3. /\ t.locks \subseteq {t.rule} /\ t.rule \in Rule /\ t.body \in Body
      /\ \A r \in t.locks : old(r) = {} /\ ~Locked(m, r) /\ Here(r)
  BY <1>1, <1>2 DEF Saving, Exclusive, SaveTx
<1> DEFINE row == Row(t.body, 0)
<1>4. \A r \in t.locks : [row EXCEPT !.conditions = @ \cup old(r)] = row
  BY <1>3 DEF Row, Body
<1>5. row \in Rows
  BY <1>3 DEF Row, Rows, Body
<1>6. \A r \in Rule : rule'[r] = IF r \in t.locks THEN row ELSE rule[r]
  BY <1>1, <1>4
<1>7. \A r \in Rule : saved'[r] = IF r \in t.locks THEN t.body ELSE saved[r]
  BY <1>1
<1>8. RuleTypes'
  <2>1. rule' \in [Rule -> Rows \cup {None, Gone}]
    <3>1. rule' = [r \in Rule |-> rule'[r]]
      BY <1>1
    <3> HIDE DEF row
    <3> QED
      BY <1>5, <1>6, <3>1 DEF RuleInv, RuleTypes
  <2>2. saved' \in [Rule -> Body \cup {None, Gone}]
    BY <1>1, <1>3 DEF RuleInv, RuleTypes
  <2> QED
    BY <1>1, <2>1, <2>2 DEF RuleInv, RuleTypes
<1>9. /\ row.active = t.body.active /\ row.all = t.body.all
      /\ row.conditions = t.body.conditions
  BY DEF Row
<1> HIDE DEF row, t
<1>10. \A r \in Rule : AsSaved(r)'
  BY <1>3, <1>6, <1>7, <1>9 DEF RuleInv, AsSaved, Here
<1>11. \A r \in Rule : Here(r)' <=> Here(r)
  <2>1. row \notin {None, Gone}
    BY <1>5 DEF Rows, None, Gone
  <2> QED
    BY <1>3, <1>6, <2>1 DEF Here
<1>12. Ranked'
  <2>1. CASE t.locks = {}
    BY <1>1, <1>6, <2>1 DEF RuleInv, Ranked, Here
  <2>2. CASE t.locks # {}
    <3>1. ranked' = Without(ranked, t.rule) /\ t.locks = {t.rule}
      BY <1>1, <1>3, <2>2
    <3>2. ASSUME NEW p \in ranked' PROVE p \in ranked /\ p[1] \notin t.locks /\ p[2] \notin t.locks
      BY <3>1, <3>2 DEF Without
    <3>3. \A p \in ranked : p \in Rule \X Rule /\ Here(p[1]) /\ Here(p[2])
                            /\ rule[p[1]].priority < rule[p[2]].priority
      BY DEF RuleInv, Ranked
    <3>4. \A p \in Rule \X Rule : p[1] \in Rule /\ p[2] \in Rule
      OBVIOUS
    <3>5. ASSUME NEW p \in ranked' PROVE rule'[p[1]] = rule[p[1]] /\ rule'[p[2]] = rule[p[2]]
      BY <1>6, <3>2, <3>3, <3>4
    <3> QED
      BY <1>11, <3>2, <3>3, <3>4, <3>5 DEF Ranked
  <2> QED
    BY <2>1, <2>2
<1>13. \A n \in Member : Exclusive(n)' /\ Saving(n)' /\ Ordering(n)'
  <2>1. \A r \in Rule : rule'[r] = rule[r] \/ ~Locked(m, r)
    BY <1>3, <1>6
  <2>2. \A r \in Rule : Seen(r) => Seen(r)'
    BY <1>5, <1>6 DEF Seen, Rows, None
  <2> QED
    BY <1>1, <1>8, <1>11, <2>1, <2>2, EndsAlone
<1> QED
  BY <1>1, <1>8, <1>10, <1>12, <1>13 DEF RuleInv

LEMMA StartReorderStep ==
  ASSUME RuleInv, NEW m \in Member, NEW list \in Seq(Rule), IsInjective(list),
         StartReorder(m, list)
  PROVE  RuleInv'
<1> DEFINE t == [do |-> "reorder", list |-> list, at |-> 1, locks |-> {}]
<1>1. /\ tx' = [tx EXCEPT ![m] = t] /\ UNCHANGED <<work, rule, saved, ranked>>
      /\ \A r \in Range(list) : Seen(r)
  BY DEF StartReorder
<1>2. t \in OrderTx /\ t.locks = {} /\ t.list = list /\ t.at = 1
  BY DEF OrderTx
<1> HIDE DEF t
<1>3. tx'[m] = t /\ t \notin SaveTx
  BY <1>1, <1>2, Kinds DEF RuleInv, RuleTypes
<1>4. Saving(m)'
  BY <1>3 DEF Saving
<1>5. Ordering(m)'
  <2>1. \A i \in DOMAIN list : Seen(list[i]) /\ ~(i < 1)
    BY <1>1 DEF Range
  <2> QED
    BY <1>1, <1>2, <1>3, <2>1 DEF Ordering, Seen, Range
<1> QED
  BY <1>1, <1>2, <1>4, <1>5, RequestStep

LEMMA PlaceNextStep ==
  ASSUME RuleInv, NEW m \in Member, PlaceNext(m)
  PROVE  RuleInv'
<1> DEFINE t == tx[m]
           r == t.list[t.at]
           l == {q \in {r} : Here(q)}
           u == [t EXCEPT !.at = @ + 1, !.locks = @ \cup l]
<1>1. /\ t.do = "reorder" /\ t.at <= Len(t.list) /\ ~Locked(m, r)
      /\ tx' = [tx EXCEPT ![m] = u] /\ UNCHANGED <<work, rule, saved, ranked>>
  BY DEF PlaceNext, Placing
<1>2. t \in OrderTx /\ Ordering(m)
  BY <1>1, Kinds DEF RuleInv
<1>3. t.at \in DOMAIN t.list /\ r \in Rule
  BY <1>1, <1>2 DEF OrderTx
<1>4. /\ u \in OrderTx /\ u.list = t.list /\ u.at = t.at + 1 /\ u.locks = t.locks \cup l
      /\ t.at \in Nat /\ t.list \in Seq(Rule)
  <2>1. t.at \in Nat \ {0} /\ t.list \in Seq(Rule) /\ t.locks \cup l \in SUBSET Rule
    BY <1>2, <1>3 DEF OrderTx
  <2>2. t.at + 1 \in Nat \ {0}
    BY <2>1
  <2> HIDE DEF l
  <2> QED
    BY <1>2, <2>1, <2>2 DEF OrderTx
<1>5. \A q \in l : q = r /\ Here(q) /\ ~Locked(m, q)
  BY <1>1
<1>6. Here(r) => r \in l
  OBVIOUS
<1>7. l \subseteq {r}
  OBVIOUS
<1>8. r = t.list[t.at]
  OBVIOUS
<1> HIDE DEF u, l, r, t
<1>9. tx'[m] = u /\ u \notin SaveTx
  BY <1>1, <1>4, Kinds DEF RuleInv, RuleTypes
<1>10. Saving(m)'
  BY <1>9 DEF Saving
<1>11. Ordering(m)'
  <2>1. /\ IsInjective(t.list) /\ \A i \in DOMAIN t.list : Seen(t.list[i])
        /\ \A i \in DOMAIN t.list : i < t.at /\ Here(t.list[i]) => t.list[i] \in t.locks
        /\ t.locks \subseteq Range(t.list)
    BY <1>2 DEF Ordering, t
  <2>2. r \in Range(t.list)
    BY <1>3, <1>8 DEF Range
  <2>3. \A i \in DOMAIN t.list : i < u.at => i < t.at \/ i = t.at
    BY <1>4
  <2>4. \A i \in DOMAIN t.list : i < u.at /\ Here(t.list[i]) => t.list[i] \in u.locks
    BY <1>4, <1>6, <1>8, <2>1, <2>3
  <2>5. u.locks \subseteq Range(u.list)
    BY <1>4, <1>7, <2>1, <2>2
  <2> QED
    BY <1>1, <1>4, <1>9, <2>1, <2>4, <2>5 DEF Ordering, Here, Seen
<1>12. \A q \in u.locks : q \in tx[m].locks \/ (Here(q) /\ ~Locked(m, q))
  BY <1>4, <1>5 DEF t
<1> QED
  BY <1>1, <1>4, <1>10, <1>11, <1>12, RequestStep

LEMMA CommitReorderStep ==
  ASSUME RuleInv, NEW m \in Member, CommitReorder(m)
  PROVE  RuleInv'
<1> DEFINE t == tx[m]
           place(r) == CHOOSE i \in DOMAIN t.list : t.list[i] = r
<1>1. /\ t.do = "reorder" /\ t.at > Len(t.list) /\ UNCHANGED <<work, saved>>
      /\ rule' = [r \in Rule |-> IF r \in t.locks
                                 THEN [rule[r] EXCEPT !.priority = place(r) - 1] ELSE rule[r]]
      /\ ranked' = {p \in Pairs(t.list) : Here(p[1]) /\ Here(p[2])}
      /\ tx' = [tx EXCEPT ![m] = Idle]
  BY DEF CommitReorder
<1>2. t \in OrderTx /\ Ordering(m) /\ Exclusive(m)
  BY <1>1, Kinds DEF RuleInv
<1>3. /\ t.list \in Seq(Rule) /\ t.at \in Nat /\ t.locks \subseteq Rule
      /\ IsInjective(t.list)
      /\ \A i \in DOMAIN t.list : i < t.at /\ Here(t.list[i]) => t.list[i] \in t.locks
      /\ t.locks \subseteq Range(t.list)
      /\ \A r \in t.locks : Here(r) /\ ~Locked(m, r)
  BY <1>2 DEF Ordering, Exclusive, OrderTx
<1>4. \A i \in DOMAIN t.list : i \in Nat \ {0} /\ i < t.at /\ t.list[i] \in Rule
  BY <1>1, <1>3
<1>5. ASSUME NEW i \in DOMAIN t.list PROVE place(t.list[i]) = i
  <2>1. \A j \in DOMAIN t.list : t.list[j] = t.list[i] => j = i
    BY <1>3 DEF IsInjective
  <2> QED
    BY <2>1
<1>6. \A r \in t.locks : \E i \in DOMAIN t.list : t.list[i] = r
  BY <1>3 DEF Range
<1>7. ASSUME NEW r \in t.locks
      PROVE  /\ rule'[r] \in Rows /\ rule'[r].priority = place(r) - 1
             /\ rule'[r].active = rule[r].active /\ rule'[r].all = rule[r].all
             /\ rule'[r].conditions = rule[r].conditions
  <2>1. rule[r] \in Rows
    BY <1>3, HereIsARow DEF RuleInv
  <2>2. place(r) \in Nat \ {0}
    BY <1>4, <1>5, <1>6
  <2>3. rule'[r] = [rule[r] EXCEPT !.priority = place(r) - 1]
    BY <1>1, <1>3
  <2> HIDE DEF place
  <2> QED
    BY <2>1, <2>2, <2>3 DEF Rows
<1>8. \A r \in Rule : r \notin t.locks => rule'[r] = rule[r]
  BY <1>1
<1> HIDE DEF t, place
<1>9. RuleTypes'
  <2>1. rule' = [r \in Rule |-> rule'[r]]
    BY <1>1
  <2>2. rule' \in [Rule -> Rows \cup {None, Gone}]
    BY <1>7, <1>8, <2>1 DEF RuleInv, RuleTypes
  <2> QED
    BY <1>1, <2>2 DEF RuleInv, RuleTypes
<1>10. \A r \in Rule : Here(r)' <=> Here(r)
  <2>1. ASSUME NEW r \in t.locks PROVE Here(r)'
    BY <1>7 DEF Here, Rows, None, Gone
  <2> QED
    BY <1>3, <1>8, <2>1 DEF Here
<1>11. \A r \in Rule : AsSaved(r)'
  BY <1>1, <1>3, <1>7, <1>8 DEF RuleInv, AsSaved, Here
<1>12. Ranked'
  <2> SUFFICES ASSUME NEW p \in ranked'
               PROVE  /\ p \in Rule \X Rule /\ Here(p[1])' /\ Here(p[2])'
                      /\ rule'[p[1]].priority < rule'[p[2]].priority
    BY DEF Ranked
  <2>1. PICK i \in DOMAIN t.list, j \in DOMAIN t.list :
          i < j /\ p = <<t.list[i], t.list[j]>>
    BY <1>1 DEF Pairs
  <2>2. Here(p[1]) /\ Here(p[2]) /\ p[1] = t.list[i] /\ p[2] = t.list[j]
    BY <1>1, <2>1
  <2>3. p[1] \in t.locks /\ p[2] \in t.locks
    BY <1>3, <1>4, <2>2
  <2>4. rule'[p[1]].priority = i - 1 /\ rule'[p[2]].priority = j - 1
    BY <1>5, <1>7, <2>2, <2>3
  <2>5. i \in Nat /\ j \in Nat /\ t.list[i] \in Rule /\ t.list[j] \in Rule
    BY <1>4
  <2> QED
    BY <1>10, <2>1, <2>2, <2>4, <2>5
<1>13. \A n \in Member : Exclusive(n)' /\ Saving(n)' /\ Ordering(n)'
  <2>1. \A r \in Rule : rule'[r] = rule[r] \/ ~Locked(m, r)
    BY <1>3, <1>8
  <2>2. \A r \in Rule : Seen(r) => Seen(r)'
    BY <1>7, <1>8 DEF Seen, Rows, None
  <2> QED
    BY <1>1, <1>9, <1>10, <2>1, <2>2, EndsAlone
<1> QED
  BY <1>1, <1>9, <1>11, <1>12, <1>13 DEF RuleInv

LEMMA RollBackStep ==
  ASSUME RuleInv, NEW m \in Member, RollBack(m)
  PROVE  RuleInv'
<1>1. tx' = [tx EXCEPT ![m] = Idle] /\ UNCHANGED <<work, rule, saved, ranked>>
  BY DEF RollBack
<1>2. tx'[m] = Idle
  BY <1>1 DEF RuleInv, RuleTypes
<1>3. Saving(m)' /\ Ordering(m)'
  BY <1>2, Kinds DEF RuleInv, Saving, Ordering
<1>4. Idle.locks = {}
  BY DEF Idle
<1> QED
  BY <1>1, <1>3, <1>4, RequestStep

LEMMA RuleNext == RuleInv /\ [Next]_vars => RuleInv'
<1> SUFFICES ASSUME RuleInv, [Next]_vars PROVE RuleInv'
  OBVIOUS
<1>1. /\ work.rules \subseteq Rule /\ work.bodies \subseteq Body
      /\ \A l \in work.lists : l \in Seq(Rule) /\ IsInjective(l)
  BY FilterRulesAssumption DEF RuleInv
<1>2. ASSUME NEW m \in Member, Filtering(m) PROVE RuleInv'
  <2>1. ASSUME NEW r \in work.rules, NEW body \in work.bodies,
               CreateFilterRule(m, r, body) \/ StartUpdate(m, r, body)
        PROVE  RuleInv'
    BY <1>1, <2>1, CreateStep, StartUpdateStep
  <2>2. ASSUME NEW r \in work.rules, DeleteFilterRule(m, r) PROVE RuleInv'
    BY <1>1, <2>2, DeleteStep
  <2>3. ASSUME NEW list \in work.lists, StartReorder(m, list) PROVE RuleInv'
    BY <1>1, <2>3, StartReorderStep
  <2> QED
    BY <1>2, <2>1, <2>2, <2>3, SaveStep, CommitUpdateStep, PlaceNextStep, CommitReorderStep,
       RollBackStep DEF Filtering
<1>3. ASSUME NEW m \in Member, Blocked(m) PROVE RuleInv'
  BY <1>3, RulesLeftAlone
     DEF Blocked, BlockSender, UnblockSender, ToggleRead, ReadBlock, ToggleDelete,
         ToggleCreate, ToggleFails
<1>4. ASSUME NEW m \in Member, Contacts(m) PROVE RuleInv'
  BY <1>4, RulesLeftAlone
     DEF Contacts, CreateContact, UpdateContact, DeleteContact, ToggleFavorite,
         AddContactFromEmail, SetContact
<1>5. CASE UNCHANGED vars
  BY <1>5, RulesLeftAlone DEF vars, filterVars
<1> QED
  BY <1>2, <1>3, <1>4, <1>5 DEF Next

\* A message meets a rule as it was saved, and those before it in the order first.
LEMMA RuleInvActs == RuleInv => RulesActAsSaved
<1> SUFFICES ASSUME RuleInv, NEW msg \in Message, NEW r \in Chosen(msg) \cap Rule
             PROVE  /\ saved[r].active /\ "yes" \in Evaluate(saved[r], msg)
                    /\ \A p \in ranked : p[2] = r /\ saved[p[1]].active
                                           => "no" \in Evaluate(saved[p[1]], msg)
  BY DEF RulesActAsSaved
<1>1. r # "error" /\ r # "none"
  BY FilterRulesAssumption
<1>2. /\ r \in Active /\ "yes" \in Evaluate(rule[r], msg)
      /\ \A q \in Active : rule[q].priority < rule[r].priority => "no" \in Evaluate(rule[q], msg)
  BY <1>1 DEF Chosen
<1>3. ASSUME NEW q \in Rule, Here(q)
      PROVE  rule[q].active = saved[q].active /\ Evaluate(rule[q], msg) = Evaluate(saved[q], msg)
  <2>1. AsSaved(q)
    BY DEF RuleInv
  <2> QED
    BY <1>3, <2>1 DEF AsSaved, Evaluate
<1>4. saved[r].active /\ "yes" \in Evaluate(saved[r], msg)
  BY <1>2, <1>3 DEF Active
<1>5. ASSUME NEW p \in ranked, p[2] = r, saved[p[1]].active
      PROVE  "no" \in Evaluate(saved[p[1]], msg)
  <2>1. p[1] \in Rule /\ Here(p[1]) /\ rule[p[1]].priority < rule[p[2]].priority
    BY DEF RuleInv, Ranked
  <2>2. p[1] \in Active
    BY <1>3, <1>5, <2>1 DEF Active
  <2> QED
    BY <1>2, <1>3, <1>5, <2>1, <2>2
<1> QED
  BY <1>4, <1>5

\* However saves, deletions and orders of several members come between each other
\* (handleFilterRuleUpdate, handleFilterRuleDelete, handleFilterRuleReorder): the rule
\* that Match applies is one that the message matches as it was last saved, and no
\* rule put before it by the last order matches too.
THEOREM RulesAct == Spec => []RulesActAsSaved
BY RuleInitially, RuleNext, RuleInvActs, PTL DEF Spec

-----------------------------------------------------------------------------
\* Block rules are patterns made of addresses, with numbers of their own.
Records ==
  /\ block \subseteq [id : 0..MaxBlocks, pattern : Address]
  /\ blocks \in 0..MaxBlocks
  /\ \A c \in Contact : Listed(c) => contact[c].favorite \in BOOLEAN

LEMMA RecordsInit == Init => Records
BY FilterRulesAssumption DEF Init, Records, Listed

LEMMA RecordsStay == ASSUME Records, UNCHANGED <<block, blocks, contact>> PROVE Records'
BY DEF Records, Listed

LEMMA RecordMade ==
  ASSUME Records, NEW a \in Address, CreateBlockRule(a), UNCHANGED contact PROVE Records'
<1>1. blocks \in 0..MaxBlocks /\ blocks' \in 0..MaxBlocks
  BY FilterRulesAssumption DEF Records, CreateBlockRule
<1>2. [id |-> blocks, pattern |-> a] \in [id : 0..MaxBlocks, pattern : Address]
  BY <1>1
<1>3. block' \subseteq [id : 0..MaxBlocks, pattern : Address]
  BY <1>2 DEF Records, CreateBlockRule
<1> QED
  BY <1>1, <1>3 DEF Records, Listed

LEMMA RecordGone ==
  ASSUME Records, NEW b, DeleteBlockRule(b), UNCHANGED <<blocks, contact>> PROVE Records'
BY DEF Records, DeleteBlockRule, Listed

LEMMA RecordsBlocked ==
  ASSUME BlockInv, ContactsOK, Records, NEW m \in Member, Blocked(m) PROVE Records'
<1>1. ASSUME NEW a \in work.addresses, NEW confirmed \in BOOLEAN, BlockSender(m, a, confirmed)
      PROVE  Records'
  <2>1. a \in Address
    BY FilterRulesAssumption DEF BlockInv
  <2> QED
    BY <1>1, <2>1, RecordMade DEF BlockSender
<1>2. ASSUME NEW c, ToggleRead(m, c) PROVE Records'
  BY <1>2, RecordsStay DEF ToggleRead, ReadBlock
<1>3. ASSUME NEW b, UnblockSender(m, b) PROVE Records'
  BY <1>3, RecordGone DEF UnblockSender
<1>4. CASE ToggleDelete(m)
  BY <1>4, RecordGone DEF ToggleDelete
<1>5. CASE ToggleCreate(m)
  <2>1. toggle[m].address \in Address
    BY <1>5 DEF ToggleCreate, BlockInv, ToggleOK
  <2> QED
    BY <1>5, <2>1, RecordMade DEF ToggleCreate
<1>6. CASE ToggleFails(m)
  BY <1>6, RecordsStay DEF ToggleFails
<1> QED
  BY <1>1, <1>2, <1>3, <1>4, <1>5, <1>6 DEF Blocked

LEMMA RecordsOfContacts ==
  ASSUME BlockInv, Records, NEW m \in Member, Contacts(m) PROVE Records'
<1>0. /\ work.contacts \subseteq Contact
      /\ \A f \in work.forms : f.favorite \in BOOLEAN
  BY FilterRulesAssumption DEF BlockInv
<1>1. ASSUME NEW c, NEW row, SetContact(c, row), row \notin {None, Gone} => row.favorite \in BOOLEAN
      PROVE  Records'
  <2>1. UNCHANGED <<block, blocks>>
    BY <1>1 DEF SetContact
  <2>2. \A d \in Contact : contact'[d] = contact[d] \/ contact'[d] = row
    BY <1>1 DEF SetContact
  <2>3. \A d \in Contact : Listed(d)' => contact'[d].favorite \in BOOLEAN
    BY <1>1, <2>2 DEF Records, Listed
  <2> QED
    BY <2>1, <2>3 DEF Records
<1>2. ASSUME NEW a, NEW favorite \in BOOLEAN PROVE Entry(a, favorite).favorite \in BOOLEAN
  BY DEF Entry
<1>3. PICK c \in work.contacts :
        \/ \E form \in work.forms : CreateContact(m, c, form) \/ UpdateContact(m, c, form)
        \/ DeleteContact(m, c) \/ ToggleFavorite(m, c)
        \/ \E a \in work.addresses : AddContactFromEmail(m, c, a)
  BY DEF Contacts
<1>4. CASE DeleteContact(m, c)
  BY <1>1, <1>4 DEF DeleteContact
<1>5. CASE ToggleFavorite(m, c)
  <2>1. (~contact[c].favorite) \in BOOLEAN
    OBVIOUS
  <2> QED
    BY <1>1, <1>2, <1>5, <2>1 DEF ToggleFavorite
<1>6. CASE \E form \in work.forms : CreateContact(m, c, form) \/ UpdateContact(m, c, form)
  BY <1>0, <1>1, <1>2, <1>6 DEF CreateContact, UpdateContact
<1>7. CASE \E a \in work.addresses : AddContactFromEmail(m, c, a)
  BY <1>1, <1>2, <1>7 DEF AddContactFromEmail
<1> QED
  BY <1>3, <1>4, <1>5, <1>6, <1>7

LEMMA RecordsNext ==
  ASSUME BlockInv, ContactsOK, Records, [Next]_vars PROVE Records'
<1>1. ASSUME NEW m \in Member, Filtering(m) PROVE Records'
  BY <1>1, RecordsStay
     DEF Filtering, CreateFilterRule, StartUpdate, DeleteFilterRule, StartReorder,
         UpdateRow, ClearConditions, InsertConditions, CommitUpdate, PlaceNext,
         CommitReorder, RollBack, blockVars
<1>2. CASE UNCHANGED vars
  BY <1>2, RecordsStay DEF vars
<1> QED
  BY <1>1, <1>2, RecordsBlocked, RecordsOfContacts DEF Next

\* The types of FilterRules: rules that are there have been saved, those in order are there,
\* blocks and contacts have addresses (CreateFilterRule, CreateBlockRule, CreateContact).
THEOREM TypeCorrect == Spec => []TypeOK
<1> DEFINE Inv == RuleInv /\ BlockInv /\ ContactsOK /\ Records
<1>1. Init => Inv
  BY RuleInitially, BlockInit, RecordsInit
<1>2. Inv /\ [Next]_vars => Inv'
  BY RuleNext, BlockNext, RecordsNext
<1>3. Inv => TypeOK
  <2> SUFFICES ASSUME Inv PROVE TypeOK
    OBVIOUS
  <2>1. ASSUME NEW r \in Rule, Here(r) PROVE rule[r].priority \in Nat /\ saved[r] \in Body
    <3>1. rule[r] \in Rows
      BY <2>1, HereIsARow DEF RuleInv
    <3> QED
      BY <2>1, <3>1 DEF RuleInv, AsSaved, Rows
  <2> QED
    BY <2>1 DEF RuleInv, Ranked, BlockInv, HeldSafely, ContactsOK, Records, TypeOK
<1> QED
  BY <1>1, <1>2, <1>3, PTL DEF Spec
=============================================================================
