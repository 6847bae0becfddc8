------------------------- MODULE MailboxViewProofs -------------------------
(***************************************************************************)
(* The rows of emails, as they are listed and announced and as they are    *)
(* purged.                                                                 *)
(*                                                                         *)
(* No tab misses mail, for any number of tabs, emails and any capacity of  *)
(* their channels: an email that no event in the channel stands for is     *)
(* only dropped when the channel is full, and a full channel holds one.    *)
(*                                                                         *)
(* No email is skipped by the list, for any emails, sizes of pages and     *)
(* changes of rows in between.  A page takes the first of the rows found   *)
(* (Pages, which rests on Numbered: the rows found are numbered by how     *)
(* many come before each); what has stayed in the view since is in the     *)
(* list, or is older than its last row, which the next page starts from    *)
(* (Answered).                                                             *)
(*                                                                         *)
(* The numbers beside the list agree with it, and what is shown of an      *)
(* email (Reading) is what was saved, with its absolute URLs proxied.      *)
(*                                                                         *)
(* The last part is about TrashPurge, for any emails, requests and         *)
(* purgers and any retention time.  What a purge deletes and marks it has  *)
(* once listed, and then does not look again: what makes its promises hold *)
(* is that what it has listed stays overdue (Listed), and that of an email *)
(* it is about to mark nothing is left (Deleted).                          *)
(***************************************************************************)
EXTENDS MailboxView, FiniteSetTheorems, TLAPS

Stages == {"closed", "waiting", "writing", "written"}

StreamsOK ==
  /\ stream \in [Tab -> [at : Stages, queue : 0..Capacity]]
  /\ \A t \in Tab : stream[t].at = "closed" => stream[t] = Closed

HeardInv ==
  /\ StreamsOK
  /\ unheard \in [Tab -> SUBSET Email]
  /\ NothingUnannounced

-----------------------------------------------------------------------------
LEMMA HeardInit == Init => HeardInv
BY MailboxViewAssumption
   DEF Init, HeardInv, StreamsOK, Stages, Closed, NothingUnannounced

LEMMA ListingKeepsStreams ==
  ASSUME HeardInv, UNCHANGED <<stream, unheard>>
  PROVE  HeardInv'
BY DEF HeardInv, StreamsOK, NothingUnannounced

\* An event is in the channel once it has been offered.
LEMMA OfferedIsHeld ==
  ASSUME NEW s \in [at : Stages, queue : 0..Capacity], s.at # "closed"
  PROVE  /\ Offered(s) \in [at : Stages, queue : 0..Capacity]
         /\ Offered(s).at = s.at /\ Offered(s).queue > 0
<1>1. Capacity \in Nat /\ Capacity > 0 /\ s.queue \in 0..Capacity
  BY MailboxViewAssumption
<1>2. CASE s.queue < Capacity
  BY <1>1, <1>2 DEF Offered
<1>3. CASE s.queue = Capacity
  BY <1>1, <1>3 DEF Offered
<1> QED
  BY <1>1, <1>2, <1>3

LEMMA BroadcastStep ==
  ASSUME HeardInv, NEW e \in Email, Broadcast(e)
  PROVE  HeardInv'
<1>1. ASSUME NEW t \in Tab, stream[t] # Closed
      PROVE  /\ stream'[t] \in [at : Stages, queue : 0..Capacity]
             /\ stream'[t].at # "closed" /\ stream'[t].queue > 0
  BY <1>1, OfferedIsHeld DEF HeardInv, StreamsOK, Broadcast
<1>2. ASSUME NEW t \in Tab, stream[t] = Closed
      PROVE  stream'[t] = Closed /\ unheard'[t] = {}
  BY <1>2 DEF Broadcast, Offered, Closed
<1>3. StreamsOK'
  BY <1>1, <1>2, MailboxViewAssumption DEF StreamsOK, HeardInv, Broadcast, Closed, Stages
<1>4. unheard' \in [Tab -> SUBSET Email]
  BY DEF HeardInv, Broadcast
<1>5. NothingUnannounced'
  BY <1>1, <1>2 DEF NothingUnannounced
<1> QED
  BY <1>3, <1>4, <1>5 DEF HeardInv

LEMMA StreamStep ==
  ASSUME HeardInv, NEW t \in Tab,
         Connect(t) \/ Disconnect(t) \/ TakeEvent(t) \/ Heartbeat(t) \/ Flush(t) \/ Wait(t)
  PROVE  HeardInv'
<1> USE MailboxViewAssumption
<1>1. CASE Connect(t)
  BY <1>1 DEF HeardInv, StreamsOK, Stages, Closed, NothingUnannounced, Connect
<1>2. CASE Disconnect(t)
  BY <1>2 DEF HeardInv, StreamsOK, Stages, Closed, NothingUnannounced, Disconnect
<1>3. CASE TakeEvent(t)
  BY <1>3 DEF HeardInv, StreamsOK, Stages, Closed, NothingUnannounced, TakeEvent
<1>4. CASE Heartbeat(t)
  BY <1>4 DEF HeardInv, StreamsOK, Stages, Closed, NothingUnannounced, Heartbeat
<1>5. CASE Flush(t)
  BY <1>5 DEF HeardInv, StreamsOK, Stages, Closed, NothingUnannounced, Flush
<1>6. CASE Wait(t)
  BY <1>6 DEF HeardInv, StreamsOK, Stages, Closed, NothingUnannounced, Wait
<1> QED
  BY <1>1, <1>2, <1>3, <1>4, <1>5, <1>6

LEMMA HeardNext ==
  ASSUME HeardInv, Next, \A w \in Scenes : w.tabs \subseteq Tab, scene \in Scenes
  PROVE  HeardInv'
<1>1. ASSUME NEW v \in scene.views, AskFirst(v) PROVE HeardInv'
  BY <1>1, ListingKeepsStreams DEF AskFirst
<1>2. ASSUME ShowFirst \/ AskMore \/ ShowMore \/ AskFails PROVE HeardInv'
  BY <1>2, ListingKeepsStreams DEF ShowFirst, AskMore, ShowMore, AskFails
<1>3. ASSUME NEW rows, Elsewhere(rows) \/ Bulk(rows) PROVE HeardInv'
  BY <1>3, ListingKeepsStreams DEF Elsewhere, Bulk, Update
<1>4. ASSUME NEW e \in Email, NEW x, Store(e, x) PROVE HeardInv'
  BY <1>4, ListingKeepsStreams DEF Store
<1>5. ASSUME NEW e \in Email,
             \/ MarkRead(e)
             \/ \E status \in Statuses : SetStatus(e, status)
             \/ \E star \in BOOLEAN : SetStar(e, star)
             \/ \E c \in Category : SetCategory(e, c)
      PROVE  HeardInv'
  BY <1>3, <1>5 DEF MarkRead, SetStatus, SetStar, SetCategory
<1>6. ASSUME NEW es \in SUBSET Range(list) \ {{}},
             \/ \E read \in BOOLEAN : Bulk(WithRead(es, read))
             \/ Bulk(WithStatus(es, "DELETED"))
      PROVE  HeardInv'
  BY <1>3, <1>6
<1>7. ASSUME NEW t \in scene.tabs,
             Connect(t) \/ Disconnect(t) \/ TakeEvent(t) \/ Heartbeat(t) \/ Flush(t) \/ Wait(t)
      PROVE  HeardInv'
  BY <1>7, StreamStep
<1> QED
  BY <1>1, <1>2, <1>4, <1>5, <1>6, <1>7, BroadcastStep DEF Next

LEMMA SceneStays == scene \in Scenes /\ [Next]_vars => scene' \in Scenes
BY DEF Next, vars, AskFirst, ShowFirst, AskMore, ShowMore, AskFails, MarkRead, SetStatus,
       SetStar, SetCategory, Elsewhere, Update, Bulk, Store, Broadcast, Connect, Disconnect,
       TakeEvent, Heartbeat, Flush, Wait

-----------------------------------------------------------------------------
\* Whatever events are lost to a full channel (Hub.Broadcast), a tab that listens
\* (handleEvents) asks for its list after every email announced to it.
THEOREM NoMailUnannounced == Spec => []NothingUnannounced
<1> DEFINE Inv == scene \in Scenes /\ HeardInv
<1>0. \A w \in Scenes : w.tabs \subseteq Tab
  BY MailboxViewAssumption DEF Scene
<1>1. Init => Inv
  BY HeardInit DEF Init
<1>2. Inv /\ [Next]_vars => Inv'
  <2>1. ASSUME Inv, Next PROVE Inv'
    BY <1>0, <2>1, HeardNext, SceneStays
  <2>2. ASSUME Inv, UNCHANGED vars PROVE Inv'
    BY <2>2, ListingKeepsStreams DEF vars
  <2> QED
    BY <2>1, <2>2
<1>3. Inv => NothingUnannounced
  BY DEF HeardInv
<1> QED
  BY <1>1, <1>2, <1>3, PTL DEF Spec

-----------------------------------------------------------------------------
(* The list *)

\* A list in the order of the pages, without repetition.
Ordered(s) ==
  /\ s \in Seq(Email)
  /\ \A i, j \in 1..Len(s) : i < j => Newer(s[i], s[j])

\* The emails es are in s, or would be in what follows it.
Reaches(s, goesOn, es) ==
  \A e \in es :
    \/ \E i \in 1..Len(s) : s[i] = e
    \/ goesOn /\ s # <<>> /\ Older(e, s[Len(s)])

ListOK ==
  /\ Ordered(list) /\ more \in BOOLEAN /\ (more => list # <<>>)
  /\ view \in View \cup {NoView}

\* Once the request has been answered, all that has been in the view is shown, or
\* will be.
Answered ==
  /\ request = NoRequest \/ request.kind \in {"first", "more"}
  /\ request = NoRequest =>
       steady \subseteq Matching(view, row) /\ Reaches(list, more, steady)
  /\ request.kind = "first" =>
       /\ request.view \in View /\ Ordered(request.rows)
       /\ steady \subseteq Matching(request.view, row)
       /\ Reaches(request.rows, HasMore(request.rows), steady)
  /\ request.kind = "more" =>
       /\ Ordered(request.rows) /\ Ordered(list \o request.rows)
       /\ steady \subseteq Matching(view, row)
       /\ Reaches(list \o request.rows, HasMore(request.rows), steady)

RowsOK ==
  /\ scene \in Scenes
  /\ row = [e \in Email |-> row[e]]
  /\ IsFiniteSet(Present)

PagingInv == RowsOK /\ ListOK /\ Answered
-----------------------------------------------------------------------------
LEMMA Order ==
  /\ \A e, f \in Email : Newer(e, f) <=> Older(f, e)
  /\ \A e, f \in Email : e # f => Newer(e, f) \/ Newer(f, e)
  /\ \A e \in Email : ~Newer(e, e)
  /\ \A e, f, g \in Email : Newer(e, f) /\ Newer(f, g) => Newer(e, g)
<1>1. \A e \in Email : e \in Nat /\ TimeOf[e] \in Nat
  BY MailboxViewAssumption
<1> QED
  BY <1>1 DEF Newer, Older

\* The rows found are numbered by how many come before them.
LEMMA Numbered ==
  ASSUME NEW found \in SUBSET Email, IsFiniteSet(found)
  PROVE  /\ Cardinality(found) \in Nat
         /\ \A e \in found : Cardinality(Before(e, found)) \in 0..(Cardinality(found) - 1)
         /\ \A e, f \in found :
              Newer(e, f) <=> Cardinality(Before(e, found)) < Cardinality(Before(f, found))
         /\ \A i \in 1..Cardinality(found) :
              \E e \in found : Cardinality(Before(e, found)) = i - 1
<1> DEFINE n == Cardinality(found)
           Rank(e) == Cardinality(Before(e, found))
<1>0. n \in Nat
  BY FS_CardinalityType
<1>1. ASSUME NEW e \in found PROVE Rank(e) \in 0..(n - 1)
  <2>1. Before(e, found) \in SUBSET found /\ Before(e, found) # found
    BY <1>1, Order DEF Before
  <2>2. IsFiniteSet(Before(e, found)) /\ Rank(e) <= n /\ Rank(e) # n
    BY <2>1, FS_Subset
  <2>3. Rank(e) \in Nat
    BY <2>2, FS_CardinalityType
  <2> QED
    BY <1>0, <2>2, <2>3
<1>2. ASSUME NEW e \in found, NEW f \in found, Newer(e, f) PROVE Rank(e) < Rank(f)
  <2>1. Before(f, found) \in SUBSET found
    BY DEF Before
  <2>2. IsFiniteSet(Before(f, found))
    BY <2>1, FS_Subset
  <2>3. Before(e, found) \in SUBSET Before(f, found) /\ Before(e, found) # Before(f, found)
    BY <1>2, Order DEF Before
  <2>4. Rank(e) <= Rank(f) /\ Rank(e) # Rank(f)
    BY <2>2, <2>3, FS_Subset
  <2> QED
    BY <1>0, <1>1, <2>4
<1>3. ASSUME NEW e \in found, NEW f \in found PROVE Newer(e, f) <=> Rank(e) < Rank(f)
  <2>1. Rank(e) \in Int /\ Rank(f) \in Int
    BY <1>0, <1>1
  <2>2. e = f \/ Newer(e, f) \/ Newer(f, e)
    BY Order
  <2>3. e = f => ~Newer(e, f)
    BY Order
  <2>4. Newer(f, e) => ~Newer(e, f)
    BY Order
  <2> QED
    BY <1>2, <2>1, <2>2, <2>3, <2>4
<1>4. ASSUME NEW i \in 1..n PROVE \E e \in found : Rank(e) = i - 1
  <2> DEFINE place == [e \in found |-> Rank(e) + 1]
  <2> HIDE DEF Rank
  <2>1. place \in [found -> 1..n]
    BY <1>0, <1>1
  <2>2. \A e, f \in found : place[e] = place[f] => e = f
    <3>1. ASSUME NEW e \in found, NEW f \in found, place[e] = place[f] PROVE e = f
      <4>1. Rank(e) = Rank(f)
        BY <1>0, <1>1, <3>1
      <4>2. ~Newer(e, f) /\ ~Newer(f, e)
        BY <1>0, <1>1, <1>3, <4>1
      <4> QED
        BY <4>2, Order
    <3> QED
      BY <3>1
  <2>3. place \in Injection(found, 1..n)
    BY <2>1, <2>2 DEF Injection, IsInjective
  <2>4. IsFiniteSet(1..n) /\ Cardinality(1..n) = n
    BY <1>0, FS_Interval
  <2>5. place \in Surjection(found, 1..n)
    BY <2>3, <2>4, FS_Injection
  <2>6. PICK e \in found : place[e] = i
    BY <2>5 DEF Surjection
  <2> QED
    BY <1>0, <1>1, <2>6
<1> QED
  BY <1>0, <1>1, <1>3, <1>4

\* A page is in order, consists of rows found, and leaves out none but older ones
\* that the next page has.
LEMMA Pages ==
  ASSUME NEW found \in SUBSET Email, IsFiniteSet(found)
  PROVE  /\ Ordered(Page(found))
         /\ \A i \in 1..Len(Page(found)) : Page(found)[i] \in found
         /\ Reaches(Page(found), HasMore(Page(found)), found)
<1> DEFINE n == Cardinality(found)
           Rank(e) == Cardinality(Before(e, found))
           k == Min({PageSize, n})
           p == Page(found)
<1>0. n \in Nat /\ PageSize \in Nat \ {0}
  BY Numbered, MailboxViewAssumption
<1>1. k \in Nat /\ k <= n /\ k <= PageSize /\ (k = n \/ k = PageSize)
  <2>1. CASE n <= PageSize
    <3>1. n \in {PageSize, n} /\ \A y \in {PageSize, n} : n <= y
      BY <1>0, <2>1
    <3>2. k \in {PageSize, n} /\ \A y \in {PageSize, n} : k <= y
      BY <3>1 DEF Min
    <3> QED
      BY <1>0, <3>2
  <2>2. CASE PageSize <= n
    <3>1. PageSize \in {PageSize, n} /\ \A y \in {PageSize, n} : PageSize <= y
      BY <1>0, <2>2
    <3>2. k \in {PageSize, n} /\ \A y \in {PageSize, n} : k <= y
      BY <3>1 DEF Min
    <3> QED
      BY <1>0, <3>2
  <2> QED
    BY <1>0, <2>1, <2>2
<1>2. ASSUME NEW i \in 1..k PROVE p[i] \in found /\ Rank(p[i]) = i - 1
  <2>1. i \in 1..n
    BY <1>0, <1>1
  <2>2. \E e \in found : Rank(e) = i - 1
    BY <2>1, Numbered
  <2>3. p[i] = CHOOSE e \in found : Rank(e) = i - 1
    BY DEF Page
  <2> QED
    BY <2>2, <2>3
<1>3. p \in Seq(Email) /\ Len(p) = k
  <2>1. p = [i \in 1..k |-> p[i]]
    BY DEF Page
  <2> HIDE DEF p, k
  <2>2. p \in [1..k -> Email]
    BY <1>2, <2>1
  <2> QED
    BY <1>1, <2>2
<1> HIDE DEF p, k
<1>4. ASSUME NEW i \in 1..k, NEW j \in 1..k, i < j PROVE Newer(p[i], p[j])
  <2>1. Rank(p[i]) = i - 1 /\ Rank(p[j]) = j - 1 /\ p[i] \in found /\ p[j] \in found
    BY <1>2, <1>4
  <2>2. Rank(p[i]) < Rank(p[j])
    BY <1>1, <1>4, <2>1
  <2> QED
    BY <2>1, <2>2, Numbered
<1>5. ASSUME NEW e \in found
      PROVE  \/ \E i \in 1..k : p[i] = e
             \/ k = PageSize /\ p # <<>> /\ Older(e, p[k])
  <2> DEFINE r == Rank(e) + 1
  <2>1. Rank(e) \in 0..(n - 1)
    BY Numbered
  <2>2. CASE r <= k
    <3>1. r \in 1..k
      BY <1>0, <1>1, <2>1, <2>2
    <3>2. p[r] \in found /\ Rank(p[r]) = Rank(e)
      BY <1>0, <1>2, <2>1, <3>1
    <3>3. ~Newer(p[r], e) /\ ~Newer(e, p[r])
      BY <1>0, <2>1, <3>2, Numbered
    <3>4. p[r] = e
      BY <3>2, <3>3, Order
    <3> QED
      BY <3>1, <3>4
  <2>3. CASE r > k
    <3>1. k = PageSize /\ k \in 1..k
      BY <1>0, <1>1, <2>1, <2>3
    <3>2. p[k] \in found /\ Rank(p[k]) < Rank(e)
      BY <1>0, <1>1, <1>2, <2>1, <2>3, <3>1
    <3>3. Older(e, p[k])
      BY <3>2, Numbered, Order
    <3> QED
      BY <1>0, <1>3, <3>1, <3>3
  <2> QED
    BY <1>0, <1>1, <2>1, <2>2, <2>3
<1> QED
  BY <1>2, <1>3, <1>4, <1>5 DEF Ordered, Reaches, HasMore, p
-----------------------------------------------------------------------------
LEMMA PresentIs == ASSUME NEW v, NEW rows PROVE Matching(v, rows) \subseteq {e \in Email : rows[e] # Absent}
BY DEF Matching

\* What the database finds among finitely many rows.
LEMMA Found ==
  ASSUME RowsOK, NEW v, NEW e \in Email
  PROVE  /\ Matching(v, row) \in SUBSET Email /\ IsFiniteSet(Matching(v, row))
         /\ LET found == {f \in Matching(v, row) : Older(f, e)}
            IN  found \in SUBSET Email /\ IsFiniteSet(found)
<1>1. Matching(v, row) \in SUBSET Present
  BY PresentIs DEF Present
<1>2. {f \in Matching(v, row) : Older(f, e)} \in SUBSET Present
  BY <1>1
<1>3. IsFiniteSet(Present) /\ Present \in SUBSET Email
  BY DEF RowsOK, Present
<1> QED
  BY <1>1, <1>2, <1>3, FS_Subset

LEMMA Filtered ==
  ASSUME NEW v \in View \cup {NoView}, NEW rows
  PROVE  Matching(v, rows) \subseteq Matching([v EXCEPT !.category = ""], rows)
<1>1. /\ [v EXCEPT !.category = ""].category = ""
      /\ [v EXCEPT !.category = ""].filter = v.filter
  BY DEF View, NoView
<1> QED
  BY <1>1 DEF Matching, InCategory

LEMMA ReachesFewer ==
  ASSUME NEW s, NEW goesOn, NEW es, NEW fs, fs \subseteq es, Reaches(s, goesOn, es)
  PROVE  Reaches(s, goesOn, fs)
BY DEF Reaches

\* A page that comes after the list's last row continues it.
LEMMA Continued ==
  ASSUME NEW s \in Seq(Email), NEW p \in Seq(Email), Ordered(s), Ordered(p), s # <<>>,
         \A i \in 1..Len(p) : Older(p[i], s[Len(s)])
  PROVE  /\ Ordered(s \o p)
         /\ \A i \in 1..Len(s) : i \in 1..Len(s \o p) /\ (s \o p)[i] = s[i]
         /\ \A i \in 1..Len(p) : Len(s) + i \in 1..Len(s \o p) /\ (s \o p)[Len(s) + i] = p[i]
         /\ p # <<>> => s \o p # <<>> /\ (s \o p)[Len(s \o p)] = p[Len(p)]
<1> DEFINE m == Len(s)
           n == Len(p)
           q == s \o p
<1>1. m \in Nat \ {0} /\ n \in Nat /\ q \in Seq(Email) /\ Len(q) = m + n
  OBVIOUS
<1>2. /\ \A i \in 1..m : q[i] = s[i] /\ s[i] \in Email
      /\ \A i \in 1..n : q[m + i] = p[i] /\ p[i] \in Email
  OBVIOUS
<1>3. p # <<>> => n # 0
  OBVIOUS
<1> HIDE DEF q, m, n
<1>4. \A i \in 1..(m + n) : i \in 1..m \/ (i - m \in 1..n /\ i = m + (i - m))
  BY <1>1
<1>5. ASSUME NEW i \in 1..m PROVE s[i] = s[m] \/ Newer(s[i], s[m])
  <2>1. i = m \/ i < m
    BY <1>1
  <2>2. m \in 1..Len(s) /\ i \in 1..Len(s)
    BY <1>1 DEF m
  <2> QED
    BY <2>1, <2>2 DEF Ordered
<1>6. ASSUME NEW i \in 1..(m + n), NEW j \in 1..(m + n), i < j PROVE Newer(q[i], q[j])
  <2>1. CASE i \in 1..m /\ j \in 1..m
    BY <1>2, <1>6, <2>1 DEF Ordered, m
  <2>2. CASE i \in 1..m /\ j - m \in 1..n
    <3>1. q[i] = s[i] /\ q[j] = p[j - m] /\ s[i] \in Email /\ s[m] \in Email /\ p[j - m] \in Email
      BY <1>1, <1>2, <1>4, <2>2
    <3>2. Newer(s[m], p[j - m])
      BY <2>2, <3>1, Order DEF m, n
    <3> QED
      BY <1>5, <2>2, <3>1, <3>2, Order
  <2>3. CASE i - m \in 1..n /\ j - m \in 1..n
    <3>1. q[i] = p[i - m] /\ q[j] = p[j - m] /\ i - m < j - m
      BY <1>1, <1>2, <1>6, <2>3
    <3> QED
      BY <2>3, <3>1 DEF Ordered, n
  <2>4. ~(i - m \in 1..n /\ j \in 1..m)
    BY <1>1, <1>6
  <2> QED
    BY <1>4, <2>1, <2>2, <2>3, <2>4
<1>7. Ordered(q)
  BY <1>1, <1>6 DEF Ordered
<1>8. ASSUME p # <<>> PROVE q # <<>> /\ q[Len(q)] = p[n]
  <2>1. n \in 1..n /\ Len(q) = m + n /\ Len(q) # 0
    BY <1>1, <1>3, <1>8
  <2> QED
    BY <1>2, <2>1
<1>9. /\ \A i \in 1..m : i \in 1..Len(q) /\ q[i] = s[i]
      /\ \A i \in 1..n : m + i \in 1..Len(q) /\ q[m + i] = p[i]
  BY <1>1, <1>2
<1> QED
  BY <1>7, <1>8, <1>9 DEF q, m, n
-----------------------------------------------------------------------------
LEMMA PagingInit == Init => PagingInv
<1> SUFFICES ASSUME Init PROVE PagingInv
  OBVIOUS
<1>1. scene \in Scenes /\ scene.old \subseteq Email /\ IsFiniteSet(scene.old)
  BY MailboxViewAssumption DEF Init, Scene
<1>2. Present \in SUBSET scene.old
  BY DEF Init, Present
<1>3. IsFiniteSet(Present)
  BY <1>1, <1>2, FS_Subset
<1>4. RowsOK
  BY <1>1, <1>3 DEF Init, RowsOK
<1>5. ListOK
  <2>1. list = <<>> /\ ~more /\ more \in BOOLEAN /\ view = NoView
    BY DEF Init
  <2>2. Ordered(<<>>)
    BY DEF Ordered
  <2> QED
    BY <2>1, <2>2 DEF ListOK
<1>6. Answered
  BY DEF Init, Answered, Reaches, NoRequest
<1> QED
  BY <1>4, <1>5, <1>6 DEF PagingInv

\* An answer with the first page of what is in the view.
LEMMA FirstStep ==
  ASSUME PagingInv, NEW v \in View, RowsOK', steady' = Matching(v, row'),
         request' = [kind |-> "first", view |-> v, rows |-> Page(Matching(v, row'))],
         UNCHANGED <<list, more, view>>
  PROVE  PagingInv'
<1>1. Matching(v, row') \in SUBSET Email /\ IsFiniteSet(Matching(v, row'))
  <2>1. Matching(v, row') \in SUBSET Present' /\ IsFiniteSet(Present') /\ Present' \in SUBSET Email
    BY PresentIs DEF RowsOK, Present
  <2> QED
    BY <2>1, FS_Subset
<1>2. /\ request'.kind = "first" /\ request'.view = v /\ request'.rows = Page(Matching(v, row'))
      /\ request' # NoRequest
  BY DEF NoRequest
<1>3. /\ Ordered(request'.rows) /\ Reaches(request'.rows, HasMore(request'.rows), steady')
  BY <1>1, <1>2, Pages
<1>4. Answered'
  BY <1>2, <1>3 DEF Answered
<1>5. ListOK'
  BY DEF PagingInv, ListOK
<1> QED
  BY <1>4, <1>5 DEF PagingInv

LEMMA ShowFirstStep ==
  ASSUME PagingInv, ShowFirst
  PROVE  PagingInv'
<1>1. /\ request.kind = "first" /\ view' = request.view /\ list' = request.rows
      /\ more' = HasMore(request.rows) /\ request' = NoRequest /\ UNCHANGED <<scene, row, steady>>
  BY DEF ShowFirst
<1>2. /\ request.view \in View /\ Ordered(request.rows)
      /\ steady \subseteq Matching(request.view, row)
      /\ Reaches(request.rows, HasMore(request.rows), steady)
  BY <1>1 DEF PagingInv, Answered
<1>3. HasMore(request.rows) \in BOOLEAN /\ (HasMore(request.rows) => request.rows # <<>>)
  BY MailboxViewAssumption DEF HasMore
<1>4. RowsOK'
  BY <1>1 DEF PagingInv, RowsOK, Present
<1>5. ListOK'
  BY <1>1, <1>2, <1>3 DEF ListOK
<1>6. Answered'
  BY <1>1, <1>2 DEF Answered, NoRequest
<1> QED
  BY <1>4, <1>5, <1>6 DEF PagingInv

LEMMA AskMoreStep ==
  ASSUME PagingInv, AskMore
  PROVE  PagingInv'
<1> DEFINE v == [view EXCEPT !.category = ""]
           last == list[Len(list)]
           found == {e \in Matching(v, row) : Older(e, last)}
           p == Page(found)
<1>1. /\ request = NoRequest /\ more /\ request' = [kind |-> "more", rows |-> p]
      /\ UNCHANGED <<scene, row, view, list, more, steady>>
  BY DEF AskMore, NextPage, Last
<1>2. list \in Seq(Email) /\ list # <<>> /\ Ordered(list) /\ last \in Email
  <2>1. Ordered(list) /\ list # <<>>
    BY <1>1 DEF PagingInv, ListOK
  <2> QED
    BY <2>1 DEF Ordered
<1>3. found \in SUBSET Email /\ IsFiniteSet(found)
  BY <1>2, Found DEF PagingInv
<1> HIDE DEF found
<1>4. /\ Ordered(p) /\ \A i \in 1..Len(p) : p[i] \in found
      /\ Reaches(p, HasMore(p), found)
  BY <1>3, Pages
<1>5. p \in Seq(Email) /\ \A i \in 1..Len(p) : Older(p[i], last)
  BY <1>4 DEF Ordered, found
<1> HIDE DEF p, last, v
<1>6. /\ Ordered(list \o p)
      /\ \A i \in 1..Len(list) : i \in 1..Len(list \o p) /\ (list \o p)[i] = list[i]
      /\ \A i \in 1..Len(p) : Len(list) + i \in 1..Len(list \o p) /\ (list \o p)[Len(list) + i] = p[i]
      /\ p # <<>> => list \o p # <<>> /\ (list \o p)[Len(list \o p)] = p[Len(p)]
  BY <1>2, <1>4, <1>5, Continued DEF last
<1>7. ASSUME NEW e \in steady
      PROVE  \/ \E i \in 1..Len(list \o p) : (list \o p)[i] = e
             \/ HasMore(p) /\ list \o p # <<>> /\ Older(e, (list \o p)[Len(list \o p)])
  <2>1. (\E i \in 1..Len(list) : list[i] = e) \/ Older(e, last)
    BY <1>1, <1>7 DEF PagingInv, Answered, Reaches, last
  <2>2. e \in Matching(v, row)
    BY <1>1, <1>7, Filtered DEF PagingInv, Answered, ListOK, v
  <2>3. CASE Older(e, last)
    <3>1. e \in found
      BY <2>2, <2>3 DEF found
    <3>2. (\E i \in 1..Len(p) : p[i] = e) \/ (HasMore(p) /\ p # <<>> /\ Older(e, p[Len(p)]))
      BY <1>4, <3>1 DEF Reaches
    <3> QED
      BY <1>6, <3>2
  <2> QED
    BY <1>6, <2>1, <2>3
<1>8. Reaches(list \o p, HasMore(p), steady)
  BY <1>7 DEF Reaches
<1>9. RowsOK'
  BY <1>1 DEF PagingInv, RowsOK, Present
<1>10. ListOK'
  BY <1>1 DEF PagingInv, ListOK
<1>11. steady \subseteq Matching(view, row)
  BY <1>1 DEF PagingInv, Answered
<1>12. request'.kind = "more" /\ request'.rows = p /\ request' # NoRequest
  BY <1>1 DEF NoRequest
<1>13. Answered'
  BY <1>1, <1>4, <1>6, <1>8, <1>11, <1>12 DEF Answered
<1> QED
  BY <1>9, <1>10, <1>13 DEF PagingInv

LEMMA ShowMoreStep ==
  ASSUME PagingInv, ShowMore
  PROVE  PagingInv'
<1>1. /\ request.kind = "more" /\ list' = list \o request.rows
      /\ more' = HasMore(request.rows) /\ request' = NoRequest
      /\ UNCHANGED <<scene, row, view, steady>>
  BY DEF ShowMore
<1>2. /\ Ordered(list \o request.rows) /\ Ordered(request.rows) /\ Ordered(list)
      /\ steady \subseteq Matching(view, row)
      /\ Reaches(list \o request.rows, HasMore(request.rows), steady)
  BY <1>1 DEF PagingInv, Answered, ListOK
<1>3. HasMore(request.rows) \in BOOLEAN /\ (HasMore(request.rows) => list \o request.rows # <<>>)
  <2>1. list \in Seq(Email) /\ request.rows \in Seq(Email)
    BY <1>2 DEF Ordered
  <2>2. HasMore(request.rows) => Len(request.rows) # 0
    BY MailboxViewAssumption DEF HasMore
  <2>3. Len(request.rows) # 0 => list \o request.rows # <<>>
    BY <2>1
  <2> QED
    BY <2>2, <2>3 DEF HasMore
<1>4. RowsOK'
  BY <1>1 DEF PagingInv, RowsOK, Present
<1>5. ListOK'
  BY <1>1, <1>2, <1>3 DEF PagingInv, ListOK
<1>6. Answered'
  BY <1>1, <1>2 DEF Answered, NoRequest
<1> QED
  BY <1>4, <1>5, <1>6 DEF PagingInv

LEMMA AskFailsStep ==
  ASSUME PagingInv, AskFails
  PROVE  PagingInv'
<1>1. /\ request' = NoRequest /\ UNCHANGED <<scene, row, view, list>>
      /\ more' = more \/ more' = FALSE
      /\ steady' \subseteq Range(list) /\ steady' \subseteq Matching(view, row)
  BY DEF AskFails, PagingInv, Answered
<1>2. \A e \in steady' : \E i \in 1..Len(list) : list[i] = e
  BY <1>1 DEF PagingInv, ListOK, Ordered, Range
<1>3. RowsOK'
  BY <1>1 DEF PagingInv, RowsOK, Present
<1>4. ListOK'
  <2>1. more \in BOOLEAN /\ (more => list # <<>>)
    BY DEF PagingInv, ListOK
  <2>2. CASE more' = more
    BY <1>1, <2>1, <2>2 DEF PagingInv, ListOK
  <2>3. CASE more' = FALSE
    BY <1>1, <2>1, <2>3 DEF PagingInv, ListOK
  <2> QED
    BY <1>1, <2>2, <2>3
<1>5. Answered'
  BY <1>1, <1>2 DEF Answered, NoRequest, Reaches
<1> QED
  BY <1>3, <1>4, <1>5 DEF PagingInv

\* The updates of rows make no new ones.
LEMMA UpdatedRows ==
  ASSUME RowsOK, NEW rows, Update(rows), rows = [e \in Email |-> rows[e]],
         \A e \in Email : row[e] = Absent => rows[e] = Absent
  PROVE  RowsOK'
<1>1. Present' \in SUBSET Present
  BY DEF Update, Present
<1>2. IsFiniteSet(Present')
  BY <1>1, FS_Subset DEF RowsOK
<1> QED
  BY <1>2 DEF RowsOK, Update

LEMMA ElsewhereStep ==
  ASSUME PagingInv, NEW rows, Elsewhere(rows), rows = [e \in Email |-> rows[e]],
         \A e \in Email : row[e] = Absent => rows[e] = Absent
  PROVE  PagingInv'
<1>1. /\ row' = rows /\ UNCHANGED <<scene, view, list, more, request>>
      /\ steady' = steady \cap Matching(Viewed, row')
  BY DEF Elsewhere, Update
<1>2. RowsOK'
  BY UpdatedRows DEF PagingInv, Elsewhere
<1>3. ListOK'
  BY <1>1 DEF PagingInv, ListOK
<1>4. steady' \subseteq steady
  BY <1>1
<1>5. CASE request.kind = "first"
  <2>1. steady' \subseteq Matching(request.view, row')
    BY <1>1, <1>5 DEF Viewed
  <2>2. Reaches(request.rows, HasMore(request.rows), steady')
    BY <1>4, <1>5, ReachesFewer DEF PagingInv, Answered
  <2>3. Answered'
    BY <1>1, <1>5, <2>1, <2>2 DEF PagingInv, Answered, NoRequest
  <2> QED
    BY <1>2, <1>3, <2>3 DEF PagingInv
<1>6. CASE request.kind # "first"
  <2>1. steady' \subseteq Matching(view', row')
    BY <1>1, <1>6 DEF Viewed
  <2>2. request = NoRequest => Reaches(list, more, steady')
    BY <1>4, ReachesFewer DEF PagingInv, Answered
  <2>3. request.kind = "more" => Reaches(list \o request.rows, HasMore(request.rows), steady')
    BY <1>4, ReachesFewer DEF PagingInv, Answered
  <2>4. Answered'
    BY <1>1, <1>6, <2>1, <2>2, <2>3 DEF PagingInv, Answered
  <2> QED
    BY <1>2, <1>3, <2>4 DEF PagingInv
<1> QED
  BY <1>5, <1>6

\* An update may change all of a row but that there is one.
LEMMA RowsStayRows ==
  ASSUME RowsOK, NEW es, NEW x
  PROVE  /\ WithRead(es, x) = [e \in Email |-> WithRead(es, x)[e]]
         /\ WithStatus(es, x) = [e \in Email |-> WithStatus(es, x)[e]]
         /\ \A e \in Email : row[e] = Absent => WithRead(es, x)[e] = Absent
         /\ \A e \in Email : row[e] = Absent => WithStatus(es, x)[e] = Absent
<1>1. \A e \in Email : row[e] = Absent => e \notin Present
  BY DEF Present
<1> QED
  BY <1>1 DEF WithRead, WithStatus

LEMMA OneRowStep ==
  ASSUME PagingInv, NEW e \in Email,
         \/ MarkRead(e)
         \/ \E status \in Statuses : SetStatus(e, status)
         \/ \E star \in BOOLEAN : SetStar(e, star)
         \/ \E c \in Category : SetCategory(e, c)
  PROVE  PagingInv'
<1>1. CASE MarkRead(e)
  BY <1>1, RowsStayRows, ElsewhereStep DEF MarkRead, PagingInv
<1>2. ASSUME NEW status \in Statuses, SetStatus(e, status) PROVE PagingInv'
  BY <1>2, RowsStayRows, ElsewhereStep DEF SetStatus, PagingInv
<1>3. ASSUME NEW rows, e \in Present, Elsewhere(rows),
             \E x : rows = [row EXCEPT ![e] = x]
      PROVE  PagingInv'
  <2>1. rows = [f \in Email |-> rows[f]]
    BY <1>3 DEF PagingInv, RowsOK
  <2>2. \A f \in Email : row[f] = Absent => rows[f] = Absent
    BY <1>3 DEF PagingInv, RowsOK, Present
  <2> QED
    BY <1>3, <2>1, <2>2, ElsewhereStep
<1>4. ASSUME NEW star \in BOOLEAN, SetStar(e, star) PROVE PagingInv'
  BY <1>3, <1>4 DEF SetStar
<1>5. ASSUME NEW c \in Category, SetCategory(e, c) PROVE PagingInv'
  BY <1>3, <1>5 DEF SetCategory
<1> QED
  BY <1>1, <1>2, <1>4, <1>5

LEMMA BulkStep ==
  ASSUME PagingInv, NEW rows, Bulk(rows), rows = [e \in Email |-> rows[e]],
         \A e \in Email : row[e] = Absent => rows[e] = Absent
  PROVE  PagingInv'
<1> DEFINE v == [view EXCEPT !.category = ""]
<1>1. /\ view # NoView /\ Update(rows) /\ row' = rows /\ UNCHANGED <<list, more, view>>
      /\ request' = [kind |-> "first", view |-> v, rows |-> Page(Matching(v, row'))]
      /\ steady' = Matching(v, row')
  BY DEF Bulk, Update
<1>2. v \in View
  BY <1>1 DEF PagingInv, ListOK, View
<1>3. RowsOK'
  BY <1>1, UpdatedRows DEF PagingInv
<1> HIDE DEF v
<1> QED
  BY <1>1, <1>2, <1>3, FirstStep

LEMMA StoreStep ==
  ASSUME PagingInv, NEW e \in Email, NEW x, Store(e, x)
  PROVE  PagingInv'
<1>1. /\ row[e] = Absent /\ row' = [row EXCEPT ![e] = x]
      /\ UNCHANGED <<scene, view, request, list, more, steady>>
  BY DEF Store
<1>2. \A f \in Email : row[f] # Absent => row'[f] = row[f]
  BY <1>1 DEF PagingInv, RowsOK
<1>3. ASSUME NEW v PROVE Matching(v, row) \subseteq Matching(v, row')
  BY <1>2 DEF Matching
<1>4. RowsOK'
  <2>1. Present' \in SUBSET (Present \cup {e})
    BY <1>1 DEF PagingInv, RowsOK, Present
  <2>2. IsFiniteSet(Present \cup {e})
    BY FS_AddElement DEF PagingInv, RowsOK
  <2>3. IsFiniteSet(Present')
    BY <2>1, <2>2, FS_Subset
  <2> QED
    BY <1>1, <2>3 DEF PagingInv, RowsOK
<1>5. ListOK'
  BY <1>1 DEF PagingInv, ListOK
<1>6. Answered'
  BY <1>1, <1>3 DEF PagingInv, Answered
<1> QED
  BY <1>4, <1>5, <1>6 DEF PagingInv

LEMMA ListAlone ==
  ASSUME PagingInv, UNCHANGED <<scene, row, view, request, list, more, steady>>
  PROVE  PagingInv'
BY DEF PagingInv, RowsOK, Present, ListOK, Answered

LEMMA PagingNext ==
  ASSUME PagingInv, [Next]_vars
  PROVE  PagingInv'
<1>1. ASSUME NEW v \in scene.views, AskFirst(v) PROVE PagingInv'
  <2>1. v \in View
    BY MailboxViewAssumption DEF PagingInv, RowsOK, Scene
  <2>2. /\ steady' = Matching(v, row') /\ UNCHANGED <<scene, row, list, more, view>>
        /\ request' = [kind |-> "first", view |-> v, rows |-> Page(Matching(v, row'))]
    BY <1>1 DEF AskFirst, FirstPage
  <2>3. RowsOK'
    BY <2>2 DEF PagingInv, RowsOK, Present
  <2> QED
    BY <2>1, <2>2, <2>3, FirstStep
<1>2. ASSUME NEW es \in SUBSET Range(list) \ {{}},
             \/ \E read \in BOOLEAN : Bulk(WithRead(es, read))
             \/ Bulk(WithStatus(es, "DELETED"))
      PROVE  PagingInv'
  BY <1>2, RowsStayRows, BulkStep DEF PagingInv
<1>3. ASSUME NEW e \in Email, Broadcast(e) PROVE PagingInv'
  BY <1>3, ListAlone DEF Broadcast
<1>4. ASSUME NEW t \in scene.tabs,
             Connect(t) \/ Disconnect(t) \/ TakeEvent(t) \/ Heartbeat(t) \/ Flush(t) \/ Wait(t)
      PROVE  PagingInv'
  BY <1>4, ListAlone DEF Connect, Disconnect, TakeEvent, Heartbeat, Flush, Wait
<1>5. CASE UNCHANGED vars
  BY <1>5, ListAlone DEF vars
<1> QED
  BY <1>1, <1>2, <1>3, <1>4, <1>5, ShowFirstStep, AskMoreStep, ShowMoreStep, AskFailsStep,
     OneRowStep,
     StoreStep DEF Next

\* A list in order has every email once.
LEMMA OrderedOnce ==
  ASSUME NEW s, Ordered(s)
  PROVE  Cardinality(Range(s)) = Len(s)
<1>1. s \in Seq(Email) /\ Len(s) \in Nat /\ DOMAIN s = 1..Len(s)
  BY DEF Ordered
<1>2. \A i, j \in 1..Len(s) : s[i] = s[j] => i = j
  <2>1. ASSUME NEW i \in 1..Len(s), NEW j \in 1..Len(s), s[i] = s[j], i # j PROVE FALSE
    <3>1. i < j \/ j < i
      BY <1>1, <2>1
    <3>2. s[i] \in Email /\ Newer(s[i], s[i])
      BY <1>1, <2>1, <3>1 DEF Ordered
    <3> QED
      BY <3>2, Order
  <2> QED
    BY <2>1
<1>3. s \in Surjection(1..Len(s), Range(s)) /\ s \in Injection(1..Len(s), Range(s))
  BY <1>1, <1>2 DEF Surjection, Injection, IsInjective, Range
<1>4. IsFiniteSet(1..Len(s)) /\ Cardinality(1..Len(s)) = Len(s)
  BY <1>1, FS_Interval
<1>5. Cardinality(Range(s)) = Cardinality(1..Len(s))
        <=> s \in Injection(1..Len(s), Range(s))
  BY <1>3, <1>4, FS_Surjection
<1> QED
  BY <1>3, <1>4, <1>5

\* db.SearchEmails with its cursor: however rows arrive and change between two pages
\* (handleMailboxView, handleMailboxMore), the list has no email twice, and at its end it
\* has all that have been in the view since its first page.
THEOREM NothingSkipped == Spec => []PagingIsComplete
<1>1. PagingInv => PagingIsComplete
  <2>1. ASSUME PagingInv PROVE Cardinality(Range(list)) = Len(list)
    BY <2>1, OrderedOnce DEF PagingInv, ListOK
  <2>2. ASSUME PagingInv, request = NoRequest, ~more PROVE steady \subseteq Range(list)
    BY <2>2 DEF PagingInv, Answered, Reaches, ListOK, Ordered, Range
  <2> QED
    BY <2>1, <2>2 DEF PagingIsComplete
<1> QED
  BY <1>1, PagingInit, PagingNext, PTL DEF Spec

-----------------------------------------------------------------------------
\* Whatever has been done to it, a row is an email's or is not there.
StoredRows ==
  /\ row \in [Email -> Row \cup {Absent}]
  /\ notify \subseteq Email
  /\ changes \in 0..MaxChanges

LEMMA SceneRows ==
  ASSUME scene \in Scenes
  PROVE  scene.rows \subseteq Row /\ scene.old \subseteq Email /\ scene.tabs \subseteq Tab
BY MailboxViewAssumption DEF Scene

LEMMA StoredInit == Init => StoredRows
BY SceneRows, MailboxViewAssumption DEF Init, StoredRows

LEMMA UpdateStored ==
  ASSUME scene \in Scenes, StoredRows, NEW rows, Update(rows), rows = [e \in Email |-> rows[e]]
  PROVE  StoredRows'
<1>1. \A e \in Email : rows[e] \in Range(rows)
  BY DEF Range
<1>2. \A e \in Email : rows[e] \in Row \cup {Absent}
  BY <1>1, SceneRows DEF Update
<1>3. row' \in [Email -> Row \cup {Absent}]
  BY <1>2 DEF Update
<1>4. changes' \in 0..MaxChanges
  BY MailboxViewAssumption DEF Update, StoredRows
<1> QED
  BY <1>3, <1>4 DEF Update, StoredRows

LEMMA StoredNext ==
  ASSUME PagingInv, StoredRows, [Next]_vars PROVE StoredRows'
<1>0. scene \in Scenes /\ row = [e \in Email |-> row[e]]
  BY DEF PagingInv, RowsOK
<1>1. ASSUME NEW rows, rows = [e \in Email |-> rows[e]], Elsewhere(rows) \/ Bulk(rows)
      PROVE  StoredRows'
  BY <1>0, <1>1, UpdateStored DEF Elsewhere, Bulk
<1>2. ASSUME NEW e \in Email,
             \/ MarkRead(e)
             \/ \E status \in Statuses : SetStatus(e, status)
             \/ \E star \in BOOLEAN : SetStar(e, star)
             \/ \E c \in Category : SetCategory(e, c)
      PROVE  StoredRows'
  <2>1. ASSUME NEW es, NEW x
        PROVE  /\ WithRead(es, x) = [f \in Email |-> WithRead(es, x)[f]]
               /\ WithStatus(es, x) = [f \in Email |-> WithStatus(es, x)[f]]
    BY RowsStayRows DEF PagingInv
  <2>2. ASSUME NEW star PROVE [row EXCEPT ![e].star = star] = [f \in Email |-> [row EXCEPT ![e].star = star][f]]
    BY <1>0
  <2>3. ASSUME NEW c PROVE [row EXCEPT ![e].category = c] = [f \in Email |-> [row EXCEPT ![e].category = c][f]]
    BY <1>0
  <2>4. CASE MarkRead(e)
    BY <1>1, <2>1, <2>4 DEF MarkRead
  <2>5. ASSUME NEW status \in Statuses, SetStatus(e, status) PROVE StoredRows'
    BY <1>1, <2>1, <2>5 DEF SetStatus
  <2>6. ASSUME NEW star \in BOOLEAN, SetStar(e, star) PROVE StoredRows'
    BY <1>1, <2>2, <2>6 DEF SetStar
  <2>7. ASSUME NEW c \in Category, SetCategory(e, c) PROVE StoredRows'
    BY <1>1, <2>3, <2>7 DEF SetCategory
  <2> QED
    BY <1>2, <2>4, <2>5, <2>6, <2>7
<1>3. ASSUME NEW es, \/ \E read \in BOOLEAN : Bulk(WithRead(es, read))
                    \/ Bulk(WithStatus(es, "DELETED"))
      PROVE  StoredRows'
  BY <1>1, <1>3, RowsStayRows DEF PagingInv
<1>4. ASSUME NEW e \in Email, NEW x \in scene.rows, Store(e, x) PROVE StoredRows'
  BY <1>0, <1>4, SceneRows DEF Store, StoredRows
<1>5. ASSUME NEW e \in Email, Broadcast(e) PROVE StoredRows'
  BY <1>5 DEF Broadcast, StoredRows
<1>6. ASSUME NEW v, AskFirst(v) PROVE StoredRows'
  BY <1>6 DEF AskFirst, StoredRows
<1>7. CASE ShowFirst \/ AskMore \/ ShowMore \/ AskFails \/ UNCHANGED vars
  BY <1>7 DEF ShowFirst, AskMore, ShowMore, AskFails, vars, StoredRows
<1>8. ASSUME NEW t,
             Connect(t) \/ Disconnect(t) \/ TakeEvent(t) \/ Heartbeat(t) \/ Flush(t) \/ Wait(t)
      PROVE  StoredRows'
  BY <1>8 DEF Connect, Disconnect, TakeEvent, Heartbeat, Flush, Wait, StoredRows
<1> QED
  BY <1>2, <1>3, <1>4, <1>5, <1>6, <1>7, <1>8 DEF Next

LEMMA ViewTyped ==
  ASSUME PagingInv, HeardInv, StoredRows PROVE TypeOK
<1>1. Range(list) \subseteq Email
  BY DEF PagingInv, ListOK, Ordered, Range
<1>2. steady \subseteq Email
  BY DEF PagingInv, Answered, Matching
<1> QED
  BY <1>1, <1>2 DEF TypeOK, StoredRows, PagingInv, ListOK, HeardInv, StreamsOK, Stages

\* The types of MailboxView: handleEmailStar and the others leave rows of emails, the list
\* shows emails, and no channel holds more than its capacity (Hub.Subscribe).
THEOREM TypeCorrect == Spec => []TypeOK
<1> DEFINE Inv == PagingInv /\ HeardInv /\ StoredRows
<1>1. Init => Inv
  BY PagingInit, HeardInit, StoredInit
<1>2. Inv /\ [Next]_vars => Inv'
  <2>1. ASSUME Inv, Next PROVE HeardInv'
    BY <2>1, HeardNext, MailboxViewAssumption DEF PagingInv, RowsOK, Scene
  <2>2. ASSUME Inv, UNCHANGED vars PROVE HeardInv'
    BY <2>2, ListingKeepsStreams DEF vars
  <2> QED
    BY <2>1, <2>2, PagingNext, StoredNext
<1>3. Inv => TypeOK
  BY ViewTyped
<1> QED
  BY <1>1, <1>2, <1>3, PTL DEF Spec

-----------------------------------------------------------------------------
(* The numbers beside the list *)

Brought(filter, c, rows) == Matching([filter |-> filter, category |-> c], rows)
SetToNone(filter, rows) == {e \in Brought(filter, "", rows) : rows[e].category = "none"}

\* What CountEmailsByCategory counts under a category.
Counted(filter, c, rows) ==
  IF c = "none" THEN Brought(filter, c, rows) \cup SetToNone(filter, rows)
  ELSE Brought(filter, c, rows)

NamedSo(filter, c, rows) == {e \in Brought(filter, "", rows) : Named(rows[e]) = c}

LEMMA CountedOf ==
  ASSUME NEW filter, NEW rows, NEW c, c # ""
  PROVE  Counted(filter, c, rows) = NamedSo(filter, c, rows)
<1>1. ASSUME NEW d
      PROVE  Brought(filter, d, rows) = {e \in Brought(filter, "", rows) : InCategory(d, rows[e])}
  BY DEF Brought, Matching, InCategory
<1>2. CASE c = "none"
  <2>1. ASSUME NEW e
        PROVE  Named(rows[e]) = c <=> (rows[e].category = "" \/ rows[e].category = "none")
    BY <1>2 DEF Named
  <2>2. ASSUME NEW e PROVE InCategory(c, rows[e]) <=> rows[e].category = ""
    BY <1>2 DEF InCategory
  <2> QED
    BY <1>1, <1>2, <2>1, <2>2 DEF Counted, SetToNone, NamedSo
<1>3. CASE c # "none"
  <2>1. ASSUME NEW e PROVE Named(rows[e]) = c <=> InCategory(c, rows[e])
    BY <1>3 DEF Named, InCategory
  <2> QED
    BY <1>1, <1>3, <2>1 DEF Counted, NamedSo
<1> QED
  BY <1>2, <1>3

\* Whatever the rows are, the number of a view (CountEmailsByMailboxID, which the pages
\* ask for the unread ones) is that of the emails which a look at it brings, and the
\* number beside a category (CountEmailsByCategory) that of those which it brings
\* there, but that the emails set to "none" are counted there and not brought; a
\* category without a number has none.  A search has no number of its own.
THEOREM CountsOfTheList ==
  ASSUME NEW filter \in Filter, NEW rows
  PROVE  /\ filter # "search" =>
              CountEmails(filter, rows) = Cardinality(Brought(filter, "", rows))
         /\ \A c \in DOMAIN CountByCategory(filter, rows) :
              CountByCategory(filter, rows)[c] = Cardinality(Counted(filter, c, rows))
         /\ \A c : c # "" /\ c \notin DOMAIN CountByCategory(filter, rows) =>
              Brought(filter, c, rows) = {}
<1>1. ASSUME filter # "search"
      PROVE  CountEmails(filter, rows)
               = Cardinality({e \in Email : rows[e] # Absent /\ InFilter(filter, e, rows[e])})
  <2>1. CASE filter = "mail"
    BY <2>1 DEF CountEmails, InFilter
  <2>2. CASE filter = "all"
    BY <2>2 DEF CountEmails, InFilter
  <2>3. CASE filter = "unread"
    BY <2>3 DEF CountEmails, InFilter
  <2>4. CASE filter = "read"
    BY <2>4 DEF CountEmails, InFilter
  <2>5. CASE filter = "starred"
    BY <2>5 DEF CountEmails, InFilter
  <2>6. CASE filter = "quarantined"
    BY <2>6 DEF CountEmails, InFilter
  <2>7. CASE filter = "deleted"
    BY <2>7 DEF CountEmails, InFilter
  <2>8. CASE filter = "sent"
    BY <2>8 DEF CountEmails, InFilter
  <2> QED
    BY <1>1, <2>1, <2>2, <2>3, <2>4, <2>5, <2>6, <2>7, <2>8 DEF Filter
<1>2. Brought(filter, "", rows) = {e \in Email : rows[e] # Absent /\ InFilter(filter, e, rows[e])}
  BY DEF Brought, Matching, InCategory
<1>3. /\ DOMAIN CountByCategory(filter, rows) = {Named(rows[e]) : e \in Brought(filter, "", rows)}
      /\ \A c \in DOMAIN CountByCategory(filter, rows) :
           CountByCategory(filter, rows)[c]
             = Cardinality(NamedSo(filter, c, rows))
  BY DEF CountByCategory, Brought, NamedSo
<1>4. "" \notin DOMAIN CountByCategory(filter, rows)
  BY <1>3 DEF Named
<1>5. ASSUME NEW c, c # "", c \notin DOMAIN CountByCategory(filter, rows)
      PROVE  Brought(filter, c, rows) = {}
  <2>1. Brought(filter, c, rows) \subseteq Counted(filter, c, rows)
    BY DEF Counted
  <2>2. NamedSo(filter, c, rows) = {}
    BY <1>3, <1>5 DEF NamedSo
  <2>3. Counted(filter, c, rows) = NamedSo(filter, c, rows)
    BY <1>5, CountedOf
  <2> QED
    BY <2>1, <2>2, <2>3
<1>6. ASSUME filter # "search"
      PROVE  CountEmails(filter, rows) = Cardinality(Brought(filter, "", rows))
  BY <1>1, <1>2, <1>6
<1>7. ASSUME NEW c \in DOMAIN CountByCategory(filter, rows)
      PROVE  CountByCategory(filter, rows)[c] = Cardinality(Counted(filter, c, rows))
  <2>1. Counted(filter, c, rows) = NamedSo(filter, c, rows)
    BY <1>4, CountedOf
  <2> QED
    BY <1>3, <2>1
<1> QED
  BY <1>5, <1>6, <1>7

-----------------------------------------------------------------------------
(* What a stored message is read and shown as *)

Shown == INSTANCE Reading

\* Whatever algorithm a configuration names, any data is read back as it was saved
\* (CompressData, DecompressReader), unless nothing is compressed and the name it is
\* kept under ends like a compressed key.
THEOREM ReadBackAsSaved ==
  ASSUME NEW data, data # "something else", NEW algorithm, NEW suffix
  PROVE  Shown!Decompressed(Shown!Compressed(data, algorithm, suffix)) = data
           <=> ~(Shown!Lower(algorithm) \notin {"zstd", "gzip"} /\ suffix \in {".zst", ".gz"})
<1> DEFINE codec == Shown!Lower(algorithm)
<1>1. /\ DOMAIN Shown!Suffix = {"zstd", "gzip"}
      /\ Shown!Suffix["zstd"] = ".zst" /\ Shown!Suffix["gzip"] = ".gz"
  BY DEF Shown!Suffix
<1>2. {Shown!Suffix[c] : c \in DOMAIN Shown!Suffix} = {".zst", ".gz"}
  BY <1>1
<1> DEFINE Foreign(o) ==
      /\ o.suffix \in {".zst", ".gz"}
      /\ ~\E c \in DOMAIN Shown!Suffix : o.codec = c /\ o.suffix = Shown!Suffix[c]
<1>3. ASSUME NEW o, o.data = data
      PROVE  Shown!Decompressed(o) = data <=> ~Foreign(o)
  BY <1>2, <1>3, Zenon DEF Shown!Decompressed
<1> DEFINE packed == Shown!Compressed(data, algorithm, suffix)
<1>4. CASE codec \in {"zstd", "gzip"}
  <2>1. /\ packed.data = data /\ packed.codec = codec
        /\ packed.suffix = Shown!Suffix[codec]
    BY <1>1, <1>4 DEF Shown!Compressed
  <2> QED
    BY <1>1, <1>3, <1>4, <2>1
<1>5. CASE codec \notin {"zstd", "gzip"}
  <2>1. packed.data = data /\ packed.codec = "none" /\ packed.suffix = suffix
    BY <1>1, <1>5 DEF Shown!Compressed
  <2>2. Foreign(packed) <=> suffix \in {".zst", ".gz"}
    BY <1>1, <2>1
  <2> QED
    BY <1>3, <1>5, <2>1, <2>2
<1> QED
  BY <1>4, <1>5

Url == [scheme : STRING, path : STRING]
StyleUrl == [url : Url, matched : BOOLEAN]
SafeUrl(url) == ~Shown!External(url)

\* Of a style at least the absolute URLs that cssURLRe matches go to the proxy.
SafeStyle(style) == \A u \in style : u.matched => SafeUrl(u.url)

\* All the others of an element do.
ThroughTheProxy(n) ==
  /\ SafeUrl(n.src)
  /\ \A i \in DOMAIN n.srcset : SafeUrl(n.srcset[i])
  /\ SafeStyle(n.style)

LEMMA ProxiedIsSafe ==
  ASSUME NEW key, NEW url
  PROVE  SafeUrl(Shown!Proxied(key, url))
BY DEF SafeUrl, Shown!Proxied, Shown!SignURL, Shown!External

LEMMA RewrittenIsSafe ==
  ASSUME NEW key, NEW p, p = [tag |-> p.tag, src |-> p.src, srcset |-> p.srcset, style |-> p.style]
  PROVE  LET n == Shown!RewriteStyle(key, p)
         IN n.src = p.src /\ n.srcset = p.srcset /\ SafeStyle(n.style)
<1> DEFINE style == {[url |-> IF u.matched THEN Shown!Proxied(key, u.url) ELSE u.url,
                      matched |-> u.matched] : u \in p.style}
<1>1. PICK n : n = Shown!RewriteStyle(key, p)
  OBVIOUS
<1>2. n.src = p.src /\ n.srcset = p.srcset /\ n.style = style
  BY <1>1 DEF Shown!RewriteStyle
<1>3. SafeStyle(style)
  BY ProxiedIsSafe DEF SafeStyle
<1> QED
  BY <1>1, <1>2, <1>3

\* Whatever HTML a message contains, however long its lists of URLs, an absolute URL
\* of another host is shown in a style only, and there only if it is not written as
\* cssURLRe has it (newEmailPolicy, rewriteForPrivacy): such a URL, and one that only
\* leaves out its scheme, stay as they are.
THEOREM ElsewhereOnlyUnmatched ==
  ASSUME NEW key, NEW html,
         html \subseteq [tag : STRING, src : Url, srcset : Seq(Url), style : SUBSET StyleUrl],
         NEW n \in Shown!RewriteForPrivacy(key, Shown!Sanitized(html))
  PROVE  ThroughTheProxy(n)
<1>1. PICK m \in Shown!Sanitized(html) :
        n = Shown!RewriteStyle(key, IF m.tag = "img" THEN Shown!RewriteImg(key, m) ELSE m)
  BY DEF Shown!RewriteForPrivacy
<1>2. PICK o \in html :
        m = [o EXCEPT !.srcset = <<>>,
                      !.src = IF o.tag = "img" /\ @.scheme \in Shown!Schemes THEN @ ELSE Shown!NoUrl]
  BY DEF Shown!Sanitized
<1>3. o \in [tag : STRING, src : Url, srcset : Seq(Url), style : SUBSET StyleUrl]
  OBVIOUS
<1>4. /\ m \in [tag : STRING, src : {Shown!NoUrl, o.src}, srcset : {<<>>}, style : SUBSET StyleUrl]
      /\ m.tag # "img" => m.src = Shown!NoUrl
  BY <1>2, <1>3
<1>5. SafeUrl(Shown!NoUrl)
  BY DEF SafeUrl, Shown!NoUrl, Shown!External
<1>6. CASE m.tag = "img"
  <2>1. PICK p : p = Shown!RewriteImg(key, m)
    OBVIOUS
  <2>2. /\ p = [tag |-> p.tag, src |-> p.src, srcset |-> p.srcset, style |-> p.style]
        /\ p.src = Shown!Proxied(key, m.src)
        /\ p.srcset = [i \in DOMAIN m.srcset |-> Shown!Proxied(key, m.srcset[i])]
    BY <1>4, <2>1 DEF Shown!RewriteImg
  <2>3. n = Shown!RewriteStyle(key, p)
    BY <1>1, <1>6, <2>1
  <2>4. n.src = p.src /\ n.srcset = p.srcset /\ SafeStyle(n.style)
    BY <2>2, <2>3, RewrittenIsSafe
  <2> QED
    BY <2>2, <2>4, ProxiedIsSafe DEF ThroughTheProxy
<1>7. CASE m.tag # "img"
  <2>1. m = [tag |-> m.tag, src |-> m.src, srcset |-> m.srcset, style |-> m.style]
    BY <1>4
  <2>2. n.src = m.src /\ n.srcset = m.srcset /\ SafeStyle(n.style)
    BY <1>1, <1>7, <2>1, RewrittenIsSafe
  <2>3. n.src = Shown!NoUrl /\ n.srcset = <<>>
    BY <1>4, <1>7, <2>2
  <2> QED
    BY <1>5, <2>2, <2>3 DEF ThroughTheProxy
<1> QED
  BY <1>6, <1>7

-----------------------------------------------------------------------------
(* TrashPurge *)

\* Of the emails in the trash, apart from those of the list above.
CONSTANTS StoredEmail, Request, Purger, Attached, Stripped, Retention, Backends, MaxDay,
          MaxFaults
VARIABLES backend, day, email, store, req, todo, cur, faults, inTrash, trashed, missed

Trash == INSTANCE TrashPurge WITH Email <- StoredEmail, row <- email

Working(p) == cur[p] # Trash!Idle
Asking(r) == req[r] # Trash!Idle

EmailRow == [status : Trash!Status, updated : Nat, purged : BOOLEAN]
Errand ==
  [email : StoredEmail, status : Trash!Status \cup {"none"}, key : Trash!Key \cup {"none"}]
Labour == [email : StoredEmail, keys : SUBSET Trash!Key, failed : BOOLEAN]

PurgeTypes ==
  /\ day \in Nat
  /\ email \in [StoredEmail -> EmailRow]
  /\ store \in [StoredEmail -> SUBSET Trash!Key]
  /\ req \in [Request -> {Trash!Idle} \cup Errand]
  /\ todo \in [Purger -> SUBSET StoredEmail]
  /\ cur \in [Purger -> {Trash!Idle} \cup Labour]
  /\ missed \in [StoredEmail -> SUBSET Trash!Key]

\* What a purger has neither left nor failed to delete is gone.
Deleted ==
  \A p \in Purger : Working(p) =>
    /\ cur[p].keys \subseteq Trash!PurgeKeys(cur[p].email)
    /\ \/ cur[p].failed
       \/ store[cur[p].email] \cap Trash!PurgeKeys(cur[p].email) \subseteq cur[p].keys

\* An email that may lose content.
Overdue(e) == e \in trashed /\ (email[e].purged \/ email[e].updated + Retention < day)

\* Everything that a purger has listed is such an email.
Listed ==
  \A p \in Purger :
    /\ \A e \in todo[p] : Overdue(e)
    /\ Working(p) => Overdue(cur[p].email)

\* What a request is about to fetch has been saved.
Asked ==
  \A r \in Request : Asking(r) =>
    \/ (req[r].key = "none" /\ req[r].status # "none")
    \/ req[r].key \in Trash!Saved(req[r].email)

\* The status tells of the past, and the store of what has been saved.
Stored ==
  \A e \in StoredEmail :
    /\ store[e] \subseteq Trash!Saved(e)
    /\ email[e].status = "DELETED" => e \in trashed

PurgeInv ==
  /\ PurgeTypes /\ Deleted /\ Listed /\ Asked /\ Stored
  /\ Trash!PurgedMeansGone /\ Trash!NoStrangeLoss

-----------------------------------------------------------------------------
USE DEF Trash!None

LEMMA SavedKeys ==
  ASSUME NEW e \in StoredEmail
  PROVE  /\ Trash!Saved(e) \subseteq Trash!Key /\ Trash!PurgeKeys(e) \subseteq Trash!Saved(e)
         /\ "original" \notin Trash!PurgeKeys(e)
         /\ e \in Stripped => "original" \in Trash!Saved(e)
         /\ "body" \in Trash!Saved(e) /\ (e \in Attached => "attachment" \in Trash!Saved(e))
         /\ "none" \notin Trash!Key
BY DEF Trash!Saved, Trash!PurgeKeys, Trash!Key

LEMMA PurgeInit == Trash!Init => PurgeInv
<1> SUFFICES ASSUME Trash!Init PROVE PurgeInv
  OBVIOUS
<1>1. email \in [StoredEmail -> EmailRow] /\ \A e \in StoredEmail : ~email[e].purged
  <2>1. email \in [StoredEmail -> [status : {"INBOX", "DELETED"}, updated : {0}, purged : {FALSE}]]
    BY DEF Trash!Init
  <2>2. ASSUME NEW x \in [status : {"INBOX", "DELETED"}, updated : {0}, purged : {FALSE}]
        PROVE  x \in EmailRow /\ ~x.purged
    <3>0. /\ x = [status |-> x.status, updated |-> x.updated, purged |-> x.purged]
          /\ x.status \in {"INBOX", "DELETED"} /\ x.updated \in {0} /\ x.purged \in {FALSE}
      OBVIOUS
    <3>1. x.status \in Trash!Status /\ x.updated \in Nat
      BY <3>0 DEF Trash!Status
    <3>2. x.purged = FALSE
      BY <3>0, Zenon
    <3>3. x.purged \in BOOLEAN
      BY <3>2, Zenon
    <3> QED
      BY <3>0, <3>1, <3>2, <3>3 DEF EmailRow
  <2> QED
    BY <2>1, <2>2
<1>2. PurgeTypes
  BY <1>1, SavedKeys DEF Trash!Init, PurgeTypes
<1>3. Deleted /\ Listed /\ Asked
  BY DEF Trash!Init, Deleted, Listed, Asked, Working, Asking
<1>4. Stored
  BY <1>1 DEF Trash!Init, Stored
<1>5. Trash!PurgedMeansGone
  BY <1>1 DEF Trash!PurgedMeansGone
<1>6. Trash!NoStrangeLoss
  BY SavedKeys DEF Trash!Init, Trash!NoStrangeLoss
<1> QED
  BY <1>2, <1>3, <1>4, <1>5, <1>6 DEF PurgeInv

\* A step of a request that moves no email and loses nothing.
LEMMA ReadStep ==
  ASSUME PurgeInv, NEW r \in Request, NEW e \in StoredEmail, NEW s, NEW k,
         s \in Trash!Status \cup {"none"},
         (k = "none" /\ s # "none") \/ k \in Trash!Saved(e),
         Trash!Read(r, e, s, k)
  PROVE  PurgeInv'
<1>0. PICK x \in Errand : x = [email |-> e, status |-> s, key |-> k]
  BY SavedKeys DEF Errand
<1>1. PurgeTypes'
  <2>1. req' = [req EXCEPT ![r] = x]
    BY <1>0 DEF Trash!Read
  <2> QED
    BY <2>1 DEF PurgeInv, PurgeTypes, Trash!Read, Trash!purge, Trash!history
<1>2. Asked'
  BY DEF PurgeInv, PurgeTypes, Asked, Asking, Trash!Read
<1>3. UNCHANGED <<day, email, store, todo, cur, trashed, missed>>
  BY DEF Trash!Read, Trash!purge, Trash!history
<1>4. Deleted' /\ Listed' /\ Stored'
  BY <1>3 DEF PurgeInv, Deleted, Listed, Stored, Overdue, Working
<1>5. Trash!PurgedMeansGone' /\ Trash!NoStrangeLoss'
  BY <1>3 DEF PurgeInv, Trash!PurgedMeansGone, Trash!NoStrangeLoss
<1> QED
  BY <1>1, <1>2, <1>4, <1>5 DEF PurgeInv

\* A step that gives some emails a status.
LEMMA SetStatusStep ==
  ASSUME PurgeInv, Retention \in Nat, NEW S \in SUBSET StoredEmail, NEW s \in Trash!Status,
         Trash!SetStatus(S, s), UNCHANGED <<day, store, todo, cur>>
  PROVE  /\ email' \in [StoredEmail -> EmailRow]
         /\ Deleted' /\ Listed' /\ Stored'
         /\ Trash!PurgedMeansGone' /\ Trash!NoStrangeLoss'
         /\ missed' = missed
<1>1. /\ trashed \subseteq trashed' /\ missed' = missed
      /\ email' \in [StoredEmail -> EmailRow]
      /\ \A e \in StoredEmail :
           /\ email'[e].purged = email[e].purged /\ email'[e].updated = email[e].updated
           /\ email'[e].status = "DELETED" => email[e].status = "DELETED" \/ e \in trashed'
  BY DEF PurgeInv, PurgeTypes, Trash!SetStatus, EmailRow
<1>2. \A e \in StoredEmail : Overdue(e) => Overdue(e)'
  BY <1>1 DEF Overdue
<1>3. Deleted' /\ Listed' /\ Stored'
  BY <1>1, <1>2 DEF PurgeInv, PurgeTypes, Deleted, Listed, Stored, Working, Labour
<1>4. Trash!PurgedMeansGone' /\ Trash!NoStrangeLoss'
  BY <1>1 DEF PurgeInv, Trash!PurgedMeansGone, Trash!NoStrangeLoss
<1> QED
  BY <1>1, <1>3, <1>4

LEMMA WriteStep ==
  ASSUME PurgeInv, Retention \in Nat, NEW r \in Request, Trash!Write(r)
  PROVE  PurgeInv'
<1>0. req[r] \in Errand /\ req[r].status \in Trash!Status
  BY DEF PurgeInv, PurgeTypes, Trash!Write, Errand
<1>1. UNCHANGED <<day, store, todo, cur>> /\ Trash!SetStatus({req[r].email}, req[r].status)
  BY DEF Trash!Write, Trash!purge
<1>2. {req[r].email} \in SUBSET StoredEmail
  BY <1>0 DEF Errand
<1>3. /\ email' \in [StoredEmail -> EmailRow]
      /\ Deleted' /\ Listed' /\ Stored'
      /\ Trash!PurgedMeansGone' /\ Trash!NoStrangeLoss'
      /\ missed' = missed
  BY <1>0, <1>1, <1>2, SetStatusStep
<1>4. req' \in [Request -> {Trash!Idle} \cup Errand]
  BY <1>0 DEF PurgeInv, PurgeTypes, Trash!Write, Errand
<1>5. Asked'
  BY <1>0, SavedKeys DEF PurgeInv, PurgeTypes, Asked, Asking, Trash!Write, Errand, Trash!Idle
<1> QED
  BY <1>1, <1>3, <1>4, <1>5 DEF PurgeInv, PurgeTypes

LEMMA BulkDeleteStep ==
  ASSUME PurgeInv, Retention \in Nat, NEW S \in SUBSET StoredEmail, Trash!BulkDelete(S)
  PROVE  PurgeInv'
<1>1. UNCHANGED <<day, store, todo, cur, req>> /\ Trash!SetStatus(S, "DELETED")
  BY DEF Trash!BulkDelete, Trash!purge
<1>2. "DELETED" \in Trash!Status
  BY DEF Trash!Status
<1>3. /\ email' \in [StoredEmail -> EmailRow]
      /\ Deleted' /\ Listed' /\ Stored'
      /\ Trash!PurgedMeansGone' /\ Trash!NoStrangeLoss'
      /\ missed' = missed
  BY <1>1, <1>2, SetStatusStep
<1> QED
  BY <1>1, <1>3 DEF PurgeInv, PurgeTypes, Asked, Asking

LEMMA FetchStep ==
  ASSUME PurgeInv, NEW r \in Request, Trash!Fetch(r)
  PROVE  PurgeInv'
<1>0. /\ req[r] \in Errand /\ req[r].email \in StoredEmail
      /\ req[r].key \in Trash!Saved(req[r].email)
  BY DEF PurgeInv, PurgeTypes, Asked, Asking, Trash!Fetch, Errand
<1>1. UNCHANGED <<day, email, store, todo, cur, trashed>>
  BY DEF Trash!Fetch, Trash!purge
<1>2. /\ missed' = [missed EXCEPT ![req[r].email] = @ \cup ({req[r].key} \ store[req[r].email])]
      /\ req' = [req EXCEPT ![r] = Trash!Idle]
  BY DEF Trash!Fetch
<1>3. PurgeTypes' /\ Asked'
  BY <1>0, <1>1, <1>2, SavedKeys DEF PurgeInv, PurgeTypes, Asked, Asking
<1>4. Deleted' /\ Listed' /\ Stored' /\ Trash!PurgedMeansGone'
  BY <1>1 DEF PurgeInv, Deleted, Listed, Stored, Overdue, Working, Trash!PurgedMeansGone
<1>5. ASSUME NEW e \in StoredEmail, missed'[e] # {}
      PROVE  e \in trashed' /\ store'[e] # Trash!Saved(e)
  <2>1. CASE missed[e] # {}
    BY <2>1, <1>1 DEF PurgeInv, Trash!NoStrangeLoss
  <2>2. CASE missed[e] = {}
    <3>1. e = req[r].email /\ req[r].key \notin store[e]
      BY <1>2, <2>2, <1>5 DEF PurgeInv, PurgeTypes
    <3> QED
      BY <3>1, <1>0, <1>1 DEF PurgeInv, Trash!NoStrangeLoss
  <2> QED
    BY <2>1, <2>2
<1>6. Trash!NoStrangeLoss'
  BY <1>1, <1>5 DEF PurgeInv, Trash!NoStrangeLoss
<1> QED
  BY <1>3, <1>4, <1>6 DEF PurgeInv

\* The statuses that handlers write.
LEMMA WrittenTypes ==
  ASSUME NEW op \in {"toggle", "deleteAndBlock", "release", "ham", "spam"}, NEW seen
  PROVE  Trash!Written(op, seen) \in Trash!Status \ {"none"}
BY DEF Trash!Written, Trash!Status

LEMMA UserStepPreserves ==
  ASSUME PurgeInv, Retention \in Nat, NEW r \in Request, Trash!UserStep(r)
  PROVE  PurgeInv'
<1>1. ASSUME NEW e \in StoredEmail, NEW op \in {"toggle", "deleteAndBlock", "release"},
             Trash!Move(r, e, op)
      PROVE  PurgeInv'
  BY <1>1, WrittenTypes, ReadStep DEF Trash!Move
<1>2. ASSUME NEW e \in StoredEmail, NEW op \in {"ham", "spam"}, Trash!Learn(r, e, op)
      PROVE  PurgeInv'
  BY <1>2, WrittenTypes, ReadStep, SavedKeys DEF Trash!Learn
<1>3. ASSUME NEW e \in StoredEmail, Trash!View(r, e) PROVE PurgeInv'
  BY <1>3, ReadStep, SavedKeys DEF Trash!View
<1>4. ASSUME NEW e \in StoredEmail, Trash!Download(r, e) PROVE PurgeInv'
  BY <1>4, ReadStep, SavedKeys DEF Trash!Download
<1> QED
  BY <1>1, <1>2, <1>3, <1>4, WriteStep, FetchStep DEF Trash!UserStep

-----------------------------------------------------------------------------
\* A step of a purger that touches no row, no object and no request.
LEMMA PlanStep ==
  ASSUME PurgeInv, UNCHANGED <<day, email, store, req, trashed, missed>>,
         todo' \in [Purger -> SUBSET StoredEmail], cur' \in [Purger -> {Trash!Idle} \cup Labour],
         Deleted', Listed'
  PROVE  PurgeInv'
BY DEF PurgeInv, PurgeTypes, Asked, Asking, Stored, Trash!PurgedMeansGone, Trash!NoStrangeLoss

LEMMA ListStep ==
  ASSUME PurgeInv, NEW p \in Purger, Trash!List(p) PROVE PurgeInv'
<1>1. UNCHANGED <<day, email, store, req, cur, trashed, missed>>
  BY DEF Trash!List, Trash!history
<1>2. todo' = [todo EXCEPT ![p] = {e \in StoredEmail : Trash!Due(e)}]
  BY DEF Trash!List
<1>3. \A e \in StoredEmail : Trash!Due(e) => Overdue(e)
  BY DEF PurgeInv, Stored, Trash!Due, Overdue
<1>4. Deleted' /\ Listed'
  BY <1>1, <1>2, <1>3 DEF PurgeInv, PurgeTypes, Deleted, Listed, Overdue, Working
<1> QED
  BY <1>1, <1>2, <1>4, PlanStep DEF PurgeInv, PurgeTypes

LEMMA TakeStep ==
  ASSUME PurgeInv, NEW p \in Purger, NEW e \in StoredEmail, Trash!Take(p, e) PROVE PurgeInv'
<1>1. UNCHANGED <<day, email, store, req, trashed, missed>>
  BY DEF Trash!Take, Trash!history
<1>2. /\ todo' = [todo EXCEPT ![p] = @ \ {e}]
      /\ cur' = [cur EXCEPT ![p] = [email |-> e, keys |-> Trash!PurgeKeys(e), failed |-> FALSE]]
      /\ Overdue(e)
  BY DEF Trash!Take, PurgeInv, Listed
<1>3. todo' \in [Purger -> SUBSET StoredEmail] /\ cur' \in [Purger -> {Trash!Idle} \cup Labour]
  BY <1>2, SavedKeys DEF PurgeInv, PurgeTypes, Labour
<1>4. Deleted' /\ Listed'
  BY <1>1, <1>2 DEF PurgeInv, PurgeTypes, Deleted, Listed, Overdue, Working, Trash!PurgeKeys
<1> QED
  BY <1>1, <1>3, <1>4, PlanStep

\* The purger is done with its email, or with everything.
LEMMA LeaveStep ==
  ASSUME PurgeInv, NEW p \in Purger,
         \/ \E e \in StoredEmail : Trash!TakeFails(p, e)
         \/ Trash!Skip(p)
         \/ Trash!Crash(p)
  PROVE  PurgeInv'
<1>1. UNCHANGED <<day, email, store, req, trashed, missed>>
  BY DEF Trash!TakeFails, Trash!Skip, Trash!Crash, Trash!history
<1>2. /\ \A q \in Purger : todo'[q] \subseteq todo[q] /\ cur'[q] \in {cur[q], Trash!Idle}
      /\ todo' \in [Purger -> SUBSET StoredEmail] /\ cur' \in [Purger -> {Trash!Idle} \cup Labour]
  BY DEF PurgeInv, PurgeTypes, Trash!TakeFails, Trash!Skip, Trash!Crash
<1>3. Deleted' /\ Listed'
  BY <1>1, <1>2 DEF PurgeInv, PurgeTypes, Deleted, Listed, Overdue, Working
<1> QED
  BY <1>1, <1>2, <1>3, PlanStep

LEMMA DeleteFailsStep ==
  ASSUME PurgeInv, NEW p \in Purger, NEW k \in Trash!Key, Trash!DeleteFails(p, k) PROVE PurgeInv'
<1>1. UNCHANGED <<day, email, store, req, todo, trashed, missed>>
  BY DEF Trash!DeleteFails, Trash!history
<1>2. cur[p] \in Labour /\ Working(p)
  BY DEF Trash!DeleteFails, PurgeInv, PurgeTypes, Working
<1>3. PICK c : c = [cur[p] EXCEPT !.keys = @ \ {k}, !.failed = TRUE]
  OBVIOUS
<1>4. cur' = [cur EXCEPT ![p] = c]
  BY <1>3 DEF Trash!DeleteFails
<1>5. c \in Labour /\ c.email = cur[p].email /\ c.keys = cur[p].keys \ {k} /\ c.failed
  BY <1>2, <1>3 DEF Labour
<1>6. Deleted' /\ Listed'
  BY <1>1, <1>2, <1>4, <1>5 DEF PurgeInv, PurgeTypes, Deleted, Listed, Overdue, Working,
     Trash!PurgeKeys
<1> QED
  BY <1>1, <1>4, <1>5, <1>6, PlanStep DEF PurgeInv, PurgeTypes

LEMMA DeleteStep ==
  ASSUME PurgeInv, NEW p \in Purger, NEW k \in Trash!Key, Trash!Delete(p, k) PROVE PurgeInv'
<1>1. UNCHANGED <<day, email, req, todo, trashed, missed>>
  BY DEF Trash!Delete, Trash!history
<1>2. cur[p] \in Labour /\ Working(p) /\ k \in cur[p].keys
  BY DEF Trash!Delete, Trash!NextKey, PurgeInv, PurgeTypes, Working
<1>3. PICK c \in Labour :
        c = [email |-> cur[p].email, keys |-> cur[p].keys \ {k}, failed |-> cur[p].failed]
  BY <1>2 DEF Labour
<1>4. cur' = [cur EXCEPT ![p] = c]
  <2>1. c = [cur[p] EXCEPT !.keys = @ \ {k}]
    BY <1>2, <1>3 DEF Labour
  <2> QED
    BY <2>1 DEF Trash!Delete
<1>5. PICK d \in StoredEmail : d = cur[p].email
  BY <1>2 DEF Labour
<1>6. store' = [store EXCEPT ![d] = @ \ {k}]
  BY <1>5 DEF Trash!Delete
<1>7. k \in Trash!PurgeKeys(d) /\ Overdue(d)
  BY <1>2, <1>5 DEF PurgeInv, Deleted, Listed
<1>8. PurgeTypes'
  BY <1>1, <1>4, <1>6 DEF PurgeInv, PurgeTypes
<1>9. Deleted'
  <2> SUFFICES ASSUME NEW q \in Purger, Working(q)'
               PROVE  /\ cur'[q].keys \subseteq Trash!PurgeKeys(cur'[q].email)
                      /\ \/ cur'[q].failed
                         \/ store'[cur'[q].email] \cap Trash!PurgeKeys(cur'[q].email)
                              \subseteq cur'[q].keys
    BY DEF Deleted, Trash!PurgeKeys
  <2>0. store'[cur'[q].email] \subseteq store[cur'[q].email] /\ k \notin store'[d]
    BY <1>6, <1>8 DEF PurgeInv, PurgeTypes, Working, Labour
  <2>1. CASE q = p
    BY <2>1, <2>0, <1>2, <1>3, <1>4, <1>5 DEF PurgeInv, PurgeTypes, Deleted
  <2>2. CASE q # p
    BY <2>2, <2>0, <1>4 DEF PurgeInv, PurgeTypes, Deleted, Working
  <2> QED
    BY <2>1, <2>2
<1>10. Listed' /\ Asked'
  BY <1>1, <1>2, <1>3, <1>4 DEF PurgeInv, PurgeTypes, Listed, Asked, Asking, Overdue, Working
<1>11. Stored' /\ Trash!PurgedMeansGone'
  BY <1>1, <1>6 DEF PurgeInv, PurgeTypes, Stored, Trash!PurgedMeansGone
<1>12. Trash!NoStrangeLoss'
  <2> SUFFICES ASSUME NEW e \in StoredEmail
               PROVE  /\ store'[e] # Trash!Saved(e) =>
                           e \in trashed /\ (email[e].purged \/ email[e].updated + Retention < day)
                      /\ missed[e] # {} => e \in trashed /\ store'[e] # Trash!Saved(e)
                      /\ e \in Stripped => "original" \in store'[e]
    BY <1>1 DEF Trash!NoStrangeLoss, Trash!Saved
  <2>1. CASE e = d
    BY <2>1, <1>6, <1>7, SavedKeys DEF PurgeInv, PurgeTypes, Overdue, Trash!NoStrangeLoss,
       Stored
  <2>2. CASE e # d
    BY <2>2, <1>6 DEF PurgeInv, PurgeTypes, Trash!NoStrangeLoss
  <2> QED
    BY <2>1, <2>2
<1> QED
  BY <1>8, <1>9, <1>10, <1>11, <1>12 DEF PurgeInv

LEMMA MarkStep ==
  ASSUME PurgeInv, Retention \in Nat, NEW p \in Purger, Trash!Mark(p) PROVE PurgeInv'
<1>1. UNCHANGED <<day, store, req, todo, trashed, missed>> /\ cur' = [cur EXCEPT ![p] = Trash!Idle]
  BY DEF Trash!Mark, Trash!history
<1>2. cur[p] \in Labour /\ Working(p) /\ cur[p].keys = {} /\ ~cur[p].failed
  BY DEF Trash!Mark, PurgeInv, PurgeTypes, Working
<1>3. PICK d \in StoredEmail : d = cur[p].email
  BY <1>2 DEF Labour
<1>4. /\ email' \in [StoredEmail -> EmailRow]
      /\ \A e \in StoredEmail \ {d} : email'[e] = email[e]
      /\ email'[d].purged /\ email'[d].status = email[d].status
  BY <1>3 DEF Trash!Mark, PurgeInv, PurgeTypes, EmailRow
<1>5. store[d] \cap Trash!PurgeKeys(d) = {}
  BY <1>2, <1>3 DEF PurgeInv, Deleted
<1>6. PurgeTypes'
  BY <1>1, <1>4 DEF PurgeInv, PurgeTypes
<1>7. \A e \in StoredEmail : Overdue(e) => Overdue(e)'
  BY <1>1, <1>4 DEF Overdue
<1>8. Deleted' /\ Listed' /\ Asked'
  BY <1>1, <1>7 DEF PurgeInv, PurgeTypes, Deleted, Listed, Asked, Asking, Working, Labour,
     Trash!PurgeKeys
<1>9. Stored' /\ Trash!PurgedMeansGone'
  BY <1>1, <1>4, <1>5 DEF PurgeInv, Stored, Trash!PurgedMeansGone
<1>10. Trash!NoStrangeLoss'
  BY <1>1, <1>4 DEF PurgeInv, Trash!NoStrangeLoss
<1> QED
  BY <1>6, <1>8, <1>9, <1>10 DEF PurgeInv

LEMMA MidnightStep ==
  ASSUME PurgeInv, Retention \in Nat, Trash!Midnight PROVE PurgeInv'
<1>1. UNCHANGED <<email, store, req, todo, cur, trashed, missed>> /\ day' = day + 1
  BY DEF Trash!Midnight, Trash!history, Trash!purge
<1>2. PurgeTypes'
  BY <1>1 DEF PurgeInv, PurgeTypes
<1>3. \A e \in StoredEmail : Overdue(e) => Overdue(e)'
  BY <1>1 DEF PurgeInv, PurgeTypes, Overdue, EmailRow
<1>4. Deleted' /\ Listed' /\ Asked' /\ Stored' /\ Trash!PurgedMeansGone'
  BY <1>1, <1>3 DEF PurgeInv, PurgeTypes, Deleted, Listed, Asked, Asking, Working, Labour,
     Stored,
                    Trash!PurgedMeansGone
<1>5. Trash!NoStrangeLoss'
  BY <1>1, <1>3 DEF PurgeInv, Trash!NoStrangeLoss, Overdue
<1> QED
  BY <1>2, <1>4, <1>5 DEF PurgeInv

LEMMA PurgeNext ==
  ASSUME PurgeInv, Retention \in Nat, [Trash!Next]_Trash!vars PROVE PurgeInv'
<1>1. ASSUME NEW p \in Purger, Trash!PurgeStep(p) PROVE PurgeInv'
  BY <1>1, ListStep, TakeStep, DeleteStep, DeleteFailsStep, MarkStep, LeaveStep
     DEF Trash!PurgeStep
<1>2. CASE UNCHANGED Trash!vars
  BY <1>2, PlanStep DEF Trash!vars, Trash!purge, Trash!history, PurgeInv, PurgeTypes, Deleted,
     Listed,
                        Overdue, Working
<1> QED
  BY <1>1, <1>2, UserStepPreserves, BulkDeleteStep, LeaveStep, MidnightStep DEF Trash!Next

-----------------------------------------------------------------------------
\* Bounds: no row is written by a day to come, and the past is about emails there are.
Calendar ==
  /\ backend \in Backends
  /\ day \in 0..MaxDay /\ faults \in 0..MaxFaults
  /\ \A e \in StoredEmail : email[e].updated <= day
  /\ inTrash \in [StoredEmail -> 0..MaxDay]
  /\ trashed \subseteq StoredEmail

LEMMA CalendarInit ==
  ASSUME MaxDay \in Nat, MaxFaults \in Nat, Trash!Init PROVE Calendar
<1>1. email \in [StoredEmail -> [status : {"INBOX", "DELETED"}, updated : {0}, purged : {FALSE}]]
  BY DEF Trash!Init
<1>2. \A e \in StoredEmail : email[e].updated = 0
  BY <1>1
<1> QED
  BY <1>2 DEF Trash!Init, Calendar

\* A step of a handler or of a purger that writes no row.
LEMMA CalendarStays ==
  ASSUME Calendar, MaxFaults \in Nat, UNCHANGED <<backend, day, email, inTrash, trashed>>,
         Trash!Fault \/ UNCHANGED faults
  PROVE  Calendar'
BY DEF Calendar, Trash!Fault

LEMMA CalendarMoves ==
  ASSUME Calendar, PurgeInv, NEW S \in SUBSET StoredEmail, NEW s, Trash!SetStatus(S, s),
         UNCHANGED <<backend, day, faults>>
  PROVE  Calendar'
<1>1. \A e \in StoredEmail : email'[e].updated = email[e].updated
  BY DEF Trash!SetStatus, PurgeInv, PurgeTypes, EmailRow
<1>2. inTrash' \in [StoredEmail -> 0..MaxDay]
  BY DEF Trash!SetStatus, Calendar
<1>3. trashed' \subseteq StoredEmail
  BY DEF Trash!SetStatus, Calendar
<1> QED
  BY <1>1, <1>2, <1>3 DEF Calendar

LEMMA CalendarMark ==
  ASSUME Calendar, PurgeInv, MaxDay \in Nat, NEW p \in Purger, Trash!Mark(p) PROVE Calendar'
<1>1. cur[p].email \in StoredEmail
  BY DEF Trash!Mark, PurgeInv, PurgeTypes, Labour
<1>2. \A e \in StoredEmail : email'[e].updated = email[e].updated \/ email'[e].updated = day
  BY <1>1 DEF Trash!Mark, PurgeInv, PurgeTypes, EmailRow
<1>3. \A e \in StoredEmail : email'[e].updated <= day
  BY <1>2 DEF Calendar
<1> QED
  BY <1>3 DEF Trash!Mark, Trash!history, Calendar

LEMMA CalendarNext ==
  ASSUME Calendar, PurgeInv, MaxDay \in Nat, MaxFaults \in Nat, [Trash!Next]_Trash!vars
  PROVE  Calendar'
<1>1. ASSUME NEW r \in Request, Trash!UserStep(r) PROVE Calendar'
  <2>1. CASE Trash!Write(r)
    <3>1. {req[r].email} \in SUBSET StoredEmail
      BY <2>1 DEF Trash!Write, PurgeInv, PurgeTypes, Errand
    <3> QED
      BY <2>1, <3>1, CalendarMoves DEF Trash!Write
  <2>2. CASE Trash!Fetch(r)
    BY <2>2, CalendarStays DEF Trash!Fetch
  <2>3. CASE \E e \in StoredEmail : \E s, k : Trash!Read(r, e, s, k)
    BY <2>3, CalendarStays DEF Trash!Read, Trash!history
  <2> QED
    BY <1>1, <2>1, <2>2, <2>3
       DEF Trash!UserStep, Trash!Move, Trash!Learn, Trash!View, Trash!Download
<1>2. ASSUME NEW p \in Purger, Trash!PurgeStep(p) PROVE Calendar'
  <2>1. CASE Trash!List(p)
    BY <2>1, CalendarStays DEF Trash!List, Trash!history
  <2>2. CASE \E e \in StoredEmail : Trash!Take(p, e)
    BY <2>2, CalendarStays DEF Trash!Take, Trash!history
  <2>3. CASE \E k \in Trash!Key : Trash!Delete(p, k)
    BY <2>3, CalendarStays DEF Trash!Delete, Trash!history
  <2>4. CASE \E k \in Trash!Key : Trash!DeleteFails(p, k)
    BY <2>4, CalendarStays DEF Trash!DeleteFails, Trash!history
  <2>5. CASE Trash!Skip(p)
    BY <2>5, CalendarStays DEF Trash!Skip, Trash!history
  <2> QED
    BY <1>2, <2>1, <2>2, <2>3, <2>4, <2>5, CalendarMark DEF Trash!PurgeStep
<1>3. ASSUME NEW p \in Purger, Trash!Crash(p) \/ \E e \in StoredEmail : Trash!TakeFails(p, e)
      PROVE  Calendar'
  BY <1>3, CalendarStays DEF Trash!Crash, Trash!TakeFails, Trash!history
<1>4. ASSUME NEW S \in SUBSET StoredEmail, Trash!BulkDelete(S) PROVE Calendar'
  BY <1>4, CalendarMoves DEF Trash!BulkDelete
<1>5. CASE Trash!Midnight
  <2>1. \A e \in StoredEmail : email'[e].updated <= day'
    BY <1>5 DEF Trash!Midnight, Calendar, PurgeInv, PurgeTypes, EmailRow
  <2>2. day' \in 0..MaxDay
    BY <1>5 DEF Trash!Midnight, Calendar
  <2> QED
    BY <1>5, <2>1, <2>2 DEF Trash!Midnight, Trash!history, Calendar
<1>6. CASE UNCHANGED Trash!vars
  BY <1>6, CalendarStays DEF Trash!vars, Trash!history
<1> QED
  BY <1>1, <1>2, <1>3, <1>4, <1>5, <1>6 DEF Trash!Next

LEMMA PurgeTyped ==
  ASSUME Calendar, PurgeInv, MaxDay \in Nat PROVE Trash!TypeOK
<1>1. \A e \in StoredEmail : email[e].updated \in 0..MaxDay
  BY DEF Calendar, PurgeInv, PurgeTypes, EmailRow
<1>2. \A e \in StoredEmail :
        email[e] \in [status : Trash!Status, updated : 0..MaxDay, purged : BOOLEAN]
  BY <1>1 DEF PurgeInv, PurgeTypes, EmailRow
<1>3. email \in [StoredEmail ->
        [status : Trash!Status, updated : 0..MaxDay, purged : BOOLEAN]]
  BY <1>2 DEF PurgeInv, PurgeTypes
<1> QED
  BY <1>3 DEF Trash!TypeOK, Calendar, PurgeInv, PurgeTypes, Errand, Labour

-----------------------------------------------------------------------------
\* purged_datetime is the truth (trashpurge.Run, MarkEmailPurged): whatever failed,
\* crashed or was repeated, it is set only on emails whose content is gone.
THEOREM PurgedIsGone ==
  ASSUME Retention \in Nat PROVE Trash!Spec => []Trash!PurgedMeansGone
<1>1. PurgeInv /\ [Trash!Next]_Trash!vars => PurgeInv'
  BY PurgeNext
<1>2. PurgeInv => Trash!PurgedMeansGone
  BY DEF PurgeInv
<1> QED
  BY <1>1, <1>2, PurgeInit, PTL DEF Trash!Spec

\* Users and purges in any order (email_handlers, trashpurge.Run): who has never been in
\* the trash, or was written within the retention time, loses nothing, nobody misses
\* what is there, and the archived original stays.
THEOREM LossIsDue ==
  ASSUME Retention \in Nat PROVE Trash!Spec => []Trash!NoStrangeLoss
<1>1. PurgeInv /\ [Trash!Next]_Trash!vars => PurgeInv'
  BY PurgeNext
<1>2. PurgeInv => Trash!NoStrangeLoss
  BY DEF PurgeInv
<1> QED
  BY <1>1, <1>2, PurgeInit, PTL DEF Trash!Spec

\* The types of TrashPurge: rows have one of the four statuses and were written by today,
\* keys are those of an email (MarkEmailPurged, UpdateEmailStatus).
THEOREM PurgeTypesHold ==
  ASSUME Retention \in Nat, MaxDay \in Nat, MaxFaults \in Nat
  PROVE  Trash!Spec => []Trash!TypeOK
<1>1. Trash!Init => PurgeInv /\ Calendar
  BY PurgeInit, CalendarInit
<1>2. PurgeInv /\ Calendar /\ [Trash!Next]_Trash!vars => PurgeInv' /\ Calendar'
  BY PurgeNext, CalendarNext
<1>3. PurgeInv /\ Calendar => Trash!TypeOK
  BY PurgeTyped
<1> QED
  BY <1>1, <1>2, <1>3, PTL DEF Trash!Spec
=============================================================================
