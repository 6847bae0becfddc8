---------------------------- MODULE MailboxView ----------------------------
(***************************************************************************)
(* What a member sees of a mailbox: the list of a view, which the browser  *)
(* loads page by page (internal/web/mailbox_handlers, db.SearchEmails),    *)
(* while mail arrives and other members and tabs change the same rows, and *)
(* the events that tell every open tab of new mail (internal/web/pubsub,   *)
(* handleEvents, internal/pipeline/step_notify).                           *)
(*                                                                         *)
(* One tab's list is followed.  When it asks for a page is up to its user, *)
(* its scrolling and the events.                                           *)
(***************************************************************************)
EXTENDS Integers, Sequences, SequencesExt, FiniteSets, FiniteSetsExt

CONSTANTS
  Email,      \* emails, numbered by their IDs
  TimeOf,     \* receive_datetime of each; several may have the same
  Sent,       \* the emails that are outbound
  Category,   \* what the column may hold: "" if an email has none, "none" if it was set to that
  Tab,        \* the tabs that may listen for events
  PageSize,
  Capacity,   \* of a subscriber's channel
  MaxChanges, \* bound: updates of rows
  Scenes      \* bound: the rows in play, the emails there from the start, the views
              \* looked at, the tabs that listen

Filter == {"mail", "all", "unread", "read", "starred", "quarantined", "deleted", "sent", "search"}
Statuses == {"INBOX", "QUARANTINED", "DELETED"}

Row == [status : Statuses, read : BOOLEAN, star : BOOLEAN, category : Category]
View == [filter : Filter, category : Category \cup {"", "none"}]
Scene == [rows : SUBSET Row, old : SUBSET Email, views : SUBSET View, tabs : SUBSET Tab]

ASSUME MailboxViewAssumption ==
  /\ Email \subseteq Nat /\ TimeOf \in [Email -> Nat] /\ Sent \subseteq Email
  /\ PageSize \in Nat \ {0} /\ Capacity \in Nat \ {0} /\ MaxChanges \in Nat
  /\ Scenes \subseteq Scene /\ \A s \in Scenes : IsFiniteSet(s.old)

VARIABLES
  scene,    \* which of the scenes this is
  row,      \* email rows
  notify,   \* emails stored whose ingestion has yet to notify
  stream,   \* per tab: its channel in the Hub, and what handleEvents does
  view,     \* what the list shows
  request,  \* the page being fetched, with the rows found
  list,     \* the rows of the list, in order
  more,     \* the list ends in an element that loads more
  changes,  \* updates of rows so far
  steady,   \* history: the emails that have been in the view since the list's first page
  unheard   \* history: per tab, the emails announced that no event has reached it since

vars == <<scene, row, notify, stream, view, request, list, more, changes, steady, unheard>>

-----------------------------------------------------------------------------
Absent == [status |-> "none"]
Closed == [at |-> "closed", queue |-> 0]
NoView == [filter |-> "none", category |-> ""]
NoRequest == [kind |-> "none"]

Init ==
  /\ scene \in Scenes
  /\ \E rows \in [scene.old -> scene.rows] :
       row = [e \in Email |-> IF e \in scene.old THEN rows[e] ELSE Absent]
  /\ notify = {}
  /\ stream = [t \in Tab |-> Closed]
  /\ view = NoView /\ request = NoRequest /\ list = <<>> /\ more = FALSE
  /\ changes = 0
  /\ steady = {}
  /\ unheard = [t \in Tab |-> {}]

-----------------------------------------------------------------------------
(* db.SearchEmails *)

\* viewConditions; a search goes through everything that is not deleted.
InFilter(filter, e, x) ==
  CASE filter = "mail" -> x.status = "INBOX" /\ e \notin Sent
    [] filter = "all" -> x.status = "INBOX"
    [] filter = "unread" -> x.status = "INBOX" /\ e \notin Sent /\ ~x.read
    [] filter = "read" -> x.status = "INBOX" /\ e \notin Sent /\ x.read
    [] filter = "starred" -> x.star /\ x.status # "DELETED"
    [] filter = "quarantined" -> x.status = "QUARANTINED"
    [] filter = "deleted" -> x.status = "DELETED"
    [] filter = "sent" -> e \in Sent /\ x.status # "DELETED"
    [] filter = "search" -> x.status # "DELETED"
    [] OTHER -> FALSE

\* No category is asked for, or that of the row; "none" asks for the rows without.
InCategory(c, x) ==
  CASE c = "" -> TRUE
    [] c = "none" -> x.category = ""
    [] OTHER -> x.category = c

Matching(v, rows) ==
  {e \in Email : rows[e] # Absent /\ InFilter(v.filter, e, rows[e])
                   /\ InCategory(v.category, rows[e])}

\* CountEmailsByMailboxID, which has conditions of its own: of its filters the pages
\* ask for "unread", for the number beside Mail.
CountEmails(filter, rows) ==
  LET mail(e) == rows[e].status = "INBOX" /\ e \notin Sent
      counted(e) ==
        CASE filter = "unread" -> mail(e) /\ ~rows[e].read
          [] filter = "read" -> mail(e) /\ rows[e].read
          [] filter = "starred" -> rows[e].star /\ rows[e].status # "DELETED"
          [] filter = "quarantined" -> rows[e].status = "QUARANTINED"
          [] filter = "deleted" -> rows[e].status = "DELETED"
          [] filter = "sent" -> e \in Sent /\ rows[e].status # "DELETED"
          [] filter = "all" -> rows[e].status = "INBOX"
          [] OTHER -> mail(e)
  IN Cardinality({e \in Email : rows[e] # Absent /\ counted(e)})

\* CountEmailsByCategory, which takes no category and one that is "none" together.
Named(x) == IF x.category = "" THEN "none" ELSE x.category

CountByCategory(filter, rows) ==
  LET found == Matching([filter |-> filter, category |-> ""], rows)
  IN [c \in {Named(rows[e]) : e \in found} |-> Cardinality({e \in found : Named(rows[e]) = c})]

\* Mutant of Older: the cursor is a time only.
OlderByTime(e, f) == TimeOf[e] < TimeOf[f]

\* (receive_datetime, id) < (cursor's)
Older(e, f) == TimeOf[e] < TimeOf[f] \/ (TimeOf[e] = TimeOf[f] /\ e < f)

\* ORDER BY receive_datetime DESC, id DESC
Newer(e, f) == TimeOf[e] > TimeOf[f] \/ (TimeOf[e] = TimeOf[f] /\ e > f)

\* The rows found that come before e.
Before(e, found) == {f \in found : Newer(f, e)}

\* The order and the LIMIT: the i-th row has i - 1 before it.
Page(found) ==
  [i \in 1..Min({PageSize, Cardinality(found)}) |->
     CHOOSE e \in found : Cardinality(Before(e, found)) = i - 1]

FirstPage(v) == Page(Matching(v, row))
NextPage(v, cursor) == Page({e \in Matching(v, row) : Older(e, cursor)})

\* A full page may be the last one: the next one is empty then.
HasMore(rows) == Len(rows) = PageSize

-----------------------------------------------------------------------------
(* The list *)

\* handleMailboxView, handleMailboxSearch: the database has answered.  Whatever
\* another request of the tab brings is no longer wanted.
AskFirst(v) ==
  /\ request' = [kind |-> "first", view |-> v, rows |-> FirstPage(v)]
  /\ steady' = Matching(v, row)
  /\ UNCHANGED <<scene, row, notify, stream, view, list, more, changes, unheard>>

\* The list that the answer replaces is gone.
ShowFirst ==
  /\ request.kind = "first"
  /\ view' = request.view /\ list' = request.rows /\ more' = HasMore(request.rows)
  /\ request' = NoRequest
  /\ UNCHANGED <<scene, row, notify, stream, changes, steady, unheard>>

\* handleMailboxMore, handleSearchMore, once the end of the list is in sight.  The
\* element that the first page ends in does not know of the category.
AskMore ==
  /\ request = NoRequest /\ more
  /\ request' = [kind |-> "more",
                 rows |-> NextPage([view EXCEPT !.category = ""], Last(list))]
  /\ UNCHANGED <<scene, row, notify, stream, view, list, more, changes, steady, unheard>>

ShowMore ==
  /\ request.kind = "more"
  /\ list' = list \o request.rows /\ more' = HasMore(request.rows)
  /\ request' = NoRequest
  /\ UNCHANGED <<scene, row, notify, stream, view, changes, steady, unheard>>

\* A request that fails leaves the list as it was; the element that loads more
\* asks once only.
AskFails ==
  /\ \/ request.kind = "first" /\ more' = more
        /\ steady' = steady \cap Matching(view, row) \cap Range(list)
     \/ request.kind = "more" /\ more' = FALSE /\ steady' = steady \cap Range(list)
  /\ request' = NoRequest
  /\ UNCHANGED <<scene, row, notify, stream, view, list, changes, unheard>>

-----------------------------------------------------------------------------
(* Changes of rows *)

Viewed == IF request.kind = "first" THEN request.view ELSE view

Update(rows) ==
  /\ rows # row /\ changes < MaxChanges
  /\ Range(rows) \subseteq scene.rows \cup {Absent}
  /\ row' = rows
  /\ changes' = changes + 1
  /\ UNCHANGED <<scene, notify, stream, view, list, more, unheard>>

Elsewhere(rows) ==
  /\ Update(rows)
  /\ steady' = steady \cap Matching(Viewed, rows)
  /\ UNCHANGED request

\* handleEmailView, and BulkMarkEmailRead from another tab.
Present == {e \in Email : row[e] # Absent}
WithRead(es, read) ==
  [e \in Email |-> IF e \in es \cap Present THEN [row[e] EXCEPT !.read = read] ELSE row[e]]
WithStatus(es, status) ==
  [e \in Email |-> IF e \in es \cap Present THEN [row[e] EXCEPT !.status = status] ELSE row[e]]

MarkRead(e) == Elsewhere(WithRead({e}, TRUE))

\* handleEmailDelete, which turns round the status it has read, handleEmailRelease,
\* handleEmailLearn, handleEmailDeleteAndBlock: an email gets another status.
SetStatus(e, status) == Elsewhere(WithStatus({e}, status))

\* handleEmailStar, which turns round the flag it has read.
SetStar(e, star) ==
  e \in Present /\ Elsewhere([row EXCEPT ![e].star = star])

\* handleEmailCategory: any text that a form sends, but none.
SetCategory(e, c) ==
  c # "" /\ e \in Present /\ Elsewhere([row EXCEPT ![e].category = c])

\* handleBulkEmailAction: the rows are changed, and the answer is the first page of
\* the filter.
Bulk(rows) ==
  LET v == [view EXCEPT !.category = ""]
      found == Matching(v, rows) IN
  /\ view # NoView
  /\ Update(rows)
  /\ request' = [kind |-> "first", view |-> v, rows |-> Page(found)]
  /\ steady' = found

\* The ingestion, or the sending, of an email stores it.  Those that a filter has
\* marked as read are not announced.
Store(e, x) ==
  /\ row[e] = Absent
  /\ row' = [row EXCEPT ![e] = x]
  /\ notify' = IF e \in Sent \/ x.read THEN notify ELSE notify \cup {e}
  /\ UNCHANGED <<scene, stream, view, request, list, more, changes, steady, unheard>>

-----------------------------------------------------------------------------
(* Events *)

\* Subscribe.
Connect(t) ==
  /\ stream[t] = Closed
  /\ stream' = [stream EXCEPT ![t] = [at |-> "waiting", queue |-> 0]]
  /\ UNCHANGED <<scene, row, notify, view, request, list, more, changes, steady, unheard>>

\* Unsubscribe, when the connection is gone.
Disconnect(t) ==
  /\ stream[t].at = "waiting"
  /\ stream' = [stream EXCEPT ![t] = Closed]
  /\ unheard' = [unheard EXCEPT ![t] = {}]
  /\ UNCHANGED <<scene, row, notify, view, request, list, more, changes, steady>>

\* Mutant of Offered: a channel without a buffer.
OfferedUnbuffered(s) ==
  IF s.at = "waiting" /\ s.queue = 0 THEN [s EXCEPT !.queue = 1] ELSE s

\* The non-blocking send: an event that does not fit is lost.
Offered(s) ==
  IF s.at # "closed" /\ s.queue < Capacity THEN [s EXCEPT !.queue = @ + 1] ELSE s

\* Notify and Broadcast, which no Subscribe or Unsubscribe can come between.
Broadcast(e) ==
  /\ e \in notify
  /\ notify' = notify \ {e}
  /\ stream' = [t \in Tab |-> Offered(stream[t])]
  /\ unheard' = [t \in Tab |-> IF stream[t] = Closed THEN {} ELSE unheard[t] \cup {e}]
  /\ UNCHANGED <<scene, row, view, request, list, more, changes, steady>>

\* handleEvents takes an event, or a heartbeat is due ...
TakeEvent(t) ==
  /\ stream[t].at = "waiting" /\ stream[t].queue > 0
  /\ stream' = [stream EXCEPT ![t] = [at |-> "writing", queue |-> @.queue - 1]]
  /\ UNCHANGED <<scene, row, notify, view, request, list, more, changes, steady, unheard>>

Heartbeat(t) ==
  /\ stream[t].at = "waiting" /\ stream[t].queue = 0
  /\ stream' = [stream EXCEPT ![t].at = "written"]
  /\ UNCHANGED <<scene, row, notify, view, request, list, more, changes, steady, unheard>>

\* ... flushes it, upon which the tab asks for its list and its count again ...
Flush(t) ==
  /\ stream[t].at = "writing"
  /\ stream' = [stream EXCEPT ![t].at = "written"]
  /\ unheard' = [unheard EXCEPT ![t] = {}]
  /\ UNCHANGED <<scene, row, notify, view, request, list, more, changes, steady>>

\* ... and waits for the next one.
Wait(t) ==
  /\ stream[t].at = "written"
  /\ stream' = [stream EXCEPT ![t].at = "waiting"]
  /\ UNCHANGED <<scene, row, notify, view, request, list, more, changes, steady, unheard>>

-----------------------------------------------------------------------------
Next ==
  \/ (\E v \in scene.views : AskFirst(v)) \/ ShowFirst \/ AskMore \/ ShowMore \/ AskFails
  \/ \E e \in Email :
       \/ MarkRead(e)
       \/ \E status \in Statuses : SetStatus(e, status)
       \/ \E star \in BOOLEAN : SetStar(e, star)
       \/ \E c \in Category : SetCategory(e, c)
       \/ \E x \in scene.rows : Store(e, x)
       \/ Broadcast(e)
  \/ \E es \in SUBSET Range(list) \ {{}} :
       \/ \E read \in BOOLEAN : Bulk(WithRead(es, read))
       \/ Bulk(WithStatus(es, "DELETED"))
  \/ \E t \in scene.tabs :
       Connect(t) \/ Disconnect(t) \/ TakeEvent(t) \/ Heartbeat(t) \/ Flush(t) \/ Wait(t)

Spec == Init /\ [][Next]_vars

-----------------------------------------------------------------------------
(* Properties *)

TypeOK ==
  /\ row \in [Email -> Row \cup {Absent}]
  /\ notify \subseteq Email
  /\ stream \in [Tab -> [at : {"closed", "waiting", "writing", "written"}, queue : 0..Capacity]]
  /\ view \in View \cup {NoView}
  /\ Range(list) \subseteq Email /\ more \in BOOLEAN
  /\ changes \in 0..MaxChanges
  /\ steady \subseteq Email /\ unheard \in [Tab -> SUBSET Email]

\* However the rows change while a member scrolls: no email is in the list twice,
\* and once there is no more to load, every email that has been in the view all
\* along is in the list.
PagingIsComplete ==
  /\ Cardinality(Range(list)) = Len(list)
  /\ request = NoRequest /\ view # NoView /\ ~more => steady \subseteq Range(list)

\* An email that was announced while a tab was listening is one that the tab has
\* asked for since, or there is an event on its way that will make it ask: the
\* events lost to a full channel are covered by those in it.
NothingUnannounced ==
  \A t \in Tab : unheard[t] # {} => stream[t].queue > 0 \/ stream[t].at = "writing"
=============================================================================
