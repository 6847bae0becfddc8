--------------------------- MODULE ComposeProofs ---------------------------
(***************************************************************************)
(* What the windows of a user keep true, for any windows, drafts, messages *)
(* and limit.                                                              *)
(*                                                                         *)
(* A window that has no draft's id yet, and may still create a row, is     *)
(* alone with its message, of which there is no row; every id that a       *)
(* window holds is that of the only row of its message.  What the windows  *)
(* that have counted will store is counted with what is stored.            *)
(***************************************************************************)
EXTENDS Compose, FiniteSetTheorems, TLAPS

\* What the reply to /send can be, from what the window's requests have done.
Honest(s) ==
  /\ ~s.sending => s.send = "idle" /\ s.told = "nothing" /\ ~s.row /\ ~s.job
  /\ s.send # "idle" => s.told = "nothing"
  /\ s.send \in {"count", "persist"} => ~s.row /\ ~s.job
  /\ s.send = "insert" => s.row /\ ~s.job
  /\ s.send \in {"delete", "list"} => s.row /\ (s.job \/ "insert" \in s.failed)
  /\ s.told = "limit" => ~s.row
  /\ s.told = "error" /\ s.row => s.failed \cap {"persist", "list"} # {}
  /\ s.told = "sent" => s.row /\ (s.job \/ "insert" \in s.failed)
  /\ s.job => s.row

\* The windows that have counted, and have yet to store their email.
Counted == {w \in Window : win[w].send = "persist"}

LimitInv ==
  /\ \A h \in Hour : h > hour => emails[h] = 0
  /\ Limit > 0 => \A h \in Hour :
       /\ emails[h] + 1 <= Limit + Cardinality(Window)
       /\ h = hour => emails[h] + Cardinality(Counted) + 1 <= Limit + Cardinality(Window)

\* Two windows that have the same message are known to share it.
Sharing ==
  \A v, w \in Window :
    v # w /\ ~Free(v) /\ ~Free(w) /\ win[v].msg = win[w].msg => win[w].msg \in shared

\* The ids that the window's form and its requests have.
Holds(s, d) == d # NoId /\ (s.id = d \/ s.saveId = d \/ s.sendId = d)

\* A window's ids are of its message, and its row is there unless it has been sent, shared
\* or discarded.
Holding(w) ==
  LET s == win[w] IN
    /\ \A d \in Draft : Holds(s, d) => draft[d] \in {s.msg, Gone}
    /\ \A d \in Draft : s.page /\ ~s.sending /\ (s.id = d \/ s.saveId = d)
         => draft[d] = s.msg \/ s.msg \in shared \/ "discard" \in s.failed

KeptInv == Sharing /\ \A w \in Window : Holding(w)

\* No request is under way with a row of that kind.
FreeRow(s) == ~s.page /\ s.save = "idle" /\ s.send = "idle"

\* A window that may create a row.
Bare(s) ==
  \/ s.page /\ s.id = NoId /\ s.save # "saved"
  \/ s.save = "asked" /\ s.saveId = NoId

\* How the form and its two requests go together.
Requests(s) ==
  /\ s.page /\ s.save = "asked" => s.saveId = s.id
  /\ s.save = "saved" => s.page /\ s.saveId \in Draft
  /\ s.save = "idle" => s.saveId = NoId
  /\ s.send = "idle" => s.sendId = NoId
  /\ s.page /\ s.note => s.id # NoId
  /\ ~s.page => s.id = NoId

\* Nothing is kept or queued of a message before it is begun.
BegunInv == \A m \in Msg \ begun : DraftsOf(m) = {} /\ jobs[m] = 0

Good(s) == Honest(s) /\ Requests(s)
GoodInv == \A w \in Window : Good(win[w])

Unfinished == {"count", "persist", "insert", "delete"}

\* What window w knows of the drafts of message m.
Knows(m, w) ==
  LET s == win[w] IN
  s.msg = m /\ ~FreeRow(s) =>
    /\ Bare(s) => /\ DraftsOf(m) = {}
                  /\ \A v \in Window \ {w} : FreeRow(win[v]) \/ win[v].msg # m
                  /\ jobs[m] > 0 => s.sending
    /\ s.page /\ s.id # NoId => DraftsOf(m) \subseteq {s.id}
    /\ s.saveId # NoId => DraftsOf(m) \subseteq {s.saveId}
    /\ s.send \in Unfinished => DraftsOf(m) \subseteq {s.sendId}

Tidy(m) ==
  /\ \A d, e \in DraftsOf(m) : d = e
  /\ \A w \in Window : Knows(m, w)
  /\ jobs[m] > 0 =>
       DraftsOf(m) = {} \/ \E w \in Window : win[w].msg = m /\ win[w].send = "delete"

TidyInv == \A m \in Msg \ lapses : Tidy(m)

-----------------------------------------------------------------------------
(* Windows *)

LEMMA Fields ==
  ASSUME TypeOK, NEW w \in Window
  PROVE  /\ win[w] \in WindowRow
         /\ ~Free(w) => win[w].msg \in begun
         /\ win[w].save = "saved" => win[w].saveId \in Draft
         /\ win = [v \in Window |-> win[v]]
BY DEF TypeOK

LEMMA OneWindow ==
  ASSUME TypeOK, NEW w \in Window, NEW r, Set(w, r)
  PROVE  win'[w] = r /\ \A v \in Window \ {w} : win'[v] = win[v]
BY DEF TypeOK, Set

LEMMA BlankRow ==
  ASSUME NEW m \in Msg \cup {NoMsg}, NEW d \in Draft \cup {NoId}
  PROVE  /\ Blank(m, d) \in WindowRow
         /\ Blank(m, d).page /\ Blank(m, d).msg = m /\ Blank(m, d).id = d
         /\ Blank(m, d).note = (d # NoId) /\ ~Blank(m, d).sending
         /\ Blank(m, d).save = "idle" /\ Blank(m, d).saveId = NoId
         /\ Blank(m, d).send = "idle" /\ Blank(m, d).sendId = NoId
         /\ Blank(m, d).told = "nothing" /\ ~Blank(m, d).row /\ ~Blank(m, d).job
         /\ Blank(m, d).failed = {}
BY DEF Blank, WindowRow

LEMMA LeftRow ==
  ASSUME NEW s \in WindowRow
  PROVE  /\ Left(s) \in WindowRow
         /\ ~Left(s).page /\ Left(s).msg = s.msg /\ Left(s).id = NoId /\ ~Left(s).note
         /\ Left(s).sending = s.sending
         /\ Left(s).save = IF s.save = "saved" THEN "idle" ELSE s.save
         /\ Left(s).saveId = IF s.save = "saved" THEN NoId ELSE s.saveId
         /\ Left(s).send = s.send /\ Left(s).sendId = s.sendId /\ Left(s).told = s.told
         /\ Left(s).row = s.row /\ Left(s).job = s.job /\ Left(s).failed = s.failed
<1>1. CASE s.save = "saved"
  <2> DEFINE r == [s EXCEPT !.page = FALSE, !.id = NoId, !.resumed = FALSE, !.note = FALSE,
                            !.save = "idle", !.saveId = NoId]
  <2>1. Left(s) = r
    BY <1>1 DEF Left, WindowRow
  <2>2. /\ r \in WindowRow
        /\ ~r.page /\ r.msg = s.msg /\ r.id = NoId /\ ~r.note /\ r.sending = s.sending
        /\ r.save = "idle" /\ r.saveId = NoId
        /\ r.send = s.send /\ r.sendId = s.sendId /\ r.told = s.told
        /\ r.row = s.row /\ r.job = s.job /\ r.failed = s.failed
    BY DEF WindowRow
  <2> HIDE DEF r
  <2> QED
    BY <1>1, <2>1, <2>2
<1>2. CASE s.save # "saved"
  <2> DEFINE r == [s EXCEPT !.page = FALSE, !.id = NoId, !.resumed = FALSE, !.note = FALSE]
  <2>1. Left(s) = r
    BY <1>2 DEF Left, WindowRow
  <2>2. /\ r \in WindowRow
        /\ ~r.page /\ r.msg = s.msg /\ r.id = NoId /\ ~r.note /\ r.sending = s.sending
        /\ r.save = s.save /\ r.saveId = s.saveId
        /\ r.send = s.send /\ r.sendId = s.sendId /\ r.told = s.told
        /\ r.row = s.row /\ r.job = s.job /\ r.failed = s.failed
    BY DEF WindowRow
  <2> HIDE DEF r
  <2> QED
    BY <1>2, <2>1, <2>2
<1> QED
  BY <1>1, <1>2

LEMMA ToldRow ==
  ASSUME NEW s \in WindowRow, NEW t \in {"sent", "limit", "error"}
  PROVE  /\ Told(s, t) \in WindowRow
         /\ Told(s, t).page = s.page /\ Told(s, t).msg = s.msg /\ Told(s, t).id = s.id
         /\ Told(s, t).note = s.note /\ Told(s, t).sending = s.sending
         /\ Told(s, t).save = s.save /\ Told(s, t).saveId = s.saveId
         /\ Told(s, t).send = "idle" /\ Told(s, t).sendId = NoId /\ Told(s, t).told = t
         /\ Told(s, t).row = s.row /\ Told(s, t).job = s.job /\ Told(s, t).failed = s.failed
BY DEF Told, WindowRow

LEMMA ClosedRow ==
  /\ Closed \in WindowRow /\ ~Closed.page /\ Closed.msg = NoMsg /\ Closed.id = NoId
  /\ ~Closed.sending /\ Closed.save = "idle" /\ Closed.saveId = NoId
  /\ Closed.send = "idle" /\ Closed.sendId = NoId /\ Closed.told = "nothing"
  /\ ~Closed.row /\ ~Closed.job
BY DEF Closed, Blank, WindowRow

(* A step of w, told by what becomes of the window: s before it, r after it. *)
Becomes(w, s, r) == win[w] = s /\ Set(w, r) /\ s \in WindowRow /\ r \in WindowRow

\* What the form keeps when only the request to /send goes on.
SameForm(s, r) ==
  /\ r.page = s.page /\ r.msg = s.msg /\ r.id = s.id /\ r.note = s.note /\ r.sending = s.sending
  /\ r.save = s.save /\ r.saveId = s.saveId

\* ... and when only the form and its saves do.
SameSend(s, r) ==
  /\ r.msg = s.msg /\ r.sending = s.sending /\ r.send = s.send /\ r.sendId = s.sendId
  /\ r.told = s.told /\ r.row = s.row /\ r.job = s.job

LEMMA OpenFacts ==
  ASSUME TypeOK, NEW w \in Window, NEW m \in Msg, Open(w, m)
  PROVE  Becomes(w, win[w], Blank(m, NoId))
BY Fields, BlankRow DEF Open, Becomes

LEMMA ResumeFacts ==
  ASSUME TypeOK, NEW w \in Window, NEW d \in Draft, Resume(w, d)
  PROVE  draft[d] \in Msg /\ Becomes(w, win[w], Blank(draft[d], d))
BY Fields, BlankRow DEF Resume, Becomes

LEMMA AutosaveFacts ==
  ASSUME TypeOK, NEW w \in Window, Autosave(w)
  PROVE  \E s, r : /\ Becomes(w, s, r) /\ SameSend(s, r) /\ s.page /\ r.page /\ s.save = "idle"
                   /\ r.save = "asked" /\ r.saveId = s.id /\ r.id = s.id /\ r.note = s.note
                   /\ r.failed = s.failed
<1> DEFINE s == win[w]
           r == [s EXCEPT !.save = "asked", !.saveId = s.id]
<1>1. s \in WindowRow
  BY Fields
<1>2. /\ r \in WindowRow /\ SameSend(s, r) /\ r.page = s.page
      /\ r.save = "asked" /\ r.saveId = s.id /\ r.id = s.id /\ r.note = s.note /\ r.failed = s.failed
  BY <1>1 DEF WindowRow, SameSend
<1>3. Set(w, r) /\ s.page /\ s.save = "idle"
  BY DEF Autosave
<1> HIDE DEF r
<1> QED
  BY <1>1, <1>2, <1>3 DEF Becomes

LEMMA LeaveFacts ==
  ASSUME TypeOK, NEW w \in Window, Leave(w) \/ Discard(w)
  PROVE  Becomes(w, win[w], Left(win[w])) /\ win[w].page
BY Fields, LeftRow DEF Leave, Discard, Becomes

\* What becomes of a window whose save is answered with d.
Answered(s, d) ==
  IF s.page THEN [s EXCEPT !.save = "saved", !.saveId = d]
  ELSE [s EXCEPT !.save = "idle", !.saveId = NoId]

LEMMA AnswerFacts ==
  ASSUME TypeOK, NEW w \in Window, NEW d \in Draft, Answer(w, d)
  PROVE  \E s, r : /\ Becomes(w, s, r) /\ SameSend(s, r) /\ r.page = s.page
                   /\ r.save = IF s.page THEN "saved" ELSE "idle"
                   /\ r.saveId = IF s.page THEN d ELSE NoId
                   /\ r.id = s.id /\ r.note = s.note /\ r.failed = s.failed
<1> DEFINE s == win[w]
           r == Answered(s, d)
<1>1. s \in WindowRow
  BY Fields
<1>2. /\ r \in WindowRow /\ SameSend(s, r) /\ r.page = s.page
      /\ r.save = IF s.page THEN "saved" ELSE "idle"
      /\ r.saveId = IF s.page THEN d ELSE NoId
      /\ r.id = s.id /\ r.note = s.note /\ r.failed = s.failed
  BY <1>1 DEF WindowRow, SameSend, Answered
<1>3. Set(w, r)
  BY DEF Answer, Answered
<1> HIDE DEF r
<1> QED
  BY <1>1, <1>2, <1>3 DEF Becomes

LEMMA SaveFailsFacts ==
  ASSUME TypeOK, NEW w \in Window, SaveFails(w)
  PROVE  \E s, r : /\ Becomes(w, s, r) /\ SameSend(s, r) /\ r.page = s.page
                   /\ s.save = "asked" /\ r.save = "idle" /\ r.saveId = NoId
                   /\ r.id = s.id /\ r.note = s.note /\ r.failed = s.failed
<1> DEFINE s == win[w]
           r == [s EXCEPT !.save = "idle", !.saveId = NoId]
<1>1. s \in WindowRow
  BY Fields
<1>2. /\ r \in WindowRow /\ SameSend(s, r) /\ r.page = s.page
      /\ r.save = "idle" /\ r.saveId = NoId
      /\ r.id = s.id /\ r.note = s.note /\ r.failed = s.failed
  BY <1>1 DEF WindowRow, SameSend
<1>3. Set(w, r) /\ s.save = "asked"
  BY DEF SaveFails
<1> HIDE DEF r
<1> QED
  BY <1>1, <1>2, <1>3 DEF Becomes

LEMMA SavedFacts ==
  ASSUME TypeOK, NEW w \in Window, Saved(w)
  PROVE  \E s, r : /\ Becomes(w, s, r) /\ SameSend(s, r) /\ s.page /\ r.page
                   /\ s.save = "saved" /\ s.saveId \in Draft
                   /\ r.save = "idle" /\ r.saveId = NoId /\ r.id = s.saveId /\ r.note
                   /\ r.failed = s.failed
<1> DEFINE s == win[w]
           r == [s EXCEPT !.save = "idle", !.saveId = NoId, !.note = TRUE, !.id = s.saveId]
<1>1. s \in WindowRow /\ (s.save = "saved" => s.saveId \in Draft)
  BY Fields
<1>2. /\ r \in WindowRow /\ SameSend(s, r) /\ r.page = s.page
      /\ r.save = "idle" /\ r.saveId = NoId /\ r.id = s.saveId /\ r.note /\ r.failed = s.failed
  BY <1>1 DEF WindowRow, SameSend
<1>3. Set(w, r) /\ s.save = "saved" /\ s.page
  BY DEF Saved
<1> HIDE DEF r
<1> QED
  BY <1>1, <1>2, <1>3 DEF Becomes

LEMMA DiscardUnconfirmedFacts ==
  ASSUME TypeOK, NEW w \in Window, DiscardUnconfirmed(w)
  PROVE  \E s, r : /\ Becomes(w, s, r) /\ SameSend(s, r) /\ SameForm(s, r) /\ s.page
                   /\ r.failed = s.failed \cup {"discard"}
<1> DEFINE s == win[w]
           r == [s EXCEPT !.failed = @ \cup {"discard"}]
<1>1. s \in WindowRow
  BY Fields
<1>2. r \in WindowRow /\ SameSend(s, r) /\ SameForm(s, r) /\ r.failed = s.failed \cup {"discard"}
  BY <1>1 DEF WindowRow, SameSend, SameForm
<1>3. Set(w, r) /\ s.page
  BY DEF DiscardUnconfirmed
<1> HIDE DEF r
<1> QED
  BY <1>1, <1>2, <1>3 DEF Becomes

LEMMA SubmitFacts ==
  ASSUME TypeOK, NEW w \in Window, Submit(w)
  PROVE  \E s, r : /\ Becomes(w, s, r) /\ s.page /\ ~s.sending
                   /\ r.page /\ r.msg = s.msg /\ r.id = s.id /\ r.note = s.note /\ r.sending
                   /\ r.save = s.save /\ r.saveId = s.saveId
                   /\ r.send = "count" /\ r.sendId = s.id
                   /\ r.told = s.told /\ r.row = s.row /\ r.job = s.job /\ r.failed = s.failed
<1> DEFINE s == win[w]
           r == [s EXCEPT !.sending = TRUE, !.send = "count", !.sendId = s.id]
<1>1. s \in WindowRow
  BY Fields
<1>2. /\ r \in WindowRow
      /\ r.page = s.page /\ r.msg = s.msg /\ r.id = s.id /\ r.note = s.note /\ r.sending
      /\ r.save = s.save /\ r.saveId = s.saveId
      /\ r.send = "count" /\ r.sendId = s.id
      /\ r.told = s.told /\ r.row = s.row /\ r.job = s.job /\ r.failed = s.failed
  BY <1>1 DEF WindowRow
<1>3. Set(w, r) /\ s.page /\ ~s.sending
  BY DEF Submit
<1> HIDE DEF r
<1> QED
  BY <1>1, <1>2, <1>3 DEF Becomes

\* The steps of the request to /send.
LEMMA CountFacts ==
  ASSUME TypeOK, NEW w \in Window, Count(w)
  PROVE  \E s, r : /\ Becomes(w, s, r) /\ SameForm(s, r) /\ r.sendId = s.sendId
                   /\ s.send = "count" /\ r.send = "persist" /\ r.told = s.told
                   /\ r.row = s.row /\ r.job = s.job /\ r.failed = s.failed
<1> DEFINE s == win[w]
           r == [s EXCEPT !.send = "persist"]
<1>1. s \in WindowRow
  BY Fields
<1>2. /\ r \in WindowRow /\ SameForm(s, r) /\ r.sendId = s.sendId /\ r.told = s.told
      /\ r.failed = s.failed /\ r.send = "persist" /\ r.row = s.row /\ r.job = s.job
  BY <1>1 DEF WindowRow, SameForm
<1>3. Set(w, r) /\ s.send = "count"
  BY DEF Count
<1> HIDE DEF r
<1> QED
  BY <1>1, <1>2, <1>3 DEF Becomes

LEMMA PersistFacts ==
  ASSUME TypeOK, NEW w \in Window, Persist(w)
  PROVE  \E s, r : /\ Becomes(w, s, r) /\ SameForm(s, r) /\ r.sendId = s.sendId
                   /\ s.send = "persist" /\ r.send = "insert" /\ r.told = s.told
                   /\ r.row /\ r.job = s.job /\ r.failed = s.failed
<1> DEFINE s == win[w]
           r == [s EXCEPT !.send = "insert", !.row = TRUE]
<1>1. s \in WindowRow
  BY Fields
<1>2. /\ r \in WindowRow /\ SameForm(s, r) /\ r.sendId = s.sendId /\ r.told = s.told
      /\ r.failed = s.failed /\ r.send = "insert" /\ r.row /\ r.job = s.job
  BY <1>1 DEF WindowRow, SameForm
<1>3. Set(w, r) /\ s.send = "persist"
  BY DEF Persist
<1> HIDE DEF r
<1> QED
  BY <1>1, <1>2, <1>3 DEF Becomes

LEMMA InsertFacts ==
  ASSUME TypeOK, NEW w \in Window, InsertOutboundJob(w) \/ InsertFails(w)
  PROVE  \E s, r : /\ Becomes(w, s, r) /\ SameForm(s, r) /\ r.sendId = s.sendId
                   /\ s.send = "insert" /\ r.send = "delete" /\ r.told = s.told
                   /\ r.row = s.row /\ (r.job \/ "insert" \in r.failed)
                   /\ s.failed \subseteq r.failed
<1> DEFINE s == win[w]
<1>1. s \in WindowRow
  BY Fields
<1>2. CASE InsertOutboundJob(w)
  <2> DEFINE r == [s EXCEPT !.send = "delete", !.job = TRUE]
  <2>1. /\ r \in WindowRow /\ SameForm(s, r) /\ r.sendId = s.sendId /\ r.told = s.told
        /\ r.failed = s.failed /\ r.send = "delete" /\ r.row = s.row /\ r.job
    BY <1>1 DEF WindowRow, SameForm
  <2>2. Set(w, r) /\ s.send = "insert"
    BY <1>2 DEF InsertOutboundJob
  <2> HIDE DEF r
  <2> QED
    BY <1>1, <2>1, <2>2 DEF Becomes
<1>3. CASE InsertFails(w)
  <2>1. PICK b \in BOOLEAN :
          Set(w, [s EXCEPT !.send = "delete", !.job = b, !.failed = @ \cup {"insert"}])
    BY <1>3 DEF InsertFails
  <2> DEFINE r == [s EXCEPT !.send = "delete", !.job = b, !.failed = @ \cup {"insert"}]
  <2>2. /\ r \in WindowRow /\ SameForm(s, r) /\ r.sendId = s.sendId /\ r.told = s.told
        /\ r.failed = s.failed \cup {"insert"} /\ r.send = "delete" /\ r.row = s.row
    BY <1>1 DEF WindowRow, SameForm
  <2>3. Set(w, r) /\ s.send = "insert"
    BY <1>3, <2>1 DEF InsertFails
  <2> HIDE DEF r
  <2> QED
    BY <1>1, <2>2, <2>3 DEF Becomes
<1> QED
  BY <1>2, <1>3

LEMMA DeleteFacts ==
  ASSUME TypeOK, NEW w \in Window, DeleteDraft(w) \/ DeleteFails(w)
  PROVE  \E s, r : /\ Becomes(w, s, r) /\ SameForm(s, r) /\ r.sendId = s.sendId
                   /\ s.send = "delete" /\ r.send = "list" /\ r.told = s.told
                   /\ r.row = s.row /\ r.job = s.job /\ r.failed = s.failed
<1> DEFINE s == win[w]
           r == [s EXCEPT !.send = "list"]
<1>1. s \in WindowRow
  BY Fields
<1>2. /\ r \in WindowRow /\ SameForm(s, r) /\ r.sendId = s.sendId /\ r.told = s.told
      /\ r.failed = s.failed /\ r.send = "list" /\ r.row = s.row /\ r.job = s.job
  BY <1>1 DEF WindowRow, SameForm
<1>3. Set(w, r) /\ s.send = "delete"
  BY DEF DeleteDraft, DeleteFails
<1> HIDE DEF r
<1> QED
  BY <1>1, <1>2, <1>3 DEF Becomes

\* The request is over, with the page as it was.
Refused(s, r) == SameForm(s, r) /\ r.send = "idle" /\ r.sendId = NoId /\ r.job = s.job

LEMMA RefuseFacts ==
  ASSUME TypeOK, NEW w \in Window, OverLimit(w) \/ Refuse(w)
  PROVE  \E s, r : /\ Becomes(w, s, r) /\ Refused(s, r)
                   /\ s.send = "count" /\ r.told \in {"limit", "error"} /\ r.row = s.row
                   /\ r.failed = s.failed
<1> DEFINE s == win[w]
<1>1. s \in WindowRow
  BY Fields
<1>2. PICK t \in {"limit", "error"} : Set(w, Told(s, t)) /\ s.send = "count"
  BY DEF OverLimit, Refuse, Reply
<1> DEFINE r == Told(s, t)
<1>3. /\ r \in WindowRow /\ Refused(s, r) /\ r.told = t /\ r.row = s.row /\ r.failed = s.failed
  BY <1>1, ToldRow DEF SameForm, Refused
<1>4. Set(w, r)
  BY <1>2
<1> HIDE DEF r
<1> QED
  BY <1>1, <1>2, <1>3, <1>4 DEF Becomes

LEMMA PersistFailsFacts ==
  ASSUME TypeOK, NEW w \in Window, PersistFails(w)
  PROVE  \E s, r : /\ Becomes(w, s, r) /\ Refused(s, r)
                   /\ s.send = "persist" /\ r.told = "error" /\ "persist" \in r.failed
                   /\ s.failed \subseteq r.failed
<1> DEFINE s == win[w]
<1>1. s \in WindowRow
  BY Fields
<1>2. PICK b \in BOOLEAN :
        Set(w, [Told(s, "error") EXCEPT !.row = b, !.failed = @ \cup {"persist"}])
  BY DEF PersistFails
<1>3. PICK q : q = Told(s, "error")
  OBVIOUS
<1>4. q \in WindowRow /\ Refused(s, q) /\ q.told = "error" /\ q.failed = s.failed
  BY <1>1, <1>3, ToldRow DEF SameForm, Refused
<1> DEFINE r == [q EXCEPT !.row = b, !.failed = @ \cup {"persist"}]
<1>5. /\ r \in WindowRow /\ Refused(s, r) /\ r.told = "error"
      /\ r.failed = s.failed \cup {"persist"}
  BY <1>4 DEF SameForm, WindowRow, Refused
<1>6. Set(w, r) /\ s.send = "persist"
  BY <1>2, <1>3 DEF PersistFails
<1> HIDE DEF r
<1> QED
  BY <1>1, <1>5, <1>6 DEF Becomes

LEMMA ListFailsFacts ==
  ASSUME TypeOK, NEW w \in Window, ListFails(w)
  PROVE  \E s, r : /\ Becomes(w, s, r) /\ Refused(s, r)
                   /\ s.send = "list" /\ r.told = "error" /\ r.row = s.row
                   /\ "list" \in r.failed /\ s.failed \subseteq r.failed
<1> DEFINE s == win[w]
<1>1. s \in WindowRow
  BY Fields
<1>2. PICK q : q = Told(s, "error")
  OBVIOUS
<1>3. q \in WindowRow /\ Refused(s, q) /\ q.told = "error" /\ q.row = s.row /\ q.failed = s.failed
  BY <1>1, <1>2, ToldRow DEF SameForm, Refused
<1> DEFINE r == [q EXCEPT !.failed = @ \cup {"list"}]
<1>4. /\ r \in WindowRow /\ Refused(s, r) /\ r.told = "error" /\ r.row = s.row
      /\ r.failed = s.failed \cup {"list"}
  BY <1>3 DEF SameForm, WindowRow, Refused
<1>5. Set(w, r) /\ s.send = "list"
  BY <1>2 DEF ListFails
<1> HIDE DEF r
<1> QED
  BY <1>1, <1>4, <1>5 DEF Becomes

LEMMA ListSentFacts ==
  ASSUME TypeOK, NEW w \in Window, ListSent(w)
  PROVE  \E s, r : /\ Becomes(w, s, r) /\ s.send = "list" /\ r.send = "idle" /\ r.sendId = NoId
                   /\ r.told = "sent" /\ r.row = s.row /\ r.job = s.job /\ r.failed = s.failed
                   /\ ~r.page /\ r.msg = s.msg /\ r.id = NoId /\ ~r.note /\ r.sending = s.sending
                   /\ r.save = IF s.save = "saved" THEN "idle" ELSE s.save
                   /\ r.saveId = IF s.save = "saved" THEN NoId ELSE s.saveId
<1> DEFINE s == win[w]
<1>1. s \in WindowRow
  BY Fields
<1>2. PICK q : q = Told(s, "sent")
  OBVIOUS
<1>3. /\ q \in WindowRow /\ Refused(s, q) /\ q.told = "sent" /\ q.row = s.row
      /\ q.failed = s.failed
  BY <1>1, <1>2, ToldRow DEF SameForm, Refused
<1> DEFINE r == Left(q)
<1>4. /\ r \in WindowRow /\ ~r.page /\ r.msg = q.msg /\ r.id = NoId /\ ~r.note
      /\ r.sending = q.sending
      /\ r.save = IF q.save = "saved" THEN "idle" ELSE q.save
      /\ r.saveId = IF q.save = "saved" THEN NoId ELSE q.saveId
      /\ r.send = q.send /\ r.sendId = q.sendId /\ r.told = q.told
      /\ r.row = q.row /\ r.job = q.job /\ r.failed = q.failed
  BY <1>3, LeftRow
<1>5. Set(w, r) /\ s.send = "list"
  BY <1>2 DEF ListSent
<1> HIDE DEF r
<1> QED
  BY <1>1, <1>3, <1>4, <1>5 DEF Becomes, SameForm, Refused

-----------------------------------------------------------------------------
(* What the steps do to a window *)

\* The row after the step holds nothing that the one before it did not.
Keeps(s, r) ==
  /\ r.msg = s.msg /\ (FreeRow(s) => FreeRow(r))
  /\ \A d \in Draft : Holds(r, d) => Holds(s, d)
  /\ r.page /\ ~r.sending => s.page /\ ~s.sending
  /\ \A d \in Draft : r.page /\ ~r.sending /\ (r.id = d \/ r.saveId = d) => s.id = d \/ s.saveId = d
  /\ s.failed \subseteq r.failed

\* The ids that a row knows to be those of its message's drafts.
Named(s, d) ==
  \/ d # NoId /\ ((s.page /\ s.id = d) \/ s.saveId = d)
  \/ s.send \in Unfinished /\ s.sendId = d

\* The row after the step knows nothing of its drafts that the one before it did not.
Follows(s, r) ==
  /\ Bare(r) => Bare(s)
  /\ s.sending => r.sending
  /\ r.page /\ r.id # NoId => Named(s, r.id)
  /\ r.saveId # NoId => Named(s, r.saveId)
  /\ r.send \in Unfinished => Bare(s) \/ Named(s, r.sendId)

LEMMA FreeWindow ==
  ASSUME NEW w \in Window
  PROVE  Free(w) <=> FreeRow(win[w])
BY DEF Free, FreeRow

LEMMA Moved ==
  ASSUME TypeOK, NEW w \in Window, NEW s, NEW r, Becomes(w, s, r)
  PROVE  /\ win[w] = s /\ win'[w] = r /\ s \in WindowRow /\ r \in WindowRow
         /\ \A v \in Window \ {w} : win'[v] = win[v]
         /\ win' \in [Window -> WindowRow]
BY DEF TypeOK, Set, Becomes

LEMMA BlankIsGood ==
  ASSUME ComposeAssumption, NEW m \in Msg, NEW d \in Draft \cup {NoId}
  PROVE  Good(Blank(m, d))
<1>1. PICK r : r = Blank(m, d)
  OBVIOUS
<1>2. /\ r.id = d /\ r.page /\ ~r.sending /\ r.note = (d # NoId)
      /\ r.save = "idle" /\ r.saveId = NoId /\ r.send = "idle" /\ r.sendId = NoId
      /\ r.told = "nothing" /\ ~r.row /\ ~r.job
  BY <1>1, BlankRow
<1> QED
  BY <1>1, <1>2 DEF Good, Honest, Requests

LEMMA ClosedIsGood == Good(Closed)
<1>1. PICK r : r = Closed
  OBVIOUS
<1>2. /\ ~r.page /\ r.id = NoId /\ ~r.sending /\ r.save = "idle" /\ r.saveId = NoId
      /\ r.send = "idle" /\ r.sendId = NoId /\ r.told = "nothing" /\ ~r.row /\ ~r.job
  BY <1>1, ClosedRow
<1> QED
  BY <1>1, <1>2 DEF Good, Honest, Requests

\* A step of the form or of its save.
FormStep(w) ==
  \/ Autosave(w) \/ Saved(w) \/ Leave(w) \/ Discard(w) \/ DiscardUnconfirmed(w)
  \/ UpdateDraft(w) \/ SaveFails(w)

LEMMA FormSteps ==
  ASSUME ComposeAssumption, TypeOK, GoodInv, NEW w \in Window, FormStep(w)
  PROVE  \E s, r : /\ Becomes(w, s, r) /\ Good(s) /\ Good(r) /\ Keeps(s, r) /\ Follows(s, r)
                   /\ r.send = s.send
<1>1. CASE Autosave(w)
  <2>1. PICK s, r : /\ Becomes(w, s, r) /\ SameSend(s, r) /\ s.page /\ r.page /\ s.save = "idle"
                    /\ r.save = "asked" /\ r.saveId = s.id /\ r.id = s.id /\ r.note = s.note
                    /\ r.failed = s.failed
    BY <1>1, AutosaveFacts
  <2>2. Good(s)
    BY <2>1 DEF GoodInv, Becomes
  <2>3. Good(r)
    BY <2>1, <2>2 DEF Good, Honest, Requests, SameSend
  <2>4. Keeps(s, r)
    BY <2>1, <2>2 DEF Keeps, Holds, FreeRow, SameSend, Good, Requests
  <2>5. Follows(s, r)
    BY <2>1, <2>2 DEF Follows, Named, Bare, SameSend, Good, Requests
  <2> QED
    BY <2>1, <2>2, <2>3, <2>4, <2>5 DEF SameSend
<1>2. CASE Saved(w)
  <2>1. PICK s, r : /\ Becomes(w, s, r) /\ SameSend(s, r) /\ s.page /\ r.page
                    /\ s.save = "saved" /\ s.saveId \in Draft
                    /\ r.save = "idle" /\ r.saveId = NoId /\ r.id = s.saveId /\ r.note
                    /\ r.failed = s.failed
    BY <1>2, SavedFacts
  <2>2. Good(s)
    BY <2>1 DEF GoodInv, Becomes
  <2>3. Good(r)
    BY <2>1, <2>2 DEF Good, Honest, Requests, SameSend, ComposeAssumption
  <2>4. Keeps(s, r)
    BY <2>1, <2>2 DEF Keeps, Holds, FreeRow, SameSend, Good, Requests
  <2>5. Follows(s, r)
    BY <2>1, <2>2 DEF Follows, Named, Bare, SameSend, Good, Requests, ComposeAssumption
  <2> QED
    BY <2>1, <2>2, <2>3, <2>4, <2>5 DEF SameSend
<1>3. CASE Leave(w) \/ Discard(w)
  <2>1. PICK s, r : s = win[w] /\ r = Left(s) /\ Becomes(w, s, r)
    BY <1>3, LeaveFacts
  <2>2. s \in WindowRow /\ Good(s)
    BY <2>1, Fields DEF GoodInv
  <2>3. /\ ~r.page /\ r.msg = s.msg /\ r.id = NoId /\ ~r.note
        /\ r.sending = s.sending
        /\ r.save = (IF s.save = "saved" THEN "idle" ELSE s.save)
        /\ r.saveId = (IF s.save = "saved" THEN NoId ELSE s.saveId)
        /\ r.send = s.send /\ r.sendId = s.sendId /\ r.told = s.told
        /\ r.row = s.row /\ r.job = s.job /\ r.failed = s.failed
    BY <2>1, <2>2, LeftRow
  <2>4. Good(r)
    BY <2>2, <2>3 DEF Good, Honest, Requests
  <2>5. Keeps(s, r)
    BY <2>2, <2>3 DEF Keeps, Holds, FreeRow, Good, Requests
  <2>6. Follows(s, r)
    BY <2>2, <2>3 DEF Follows, Named, Bare, Good, Requests
  <2> QED
    BY <2>1, <2>2, <2>3, <2>4, <2>5, <2>6
<1>4. CASE DiscardUnconfirmed(w)
  <2>1. PICK s, r : /\ Becomes(w, s, r) /\ SameSend(s, r) /\ SameForm(s, r)
                    /\ r.failed = s.failed \cup {"discard"}
    BY <1>4, DiscardUnconfirmedFacts
  <2>2. Good(s)
    BY <2>1 DEF GoodInv, Becomes
  <2>3. Good(r)
    BY <2>1, <2>2 DEF Good, Honest, Requests, SameSend, SameForm
  <2>4. Keeps(s, r)
    BY <2>1, <2>2 DEF Keeps, Holds, FreeRow, SameSend, SameForm, Good, Requests
  <2>5. Follows(s, r)
    BY <2>1, <2>2 DEF Follows, Named, Bare, SameSend, SameForm, Good, Requests
  <2> QED
    BY <2>1, <2>2, <2>3, <2>4, <2>5 DEF SameSend
<1>5. CASE UpdateDraft(w)
  <2>1. win[w].save = "asked" /\ win[w].saveId \in Draft /\ Answer(w, win[w].saveId)
    BY <1>5, Fields DEF UpdateDraft, WindowRow
  <2>2. PICK d \in Draft : d = win[w].saveId
    BY <2>1
  <2>3. PICK s, r : /\ Becomes(w, s, r) /\ SameSend(s, r) /\ r.page = s.page
                    /\ r.save = (IF s.page THEN "saved" ELSE "idle")
                    /\ r.saveId = (IF s.page THEN d ELSE NoId)
                    /\ r.id = s.id /\ r.note = s.note /\ r.failed = s.failed
    BY <2>1, <2>2, AnswerFacts
  <2>4. Good(s) /\ s.save = "asked" /\ s.saveId = d
    BY <2>1, <2>2, <2>3 DEF GoodInv, Becomes
  <2>5. Good(r)
    BY <2>3, <2>4 DEF Good, Honest, Requests, SameSend
  <2>6. Keeps(s, r)
    BY <2>3, <2>4 DEF Keeps, Holds, FreeRow, SameSend, Good, Requests
  <2>7. Follows(s, r)
    BY <2>3, <2>4 DEF Follows, Named, Bare, SameSend, Good, Requests, ComposeAssumption
  <2> QED
    BY <2>3, <2>4, <2>5, <2>6, <2>7 DEF SameSend
<1>6. CASE SaveFails(w)
  <2>1. PICK s, r : /\ Becomes(w, s, r) /\ SameSend(s, r) /\ r.page = s.page
                    /\ s.save = "asked" /\ r.save = "idle" /\ r.saveId = NoId
                    /\ r.id = s.id /\ r.note = s.note /\ r.failed = s.failed
    BY <1>6, SaveFailsFacts
  <2>2. Good(s)
    BY <2>1 DEF GoodInv, Becomes
  <2>3. Good(r)
    BY <2>1, <2>2 DEF Good, Honest, Requests, SameSend
  <2>4. Keeps(s, r)
    BY <2>1, <2>2 DEF Keeps, Holds, FreeRow, SameSend, Good, Requests
  <2>5. Follows(s, r)
    BY <2>1, <2>2 DEF Follows, Named, Bare, SameSend, Good, Requests
  <2> QED
    BY <2>1, <2>2, <2>3, <2>4, <2>5 DEF SameSend
<1> QED
  BY <1>1, <1>2, <1>3, <1>4, <1>5, <1>6 DEF FormStep

\* The form goes out.
LEMMA SubmitStep ==
  ASSUME TypeOK, GoodInv, NEW w \in Window, Submit(w)
  PROVE  \E s, r : /\ Becomes(w, s, r) /\ Good(s) /\ Good(r) /\ Keeps(s, r)
                   /\ Follows(s, r) \/ (s.save = "saved" /\ s.id = NoId)
                   /\ s.send = "idle" /\ r.send = "count" /\ ~FreeRow(s)
<1>1. PICK s, r : /\ Becomes(w, s, r) /\ s.page /\ ~s.sending
                  /\ r.page /\ r.msg = s.msg /\ r.id = s.id /\ r.note = s.note /\ r.sending
                  /\ r.save = s.save /\ r.saveId = s.saveId
                  /\ r.send = "count" /\ r.sendId = s.id
                  /\ r.told = s.told /\ r.row = s.row /\ r.job = s.job /\ r.failed = s.failed
  BY SubmitFacts
<1>2. Good(s)
  BY <1>1 DEF GoodInv, Becomes
<1>3. Good(r)
  BY <1>1, <1>2 DEF Good, Honest, Requests
<1>4. Keeps(s, r)
  BY <1>1, <1>2 DEF Keeps, Holds, FreeRow
<1>5. Follows(s, r) \/ (s.save = "saved" /\ s.id = NoId)
  BY <1>1, <1>2 DEF Follows, Named, Bare, Unfinished
<1> QED
  BY <1>1, <1>2, <1>3, <1>4, <1>5 DEF Good, Honest, FreeRow

\* The server's part of the request to /send.
LEMMA SendSteps ==
  ASSUME ComposeAssumption, TypeOK, GoodInv, NEW w \in Window, Sending(w)
  PROVE  \E s, r : /\ Becomes(w, s, r) /\ Good(s) /\ Good(r) /\ Keeps(s, r) /\ Follows(s, r)
                   /\ s.sending /\ r.sending /\ ~FreeRow(s)
                   /\ s.send = "delete" => DeleteDraft(w) \/ DeleteFails(w)
                   /\ s.send = "persist" => Persist(w) \/ PersistFails(w)
                   /\ r.send = "persist" => Count(w)
<1>1. CASE Count(w)
  <2>1. PICK s, r : /\ Becomes(w, s, r) /\ SameForm(s, r) /\ r.sendId = s.sendId
                    /\ s.send = "count" /\ r.send = "persist" /\ r.told = s.told
                    /\ r.row = s.row /\ r.job = s.job /\ r.failed = s.failed
    BY <1>1, CountFacts
  <2>2. Good(s)
    BY <2>1 DEF GoodInv, Becomes
  <2>3. Good(r) /\ Keeps(s, r)
    BY <2>1, <2>2 DEF Good, Honest, Requests, SameForm, Keeps, Holds, FreeRow
  <2>4. Follows(s, r)
    BY <2>1, <2>2 DEF Follows, Named, Bare, SameForm, Unfinished
  <2> QED
    BY <1>1, <2>1, <2>2, <2>3, <2>4 DEF Good, Honest, SameForm, FreeRow
<1>2. CASE Persist(w)
  <2>1. PICK s, r : /\ Becomes(w, s, r) /\ SameForm(s, r) /\ r.sendId = s.sendId
                    /\ s.send = "persist" /\ r.send = "insert" /\ r.told = s.told
                    /\ r.row /\ r.job = s.job /\ r.failed = s.failed
    BY <1>2, PersistFacts
  <2>2. Good(s)
    BY <2>1 DEF GoodInv, Becomes
  <2>3. Good(r) /\ Keeps(s, r)
    BY <2>1, <2>2 DEF Good, Honest, Requests, SameForm, Keeps, Holds, FreeRow
  <2>4. Follows(s, r)
    BY <2>1, <2>2 DEF Follows, Named, Bare, SameForm, Unfinished
  <2> QED
    BY <1>2, <2>1, <2>2, <2>3, <2>4 DEF Good, Honest, SameForm, FreeRow
<1>3. CASE InsertOutboundJob(w) \/ InsertFails(w)
  <2>1. PICK s, r : /\ Becomes(w, s, r) /\ SameForm(s, r) /\ r.sendId = s.sendId
                    /\ s.send = "insert" /\ r.send = "delete" /\ r.told = s.told
                    /\ r.row = s.row /\ (r.job \/ "insert" \in r.failed)
                    /\ s.failed \subseteq r.failed
    BY <1>3, InsertFacts
  <2>2. Good(s)
    BY <2>1 DEF GoodInv, Becomes
  <2>3. Good(r) /\ Keeps(s, r)
    BY <2>1, <2>2 DEF Good, Honest, Requests, SameForm, Keeps, Holds, FreeRow
  <2>4. Follows(s, r)
    BY <2>1, <2>2 DEF Follows, Named, Bare, SameForm, Unfinished
  <2> QED
    BY <2>1, <2>2, <2>3, <2>4 DEF Good, Honest, SameForm, FreeRow
<1>4. CASE DeleteDraft(w) \/ DeleteFails(w)
  <2>1. PICK s, r : /\ Becomes(w, s, r) /\ SameForm(s, r) /\ r.sendId = s.sendId
                    /\ s.send = "delete" /\ r.send = "list" /\ r.told = s.told
                    /\ r.row = s.row /\ r.job = s.job /\ r.failed = s.failed
    BY <1>4, DeleteFacts
  <2>2. Good(s)
    BY <2>1 DEF GoodInv, Becomes
  <2>3. Good(r) /\ Keeps(s, r)
    BY <2>1, <2>2 DEF Good, Honest, Requests, SameForm, Keeps, Holds, FreeRow
  <2>4. Follows(s, r)
    BY <2>1, <2>2 DEF Follows, Named, Bare, SameForm, Unfinished
  <2> QED
    BY <1>4, <2>1, <2>2, <2>3, <2>4 DEF Good, Honest, SameForm, FreeRow
<1>5. CASE OverLimit(w) \/ Refuse(w)
  <2>1. PICK s, r : /\ Becomes(w, s, r) /\ Refused(s, r)
                    /\ s.send = "count" /\ r.told \in {"limit", "error"} /\ r.row = s.row
                    /\ r.failed = s.failed
    BY <1>5, RefuseFacts
  <2>2. Good(s)
    BY <2>1 DEF GoodInv, Becomes
  <2>3. Good(r) /\ Keeps(s, r)
    BY <2>1, <2>2
       DEF Good, Honest, Requests, SameForm, Refused, Keeps, Holds, FreeRow, ComposeAssumption
  <2>4. Follows(s, r)
    BY <2>1, <2>2 DEF Follows, Named, Bare, SameForm, Refused, Unfinished
  <2> QED
    BY <2>1, <2>2, <2>3, <2>4 DEF Good, Honest, SameForm, Refused, FreeRow
<1>6. CASE PersistFails(w)
  <2>1. PICK s, r : /\ Becomes(w, s, r) /\ Refused(s, r)
                    /\ s.send = "persist" /\ r.told = "error" /\ "persist" \in r.failed
                    /\ s.failed \subseteq r.failed
    BY <1>6, PersistFailsFacts
  <2>2. Good(s)
    BY <2>1 DEF GoodInv, Becomes
  <2>3. Good(r) /\ Keeps(s, r)
    BY <2>1, <2>2
       DEF Good, Honest, Requests, SameForm, Refused, Keeps, Holds, FreeRow, ComposeAssumption
  <2>4. Follows(s, r)
    BY <2>1, <2>2 DEF Follows, Named, Bare, SameForm, Refused, Unfinished
  <2> QED
    BY <1>6, <2>1, <2>2, <2>3, <2>4 DEF Good, Honest, SameForm, Refused, FreeRow
<1>7. CASE ListSent(w)
  <2>1. PICK s, r : /\ Becomes(w, s, r) /\ s.send = "list" /\ r.send = "idle" /\ r.sendId = NoId
                    /\ r.told = "sent" /\ r.row = s.row /\ r.job = s.job /\ r.failed = s.failed
                    /\ ~r.page /\ r.msg = s.msg /\ r.id = NoId /\ ~r.note /\ r.sending = s.sending
                    /\ r.save = (IF s.save = "saved" THEN "idle" ELSE s.save)
                    /\ r.saveId = (IF s.save = "saved" THEN NoId ELSE s.saveId)
    BY <1>7, ListSentFacts
  <2>2. Good(s)
    BY <2>1 DEF GoodInv, Becomes
  <2>3. Good(r)
    BY <2>1, <2>2 DEF Good, Honest, Requests
  <2>4. Keeps(s, r)
    BY <2>1, <2>2 DEF Keeps, Holds, FreeRow, Good, Requests, ComposeAssumption
  <2>5. Follows(s, r)
    BY <2>1, <2>2 DEF Follows, Named, Bare, Unfinished, Good, Requests
  <2> QED
    BY <2>1, <2>2, <2>3, <2>4, <2>5 DEF Good, Honest, FreeRow
<1>8. CASE ListFails(w)
  <2>1. PICK s, r : /\ Becomes(w, s, r) /\ Refused(s, r)
                    /\ s.send = "list" /\ r.told = "error" /\ r.row = s.row
                    /\ "list" \in r.failed /\ s.failed \subseteq r.failed
    BY <1>8, ListFailsFacts
  <2>2. Good(s)
    BY <2>1 DEF GoodInv, Becomes
  <2>3. Good(r) /\ Keeps(s, r)
    BY <2>1, <2>2
       DEF Good, Honest, Requests, SameForm, Refused, Keeps, Holds, FreeRow, ComposeAssumption
  <2>4. Follows(s, r)
    BY <2>1, <2>2 DEF Follows, Named, Bare, SameForm, Refused, Unfinished
  <2> QED
    BY <2>1, <2>2, <2>3, <2>4 DEF Good, Honest, SameForm, Refused, FreeRow
<1> QED
  BY <1>1, <1>2, <1>3, <1>4, <1>5, <1>6, <1>7, <1>8 DEF Sending

LEMMA CreateStep ==
  ASSUME ComposeAssumption, TypeOK, GoodInv, NEW w \in Window, NEW d \in Draft, CreateDraft(w, d)
  PROVE  \E s, r : /\ Becomes(w, s, r) /\ Good(s) /\ Good(r) /\ SameSend(s, r) /\ r.page = s.page
                   /\ s.save = "asked" /\ s.saveId = NoId
                   /\ r.save = IF s.page THEN "saved" ELSE "idle"
                   /\ r.saveId = IF s.page THEN d ELSE NoId
                   /\ r.id = s.id /\ r.failed = s.failed
<1>1. win[w].save = "asked" /\ win[w].saveId = NoId /\ Answer(w, d)
  BY DEF CreateDraft, NewRow
<1>2. PICK s, r : /\ Becomes(w, s, r) /\ SameSend(s, r) /\ r.page = s.page
                  /\ r.save = (IF s.page THEN "saved" ELSE "idle")
                  /\ r.saveId = (IF s.page THEN d ELSE NoId)
                  /\ r.id = s.id /\ r.note = s.note /\ r.failed = s.failed
  BY <1>1, AnswerFacts
<1>3. Good(s) /\ s.save = "asked" /\ s.saveId = NoId
  BY <1>1, <1>2 DEF GoodInv, Becomes
<1>4. Good(r)
  BY <1>2, <1>3 DEF Good, Honest, Requests, SameSend
<1> QED
  BY <1>2, <1>3, <1>4

-----------------------------------------------------------------------------
(* Types, and what each window's requests have done *)

Base == TypeOK /\ GoodInv /\ BegunInv

LEMMA RowsMove ==
  ASSUME Base, NEW w \in Window, NEW s, NEW r, Becomes(w, s, r), Good(r),
         ~FreeRow(r) => r.msg \in begun', begun \subseteq begun'
  PROVE  /\ win' \in [Window -> WindowRow]
         /\ (\A v \in Window : /\ ~Free(v) => win[v].msg \in begun
                               /\ win[v].save = "saved" => win[v].saveId \in Draft)'
         /\ GoodInv'
<1>1. /\ win'[w] = r /\ \A v \in Window \ {w} : win'[v] = win[v]
      /\ win' \in [Window -> WindowRow]
  BY Moved DEF Base
<1>2. ASSUME NEW v \in Window
      PROVE  /\ (~Free(v))' => win'[v].msg \in begun'
             /\ win'[v].save = "saved" => win'[v].saveId \in Draft
             /\ Good(win'[v])
  <2>1. CASE v = w
    BY <1>1, <2>1 DEF Free, FreeRow, Good, Requests
  <2>2. CASE v # w
    <3>1. win'[v] = win[v]
      BY <1>1, <2>2
    <3>2. (~Free(v) => win[v].msg \in begun) /\ (win[v].save = "saved" => win[v].saveId \in Draft)
      BY DEF Base, TypeOK
    <3> QED
      BY <3>1, <3>2 DEF Free, Base, GoodInv
  <2> QED
    BY <2>1, <2>2
<1> QED
  BY <1>1, <1>2 DEF GoodInv

\* What the rest of the state is when it has its types.
Tables ==
  /\ hour \in Hour
  /\ draft \in [Draft -> Msg \cup {Unused, Gone}]
  /\ emails \in [Hour -> Nat]
  /\ jobs \in [Msg -> Nat]
  /\ begun \subseteq Msg /\ shared \subseteq begun
  /\ lapses \subseteq begun

LEMMA WindowsMessage ==
  ASSUME Base, NEW w \in Window, ~FreeRow(win[w])
  PROVE  win[w].msg \in begun /\ win[w].msg \in Msg
BY DEF Base, TypeOK, FreeRow, Free

LEMMA FormTables ==
  ASSUME ComposeAssumption, Base, NEW w \in Window, FormStep(w) \/ Submit(w)
  PROVE  Tables' /\ begun' = begun
<1>0. Tables
  BY DEF Base, TypeOK, Tables
<1>1. CASE Autosave(w) \/ Saved(w) \/ Leave(w) \/ UpdateDraft(w)
  BY <1>0, <1>1 DEF Tables, Autosave, Saved, Leave, UpdateDraft, history, Hour
<1>2. CASE Discard(w) \/ DiscardUnconfirmed(w)
  BY <1>0, <1>2 DEF Tables, Discard, DiscardUnconfirmed, history, Hour
<1>3. CASE Submit(w)
  <2>1. win[w].msg \in begun
    BY <1>3, WindowsMessage DEF Submit, FreeRow
  <2> QED
    BY <1>0, <1>3, <2>1 DEF Tables, Submit, LapseIf, Hour
<1>4. CASE SaveFails(w)
  <2>1. win[w].msg \in begun /\ win[w].msg \in Msg
    BY <1>4, WindowsMessage DEF SaveFails, FreeRow
  <2> QED
    BY <1>0, <1>4, <2>1 DEF Tables, SaveFails, NewRow, LapseIf, Hour
<1> QED
  BY <1>1, <1>2, <1>3, <1>4 DEF FormStep

LEMMA CreateTables ==
  ASSUME ComposeAssumption, Base, NEW w \in Window, NEW d \in Draft, CreateDraft(w, d)
  PROVE  Tables' /\ begun' = begun
<1>0. Tables
  BY DEF Base, TypeOK, Tables
<1>1. win[w].msg \in begun /\ win[w].msg \in Msg
  BY WindowsMessage DEF CreateDraft, NewRow, FreeRow
<1> QED
  BY <1>0, <1>1 DEF Tables, CreateDraft, NewRow, LapseIf, Hour

LEMMA SendTables ==
  ASSUME ComposeAssumption, Base, NEW w \in Window, Sending(w)
  PROVE  Tables' /\ begun' = begun
<1>0. Tables
  BY DEF Base, TypeOK, Tables
<1>1. CASE Count(w) \/ OverLimit(w) \/ Refuse(w) \/ ListSent(w) \/ ListFails(w)
  BY <1>0, <1>1 DEF Tables, Count, OverLimit, Refuse, ListSent, ListFails, history, Hour
<1>2. CASE Persist(w) \/ PersistFails(w)
  <2>1. (StoreEmail \/ UNCHANGED emails) /\ UNCHANGED <<hour, draft, jobs, history>>
    BY <1>2 DEF Persist, PersistFails
  <2>2. emails' \in [Hour -> Nat]
    BY <1>0, <2>1 DEF Tables, StoreEmail
  <2> QED
    BY <1>0, <2>1, <2>2 DEF Tables, history, Hour
<1>3. CASE InsertOutboundJob(w) \/ InsertFails(w)
  <2>1. (Enqueue(w) \/ UNCHANGED jobs) /\ UNCHANGED <<hour, draft, emails, history>>
    BY <1>3 DEF InsertOutboundJob, InsertFails
  <2>2. jobs' \in [Msg -> Nat]
    BY <1>0, <2>1 DEF Tables, Enqueue
  <2> QED
    BY <1>0, <2>1, <2>2 DEF Tables, history, Hour
<1>4. CASE DeleteDraft(w)
  BY <1>0, <1>4 DEF Tables, DeleteDraft, history, Hour
<1>5. CASE DeleteFails(w)
  <2>1. win[w].msg \in begun
    BY <1>5, WindowsMessage DEF DeleteFails, FreeRow
  <2> QED
    BY <1>0, <1>5, <2>1 DEF Tables, DeleteFails, LapseIf, Hour
<1> QED
  BY <1>1, <1>2, <1>3, <1>4, <1>5 DEF Sending

LEMMA DraftIsBegun ==
  ASSUME Base, NEW d \in Draft, draft[d] \in Msg
  PROVE  draft[d] \in begun
BY DEF Base, BegunInv, DraftsOf

LEMMA OpenTables ==
  ASSUME Base, NEW w \in Window, NEW m \in Msg, Open(w, m)
  PROVE  Tables' /\ begun' = begun \cup {m}
BY DEF Base, TypeOK, Tables, Open, Hour

LEMMA ResumeTables ==
  ASSUME Base, NEW w \in Window, NEW d \in Draft, Resume(w, d)
  PROVE  Tables' /\ begun' = begun
<1>1. draft[d] \in begun
  BY DraftIsBegun DEF Resume
<1> QED
  BY <1>1 DEF Base, TypeOK, Tables, Resume, Hour

\* A message that is not begun is not in a window that works on it.
LEMMA BegunStays ==
  ASSUME ComposeAssumption, Base, NEW w \in Window,
         \/ FormStep(w) \/ Submit(w) \/ Sending(w)
         \/ \E d \in Draft : CreateDraft(w, d)
  PROVE  BegunInv'
<1>1. begun' = begun
  BY FormTables, SendTables, CreateTables
<1>2. ASSUME NEW m \in Msg \ begun
      PROVE  (DraftsOf(m) = {})' /\ jobs'[m] = 0
  <2>1. DraftsOf(m) = {} /\ jobs[m] = 0 /\ \A d \in Draft : draft[d] # m
    BY DEF Base, BegunInv, DraftsOf
  <2>2. ~FreeRow(win[w]) => win[w].msg # m
    BY WindowsMessage
  <2>3. draft \in [Draft -> Msg \cup {Unused, Gone}] /\ jobs \in [Msg -> Nat]
    BY DEF Base, TypeOK
  <2>4. Gone # m
    BY DEF ComposeAssumption
  <2>5. CASE Autosave(w) \/ Saved(w) \/ Leave(w) \/ UpdateDraft(w) \/ Submit(w)
    BY <2>1, <2>5 DEF Autosave, Saved, Leave, UpdateDraft, Submit, DraftsOf
  <2>6. CASE Discard(w) \/ DiscardUnconfirmed(w)
    BY <2>1, <2>3, <2>4, <2>6 DEF Discard, DiscardUnconfirmed, DraftsOf
  <2>7. CASE SaveFails(w) \/ \E d \in Draft : CreateDraft(w, d)
    <3>1. win[w].msg # m /\ jobs' = jobs
      BY <2>2, <2>7 DEF SaveFails, CreateDraft, NewRow, FreeRow
    <3>2. draft' = draft \/ \E d \in Draft : draft' = [draft EXCEPT ![d] = win[w].msg]
      BY <2>7 DEF SaveFails, CreateDraft, NewRow
    <3> QED
      BY <2>1, <2>3, <3>1, <3>2 DEF DraftsOf
  <2>8. CASE Sending(w)
    <3>1. win[w].msg # m
      BY <2>2, <2>8
         DEF Sending, Count, OverLimit, Refuse, Persist, PersistFails, InsertOutboundJob,
             InsertFails, DeleteDraft, DeleteFails, ListSent, ListFails, FreeRow
    <3>2. jobs' = jobs \/ Enqueue(w)
      BY <2>8
         DEF Sending, Count, OverLimit, Refuse, Persist, PersistFails, InsertOutboundJob,
             InsertFails, DeleteDraft, DeleteFails, ListSent, ListFails
    <3>3. draft' = draft \/ draft' = [draft EXCEPT ![win[w].sendId] = Gone]
      BY <2>8
         DEF Sending, Count, OverLimit, Refuse, Persist, PersistFails, InsertOutboundJob,
             InsertFails, DeleteDraft, DeleteFails, ListSent, ListFails
    <3>4. jobs'[m] = 0
      BY <2>1, <2>3, <3>1, <3>2 DEF Enqueue
    <3>5. \A d \in Draft : draft'[d] # m
      BY <2>1, <2>3, <2>4, <3>3
    <3> QED
      BY <3>4, <3>5 DEF DraftsOf
  <2> QED
    BY <2>5, <2>6, <2>7, <2>8 DEF FormStep
<1> QED
  BY <1>1, <1>2 DEF BegunInv

LEMMA BaseHoldsAtFirst ==
  ASSUME ComposeAssumption, Init
  PROVE  Base
<1>1. Closed \in WindowRow /\ ~Closed.page /\ Closed.save = "idle" /\ Closed.send = "idle"
  BY ClosedRow
<1>2. GoodInv
  BY ClosedIsGood DEF Init, GoodInv
<1>3. BegunInv
  BY DEF Init, BegunInv, DraftsOf, ComposeAssumption
<1>4. TypeOK
  <2>1. hour \in Hour
    BY DEF Init, Hour, ComposeAssumption
  <2>2. \A w \in Window : win[w] = Closed
    BY DEF Init
  <2>3. win \in [Window -> WindowRow]
    BY <1>1 DEF Init
  <2>4. \A w \in Window : /\ ~Free(w) => win[w].msg \in begun
                          /\ win[w].save = "saved" => win[w].saveId \in Draft
    BY <1>1, <2>2 DEF Free
  <2> QED
    BY <2>1, <2>3, <2>4 DEF Init, TypeOK
<1> QED
  BY <1>2, <1>3, <1>4 DEF Base

LEMMA BaseIsKept ==
  ASSUME ComposeAssumption, Base, [Next]_vars
  PROVE  Base'
<1>0. TypeOK /\ GoodInv /\ BegunInv
  BY DEF Base
<1>1. ASSUME NEW w \in Window,
             FormStep(w) \/ Submit(w) \/ Sending(w) \/ \E d \in Draft : CreateDraft(w, d)
      PROVE  Base'
  <2>1. Tables' /\ begun' = begun
    BY <1>1, FormTables, SendTables, CreateTables
  <2>2. BegunInv'
    BY <1>1, BegunStays
  <2>3. PICK s, r : Becomes(w, s, r) /\ Good(r) /\ r.msg = s.msg /\ (FreeRow(s) => FreeRow(r))
    <3>1. CASE FormStep(w) \/ Submit(w) \/ Sending(w)
      BY <1>0, <3>1, FormSteps, SubmitStep, SendSteps DEF Keeps
    <3>2. CASE \E d \in Draft : CreateDraft(w, d)
      BY <1>0, <3>2, CreateStep DEF SameSend, FreeRow
    <3> QED
      BY <1>1, <3>1, <3>2
  <2>4. ~FreeRow(r) => r.msg \in begun'
    BY <2>1, <2>3, WindowsMessage DEF Becomes
  <2>5. /\ win' \in [Window -> WindowRow]
        /\ (\A v \in Window : /\ ~Free(v) => win[v].msg \in begun
                              /\ win[v].save = "saved" => win[v].saveId \in Draft)'
        /\ GoodInv'
    BY <2>1, <2>3, <2>4, RowsMove
  <2> QED
    BY <2>1, <2>2, <2>5 DEF Base, TypeOK, Tables
<1>2. ASSUME NEW w \in Window, NEW m \in Msg, Open(w, m)
      PROVE  Base'
  <2>1. Tables' /\ begun' = begun \cup {m}
    BY <1>2, OpenTables
  <2>2. BegunInv'
    BY <1>0, <1>2, <2>1 DEF BegunInv, Open, DraftsOf
  <2>3. Good(Blank(m, NoId)) /\ Blank(m, NoId).msg = m /\ Becomes(w, win[w], Blank(m, NoId))
    BY <1>0, <1>2, BlankIsGood, BlankRow, OpenFacts
  <2>4. /\ win' \in [Window -> WindowRow]
        /\ (\A v \in Window : /\ ~Free(v) => win[v].msg \in begun
                              /\ win[v].save = "saved" => win[v].saveId \in Draft)'
        /\ GoodInv'
    BY <2>1, <2>3, RowsMove
  <2> QED
    BY <2>1, <2>2, <2>4 DEF Base, TypeOK, Tables
<1>3. ASSUME NEW w \in Window, NEW d \in Draft, Resume(w, d)
      PROVE  Base'
  <2>1. Tables' /\ begun' = begun
    BY <1>3, ResumeTables
  <2>2. BegunInv'
    BY <1>0, <1>3, <2>1 DEF BegunInv, Resume, DraftsOf
  <2>3. PICK m \in Msg : m = draft[d]
    BY <1>3 DEF Resume
  <2>4. Good(Blank(m, d)) /\ Blank(m, d).msg = m /\ Becomes(w, win[w], Blank(m, d))
    BY <1>0, <1>3, <2>3, BlankIsGood, BlankRow, ResumeFacts
  <2>5. m \in begun
    BY <2>3, DraftIsBegun
  <2>6. /\ win' \in [Window -> WindowRow]
        /\ (\A v \in Window : /\ ~Free(v) => win[v].msg \in begun
                              /\ win[v].save = "saved" => win[v].saveId \in Draft)'
        /\ GoodInv'
    BY <2>1, <2>4, <2>5, RowsMove
  <2> QED
    BY <2>1, <2>2, <2>6 DEF Base, TypeOK, Tables
<1>4. CASE Elapse
  BY <1>0, <1>4
     DEF Elapse, Base, TypeOK, GoodInv, BegunInv, DraftsOf, Free, Hour, ComposeAssumption, history
<1>5. CASE UNCHANGED vars
  BY <1>0, <1>5 DEF vars, history, Base, TypeOK, GoodInv, BegunInv, DraftsOf, Free
<1> QED
  BY <1>1, <1>2, <1>3, <1>4, <1>5 DEF Next, Writing, Saving, FormStep

LEMMA BaseAlways == Spec => []Base
<1>1. Init => Base
  BY ComposeAssumption, BaseHoldsAtFirst
<1>2. Base /\ [Next]_vars => Base'
  BY ComposeAssumption, BaseIsKept
<1> QED
  BY <1>1, <1>2, PTL DEF Spec

\* The variables have their types; a window that is in use has a message that was
\* begun, and an answered save names a draft.
THEOREM TypeCorrect == Spec => []TypeOK
<1>1. Base => TypeOK
  BY DEF Base
<1> QED
  BY <1>1, BaseAlways, PTL

\* What /send answers is what has been done, and what is queued is among the
\* sent emails (handleEmailSend, internal/web/compose_handlers.go).
THEOREM HonestReplyHolds == Spec => []HonestReply
<1>1. Base => HonestReply
  BY DEF Base, GoodInv, Good, Honest, HonestReply
<1> QED
  BY <1>1, BaseAlways, PTL

-----------------------------------------------------------------------------
(* The sending limit *)

LEMMA CountedFinite ==
  ASSUME ComposeAssumption
  PROVE  /\ IsFiniteSet(Counted) /\ Cardinality(Counted) \in Nat /\ Cardinality(Window) \in Nat
         /\ Cardinality(Counted) <= Cardinality(Window)
<1>1. Counted \subseteq Window /\ IsFiniteSet(Window)
  BY DEF Counted, ComposeAssumption
<1>2. IsFiniteSet(Counted) /\ Cardinality(Counted) <= Cardinality(Window)
  BY <1>1, FS_Subset
<1>3. Cardinality(Counted) \in Nat /\ Cardinality(Window) \in Nat
  BY <1>1, <1>2, FS_CardinalityType
<1> QED
  BY <1>2, <1>3

LEMMA CountedMoves ==
  ASSUME TypeOK, NEW w \in Window, NEW s, NEW r, Becomes(w, s, r)
  PROVE  /\ Counted' = IF r.send = "persist" THEN Counted \cup {w} ELSE Counted \ {w}
         /\ w \in Counted <=> s.send = "persist"
<1>1. /\ win[w] = s /\ win'[w] = r
      /\ \A v \in Window \ {w} : win'[v] = win[v]
  BY Moved
<1>2. ASSUME NEW v \in Window
      PROVE  v \in Counted' <=> IF v = w THEN r.send = "persist" ELSE v \in Counted
  BY <1>1 DEF Counted
<1>3. Counted' \subseteq Window /\ Counted \subseteq Window
  BY DEF Counted
<1> QED
  BY <1>1, <1>2, <1>3 DEF Counted

LEMMA LimitIsKept ==
  ASSUME ComposeAssumption, Base, LimitInv, [Next]_vars
  PROVE  LimitInv'
<1>0. /\ hour \in Hour /\ emails \in [Hour -> Nat] /\ Limit \in Nat /\ MaxHour \in Nat
      /\ TypeOK /\ GoodInv
  BY DEF Base, TypeOK, ComposeAssumption
<1>1. /\ IsFiniteSet(Counted) /\ Cardinality(Counted) \in Nat /\ Cardinality(Window) \in Nat
      /\ Cardinality(Counted) <= Cardinality(Window)
  BY CountedFinite
<1>2. ASSUME Counted' = Counted, UNCHANGED <<hour, emails>>
      PROVE  LimitInv'
  BY <1>2 DEF LimitInv
<1>3. ASSUME NEW w \in Window, FormStep(w) \/ \E d \in Draft : CreateDraft(w, d)
      PROVE  LimitInv'
  <2>1. UNCHANGED <<hour, emails>>
    BY <1>3
       DEF FormStep, Autosave, Saved, Leave, Discard, DiscardUnconfirmed, UpdateDraft, SaveFails,
           CreateDraft, history
  <2>2. PICK s, r : Becomes(w, s, r) /\ r.send = s.send
    BY <1>0, <1>3, FormSteps, CreateStep DEF SameSend
  <2>3. Counted' = Counted
    BY <1>0, <2>2, CountedMoves
  <2> QED
    BY <1>2, <2>1, <2>3
<1>4. ASSUME NEW w \in Window, Submit(w)
      PROVE  LimitInv'
  <2>1. UNCHANGED <<hour, emails>>
    BY <1>4 DEF Submit
  <2>2. PICK s, r : Becomes(w, s, r) /\ s.send = "idle" /\ r.send = "count"
    BY <1>0, <1>4, SubmitStep
  <2>3. Counted' = Counted
    BY <1>0, <2>2, CountedMoves
  <2> QED
    BY <1>2, <2>1, <2>3
<1>5. ASSUME NEW w \in Window, (\E m \in Msg : Open(w, m)) \/ \E d \in Draft : Resume(w, d)
      PROVE  LimitInv'
  <2>1. UNCHANGED <<hour, emails>> /\ Free(w)
    BY <1>5 DEF Open, Resume
  <2>2. PICK r : Becomes(w, win[w], r) /\ r.send = "idle"
    BY <1>0, <1>5, OpenFacts, ResumeFacts, BlankRow
  <2>3. Counted' = Counted
    BY <1>0, <2>1, <2>2, CountedMoves DEF Free
  <2> QED
    BY <1>2, <2>1, <2>3
<1>6. ASSUME NEW w \in Window, Count(w)
      PROVE  LimitInv'
  <2>1. PICK s, r : Becomes(w, s, r) /\ s.send = "count" /\ r.send = "persist"
    BY <1>0, <1>6, CountFacts
  <2>2. w \notin Counted /\ Counted' = Counted \cup {w}
    BY <1>0, <2>1, CountedMoves
  <2>3. Cardinality(Counted)' <= Cardinality(Window) /\ Cardinality(Counted)' \in Nat
    <3>1. Counted \cup {w} \subseteq Window /\ IsFiniteSet(Window)
      BY DEF Counted, ComposeAssumption
    <3>2. IsFiniteSet(Counted \cup {w}) /\ Cardinality(Counted \cup {w}) <= Cardinality(Window)
      BY <3>1, FS_Subset
    <3>3. Cardinality(Counted \cup {w}) \in Nat
      BY <3>2, FS_CardinalityType
    <3> QED
      BY <2>2, <3>2, <3>3
  <2>4. UNCHANGED <<hour, emails>> /\ UnderLimit
    BY <1>6 DEF Count
  <2> QED
    BY <1>0, <1>1, <2>3, <2>4 DEF LimitInv, UnderLimit
<1>7. ASSUME NEW w \in Window, Persist(w) \/ PersistFails(w)
      PROVE  LimitInv'
  <2>1. PICK s, r : Becomes(w, s, r) /\ s.send = "persist" /\ r.send \in {"insert", "idle"}
    BY <1>0, <1>7, PersistFacts, PersistFailsFacts DEF Refused
  <2>2. w \in Counted /\ Counted' = Counted \ {w}
    BY <1>0, <2>1, CountedMoves
  <2>3. Cardinality(Counted)' = Cardinality(Counted) - 1 /\ Cardinality(Counted) >= 1
    <3>1. Cardinality(Counted \ {w}) = Cardinality(Counted) - 1 /\ IsFiniteSet(Counted \ {w})
      BY <1>1, <2>2, FS_RemoveElement
    <3>2. Cardinality(Counted \ {w}) \in Nat
      BY <3>1, FS_CardinalityType
    <3> QED
      BY <1>1, <2>2, <3>1, <3>2
  <2>4. UNCHANGED hour /\ (StoreEmail \/ UNCHANGED emails)
    BY <1>7 DEF Persist, PersistFails
  <2>5. \A h \in Hour : emails'[h] = emails[h] \/ (h = hour /\ emails'[h] = emails[h] + 1)
    BY <1>0, <2>4 DEF StoreEmail
  <2>6. \A h \in Hour : h > hour' => emails'[h] = 0
    BY <1>0, <2>4, <2>5 DEF LimitInv, Hour
  <2>7. ASSUME Limit > 0, NEW h \in Hour
        PROVE  /\ emails'[h] + 1 <= Limit + Cardinality(Window)
               /\ h = hour' => emails'[h] + Cardinality(Counted)' + 1 <= Limit + Cardinality(Window)
    <3>1. /\ emails[h] + 1 <= Limit + Cardinality(Window) /\ emails[h] \in Nat
          /\ h = hour => emails[h] + Cardinality(Counted) + 1 <= Limit + Cardinality(Window)
      BY <1>0, <2>7 DEF LimitInv
    <3> QED
      BY <1>0, <1>1, <2>3, <2>4, <2>5, <3>1
  <2> QED
    BY <2>6, <2>7 DEF LimitInv
<1>8. ASSUME NEW w \in Window, Sending(w), ~Count(w), ~Persist(w), ~PersistFails(w)
      PROVE  LimitInv'
  <2>1. UNCHANGED <<hour, emails>>
    BY <1>8
       DEF Sending, OverLimit, Refuse, InsertOutboundJob, InsertFails, DeleteDraft, DeleteFails,
           ListSent, ListFails, history
  <2>2. PICK s, r : Becomes(w, s, r) /\ s.send # "persist" /\ r.send # "persist"
    BY <1>0, <1>8, SendSteps
  <2>3. Counted' = Counted
    BY <1>0, <2>2, CountedMoves
  <2> QED
    BY <1>2, <2>1, <2>3
<1>9. CASE Elapse
  <2>1. Counted' = Counted /\ emails' = emails /\ hour' = hour + 1 /\ hour' \in Hour
    BY <1>0, <1>9 DEF Elapse, Counted, Hour
  <2>2. \A h \in Hour : h > hour' => emails'[h] = 0
    BY <1>0, <2>1 DEF LimitInv, Hour
  <2>3. emails[hour'] = 0
    BY <1>0, <2>1 DEF LimitInv, Hour
  <2>4. ASSUME Limit > 0, NEW h \in Hour
        PROVE  /\ emails'[h] + 1 <= Limit + Cardinality(Window)
               /\ h = hour' => emails'[h] + Cardinality(Counted)' + 1 <= Limit + Cardinality(Window)
    BY <1>0, <1>1, <2>1, <2>3, <2>4 DEF LimitInv
  <2> QED
    BY <2>2, <2>4 DEF LimitInv
<1>10. CASE UNCHANGED vars
  BY <1>2, <1>10 DEF vars, Counted
<1> QED
  BY <1>3, <1>4, <1>5, <1>6, <1>7, <1>8, <1>9, <1>10 DEF Next, Writing, Saving, FormStep

\* An hour stores at most the limit and one email for every other window: those
\* that were under the limit when they counted (handleEmailSend).
THEOREM LimitHolds == Spec => []LimitWithinWindows
<1>1. Init => LimitInv
  <2> SUFFICES ASSUME Init PROVE LimitInv
    OBVIOUS
  <2>1. \A h \in Hour : emails[h] = 0
    BY DEF Init
  <2>2. /\ Cardinality(Counted) \in Nat /\ Cardinality(Window) \in Nat
        /\ Cardinality(Counted) <= Cardinality(Window)
    BY CountedFinite, ComposeAssumption
  <2> QED
    BY <2>1, <2>2, ComposeAssumption DEF LimitInv, ComposeAssumption
<1>2. Base /\ LimitInv /\ [Next]_vars => LimitInv'
  BY ComposeAssumption, LimitIsKept
<1>3. LimitInv => LimitWithinWindows
  BY DEF LimitInv, LimitWithinWindows
<1> QED
  BY <1>1, <1>2, <1>3, BaseAlways, PTL DEF Spec

-----------------------------------------------------------------------------
(* Drafts that are said to be saved *)

\* A window that holds an id is in use.
LEMMA HolderInUse ==
  ASSUME NEW s, Good(s), NEW d, Holds(s, d)
  PROVE  ~FreeRow(s)
BY DEF Good, Requests, Holds, FreeRow

LEMMA HeldDraft ==
  ASSUME ComposeAssumption, Base, KeptInv, NEW v \in Window, NEW d \in Draft, Holds(win[v], d)
  PROVE  /\ ~FreeRow(win[v]) /\ win[v].msg \in Msg /\ win[v].msg \notin {Gone, Unused}
         /\ draft[d] \in {win[v].msg, Gone} /\ draft[d] # Unused
<1>1. ~FreeRow(win[v])
  BY HolderInUse DEF Base, GoodInv
<1>2. win[v].msg \in Msg
  BY <1>1, WindowsMessage
<1>3. draft[d] \in {win[v].msg, Gone}
  BY DEF KeptInv, Holding
<1> QED
  BY <1>1, <1>2, <1>3 DEF ComposeAssumption, Gone, Unused

LEMMA SharingStays ==
  ASSUME TypeOK, NEW w \in Window, NEW s, NEW r, Becomes(w, s, r),
         r.msg = s.msg, FreeRow(s) => FreeRow(r), Sharing, shared \subseteq shared'
  PROVE  Sharing'
<1>1. /\ win[w] = s /\ win'[w] = r
      /\ \A v \in Window \ {w} : win'[v] = win[v]
  BY Moved
<1>2. ASSUME NEW v \in Window
      PROVE  win'[v].msg = win[v].msg /\ ((~Free(v))' => ~Free(v))
  BY <1>1 DEF Free, FreeRow
<1> QED
  BY <1>2 DEF Sharing

\* A step that gives no window an id, and takes none that is held, but by the
\* holder that goes away, sends or discards.
LEMMA KeptStep ==
  ASSUME ComposeAssumption, Base, KeptInv,
         NEW w \in Window, NEW s, NEW r, Becomes(w, s, r), Keeps(s, r),
         shared \subseteq shared',
         \A e \in Draft :
           \/ draft'[e] = draft[e]
           \/ draft[e] = Unused
           \/ /\ draft'[e] = Gone /\ Holds(s, e)
              /\ ~r.page \/ r.sending \/ "discard" \in r.failed
  PROVE  KeptInv'
<1>1. /\ win[w] = s /\ win'[w] = r /\ TypeOK
      /\ \A v \in Window \ {w} : win'[v] = win[v]
  BY Moved DEF Base
<1>2. Sharing'
  BY <1>1, SharingStays DEF Keeps, KeptInv
<1>3. ASSUME NEW d \in Draft, Holds(r, d)
      PROVE  draft'[d] \in {r.msg, Gone}
  BY <1>1, <1>3, HeldDraft DEF Keeps
<1>4. ASSUME NEW d \in Draft, r.page, ~r.sending, r.id = d \/ r.saveId = d
      PROVE  draft'[d] = r.msg \/ r.msg \in shared' \/ "discard" \in r.failed
  <2>1. Holds(s, d)
    BY <1>4 DEF Keeps, Holds, ComposeAssumption
  <2>2. draft[d] # Unused
    BY <1>1, <2>1, HeldDraft
  <2>3. draft'[d] = draft[d] \/ "discard" \in r.failed
    BY <1>4, <2>2
  <2>4. draft[d] = s.msg \/ s.msg \in shared \/ "discard" \in s.failed
    BY <1>1, <1>4 DEF Keeps, KeptInv, Holding
  <2> QED
    BY <2>3, <2>4 DEF Keeps
<1>5. Holding(w)'
  BY <1>1, <1>3, <1>4 DEF Holding
<1>6. ASSUME NEW v \in Window \ {w}
      PROVE  Holding(v)'
  <2>1. PICK q : q = win[v] /\ q = win'[v]
    BY <1>1
  <2>2. ASSUME NEW d \in Draft, Holds(q, d)
        PROVE  draft'[d] \in {q.msg, Gone}
    BY <2>1, <2>2, HeldDraft
  <2>3. ASSUME NEW d \in Draft, q.page, ~q.sending, q.id = d \/ q.saveId = d
        PROVE  draft'[d] = q.msg \/ q.msg \in shared' \/ "discard" \in q.failed
    <3>1. Holds(q, d)
      BY <2>3 DEF Holds, ComposeAssumption
    <3>2. ~FreeRow(q) /\ q.msg \notin {Gone, Unused} /\ draft[d] # Unused
      BY <2>1, <3>1, HeldDraft
    <3>3. draft[d] = q.msg \/ q.msg \in shared \/ "discard" \in q.failed
      BY <2>1, <2>3, ZenonT(60) DEF KeptInv, Holding
    <3>4. ASSUME draft[d] = q.msg, Holds(s, d)
          PROVE  q.msg \in shared
      <4>1. draft[d] \in {s.msg, Gone} /\ ~FreeRow(s)
        BY <1>1, <3>4, HeldDraft
      <4>2. s.msg = q.msg
        BY <3>2, <3>4, <4>1
      <4> QED
        BY <1>1, <2>1, <3>2, <4>1, <4>2, FreeWindow DEF KeptInv, Sharing
    <3> QED
      BY <3>2, <3>3, <3>4
  <2> QED
    BY <2>1, <2>2, <2>3 DEF Holding
<1> QED
  BY <1>2, <1>5, <1>6 DEF KeptInv

\* A step that brings a window to a message.
LEMMA KeptBlank ==
  ASSUME ComposeAssumption, Base, KeptInv,
         NEW w \in Window, Free(w), NEW m \in Msg, NEW i \in Draft \cup {NoId},
         Becomes(w, win[w], Blank(m, i)), UNCHANGED draft,
         i \in Draft => draft[i] = m,
         \A v \in Window \ {w} : ~Free(v) /\ win[v].msg = m => m \in shared',
         shared \subseteq shared'
  PROVE  KeptInv'
<1>1. PICK r : r = Blank(m, i)
  OBVIOUS
<1>2. r.msg = m /\ r.id = i /\ r.saveId = NoId /\ r.sendId = NoId
  BY <1>1, BlankRow
<1>3. /\ win'[w] = r /\ TypeOK
      /\ \A v \in Window \ {w} : win'[v] = win[v]
  BY <1>1, Moved DEF Base
<1>4. \A v \in Window \ {w} : (Free(v))' = Free(v)
  BY <1>3 DEF Free
<1>5. Sharing'
  BY <1>2, <1>3, <1>4 DEF Sharing, KeptInv
<1>6. Holding(w)'
  BY <1>2, <1>3 DEF Holding, Holds, ComposeAssumption
<1>7. ASSUME NEW v \in Window \ {w}
      PROVE  Holding(v)'
  BY <1>3 DEF KeptInv, Holding
<1> QED
  BY <1>5, <1>6, <1>7 DEF KeptInv

LEMMA KeptCreate ==
  ASSUME ComposeAssumption, Base, KeptInv, NEW w \in Window, NEW d \in Draft, CreateDraft(w, d)
  PROVE  KeptInv'
<1>1. PICK s, r : /\ Becomes(w, s, r) /\ Good(s) /\ SameSend(s, r) /\ r.page = s.page
                  /\ s.save = "asked" /\ s.saveId = NoId
                  /\ r.save = (IF s.page THEN "saved" ELSE "idle")
                  /\ r.saveId = (IF s.page THEN d ELSE NoId)
                  /\ r.id = s.id /\ r.failed = s.failed
  BY CreateStep DEF Base
<1>2. /\ win[w] = s /\ win'[w] = r /\ TypeOK
      /\ \A v \in Window \ {w} : win'[v] = win[v]
  BY <1>1, Moved DEF Base
<1>3. /\ draft' = [draft EXCEPT ![d] = s.msg] /\ draft[d] = Unused /\ UNCHANGED shared
  BY <1>2 DEF CreateDraft, NewRow
<1>4. draft'[d] = s.msg /\ \A e \in Draft \ {d} : draft'[e] = draft[e]
  BY <1>2, <1>3 DEF TypeOK
<1>5. Sharing'
  <2>1. r.msg = s.msg /\ (FreeRow(s) => FreeRow(r))
    BY <1>1 DEF SameSend, FreeRow
  <2>2. Sharing /\ shared \subseteq shared'
    BY <1>3 DEF KeptInv
  <2> QED
    BY <1>1, <1>2, <2>1, <2>2, SharingStays
<1>6. \A e \in Draft : Holds(s, e) => e # d
  BY <1>2, <1>3, HeldDraft
<1>7. ASSUME NEW e \in Draft, Holds(r, e)
      PROVE  draft'[e] \in {r.msg, Gone}
  <2>1. e = d \/ Holds(s, e)
    BY <1>1, <1>7 DEF Holds, SameSend
  <2>2. CASE e = d
    BY <1>1, <1>4, <2>2 DEF SameSend
  <2>3. CASE e # d
    BY <1>1, <1>2, <1>4, <2>1, <2>3, HeldDraft DEF SameSend
  <2> QED
    BY <2>2, <2>3
<1>8. ASSUME NEW e \in Draft, r.page, ~r.sending, r.id = e \/ r.saveId = e
      PROVE  draft'[e] = r.msg \/ r.msg \in shared' \/ "discard" \in r.failed
  <2>1. CASE e = d
    BY <1>1, <1>4, <2>1 DEF SameSend
  <2>2. CASE e # d
    <3>1. s.page /\ ~s.sending /\ s.id = e
      BY <1>1, <1>8, <2>2 DEF SameSend
    <3>2. draft[e] = s.msg \/ s.msg \in shared \/ "discard" \in s.failed
      BY <1>2, <3>1 DEF KeptInv, Holding
    <3> QED
      BY <1>1, <1>3, <1>4, <2>2, <3>2 DEF SameSend
  <2> QED
    BY <2>1, <2>2
<1>9. Holding(w)'
  BY <1>2, <1>7, <1>8 DEF Holding
<1>10. ASSUME NEW v \in Window \ {w}
       PROVE  Holding(v)'
  <2>1. win'[v] = win[v] /\ \A e \in Draft : Holds(win[v], e) => draft'[e] = draft[e]
    BY <1>2, <1>3, <1>4, HeldDraft
  <2>2. \A e \in Draft : win[v].id = e \/ win[v].saveId = e => Holds(win[v], e)
    BY DEF Holds, ComposeAssumption
  <2> QED
    BY <1>3, <2>1, <2>2 DEF KeptInv, Holding
<1> QED
  BY <1>5, <1>9, <1>10 DEF KeptInv

LEMMA KeptIsKept ==
  ASSUME ComposeAssumption, Base, KeptInv, [Next]_vars
  PROVE  KeptInv'
<1>0. TypeOK /\ GoodInv /\ draft \in [Draft -> Msg \cup {Unused, Gone}]
  BY DEF Base, TypeOK
<1>1. ASSUME NEW w \in Window, FormStep(w) \/ Submit(w) \/ Sending(w), UNCHANGED <<draft, shared>>
      PROVE  KeptInv'
  <2>1. PICK s, r : Becomes(w, s, r) /\ Keeps(s, r)
    BY <1>0, <1>1, FormSteps, SubmitStep, SendSteps
  <2> QED
    BY <1>1, <2>1, KeptStep
<1>2. ASSUME NEW w \in Window, Discard(w) \/ DiscardUnconfirmed(w)
      PROVE  KeptInv'
  <2>1. win[w].page /\ draft' = [draft EXCEPT ![win[w].id] = Gone] /\ shared' = shared
    BY <1>2 DEF Discard, DiscardUnconfirmed, history
  <2>2. PICK s, r : /\ Becomes(w, s, r) /\ Keeps(s, r)
                    /\ ~r.page \/ "discard" \in r.failed
    <3>1. CASE Discard(w)
      BY <1>0, <3>1, FormSteps, LeaveFacts, LeftRow, Fields, Moved DEF FormStep
    <3>2. CASE DiscardUnconfirmed(w)
      BY <1>0, <3>2, FormSteps, DiscardUnconfirmedFacts, Moved DEF FormStep
    <3> QED
      BY <1>2, <3>1, <3>2
  <2>3. win[w] = s
    BY <2>2 DEF Becomes
  <2>4. \A e \in Draft : draft'[e] = draft[e] \/ (Holds(s, e) /\ draft'[e] = Gone)
    BY <1>0, <2>1, <2>3 DEF Holds, ComposeAssumption
  <2> QED
    BY <2>1, <2>2, <2>4, KeptStep
<1>3. ASSUME NEW w \in Window, SaveFails(w)
      PROVE  KeptInv'
  <2>1. PICK s, r : Becomes(w, s, r) /\ Keeps(s, r)
    BY <1>0, <1>3, FormSteps DEF FormStep
  <2>2. \A e \in Draft : draft'[e] = draft[e] \/ draft[e] = Unused
    BY <1>0, <1>3 DEF SaveFails, NewRow
  <2>3. shared' = shared
    BY <1>3 DEF SaveFails
  <2> QED
    BY <2>1, <2>2, <2>3, KeptStep
<1>4. ASSUME NEW w \in Window, DeleteDraft(w)
      PROVE  KeptInv'
  <2>1. PICK s, r : Becomes(w, s, r) /\ Keeps(s, r) /\ r.sending
    BY <1>0, <1>4, SendSteps DEF Sending
  <2>2. win[w] = s
    BY <2>1 DEF Becomes
  <2>3. \A e \in Draft : draft'[e] = draft[e] \/ (Holds(s, e) /\ draft'[e] = Gone)
    BY <1>0, <1>4, <2>2 DEF DeleteDraft, Holds
  <2>4. shared' = shared
    BY <1>4 DEF DeleteDraft, history
  <2> QED
    BY <2>1, <2>3, <2>4, KeptStep
<1>5. ASSUME NEW w \in Window, NEW m \in Msg, Open(w, m)
      PROVE  KeptInv'
  <2>1. Free(w) /\ UNCHANGED <<draft, shared>> /\ Becomes(w, win[w], Blank(m, NoId))
    BY <1>0, <1>5, OpenFacts DEF Open
  <2>2. \A v \in Window : ~(~Free(v) /\ win[v].msg = m)
    BY <1>0, <1>5 DEF Open, TypeOK
  <2>3. NoId \notin Draft
    BY DEF ComposeAssumption
  <2> QED
    BY <2>1, <2>2, <2>3, KeptBlank
<1>6. ASSUME NEW w \in Window, NEW d \in Draft, Resume(w, d)
      PROVE  KeptInv'
  <2>1. PICK m \in Msg : m = draft[d]
    BY <1>6 DEF Resume
  <2>2. Free(w) /\ UNCHANGED draft /\ shared \subseteq shared' /\ Becomes(w, win[w], Blank(m, d))
    BY <1>0, <1>6, <2>1, ResumeFacts DEF Resume
  <2>3. \A v \in Window : ~Free(v) /\ win[v].msg = m => m \in shared'
    BY <1>6, <2>1 DEF Resume
  <2> QED
    BY <2>1, <2>2, <2>3, KeptBlank
<1>7. ASSUME NEW w \in Window, NEW d \in Draft, CreateDraft(w, d)
      PROVE  KeptInv'
  BY <1>7, KeptCreate
<1>8. CASE Elapse \/ UNCHANGED vars
  BY <1>8 DEF Elapse, vars, history, KeptInv, Sharing, Free, Holding
<1>9. ASSUME NEW w \in Window, FormStep(w) \/ Submit(w) \/ Sending(w)
      PROVE  \/ UNCHANGED <<draft, shared>>
             \/ Discard(w) \/ DiscardUnconfirmed(w) \/ SaveFails(w) \/ DeleteDraft(w)
  BY <1>9
     DEF FormStep, Autosave, Saved, Leave, UpdateDraft, Submit, Sending, Count, OverLimit, Refuse,
         Persist, PersistFails, InsertOutboundJob, InsertFails, DeleteFails, ListSent, ListFails,
         history
<1> QED
  BY <1>1, <1>2, <1>3, <1>4, <1>5, <1>6, <1>7, <1>8, <1>9
     DEF Next, Writing, Saving, FormStep

\* A form that says "Saved" and has not been sent has its draft in the table, but
\* for messages open in two windows and discarded drafts (handleDraftSave,
\* handleDraftDelete).
THEOREM SavedIsKeptHolds == Spec => []SavedIsKept
<1>1. Init => KeptInv
  <2> SUFFICES ASSUME Init PROVE KeptInv
    OBVIOUS
  <2>1. PICK r : r = Closed
    OBVIOUS
  <2>2. /\ ~r.page /\ r.id = NoId /\ r.save = "idle" /\ r.saveId = NoId
        /\ r.send = "idle" /\ r.sendId = NoId
    BY <2>1, ClosedRow
  <2>3. \A w \in Window : win[w] = r
    BY <2>1 DEF Init
  <2> QED
    BY <2>2, <2>3 DEF KeptInv, Sharing, Free, Holding, Holds
<1>2. Base /\ KeptInv /\ [Next]_vars => KeptInv'
  BY ComposeAssumption, KeptIsKept
<1>3. Base /\ KeptInv => SavedIsKept
  <2> SUFFICES ASSUME Base, KeptInv, NEW w \in Window,
                      win[w].page, win[w].note, ~win[w].sending
               PROVE  \/ win[w].id \in DraftsOf(win[w].msg)
                      \/ win[w].msg \in shared \/ "discard" \in win[w].failed
    BY DEF SavedIsKept
  <2>1. win[w].id \in Draft
    BY Fields DEF Base, GoodInv, Good, Requests, WindowRow
  <2> QED
    BY <2>1 DEF KeptInv, Holding, DraftsOf
<1> QED
  BY <1>1, <1>2, <1>3, BaseAlways, PTL DEF Spec

-----------------------------------------------------------------------------
(* One draft to a message, and none once it is queued *)

LEMMA NamedDrafts ==
  ASSUME NEW m, NEW w \in Window, Knows(m, w), win[w].msg = m, ~FreeRow(win[w]),
         NEW d, Named(win[w], d)
  PROVE  DraftsOf(m) \subseteq {d}
BY DEF Knows, Named

\* A step of a window that learns nothing new, and adds no draft of m.
LEMMA TidyStep ==
  ASSUME ComposeAssumption, Base,
         NEW w \in Window, NEW s, NEW r, Becomes(w, s, r),
         r.msg = s.msg, FreeRow(s) => FreeRow(r),
         NEW m \in Msg, Tidy(m), DraftsOf(m)' \subseteq DraftsOf(m),
         jobs'[m] = jobs[m] \/ (s.msg = m /\ ~FreeRow(s) /\ r.sending /\ r.send = "delete"),
         s.msg = m => Follows(s, r),
         s.msg = m /\ s.send = "delete" => r.send = "delete" \/ DraftsOf(m)' = {}
  PROVE  Tidy(m)'
<1>1. /\ win[w] = s /\ win'[w] = r /\ TypeOK
      /\ \A v \in Window \ {w} : win'[v] = win[v]
  BY Moved DEF Base
<1>2. \A d, e \in DraftsOf(m)' : d = e
  BY DEF Tidy
<1>3. Knows(m, w)'
  <2>1. SUFFICES ASSUME r.msg = m, ~FreeRow(r)
                 PROVE  /\ Bare(r) =>
                             /\ DraftsOf(m)' = {}
                             /\ \A v \in Window \ {w} : FreeRow(win'[v]) \/ win'[v].msg # m
                             /\ jobs'[m] > 0 => r.sending
                        /\ r.page /\ r.id # NoId => DraftsOf(m)' \subseteq {r.id}
                        /\ r.saveId # NoId => DraftsOf(m)' \subseteq {r.saveId}
                        /\ r.send \in Unfinished => DraftsOf(m)' \subseteq {r.sendId}
    BY <1>1 DEF Knows
  <2>2. s.msg = m /\ ~FreeRow(s) /\ Knows(m, w) /\ Follows(s, r)
    BY <2>1 DEF Tidy
  <2>3. Bare(s) => /\ DraftsOf(m) = {}
                   /\ \A v \in Window \ {w} : FreeRow(win[v]) \/ win[v].msg # m
                   /\ jobs[m] > 0 => s.sending
    BY <1>1, <2>2 DEF Knows
  <2>4. \A d : Named(s, d) => DraftsOf(m) \subseteq {d}
    BY <1>1, <2>2, NamedDrafts
  <2>5. Bare(r) => /\ DraftsOf(m)' = {}
                   /\ \A v \in Window \ {w} : FreeRow(win'[v]) \/ win'[v].msg # m
                   /\ jobs'[m] > 0 => r.sending
    BY <1>1, <2>2, <2>3 DEF Follows
  <2>6. /\ r.page /\ r.id # NoId => DraftsOf(m)' \subseteq {r.id}
        /\ r.saveId # NoId => DraftsOf(m)' \subseteq {r.saveId}
    BY <2>2, <2>4 DEF Follows
  <2>7. r.send \in Unfinished => DraftsOf(m)' \subseteq {r.sendId}
    BY <2>2, <2>3, <2>4 DEF Follows
  <2> QED
    BY <2>5, <2>6, <2>7
<1>4. ASSUME NEW v \in Window \ {w}
      PROVE  Knows(m, v)'
  <2>1. PICK q : q = win[v] /\ q = win'[v]
    BY <1>1
  <2>2. SUFFICES ASSUME q.msg = m, ~FreeRow(q)
                 PROVE  /\ Bare(q) =>
                             /\ DraftsOf(m)' = {}
                             /\ \A u \in Window \ {v} : FreeRow(win'[u]) \/ win'[u].msg # m
                             /\ jobs'[m] > 0 => q.sending
                        /\ q.page /\ q.id # NoId => DraftsOf(m)' \subseteq {q.id}
                        /\ q.saveId # NoId => DraftsOf(m)' \subseteq {q.saveId}
                        /\ q.send \in Unfinished => DraftsOf(m)' \subseteq {q.sendId}
    BY <2>1 DEF Knows
  <2>3. /\ Bare(q) => /\ DraftsOf(m) = {}
                      /\ \A u \in Window \ {v} : FreeRow(win[u]) \/ win[u].msg # m
                      /\ jobs[m] > 0 => q.sending
        /\ q.page /\ q.id # NoId => DraftsOf(m) \subseteq {q.id}
        /\ q.saveId # NoId => DraftsOf(m) \subseteq {q.saveId}
        /\ q.send \in Unfinished => DraftsOf(m) \subseteq {q.sendId}
    <3>1. Knows(m, v)
      BY DEF Tidy
    <3>2. win[v] = q
      BY <2>1
    <3> QED
      BY <2>2, <3>1, <3>2 DEF Knows
  <2>4. ASSUME Bare(q)
        PROVE  /\ DraftsOf(m)' = {}
               /\ \A u \in Window \ {v} : FreeRow(win'[u]) \/ win'[u].msg # m
               /\ jobs'[m] > 0 => q.sending
    <3>1. FreeRow(s) \/ s.msg # m
      BY <1>1, <2>3, <2>4
    <3>2. jobs'[m] = jobs[m]
      BY <3>1
    <3>3. \A u \in Window \ {v} : FreeRow(win'[u]) \/ win'[u].msg # m
      BY <1>1, <2>3, <2>4, <3>1
    <3> QED
      BY <2>3, <2>4, <3>2, <3>3
  <2> QED
    BY <2>3, <2>4
<1>5. ASSUME jobs'[m] > 0
      PROVE  DraftsOf(m)' = {} \/ \E u \in Window : win'[u].msg = m /\ win'[u].send = "delete"
  <2>1. CASE s.msg = m /\ r.send = "delete"
    BY <1>1, <2>1
  <2>2. CASE jobs'[m] = jobs[m]
    <3>1. DraftsOf(m) = {} \/ \E u \in Window : win[u].msg = m /\ win[u].send = "delete"
      BY <1>5, <2>2 DEF Tidy
    <3>2. ASSUME NEW u \in Window, win[u].msg = m, win[u].send = "delete"
          PROVE  DraftsOf(m)' = {} \/ (win'[u].msg = m /\ win'[u].send = "delete")
      BY <1>1, <3>2
    <3> QED
      BY <3>1, <3>2
  <2> QED
    BY <2>1, <2>2
<1>6. \A v \in Window : Knows(m, v)'
  BY <1>3, <1>4
<1> QED
  BY <1>2, <1>5, <1>6 DEF Tidy

\* A window comes to message n.
LEMMA TidyBlank ==
  ASSUME ComposeAssumption, Base,
         NEW w \in Window, Free(w), NEW n \in Msg, NEW i \in Draft \cup {NoId},
         Becomes(w, win[w], Blank(n, i)), UNCHANGED <<draft, jobs>>,
         i \in Draft => i \in DraftsOf(n),
         i = NoId => /\ DraftsOf(n) = {} /\ jobs[n] = 0
                     /\ \A v \in Window : FreeRow(win[v]) \/ win[v].msg # n,
         NEW m \in Msg, Tidy(m)
  PROVE  Tidy(m)'
<1>1. PICK r : r = Blank(n, i)
  OBVIOUS
<1>2. /\ r.page /\ r.msg = n /\ r.id = i /\ r.save = "idle" /\ r.saveId = NoId
      /\ r.send = "idle" /\ r.sendId = NoId
  BY <1>1, BlankRow
<1>3. /\ win'[w] = r /\ TypeOK
      /\ \A v \in Window \ {w} : win'[v] = win[v]
  BY <1>1, Moved DEF Base
<1>4. DraftsOf(m)' = DraftsOf(m) /\ jobs'[m] = jobs[m]
  BY DEF DraftsOf
<1>5. \A d, e \in DraftsOf(m)' : d = e
  BY <1>4 DEF Tidy
<1>6. Knows(m, w)'
  <2>1. SUFFICES ASSUME n = m
                 PROVE  /\ Bare(r) =>
                             /\ DraftsOf(m)' = {}
                             /\ \A v \in Window \ {w} : FreeRow(win'[v]) \/ win'[v].msg # m
                             /\ jobs'[m] > 0 => r.sending
                        /\ r.page /\ r.id # NoId => DraftsOf(m)' \subseteq {r.id}
                        /\ r.saveId # NoId => DraftsOf(m)' \subseteq {r.saveId}
                        /\ r.send \in Unfinished => DraftsOf(m)' \subseteq {r.sendId}
    BY <1>2, <1>3 DEF Knows
  <2>2. CASE i = NoId
    BY <1>2, <1>3, <1>4, <2>1, <2>2 DEF Unfinished
  <2>3. CASE i # NoId
    <3>1. ~Bare(r)
      BY <1>2, <2>3 DEF Bare
    <3>2. DraftsOf(m) \subseteq {i}
      BY <2>1, <2>3 DEF Tidy
    <3> QED
      BY <1>2, <1>4, <3>1, <3>2 DEF Unfinished
  <2> QED
    BY <2>2, <2>3
<1>7. ASSUME NEW v \in Window \ {w}
      PROVE  Knows(m, v)'
  <2>1. PICK q : q = win[v] /\ q = win'[v]
    BY <1>3
  <2>2. SUFFICES ASSUME q.msg = m, ~FreeRow(q)
                 PROVE  /\ Bare(q) =>
                             /\ DraftsOf(m)' = {}
                             /\ \A u \in Window \ {v} : FreeRow(win'[u]) \/ win'[u].msg # m
                             /\ jobs'[m] > 0 => q.sending
                        /\ q.page /\ q.id # NoId => DraftsOf(m)' \subseteq {q.id}
                        /\ q.saveId # NoId => DraftsOf(m)' \subseteq {q.saveId}
                        /\ q.send \in Unfinished => DraftsOf(m)' \subseteq {q.sendId}
    BY <2>1 DEF Knows
  <2>3. /\ Bare(q) => /\ DraftsOf(m) = {}
                      /\ \A u \in Window \ {v} : FreeRow(win[u]) \/ win[u].msg # m
                      /\ jobs[m] > 0 => q.sending
        /\ q.page /\ q.id # NoId => DraftsOf(m) \subseteq {q.id}
        /\ q.saveId # NoId => DraftsOf(m) \subseteq {q.saveId}
        /\ q.send \in Unfinished => DraftsOf(m) \subseteq {q.sendId}
    <3>1. Knows(m, v)
      BY DEF Tidy
    <3>2. win[v] = q
      BY <2>1
    <3> QED
      BY <2>2, <3>1, <3>2 DEF Knows
  <2>4. Bare(q) => n # m
    BY <2>1, <2>2, <2>3
  <2> QED
    BY <1>2, <1>3, <1>4, <2>3, <2>4
<1>8. ASSUME jobs'[m] > 0
      PROVE  DraftsOf(m)' = {} \/ \E u \in Window : win'[u].msg = m /\ win'[u].send = "delete"
  <2>1. DraftsOf(m) = {} \/ \E u \in Window : win[u].msg = m /\ win[u].send = "delete"
    BY <1>4, <1>8 DEF Tidy
  <2>2. win[w].send = "idle"
    BY DEF Free
  <2> QED
    BY <1>3, <1>4, <2>1, <2>2
<1>9. \A v \in Window : Knows(m, v)'
  BY <1>6, <1>7
<1> QED
  BY <1>5, <1>8, <1>9 DEF Tidy

\* A first save that is in time.
LEMMA TidyCreate ==
  ASSUME ComposeAssumption, Base, NEW w \in Window, NEW d \in Draft, CreateDraft(w, d),
         NEW m \in Msg, win[w].msg = m, ~win[w].sending, Tidy(m)
  PROVE  Tidy(m)'
<1>1. PICK s, r : /\ Becomes(w, s, r) /\ Good(s) /\ SameSend(s, r) /\ r.page = s.page
                  /\ s.save = "asked" /\ s.saveId = NoId
                  /\ r.save = (IF s.page THEN "saved" ELSE "idle")
                  /\ r.saveId = (IF s.page THEN d ELSE NoId)
                  /\ r.id = s.id /\ r.failed = s.failed
  BY CreateStep DEF Base
<1>2. /\ win[w] = s /\ win'[w] = r /\ TypeOK /\ s.msg = m /\ r.msg = m
      /\ \A v \in Window \ {w} : win'[v] = win[v]
  BY <1>1, Moved DEF Base, SameSend
<1>3. /\ draft' = [draft EXCEPT ![d] = m] /\ jobs' = jobs
      /\ draft \in [Draft -> Msg \cup {Unused, Gone}]
  BY <1>2 DEF CreateDraft, NewRow, TypeOK
<1>4. Tidy(m) /\ Knows(m, w) /\ Bare(s) /\ ~FreeRow(s) /\ ~s.sending
  BY <1>1, <1>2 DEF Tidy, Bare, FreeRow
<1>5. /\ DraftsOf(m) = {}
      /\ \A v \in Window \ {w} : FreeRow(win[v]) \/ win[v].msg # m
      /\ ~(jobs[m] > 0)
  BY <1>2, <1>4 DEF Knows
<1>6. DraftsOf(m)' = {d}
  <2>1. \A e \in Draft : draft[e] # m
    BY <1>5 DEF DraftsOf
  <2>2. \A e \in Draft : draft'[e] = m <=> e = d
    BY <1>3, <2>1
  <2> QED
    BY <2>2 DEF DraftsOf
<1>7. s.send = "idle" /\ r.send = "idle" /\ (s.page => r.id = NoId) /\ NoId # d
  BY <1>1, <1>4 DEF Good, Honest, Requests, SameSend, ComposeAssumption
<1>8. Knows(m, w)'
  <2>1. ~Bare(r)
    BY <1>1 DEF Bare
  <2> QED
    BY <1>1, <1>2, <1>6, <1>7, <2>1 DEF Knows, Unfinished
<1>9. ASSUME NEW v \in Window \ {w}
       PROVE  Knows(m, v)'
  BY <1>2, <1>5 DEF Knows
<1> QED
  BY <1>3, <1>5, <1>6, <1>8, <1>9 DEF Tidy

\* A row that another message gets.
LEMMA OtherMessage ==
  ASSUME TypeOK, NEW w \in Window, NEW d \in Draft, NewRow(w, d),
         NEW m \in Msg, win[w].msg # m
  PROVE  DraftsOf(m)' \subseteq DraftsOf(m)
<1>1. draft \in [Draft -> Msg \cup {Unused, Gone}] /\ draft' = [draft EXCEPT ![d] = win[w].msg]
  BY DEF TypeOK, NewRow
<1>2. \A e \in Draft : draft'[e] = m => draft[e] = m
  BY <1>1
<1> QED
  BY <1>2 DEF DraftsOf

LEMMA FewerDrafts ==
  ASSUME ComposeAssumption, TypeOK, NEW m \in Msg,
         UNCHANGED draft \/ \E d : draft' = [draft EXCEPT ![d] = Gone]
  PROVE  DraftsOf(m)' \subseteq DraftsOf(m)
<1>1. draft \in [Draft -> Msg \cup {Unused, Gone}] /\ m # Gone
  BY DEF TypeOK, ComposeAssumption
<1>2. \A e \in Draft : draft'[e] = m => draft[e] = m
  BY <1>1
<1> QED
  BY <1>2 DEF DraftsOf

\* The draft that the sent form names was the last of its message.
LEMMA TidyDelete ==
  ASSUME ComposeAssumption, Base, NEW w \in Window, DeleteDraft(w),
         NEW m \in Msg, win[w].msg = m, Tidy(m)
  PROVE  DraftsOf(m)' = {}
<1>1. win[w].send = "delete" /\ Knows(m, w)
  BY DEF DeleteDraft, Tidy
<1>2. DraftsOf(m) \subseteq {win[w].sendId}
  BY <1>1 DEF Knows, FreeRow, Unfinished
<1>3. draft \in [Draft -> Msg \cup {Unused, Gone}] /\ m # Gone /\ NoId \notin Draft
  BY DEF Base, TypeOK, ComposeAssumption
<1>4. \A e \in Draft : draft'[e] # m
  <2>1. CASE win[w].sendId = NoId
    BY <1>2, <1>3, <2>1 DEF DeleteDraft, DraftsOf
  <2>2. CASE win[w].sendId # NoId
    BY <1>2, <1>3, <2>2 DEF DeleteDraft, DraftsOf
  <2> QED
    BY <2>1, <2>2
<1> QED
  BY <1>4 DEF DraftsOf

LEMMA TidyIsKept ==
  ASSUME ComposeAssumption, Base, TidyInv, [Next]_vars
  PROVE  TidyInv'
<1>0. TypeOK /\ GoodInv /\ BegunInv
  BY DEF Base
<1>1. ASSUME NEW w \in Window, FormStep(w), NEW m \in Msg \ lapses'
      PROVE  Tidy(m)'
  <2>1. PICK s, r : Becomes(w, s, r) /\ Keeps(s, r) /\ Follows(s, r) /\ r.send = s.send
    BY <1>0, <1>1, FormSteps
  <2>2. m \notin lapses /\ jobs'[m] = jobs[m]
    BY <1>1
       DEF FormStep, Autosave, Saved, Leave, Discard, DiscardUnconfirmed, UpdateDraft, SaveFails,
           LapseIf, history
  <2>3. DraftsOf(m)' \subseteq DraftsOf(m)
    <3>1. CASE SaveFails(w) /\ ~UNCHANGED draft
      <4>1. PICK d \in Draft : NewRow(w, d) /\ LapseIf(w, TRUE)
        BY <3>1 DEF SaveFails
      <4>2. win[w].msg # m
        BY <1>1, <4>1 DEF LapseIf
      <4> QED
        BY <1>0, <4>1, <4>2, OtherMessage
    <3>2. CASE UNCHANGED draft
      BY <1>0, <3>2, FewerDrafts
    <3>3. CASE Discard(w) \/ DiscardUnconfirmed(w)
      <4>1. \E d : draft' = [draft EXCEPT ![d] = Gone]
        BY <3>3 DEF Discard, DiscardUnconfirmed
      <4> QED
        BY <1>0, <4>1, FewerDrafts
    <3> QED
      BY <1>1, <3>1, <3>2, <3>3 DEF FormStep, Autosave, Saved, Leave, UpdateDraft
  <2>4. Tidy(m)
    BY <2>2 DEF TidyInv
  <2>5. r.msg = s.msg /\ (FreeRow(s) => FreeRow(r))
    BY <2>1 DEF Keeps
  <2> QED
    BY <2>1, <2>2, <2>3, <2>4, <2>5, TidyStep
<1>2. ASSUME NEW w \in Window, Submit(w), NEW m \in Msg \ lapses'
      PROVE  Tidy(m)'
  <2>1. PICK s, r : /\ Becomes(w, s, r) /\ Keeps(s, r)
                    /\ Follows(s, r) \/ (s.save = "saved" /\ s.id = NoId)
                    /\ s.send = "idle" /\ r.send = "count"
    BY <1>0, <1>2, SubmitStep
  <2>2. m \notin lapses /\ jobs'[m] = jobs[m] /\ UNCHANGED draft
    BY <1>2 DEF Submit, LapseIf
  <2>3. s.msg = m => Follows(s, r)
    BY <1>2, <2>1 DEF Submit, LapseIf, Becomes
  <2>4. Tidy(m) /\ DraftsOf(m)' \subseteq DraftsOf(m)
    BY <1>0, <2>2, FewerDrafts DEF TidyInv
  <2>5. r.msg = s.msg /\ (FreeRow(s) => FreeRow(r)) /\ s.send # "delete"
    BY <2>1 DEF Keeps
  <2> QED
    BY <2>1, <2>2, <2>3, <2>4, <2>5, TidyStep
<1>3. ASSUME NEW w \in Window, Sending(w), NEW m \in Msg \ lapses'
      PROVE  Tidy(m)'
  <2>1. PICK s, r : /\ Becomes(w, s, r) /\ Keeps(s, r) /\ Follows(s, r) /\ ~FreeRow(s)
                    /\ r.sending /\ (s.send = "delete" => DeleteDraft(w) \/ DeleteFails(w))
    BY <1>0, <1>3, SendSteps
  <2>2. win[w] = s
    BY <2>1 DEF Becomes
  <2>3. m \notin lapses
    BY <1>3
       DEF Sending, Count, OverLimit, Refuse, Persist, PersistFails, InsertOutboundJob,
           InsertFails, DeleteDraft, DeleteFails, ListSent, ListFails, LapseIf, history
  <2>4. Tidy(m)
    BY <2>3 DEF TidyInv
  <2>5. DraftsOf(m)' \subseteq DraftsOf(m)
    <3>1. UNCHANGED draft \/ \E d : draft' = [draft EXCEPT ![d] = Gone]
      BY <1>3
         DEF Sending, Count, OverLimit, Refuse, Persist, PersistFails, InsertOutboundJob,
             InsertFails, DeleteDraft, DeleteFails, ListSent, ListFails
    <3> QED
      BY <1>0, <3>1, FewerDrafts
  <2>6. jobs'[m] = jobs[m] \/ (s.msg = m /\ r.send = "delete")
    <3>1. CASE InsertOutboundJob(w) \/ InsertFails(w)
      <4>1. r.send = "delete"
        BY <1>0, <2>1, <3>1, InsertFacts, Moved
      <4>2. jobs' = jobs \/ jobs' = [jobs EXCEPT ![s.msg] = @ + 1]
        BY <2>2, <3>1 DEF InsertOutboundJob, InsertFails, Enqueue
      <4>3. jobs \in [Msg -> Nat]
        BY <1>0 DEF TypeOK
      <4> QED
        BY <4>1, <4>2, <4>3
    <3>2. CASE jobs' = jobs
      BY <3>2
    <3> QED
      BY <1>3, <3>1, <3>2
         DEF Sending, Count, OverLimit, Refuse, Persist, PersistFails, DeleteDraft, DeleteFails,
             ListSent, ListFails
  <2>7. s.msg = m /\ s.send = "delete" => DraftsOf(m)' = {}
    <3>1. ASSUME s.msg = m, DeleteFails(w)
          PROVE  FALSE
      BY <1>3, <2>2, <3>1 DEF DeleteFails, LapseIf
    <3> QED
      BY <2>1, <2>2, <2>4, <3>1, TidyDelete
  <2>8. r.msg = s.msg /\ (FreeRow(s) => FreeRow(r))
    BY <2>1 DEF Keeps
  <2> QED
    BY <2>1, <2>4, <2>5, <2>6, <2>7, <2>8, TidyStep
<1>4. ASSUME NEW w \in Window, NEW n \in Msg, Open(w, n), NEW m \in Msg \ lapses'
      PROVE  Tidy(m)'
  <2>1. /\ Free(w) /\ n \notin begun /\ UNCHANGED <<draft, jobs, lapses>>
        /\ Becomes(w, win[w], Blank(n, NoId))
    BY <1>0, <1>4, OpenFacts DEF Open
  <2>2. DraftsOf(n) = {} /\ jobs[n] = 0
    BY <1>0, <2>1 DEF BegunInv
  <2>3. \A v \in Window : FreeRow(win[v]) \/ win[v].msg # n
    BY <2>1, WindowsMessage
  <2>4. Tidy(m) /\ NoId \notin Draft
    BY <2>1 DEF TidyInv, ComposeAssumption
  <2> QED
    BY <2>1, <2>2, <2>3, <2>4, TidyBlank
<1>5. ASSUME NEW w \in Window, NEW d \in Draft, Resume(w, d), NEW m \in Msg \ lapses'
      PROVE  Tidy(m)'
  <2>1. PICK n \in Msg : n = draft[d]
    BY <1>5 DEF Resume
  <2>2. /\ Free(w) /\ UNCHANGED <<draft, jobs, lapses>> /\ Becomes(w, win[w], Blank(n, d))
    BY <1>0, <1>5, <2>1, ResumeFacts DEF Resume
  <2>3. d \in DraftsOf(n) /\ d # NoId
    BY <2>1 DEF DraftsOf, ComposeAssumption
  <2>4. Tidy(m)
    BY <2>2 DEF TidyInv
  <2> QED
    BY <2>2, <2>3, <2>4, TidyBlank
<1>6. ASSUME NEW w \in Window, NEW d \in Draft, CreateDraft(w, d), NEW m \in Msg \ lapses'
      PROVE  Tidy(m)'
  <2>1. NewRow(w, d) /\ jobs' = jobs /\ LapseIf(w, win[w].sending)
    BY <1>6 DEF CreateDraft
  <2>2. m \notin lapses
    BY <1>6, <2>1 DEF LapseIf
  <2>3. Tidy(m)
    BY <2>2 DEF TidyInv
  <2>4. CASE win[w].msg = m
    <3>1. ~win[w].sending
      BY <1>6, <2>1, <2>4 DEF LapseIf
    <3> QED
      BY <1>6, <2>3, <2>4, <3>1, TidyCreate
  <2>5. CASE win[w].msg # m
    <3>1. PICK s, r : /\ Becomes(w, s, r) /\ SameSend(s, r) /\ s.save = "asked"
      BY <1>0, <1>6, CreateStep
    <3>2. r.msg = s.msg /\ ~FreeRow(s) /\ s.msg # m
      BY <2>5, <3>1 DEF SameSend, FreeRow, Becomes
    <3>3. DraftsOf(m)' \subseteq DraftsOf(m)
      BY <1>0, <2>1, <2>5, OtherMessage
    <3> QED
      BY <2>1, <2>3, <3>1, <3>2, <3>3, TidyStep
  <2> QED
    BY <2>4, <2>5
<1>7. CASE Elapse \/ UNCHANGED vars
  <2>1. UNCHANGED <<win, draft, jobs, lapses>>
    BY <1>7 DEF Elapse, vars, history
  <2> QED
    BY <2>1 DEF TidyInv, Tidy, Knows, DraftsOf
<1>8. CASE \A m \in Msg \ lapses' : Tidy(m)'
  BY <1>8 DEF TidyInv
<1> QED
  BY <1>1, <1>2, <1>3, <1>4, <1>5, <1>6, <1>7, <1>8 DEF Next, Writing, Saving, FormStep

\* A message has one draft, and none once its job is queued and its requests are
\* over, but for saves that are not confirmed or under way when the form goes
\* out, and deletions that fail (handleDraftSave, handleEmailSend).
THEOREM DraftsStayTidy == Spec => []DraftsAreTidy
<1>1. Init => TidyInv
  <2> SUFFICES ASSUME Init, NEW m \in Msg PROVE Tidy(m)
    BY DEF TidyInv
  <2>1. \A w \in Window : FreeRow(win[w])
    BY ClosedRow DEF Init, FreeRow
  <2>2. DraftsOf(m) = {} /\ ~(jobs[m] > 0)
    BY ComposeAssumption DEF Init, DraftsOf, ComposeAssumption
  <2> QED
    BY <2>1, <2>2 DEF Tidy, Knows
<1>2. Base /\ TidyInv /\ [Next]_vars => TidyInv'
  BY ComposeAssumption, TidyIsKept
<1>3. Base /\ TidyInv => DraftsAreTidy
  <2> SUFFICES ASSUME Base, TidyInv, NEW m \in Msg, m \notin lapses
               PROVE  Cardinality(DraftsOf(m)) <= IF Sent(m) THEN 0 ELSE 1
    BY DEF DraftsAreTidy
  <2>1. Tidy(m)
    BY DEF TidyInv
  <2>2. Sent(m) => DraftsOf(m) = {}
    BY <2>1 DEF Tidy, Sent
  <2>3. DraftsOf(m) = {} \/ \E d : DraftsOf(m) = {d}
    BY <2>1 DEF Tidy
  <2>4. CASE DraftsOf(m) = {}
    <3>1. Cardinality(DraftsOf(m)) = 0
      BY <2>4, FS_EmptySet
    <3> QED
      BY <3>1
  <2>5. CASE DraftsOf(m) # {}
    <3>1. Cardinality(DraftsOf(m)) = 1
      BY <2>3, <2>5, FS_Singleton
    <3> QED
      BY <2>2, <2>5, <3>1
  <2> QED
    BY <2>4, <2>5
<1> QED
  BY <1>1, <1>2, <1>3, BaseAlways, PTL DEF Spec

=============================================================================
