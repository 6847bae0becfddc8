------------------------------ MODULE Compose ------------------------------
(***************************************************************************)
(* One user writing, saving and sending messages in several windows         *)
(* (internal/web/compose_handlers.go).  A window saves its form on a timer  *)
(* while its user types, submits or leaves; the draft's id comes to the     *)
(* form with the reply to the first save.  Sending counts the mails of the  *)
(* hour, stores the email, queues the job and deletes the draft, one call   *)
(* after the other.                                                         *)
(*                                                                         *)
(* Any call may fail, with or without its effect.  A crash, and a browser   *)
(* that goes away and takes the request's context with it, look like        *)
(* failures of all the calls that are left.                                 *)
(***************************************************************************)
EXTENDS Naturals, FiniteSets

CONSTANTS
  Window,      \* the user's windows
  Draft,       \* ids of draft rows
  Msg,         \* messages the user begins to write
  Limit,       \* OUTBOUND_PER_USER_HOUR, 0 for none
  MaxHour      \* bound: the last hour

NoId == "none"
Unused == "unused"
Gone == "gone"
NoMsg == "none"

ASSUME ComposeAssumption ==
  /\ IsFiniteSet(Window)
  /\ NoId \notin Draft /\ {Unused, Gone, NoMsg} \cap Msg = {}
  /\ Limit \in Nat /\ MaxHour \in Nat

VARIABLES
  hour,        \* the hour of the clock
  win,         \* the windows with their two requests, see Blank
  draft,       \* table draft: the message of each row
  emails,      \* table email: the outbound ones of each hour
  jobs,        \* table outbound_job: how many each message has
  begun,       \* history: the messages that were begun
  shared,      \* history: those that were open in two windows at once
  lapses       \* history: those whose drafts got out of the server's hands

history == <<begun, shared, lapses>>
vars == <<hour, win, draft, emails, jobs, history>>

-----------------------------------------------------------------------------

Hour == 0..MaxHour

\* A window and its requests.
\*   page      whether the form is there, and msg, what it is about
\*   id        the form's draft_id; resumed: whether it can be discarded
\*   note      whether the form says that a draft is saved
\*   sending   the button is disabled; nothing enables it again
\*   save, saveId   the request to /draft and its draft_id
\*   send, sendId   the request to /send and its draft_id
\*   told      the reply to it
\*   row, job, failed  history: what it inserted, and the calls that failed
Blank(m, d) ==
  [page |-> TRUE, msg |-> m, id |-> d, resumed |-> d # NoId,
   note |-> d # NoId, sending |-> FALSE, save |-> "idle", saveId |-> NoId,
   send |-> "idle", sendId |-> NoId, told |-> "nothing",
   row |-> FALSE, job |-> FALSE, failed |-> {}]

Closed == [Blank(NoMsg, NoId) EXCEPT !.page = FALSE]

Init ==
  /\ hour = 0
  /\ win = [w \in Window |-> Closed]
  /\ draft = [d \in Draft |-> Unused]
  /\ emails = [h \in Hour |-> 0]
  /\ jobs = [m \in Msg |-> 0]
  /\ begun = {} /\ shared = {} /\ lapses = {}

-----------------------------------------------------------------------------

\* A window that is closed and none of whose requests the server works on.
Free(w) == ~win[w].page /\ win[w].save = "idle" /\ win[w].send = "idle"

Set(w, r) == win' = [win EXCEPT ![w] = r]

\* The draft of the window's message gets out of hand if p.
LapseIf(w, p) == lapses' = IF p THEN lapses \cup {win[w].msg} ELSE lapses

\* handleCompose for a new message, a reply or a forwarded one, and for a draft
\* that is not found.
Open(w, m) ==
  /\ Free(w) /\ m \notin begun
  /\ Set(w, Blank(m, NoId))
  /\ begun' = begun \cup {m}
  /\ UNCHANGED <<hour, draft, emails, jobs, shared, lapses>>

\* handleCompose for a draft.
Resume(w, d) ==
  /\ Free(w) /\ draft[d] \in Msg
  /\ Set(w, Blank(draft[d], d))
  /\ shared' = shared \cup {m \in Msg : m = draft[d] /\ \E v \in Window : ~Free(v) /\ win[v].msg = m}
  /\ UNCHANGED <<hour, draft, emails, jobs, begun, lapses>>

\* The user changes the form and the timer fires.  The form may be on its way to
\* /send; a second save waits for the reply to the first.
Autosave(w) ==
  /\ win[w].page /\ win[w].save = "idle"
  /\ Set(w, [win[w] EXCEPT !.save = "asked", !.saveId = win[w].id])
  /\ UNCHANGED <<hour, draft, emails, jobs, history>>

\* The form r is gone, and with it a reply to a save that was on its way.
Left(r) ==
  [r EXCEPT !.page = FALSE, !.id = NoId, !.resumed = FALSE, !.note = FALSE,
            !.save = IF @ = "saved" THEN "idle" ELSE @,
            !.saveId = IF r.save = "saved" THEN NoId ELSE @]

\* The user goes elsewhere.  What the server works on may still succeed.
Leave(w) ==
  /\ win[w].page
  /\ Set(w, Left(win[w]))
  /\ UNCHANGED <<hour, draft, emails, jobs, history>>

Elapse ==
  /\ hour < MaxHour /\ hour' = hour + 1
  /\ UNCHANGED <<win, draft, emails, jobs, history>>

-----------------------------------------------------------------------------
\* The request to /draft.

\* handleDraftSave answers with the draft's id, if the form is still there.
Answer(w, d) ==
  Set(w, IF win[w].page THEN [win[w] EXCEPT !.save = "saved", !.saveId = d]
         ELSE [win[w] EXCEPT !.save = "idle", !.saveId = NoId])

\* UpdateDraft does not say how many rows it has found.
UpdateDraft(w) ==
  /\ win[w].save = "asked" /\ win[w].saveId # NoId
  /\ Answer(w, win[w].saveId)
  /\ UNCHANGED <<hour, draft, emails, jobs, history>>

\* The row that CreateDraft inserts.  It is late if the form, without its id, is
\* on its way to /send.
NewRow(w, d) ==
  /\ win[w].save = "asked" /\ win[w].saveId = NoId /\ draft[d] = Unused
  /\ draft' = [draft EXCEPT ![d] = win[w].msg]

CreateDraft(w, d) ==
  /\ NewRow(w, d)
  /\ Answer(w, d)
  /\ LapseIf(w, win[w].sending)
  /\ UNCHANGED <<hour, emails, jobs, begun, shared>>

\* Mutant of Saved: the reply leaves the form's draft_id alone.
SavedWithoutId(w) ==
  /\ win[w].page /\ win[w].save = "saved"
  /\ Set(w, [win[w] EXCEPT !.save = "idle", !.saveId = NoId, !.note = TRUE])
  /\ UNCHANGED <<hour, draft, emails, jobs, history>>

\* An error, before or after the row was written; also a sending address that is
\* not the user's.
SaveFails(w) ==
  /\ win[w].save = "asked"
  /\ Set(w, [win[w] EXCEPT !.save = "idle", !.saveId = NoId])
  /\ \/ UNCHANGED <<draft, lapses>>
     \/ \E d \in Draft : NewRow(w, d) /\ LapseIf(w, TRUE)
  /\ UNCHANGED <<hour, emails, jobs, begun, shared>>

\* The reply comes to the form: "Saved", and the draft's id.
Saved(w) ==
  /\ win[w].page /\ win[w].save = "saved"
  /\ Set(w, [win[w] EXCEPT !.save = "idle", !.saveId = NoId, !.note = TRUE, !.id = win[w].saveId])
  /\ UNCHANGED <<hour, draft, emails, jobs, history>>

\* Mutant of Discard: the answer does not send the browser elsewhere.
DiscardStays(w) ==
  /\ win[w].page /\ win[w].resumed /\ ~win[w].sending
  /\ draft[win[w].id] \in Msg
  /\ draft' = [draft EXCEPT ![win[w].id] = Gone]
  /\ UNCHANGED <<hour, win, emails, jobs, history>>

\* handleDraftDelete, offered by a resumed draft's window only.  The page goes if
\* the row was there.
Discard(w) ==
  /\ win[w].page /\ win[w].resumed /\ ~win[w].sending
  /\ draft[win[w].id] \in Msg
  /\ draft' = [draft EXCEPT ![win[w].id] = Gone]
  /\ Set(w, Left(win[w]))
  /\ UNCHANGED <<hour, emails, jobs, history>>

DiscardUnconfirmed(w) ==
  /\ win[w].page /\ win[w].resumed /\ ~win[w].sending
  /\ draft[win[w].id] \in Msg
  /\ draft' = [draft EXCEPT ![win[w].id] = Gone]
  /\ Set(w, [win[w] EXCEPT !.failed = @ \cup {"discard"}])
  /\ UNCHANGED <<hour, emails, jobs, history>>

-----------------------------------------------------------------------------
\* The request to /send.

\* The form goes out with the draft_id it has.  A draft whose id is still on its
\* way will not be deleted.
Submit(w) ==
  /\ win[w].page /\ ~win[w].sending
  /\ Set(w, [win[w] EXCEPT !.sending = TRUE, !.send = "count", !.sendId = win[w].id])
  /\ LapseIf(w, win[w].save = "saved" /\ win[w].id = NoId)
  /\ UNCHANGED <<hour, draft, emails, jobs, begun, shared>>

\* The reply t to /send of window r.  An error leaves the page as it is.
Told(r, t) == [r EXCEPT !.send = "idle", !.sendId = NoId, !.told = t]
Reply(w, t) == Set(w, Told(win[w], t))

\* Mutant of UnderLimit: one too many.
UnderLimitOrEqual == Limit > 0 => emails[hour] <= Limit

\* The comparison of CountOutboundByUserHour with OutboundPerUserHour.
UnderLimit == Limit > 0 => emails[hour] < Limit

Count(w) ==
  /\ win[w].send = "count" /\ UnderLimit
  /\ Set(w, [win[w] EXCEPT !.send = "persist"])
  /\ UNCHANGED <<hour, draft, emails, jobs, history>>

OverLimit(w) ==
  /\ win[w].send = "count" /\ ~UnderLimit
  /\ Reply(w, "limit")
  /\ UNCHANGED <<hour, draft, emails, jobs, history>>

\* The form, the sending address, an attachment or the count is refused.
Refuse(w) ==
  /\ win[w].send = "count"
  /\ Reply(w, "error")
  /\ UNCHANGED <<hour, draft, emails, jobs, history>>

\* Persist as far as CreateEmail; what follows it there cannot fail.
StoreEmail == emails' = [emails EXCEPT ![hour] = @ + 1]

Persist(w) ==
  /\ win[w].send = "persist"
  /\ StoreEmail
  /\ Set(w, [win[w] EXCEPT !.send = "insert", !.row = TRUE])
  /\ UNCHANGED <<hour, draft, jobs, history>>

\* Mutant of PersistFails: the error is only logged.
PersistFailureLogged(w) ==
  /\ win[w].send = "persist"
  /\ Set(w, [win[w] EXCEPT !.send = "insert", !.failed = @ \cup {"persist"}])
  /\ UNCHANGED <<hour, draft, emails, jobs, history>>

\* BuildMessage fails, or Persist does, with the email's row or without it.
PersistFails(w) ==
  /\ win[w].send = "persist"
  /\ \E written \in BOOLEAN :
       /\ IF written THEN StoreEmail ELSE UNCHANGED emails
       /\ Set(w, [Told(win[w], "error") EXCEPT !.row = written, !.failed = @ \cup {"persist"}])
  /\ UNCHANGED <<hour, draft, jobs, history>>

Enqueue(w) == jobs' = [jobs EXCEPT ![win[w].msg] = @ + 1]

InsertOutboundJob(w) ==
  /\ win[w].send = "insert"
  /\ Enqueue(w)
  /\ Set(w, [win[w] EXCEPT !.send = "delete", !.job = TRUE])
  /\ UNCHANGED <<hour, draft, emails, history>>

\* The error is only logged.
InsertFails(w) ==
  /\ win[w].send = "insert"
  /\ \E written \in BOOLEAN :
       /\ IF written THEN Enqueue(w) ELSE UNCHANGED jobs
       /\ Set(w, [win[w] EXCEPT !.send = "delete", !.job = written,
                                !.failed = @ \cup {"insert"}])
  /\ UNCHANGED <<hour, draft, emails, history>>

DeleteDraft(w) ==
  /\ win[w].send = "delete"
  /\ IF win[w].sendId # NoId THEN draft' = [draft EXCEPT ![win[w].sendId] = Gone]
     ELSE UNCHANGED draft
  /\ Set(w, [win[w] EXCEPT !.send = "list"])
  /\ UNCHANGED <<hour, emails, jobs, history>>

\* The error is only logged.
DeleteFails(w) ==
  /\ win[w].send = "delete" /\ win[w].sendId # NoId
  /\ Set(w, [win[w] EXCEPT !.send = "list"])
  /\ LapseIf(w, TRUE)
  /\ UNCHANGED <<hour, draft, emails, jobs, begun, shared>>

\* The list of sent emails is the reply, or an error though all has been done.
ListSent(w) ==
  /\ win[w].send = "list"
  /\ Set(w, Left(Told(win[w], "sent")))
  /\ UNCHANGED <<hour, draft, emails, jobs, history>>

ListFails(w) ==
  /\ win[w].send = "list"
  /\ Set(w, [Told(win[w], "error") EXCEPT !.failed = @ \cup {"list"}])
  /\ UNCHANGED <<hour, draft, emails, jobs, history>>

-----------------------------------------------------------------------------

Writing(w) ==
  \/ \E m \in Msg : Open(w, m)
  \/ \E d \in Draft : Resume(w, d)
  \/ Autosave(w) \/ Saved(w) \/ Submit(w) \/ Leave(w)
  \/ Discard(w) \/ DiscardUnconfirmed(w)

Saving(w) ==
  \/ UpdateDraft(w) \/ SaveFails(w)
  \/ \E d \in Draft : CreateDraft(w, d)

Sending(w) ==
  \/ Count(w) \/ OverLimit(w) \/ Refuse(w)
  \/ Persist(w) \/ PersistFails(w)
  \/ InsertOutboundJob(w) \/ InsertFails(w)
  \/ DeleteDraft(w) \/ DeleteFails(w)
  \/ ListSent(w) \/ ListFails(w)

Next == Elapse \/ \E w \in Window : Writing(w) \/ Saving(w) \/ Sending(w)

Spec == Init /\ [][Next]_vars

-----------------------------------------------------------------------------

WindowRow ==
  [page : BOOLEAN, msg : Msg \cup {NoMsg}, id : Draft \cup {NoId},
   resumed : BOOLEAN, note : BOOLEAN, sending : BOOLEAN,
   save : {"idle", "asked", "saved"}, saveId : Draft \cup {NoId},
   send : {"idle", "count", "persist", "insert", "delete", "list"},
   sendId : Draft \cup {NoId}, told : {"nothing", "sent", "limit", "error"},
   row : BOOLEAN, job : BOOLEAN, failed : SUBSET {"discard", "persist", "insert", "list"}]

\* The variables have their types; a form that is there has a message, and a save
\* that is answered with "Saved" names a draft.
TypeOK ==
  /\ hour \in Hour
  /\ win \in [Window -> WindowRow]
  /\ \A w \in Window : /\ ~Free(w) => win[w].msg \in begun
                       /\ win[w].save = "saved" => win[w].saveId \in Draft
  /\ draft \in [Draft -> Msg \cup {Unused, Gone}]
  /\ emails \in [Hour -> Nat]
  /\ jobs \in [Msg -> Nat]
  /\ begun \subseteq Msg /\ shared \subseteq begun
  /\ lapses \subseteq begun

DraftsOf(m) == {d \in Draft : draft[d] = m}
Sent(m) == jobs[m] > 0 /\ \A w \in Window : win[w].msg = m => win[w].send = "idle"

\* A message has one draft, and none once its job is queued and its requests are
\* over, however saves, replies and sends overlap in whatever windows.  Otherwise
\* a save was not confirmed or was still under way when the form went out, or
\* the deletion of the draft failed.
DraftsAreTidy ==
  \A m \in Msg :
    \/ Cardinality(DraftsOf(m)) <= IF Sent(m) THEN 0 ELSE 1
    \/ m \in lapses

\* A form that says its draft is saved, and has not been sent, has that draft in
\* the table, unless another window had the message too or the user discarded it.
SavedIsKept ==
  \A w \in Window : LET m == win[w].msg IN
    win[w].page /\ win[w].note /\ ~win[w].sending =>
      \/ win[w].id \in DraftsOf(m)
      \/ m \in shared \/ "discard" \in win[w].failed

\* What /send answers: a refused message is not stored, a stored one is reported
\* as sent unless the answer itself failed, one reported as sent is queued unless
\* the insert failed, and what is queued is always among the sent emails.
HonestReply ==
  \A w \in Window : LET s == win[w] IN
    /\ s.told = "limit" => ~s.row
    /\ s.told = "error" /\ s.row => s.failed \cap {"persist", "list"} # {}
    /\ s.told = "sent" => s.row /\ (s.job \/ "insert" \in s.failed)
    /\ s.job => s.row

\* An hour has no more emails than the limit and one for every other window that
\* was counting at the same time, also across the change of the hour.
LimitWithinWindows ==
  Limit > 0 => \A h \in Hour : emails[h] + 1 <= Limit + Cardinality(Window)
=============================================================================
