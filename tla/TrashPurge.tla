----------------------------- MODULE TrashPurge -----------------------------
(***************************************************************************)
(* The life of a stored email after the pipeline: the web handlers that    *)
(* move it and read it (internal/web/email_handlers.go, user_handlers.go)  *)
(* and the hourly trash purge (internal/trashpurge) that deletes the       *)
(* content of what has been in the trash for thirty days, while both go    *)
(* on.  How the content is shown is in Reading.                            *)
(*                                                                         *)
(* A handler reads the row, then updates it, then fetches content: three   *)
(* steps.  The purge lists rows once and then works through its list, one  *)
(* call at a time.  Days are the only time there is; the purge may run at  *)
(* any moment of a day.                                                    *)
(***************************************************************************)
EXTENDS Naturals

CONSTANTS
  Email,      \* emails the pipeline has finalized, on day 0
  Request,    \* requests of the web handlers
  Purger,     \* purge goroutines, one per running process
  Attached,   \* the emails with an attachment
  Stripped,   \* the emails whose original.eml was archived
  Retention,  \* days in the trash before the purge takes an email (30)
  Backends,   \* storage backends that may be configured
  MaxDay,     \* bound: the last day
  MaxFaults   \* bound: failed calls and crashes of the purge

ASSUME PurgeAssumption ==
  /\ Attached \subseteq Email /\ Stripped \subseteq Email
  /\ Retention \in Nat
  /\ Backends \subseteq {"local", "s3"}
  /\ MaxDay \in Nat /\ Retention < MaxDay
  /\ MaxFaults \in Nat

VARIABLES
  backend,    \* the configured storage
  day,        \* today
  row,        \* email: status, day of update_datetime, whether purged_datetime is set
  store,      \* the keys of each email in the object store
  req,        \* per request: the email, the status still to write, the key still to fetch
  todo,       \* per purger: emails of its list not yet worked on
  cur,        \* per purger: the email it works on, with the keys still to delete
  faults,     \* bound: faults so far
  inTrash,    \* history: the day each email last entered the trash
  trashed,    \* history: the emails that have ever been in the trash
  missed      \* history: the keys of each email that a user did not find

purge == <<todo, cur>>
history == <<inTrash, trashed, missed>>
vars == <<backend, day, row, store, req, purge, faults, history>>

-----------------------------------------------------------------------------

Status == {"INBOX", "QUARANTINED", "ARCHIVED", "DELETED"}
Key == {"body", "attachment", "original"}
Idle == [email |-> "none"]
None == "none"

\* What Persist and StoreOriginalEmail have saved for an email.
Saved(e) == {"body"} \cup (IF e \in Attached THEN {"attachment"} ELSE {})
                     \cup (IF e \in Stripped THEN {"original"} ELSE {})

Init ==
  /\ backend \in Backends
  /\ day = 0
  /\ row \in [Email -> [status : {"INBOX", "DELETED"}, updated : {0}, purged : {FALSE}]]
  /\ store = [e \in Email |-> Saved(e)]
  /\ req = [r \in Request |-> Idle]
  /\ todo = [p \in Purger |-> {}]
  /\ cur = [p \in Purger |-> Idle]
  /\ faults = 0
  /\ inTrash = [e \in Email |-> 0]
  /\ trashed = {e \in Email : row[e].status = "DELETED"}
  /\ missed = [e \in Email |-> {}]

\* The keys Run deletes: the row's storage_key and those of its attachments.
PurgeKeys(e) == {"body"} \cup (IF e \in Attached THEN {"attachment"} ELSE {})

\* Mutants of Due: the query has lost its status, or asks for the very day.
DueAnyStatus(e) == ~row[e].purged /\ row[e].updated + Retention < day
DueOnTheDay(e) == row[e].status = "DELETED" /\ ~row[e].purged /\ row[e].updated + Retention + 1 = day

\* GetEmailsForPurge.  update_datetime is set by the pipeline and by the purge
\* itself, not by the handlers that move an email to the trash.
Due(e) == row[e].status = "DELETED" /\ ~row[e].purged /\ row[e].updated + Retention < day

\* os.Remove and the GCS client fail on a missing object, S3 does not.
CanDelete(e, k) == backend = "s3" \/ k \in store[e]

\* The status each handler writes, given the one it has read: handleEmailDelete
\* toggles; delete-and-block, release, spam and ham do not look.
Written(op, seen) ==
  CASE op = "toggle" -> IF seen = "DELETED" THEN "INBOX" ELSE "DELETED"
    [] op = "deleteAndBlock" -> "DELETED"
    [] op \in {"release", "ham"} -> "INBOX"
    [] op = "spam" -> "QUARANTINED"

\* The emails of S get status s.
SetStatus(S, s) ==
  LET entering == IF s = "DELETED" THEN {e \in S : row[e].status # "DELETED"} ELSE {} IN
  /\ row' = [e \in Email |-> IF e \in S THEN [row[e] EXCEPT !.status = s] ELSE row[e]]
  /\ inTrash' = [e \in Email |-> IF e \in entering THEN day ELSE inTrash[e]]
  /\ trashed' = trashed \cup entering
  /\ UNCHANGED missed

-----------------------------------------------------------------------------
(* Users *)

\* A handler gets the email (GetEmailByIDForUser), to write status s and then to
\* fetch key k of its content, or only one of them.
Read(r, e, s, k) ==
  /\ req[r] = Idle
  /\ req' = [req EXCEPT ![r] = [email |-> e, status |-> s, key |-> k]]
  /\ UNCHANGED <<backend, day, row, store, purge, faults, history>>

\* The handlers that move an email.
Move(r, e, op) == Read(r, e, Written(op, row[e].status), None)

\* handleEmailLearn: spam to the quarantine, ham to the inbox, then rspamd gets it.
Learn(r, e, op) == Read(r, e, Written(op, row[e].status), "body")

\* handleEmailView, handleEmailHeaders, handleEmailUnsubscribe, the reply form.
View(r, e) == Read(r, e, None, "body")

\* handleAttachmentDownload
Download(r, e) == e \in Attached /\ Read(r, e, None, "attachment")

\* UpdateEmailStatus: the status alone, whatever it has become.
Write(r) ==
  /\ req[r] # Idle /\ req[r].status # None
  /\ SetStatus({req[r].email}, req[r].status)
  /\ req' = [req EXCEPT ![r] = IF @.key = None THEN Idle ELSE [@ EXCEPT !.status = None]]
  /\ UNCHANGED <<backend, day, store, purge, faults>>

\* FetchBody, FetchRaw, FetchHeaders, the download: what is not found is logged, and
\* shown as such or as nothing.
Fetch(r) ==
  LET e == req[r].email IN
  /\ req[r] # Idle /\ req[r].status = None
  /\ missed' = [missed EXCEPT ![e] = @ \cup ({req[r].key} \ store[e])]
  /\ req' = [req EXCEPT ![r] = Idle]
  /\ UNCHANGED <<backend, day, row, store, purge, faults, inTrash, trashed>>

\* handleBulkEmailAction "delete": one UPDATE over the selected emails.
BulkDelete(S) ==
  /\ S # {}
  /\ SetStatus(S, "DELETED")
  /\ UNCHANGED <<backend, day, store, req, purge, faults>>

-----------------------------------------------------------------------------
(* The purge *)

Fault == faults < MaxFaults /\ faults' = faults + 1

\* runTrashPurge: a tick, and there is something to do.
List(p) ==
  /\ todo[p] = {} /\ cur[p] = Idle
  /\ \E e \in Email : Due(e)
  /\ todo' = [todo EXCEPT ![p] = {e \in Email : Due(e)}]
  /\ UNCHANGED <<backend, day, row, store, req, cur, faults, history>>

\* The next email of the list: GetAttachmentStorageKeysByEmailID.
Take(p, e) ==
  /\ cur[p] = Idle
  /\ e \in todo[p]
  /\ todo' = [todo EXCEPT ![p] = @ \ {e}]
  /\ cur' = [cur EXCEPT ![p] = [email |-> e, keys |-> PurgeKeys(e), failed |-> FALSE]]
  /\ UNCHANGED <<backend, day, row, store, req, faults, history>>

\* The query fails: continue with the next email.
TakeFails(p, e) ==
  /\ Fault
  /\ cur[p] = Idle
  /\ e \in todo[p]
  /\ todo' = [todo EXCEPT ![p] = @ \ {e}]
  /\ UNCHANGED <<backend, day, row, store, req, cur, history>>

\* The body goes before the attachments.
NextKey(p, k) == k \in cur[p].keys /\ ("body" \in cur[p].keys => k = "body")

Delete(p, k) ==
  LET e == cur[p].email IN
  /\ cur[p] # Idle
  /\ NextKey(p, k)
  /\ CanDelete(e, k)
  /\ store' = [store EXCEPT ![e] = @ \ {k}]
  /\ cur' = [cur EXCEPT ![p].keys = @ \ {k}]
  /\ UNCHANGED <<backend, day, row, req, todo, faults, history>>

\* Mutant of DeleteFails: the failure is logged but not noted.
DeleteFailureForgotten(p, k) ==
  /\ cur[p] # Idle
  /\ NextKey(p, k)
  /\ IF CanDelete(cur[p].email, k) THEN Fault ELSE UNCHANGED faults
  /\ cur' = [cur EXCEPT ![p].keys = @ \ {k}]
  /\ UNCHANGED <<backend, day, row, store, req, todo, history>>

\* A failed deletion is noted; the other keys are still deleted.
DeleteFails(p, k) ==
  /\ cur[p] # Idle
  /\ NextKey(p, k)
  /\ IF CanDelete(cur[p].email, k) THEN Fault ELSE UNCHANGED faults
  /\ cur' = [cur EXCEPT ![p].keys = @ \ {k}, ![p].failed = TRUE]
  /\ UNCHANGED <<backend, day, row, store, req, todo, history>>

\* Nothing failed: MarkEmailPurged, whatever the status has become.
Mark(p) ==
  /\ cur[p] # Idle
  /\ cur[p].keys = {} /\ ~cur[p].failed
  /\ row' = [row EXCEPT ![cur[p].email].purged = TRUE, ![cur[p].email].updated = day]
  /\ cur' = [cur EXCEPT ![p] = Idle]
  /\ UNCHANGED <<backend, day, store, req, todo, faults, history>>

\* Something failed, or the mark does: the next run lists the email again.
Skip(p) ==
  /\ cur[p] # Idle
  /\ cur[p].keys = {}
  /\ IF cur[p].failed THEN UNCHANGED faults ELSE Fault
  /\ cur' = [cur EXCEPT ![p] = Idle]
  /\ UNCHANGED <<backend, day, row, store, req, todo, history>>

\* The process stops in the middle of a run; the next one starts with a purge.
Crash(p) ==
  /\ Fault
  /\ cur[p] # Idle \/ todo[p] # {}
  /\ todo' = [todo EXCEPT ![p] = {}]
  /\ cur' = [cur EXCEPT ![p] = Idle]
  /\ UNCHANGED <<backend, day, row, store, req, history>>

Midnight ==
  /\ day < MaxDay
  /\ day' = day + 1
  /\ UNCHANGED <<backend, row, store, req, purge, faults, history>>

PurgeStep(p) ==
  \/ List(p)
  \/ \E e \in Email : Take(p, e)
  \/ \E k \in Key : Delete(p, k) \/ DeleteFails(p, k)
  \/ Mark(p)
  \/ Skip(p)

UserStep(r) ==
  \/ \E e \in Email :
       \/ \E op \in {"toggle", "deleteAndBlock", "release"} : Move(r, e, op)
       \/ \E op \in {"ham", "spam"} : Learn(r, e, op)
       \/ View(r, e)
       \/ Download(r, e)
  \/ Write(r)
  \/ Fetch(r)

Next ==
  \/ \E r \in Request : UserStep(r)
  \/ \E S \in SUBSET Email : BulkDelete(S)
  \/ \E p \in Purger : PurgeStep(p) \/ Crash(p) \/ \E e \in Email : TakeFails(p, e)
  \/ Midnight

Spec == Init /\ [][Next]_vars

\* The ticker fires every hour, storage and database answer, and days pass.
Fairness == WF_vars(Midnight) /\ \A p \in Purger : WF_vars(PurgeStep(p))

FairSpec == Spec /\ Fairness

-----------------------------------------------------------------------------
(* Properties *)

TypeOK ==
  /\ backend \in Backends
  /\ day \in 0..MaxDay
  /\ row \in [Email -> [status : Status, updated : 0..MaxDay, purged : BOOLEAN]]
  /\ store \in [Email -> SUBSET Key]
  /\ req \in [Request -> {Idle} \cup
             [email : Email, status : Status \cup {None}, key : Key \cup {None}]]
  /\ todo \in [Purger -> SUBSET Email]
  /\ cur \in [Purger -> {Idle} \cup [email : Email, keys : SUBSET Key, failed : BOOLEAN]]
  /\ faults \in 0..MaxFaults
  /\ inTrash \in [Email -> 0..MaxDay]
  /\ trashed \subseteq Email
  /\ missed \in [Email -> SUBSET Key]

\* purged_datetime is the truth: it is set only once the body and every
\* attachment are gone from the store, whatever failed, crashed or was repeated.
PurgedMeansGone ==
  \A e \in Email : row[e].purged => store[e] \cap PurgeKeys(e) = {}

\* Users, purge runs and crashes in any order: an email that has never been in
\* the trash keeps everything, and so does one whose row pipeline or purge wrote
\* within the retention time; so nobody misses what it contains, and rspamd learns
\* it.  The archived original is never deleted.
NoStrangeLoss ==
  \A e \in Email :
    /\ store[e] # Saved(e) => e \in trashed /\ (row[e].purged \/ row[e].updated + Retention < day)
    /\ missed[e] # {} => e \in trashed /\ store[e] # Saved(e)
    /\ e \in Stripped => "original" \in store[e]

\* Every email that stays in the trash is purged, in spite of failed calls and
\* crashes, if the store lets a deletion be repeated.
TrashIsEmptied ==
  \A e \in Email :
    backend = "s3" /\ <>[](row[e].status = "DELETED") => <>(row[e].purged)

\* What GetEmailsForPurge calls its parameter: an email's body is deleted only if
\* the email was deleted, that is moved to the trash, before the cutoff.
DeletedBeforeCutoff ==
  [][\A e \in Email : "body" \in store[e] \ store'[e] =>
       row[e].status = "DELETED" /\ inTrash[e] + Retention < day]_vars
=============================================================================
