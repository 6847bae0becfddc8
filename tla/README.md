# A TLA+ model of MAILAROO

MAILAROO is a mail server in one Go binary: it receives mail over SMTP, sends
every message through an ingestion pipeline, delivers outgoing mail from a queue
in PostgreSQL and offers a web mailer. This directory holds TLA+ modules that
model those parts of it whose state changes are hard to test, configurations
that check them with TLC, and proofs for TLAPS.

## Inventory

| Component | State | Operations | Talks to |
|---|---|---|---|
| Outbound queue (`internal/outbound/queue.go`, `internal/db/outbound_db.go`) | tables `outbound_job`, `outbound_job_attempt`; per worker the batch it claimed | enqueue, claim, send, update, record | MTA (call), pipeline (a bounce writes the same row), compose and SMTP submission (enqueue) |
| MTA (`mta.go`, `dkim.go`) | connections; tables `domain` and `dkim_key` | sign, deliver per domain: MX lookup, dial, TLS, dialogue | remote servers, DNS, administration (which makes and rotates keys) |
| SMTP server (`internal/smtp/server.go`) | per session: sender, recipients, user, ingestion id | connect, AUTH, MAIL, RCPT, DATA, RSET | pipeline (stages; a goroutine per recipient), greylist, user and mailbox tables, queue |
| Pipeline, session stages (`RunStage`) | `ingestion.status` and `ingestion_step`; per address a limiter and a violation counter | IP block, rate limit, RBL, block rules | `ip_block`, DNS |
| Pipeline, data stage (`Process`) | `IngestionContext`; `ingestion`, `ingestion_step`, `email`, `thread`, `email_attachment` | the nine steps | mail service, storage, rspamd, classifier, hub, queue |
| Mail service (`internal/mail/mail.go`) | objects in the store | Persist, StoreOriginalEmail, read back | storage, tables |
| Trash purge (`internal/trashpurge`) | its list of the moment; `purged_datetime` | list, delete, mark | storage, `email` |
| Web: mailbox and email handlers (`mailbox_handlers.go`, `email_handlers.go`, `db/web_db.go`) | `email.status`, flags and category; in the browser the list and its cursor | list page by page, search, delete (toggle), delete and block, release, spam, ham, read, star, category, bulk actions | `email`, rspamd, block rules |
| Web: compose | `draft` | autosave, send, sending limit | Persist, queue |
| Web: authentication (`auth_handlers.go`, `totp_handlers.go`, `middleware.go`) | `webmail_session`, `totp_pending`, TOTP secrets, backup codes, reset tokens; a map of enrolments in memory | login in two steps, enrolment, backup codes, reset, ending a session | user tables |
| Hub (`pubsub.go`, `handleEvents`) | per user a list of bounded channels | subscribe, broadcast, unsubscribe, heartbeat | pipeline (broadcast), the tab (which fetches its list again) |
| Filter and block rules (`filterengine`, `filter_db.go`, `filter_handlers.go`, `contact_handlers.go`) | `mailbox_filter_rule` and `_condition`, `mailbox_block_rule` | create, save, delete and order rules; block, unblock, toggle | pipeline and sessions, which read them |
| Administration and bootstrap (`admin_handlers.go`, `admin.go`, `bootstrap.go`) | `user`, `mailbox`, `mailbox_user`, `address_mapping`, `sending_address`, `domain`, `dkim_key` | create users with their mailboxes, members, mappings and addresses; switch users; apply the configuration file | every lookup of the SMTP server and the pipeline |
| Contacts, settings (`contact_handlers.go`, `user_handlers.go`) | `contact`, profile, signatures, preferences | create, update, delete, favourite, block; download an attachment | block rules |
| Reading and image proxy (`mail/mail.go`, `mail/rewrite.go`, `proxy`, `proxy_handlers.go`) | none | pick and sanitize the body, sign image addresses, fetch images, unsubscribe | storage, web |
| Clients (`rspamd`, `classifier`), checks of domains (`admin_handlers.go`) | none | turn an answer into a verdict | services, DNS |
| Configuration | none | | |

What is hard here: several processes or goroutines work on one row without a
transaction around their read and their write (queue, bounces, handlers, purge,
pipeline); the program has no recovery, so a stop between two calls leaves what
it leaves; most errors are logged and the work goes on; and two stores, the
tables and the objects, have to agree. `PROJECT.json` lists these hazards line
by line, with the properties that cover each of them.

What makes each component correct:

- queue: one attempt at a time, an honest verdict, nothing stuck without a
  fault, nothing sent again after the end, every job comes to an end;
- pipeline: nothing leaves quarantine unscreened, the ingestion row tells what
  happened, rows and objects refer to things that exist, replies join their
  conversation, every acknowledged message is brought to an end;
- purge: what is marked as purged is gone, what was never in the trash is not,
  and the trash is emptied;
- connections: no address exceeds its rate, blocks are earned by violations,
  and the threshold acts;
- sessions: a message goes to exactly the recipients of its own transaction, the
  greylist delays each sender once and no longer, an account's sessions together
  keep to its rate;
- compose: one draft per message and none after it was sent, what a form calls
  saved is saved, replies tell what was done, the sending limit is passed by no
  more than the requests under way;
- delivery: success means taken, no more copies than attempts and lost answers
  explain, signatures verify, an attempt ends;
- accounts: a backup code and a reset link work once, no session slips past the
  second factor, an administrator remains;
- directory: no user is left half made, no address has two destinations by
  accident;
- mailbox view: the list is whole and without repetition while rows change, and
  no new mail goes unannounced;
- filters: a rule acts as somebody saved it and in an order somebody gave, and a
  block lasts until somebody asks to let its sender through, or another one by a
  rule that covers both.

## Modules

`OutboundQueue` models the two tables and the workers. A worker's step is one
call: `Claim` (the whole transaction of `ClaimOutboundJobs`; its `SKIP LOCKED`
makes it atomic), `Send` (`SendWithResponse` returns, and `deliver` picks a
branch from the attempt number it computes from the row *as the claim read it*),
`Update` (the `UPDATE ... WHERE id`, which looks at no status) and `Record`.
`ClaimUnconfirmed`, `UpdateFails`, `RecordFails` and `Crash` are its faults;
`Bounce` is what `ParseDSN` does to the row, at any moment after some server has
taken the message. Time is abstracted to whether a row is due.

`JobLifecycle` is what the queue promises about one job, with no workers,
batches, snapshots or log in it: pending, taken, tried, concluded, perhaps lost.
`OutboundQueue!Lifecycle` is the refinement mapping, and `ImplementsLifecycle`
says that the queue implements it.

`IngestionPipeline` models `Process`: per message the current step, where in the
step its goroutine stands, the `IngestionContext` fields that steps pass on, the
five tables and the object store. Every call another goroutine, a user or a
crash can fall between is an action; `Log` is `runStep`'s insert together with
`Process`'s decision to go on. `Deliver` is `SaveBody`, `JoinThread` or
`OpenThread`, `InsertEmail`, `SaveAttachment`, `CreateAttachment`, each with its
failure. `Abort` is a recovered panic or a stop of the process. The choices are
what the outside brings: the sender's DNS and signatures, the images in the body,
the answers of rspamd and the classifier, and the filter action that applies.

`MessageChecks` holds what the steps compute from these, as operators: domain
extraction, DKIM status, alignment and the decision of `ValidateSender`;
`classifyTrackingPixel`; the clients of rspamd and of the classifiers. The steps
of `IngestionPipeline` call them, so its properties are about the real decisions.

`TrashPurge` models the emails after the pipeline: handlers that read the row,
then write it and then fetch content (`Read`, `Write`, `Fetch`: moving, teaching
rspamd, viewing, downloading, unsubscribing), and purge runs that list once and then delete key by key.
`update_datetime` is kept as a day, and so is `inTrash`, the day the email
really entered the trash, which the program does not record. The backend is
`local` (a missing object cannot be deleted: `os.Remove`, and the GCS client
likewise) or `s3` (it can).

`Reading` has what happens to the content between the store and the user's
screen, as operators: compression and how the suffix of a key decides about
decompression, the sanitizer's policy, the rewriting of image addresses, the
signed addresses and the proxy with its refusal of private networks, which part
is shown and which is searched, and unsubscribing.

`ConnectionGuard` models what a connection passes before its session exists:
`NewSession` with the ingestion row and the stage `connect`. The steps of
`CheckRateLimit` are split where its lock is released: `FindLimiter`, `Allow`
(with the violation counter, which is incremented under the lock and compared
after it), `AddIPBlock`, `Clear`. The cleanup of stale limiters is part of
`FindLimiter`, as in the code.

`SmtpSession` models the sessions that passed it: `Auth`, `Mail`, `Rcpt` with
the greylist and the stage `rcpt_to`, `Data` inbound (`HandleInbound`) and
outbound (`HandleOutbound`, `InsertOutboundJob`), `Reset`, and the hourly
purge. What a session hands on is what `IngestionPipeline!Receive` and
`OutboundQueue!Submit` take up. `accepted` is the list of recipients that the
library go-smtp believes in, each with the sender and the account it was accepted
under, so that it can be compared with the session's own. Of the library's order
of calls only this is assumed: AUTH until it succeeds once, RCPT after a MAIL,
DATA after an accepted recipient, Reset after DATA. MAIL and AUTH may come within a
transaction, for neither `Session.Mail` nor the authentication looks at what is
open: `Mail` replaces the sender and keeps the recipients, `Auth` changes the
account. `strayed` records that one of them did. Looks
into tables that an administrator changes at any time may answer anything.

Both keep time in ticks. A tick gives a limiter one token back, which is coarser
than the code's fractions of one; that time passes between `FindLimiter` and
`Allow`, two adjacent statements, is left out. A limiter that is dropped is at
least as old as it takes to refill (`GuardAssumption`: the code drops after ten
minutes, and refills in one).

`Compose` models the windows in which a user writes: the form with its hidden
`draft_id`, the autosave that runs beside it, and the requests to `/draft` and
`/send` with every call of their handlers. The browser's part is taken from
`templates/compose.templ`: one save at a time per form, a button that is
disabled by the submit and never enabled again, and a `draft_id` that arrives
with the reply to the first save. Texts are left out, so a save of an older text
over a newer one in two windows is not seen. A browser that goes away cancels
the request's context: the calls left fail, as they do in a crash.

`Sending` is what the queue and the MTA have agreed on about one message: the
calls that have returned, what the last of them said, whether some server has
the message and whether it has a destination at all. Both sides refine it.
`OutboundQueue!Message(j)` maps job `j` to it, by variables that the queue keeps
for this (`routable`, `answer`): the queue uses an answer as agreed and never
calls again after a success. `Delivery!Agreement` maps the attempt: it answers
only what the queue relies on. So the queue, which models a send as one step,
and `Delivery`, which models the dialogue with every host, fit together.

`Delivery` follows one message from `BuildMessage` through the attempts of
`SendWithResponse`: domain after domain in the order of a Go map (any), host
after host, and in the dialogue one action per command. A host may refuse, fail,
take the message and lose the answer, or fall silent (`Silence`). Beside it are
the domain's `dkim_key` rows, created by page or command and
rotated in place (`RotateRead`, `RotateWrite`), the page that each administrator
last saw and the DNS he copies it into. The configuration file makes a row too, in
two statements (`BootstrapRead`, whose failure is taken for "no key", and
`BootstrapInsert`, with or without an encryption key), and shows nobody its record.
`shown` keeps the keys that a page has shown. `OutboundQueue!Send` is one attempt.
`DomainChecks` has the records the page asks for and the three checks of
`handleAdminDomainVerify`, with the walk through SPF's includes.

`Accounts` models the requests of people who log in or are logged in. A request
keeps what the middleware or the handler has read of the user and goes on with
it, call by call: `Login`, `AskSecondFactor` or `OpenSession`; `VerifyTOTP`,
`CheckCode`, `ReadCodes`, `RemoveCode`, `SettlePending`; `Authenticate`,
`Authorize` and then the handler's one or two calls; `Logout` needs no valid session. A code of the authenticator
app is right or wrong by choice; backup codes are kept one by one.

`Directory` models the tables that say who exists and where mail goes.
`handleAdminUserCreate` and `bootstrapFromConfig` are the operations of several
statements, each an action, with their failures and the death of the process;
the deferred `DeleteUser` is `CleanUp`. All others are one statement.
`Routes` is `LookupMailboxByAddress`. The local part typed for a new user goes
into the pattern unquoted, so a pattern may be one that Go accepts and
PostgreSQL does not.

`MailboxView` models the list as `SearchEmails` finds it (the view's condition,
the order, the cursor of the row constructor `(receive_datetime, e.id)`), the
browser that appends pages (`EmailListRows` ends in an element that loads more),
the handlers that change rows, and the hub with `handleEvents`. A request for a
page is two actions, so rows change between finding and showing. The numbers
beside the views come from queries of their own (`CountEmails`, `CountByCategory`).
An email without a category (NULL or "", which no query tells apart) and one whose
category is the text "none" are different rows: `SearchEmails` finds the first
under "none", `CountByCategory` counts both there.

`FilterRules` models rules with their conditions, and the transactions that save
and order them statement by statement, each seeing what is committed by then
(`READ COMMITTED`) and locking the rows it writes; an order that would wait for
another waits here too, and one of two that wait for each other fails.
`Evaluate` and `Chosen` are the engine. Block rules are patterns found anywhere
in the sender; `ToggleRead` and what follows is `handleContactToggleBlock`, which
reads a contact's address, then looks for a rule, then deletes or makes one.
`held` keeps the addresses whose block was confirmed and that nobody has asked to
let through, `swept` those of them covered by a rule deleted for another address.
Contacts are rows that single statements change (`SetContact`) and that the block
button starts from; a theme's CSS is a sequence of braces.

The modules named `MC...` hold the small instances, those named `...Proofs` the
proofs. `TypeOK` of each module states the types of its variables; the runs
leave it to the theorems and to the other properties, which could not be
evaluated outside them.

## Runs

| Run | Instance | Question and answer |
|---|---|---|
| `outbound` | 2 jobs, 2 workers, 2 attempts, 1 delay, batches of 2, all faults; workers fair | All safety properties hold, the queue implements `JobLifecycle` and its side of `Sending`, and every job that no fault strands settles. Two workers with batches of two give every overlap of claims, late updates and bounces; two attempts end once with a deferral and once without. |
| `ingestion` | a message with pixels and malformed structure, or one with attachment and bounce address, each with two outcomes of the sender checks, three answers of rspamd, two replies of the classifier and two rule actions, all faults and a user; or 3 messages in 2 mailboxes without faults | The tables, the store and the log are consistent whatever fails, and every ingestion comes to an end its row tells, unless the very call that writes the row failed or the process stopped. Replies join a conversation they can see and never one of another mailbox. One message is enough for the faults, for those properties speak of one message and its faults already interleave with the user; three is the least that shows two openers and a reply. At most one log row may be lost. |
| `compose` | one message, 2 windows, 2 drafts, limit 1, 2 hours, every failure | Drafts, emails, jobs and replies agree, and the limit is passed by no more than the requests under way. Two windows let one change what the other believes in; a second draft is what a lost id leads to; the hour changes between counting and storing. |
| `purge` | 1 email with everything, 2 purgers, 1 request, 4 days with one day of retention, 2 faults, both kinds of store | `purged_datetime` is honest, what is lost or not found by its reader was due, and on S3 the trash is emptied. Two purgers and two faults give an overlap in which both fail. |
| `purge_cutoff` | the same with 2 emails, 1 purger and 1 fault | *Violated*: an old email moved to the trash is purged at the next run, and one restored during a run loses its content. |
| `connection_guard` | 4 connections, 2 addresses, rate 1, threshold 2, 5 ticks | Rate, blocks and threshold are kept. Four connections let two pass the counter's comparison while a third resets it. |
| `smtp_session` | 2 sessions, 2 MAIL commands in all, up to 2 recipients, one account, delay, expiry and rate 1, 3 ticks | Handing over, greylist and rate are right. Two MAILs show what one transaction leaves to the next, and a second MAIL within one; three ticks show a try, its passing and its expiry. |
| `accounts` | 2 requests at a time, one session, one pending login, 2 reset tokens, 2 generations of 2 backup codes; three workloads: one user's second factor, two administrators' switches, reset links | All hold, with the exceptions they name (see below). Two requests are what a race needs; two codes let a removal restore one that another request has used. |
| `directory` | 2 users, 2 mailboxes, 1 address, one creation at a time, the file applied up to twice, four sets of other operations | No user is left half made unless the clean-up itself failed, and only a form or a second application of the file gives mail a second destination. |
| `delivery` | 4 recipients (one malformed) over 2 domains, the first with 2 hosts, relay or not, TLS required or not, 2 attempts; or one malformed recipient and 2 administrators with up to 4 keys, one of whom may also bootstrap, with the tools' encryption keys equal or not | Success is true, copies are bounded, signatures verify, attempts end, and the MTA keeps its side of `Sending`. Two hosts give a fallback, two domains a failure after a success, two attempts the retry. |
| `mailbox_view` | 4 emails (two with one time) in pages of 2, 2 changes of rows, four scenes: unread or all mail, mail or its category "none" with categories, starred, and two tabs listening with room for 2 events | The list is whole; nothing goes unannounced. Three emails that are there and one that arrives give two pages with a change before, between and after them; four announcements overflow the channel. |
| `filters` | 2 members, 2 or 3 rules, rules with one or two conditions of which one may be ill-formed; or 2 addresses, the one part of the other, 2 contacts and up to 4 block rules | A rule acts as saved and in order; a block holds, but for addresses that share a rule with one let through (`swept`). Two transactions are what an overlap needs; the third rule lets two orders share a part. |

The runs also evaluate what an operator promises against a reference definition,
over all small inputs (`ASSUME` in the `MC...` modules):

| Assumption | Run | What it says |
|---|---|---|
| `SpfWithinThreeIncludes` | `delivery` | Over all zones of five domains with these policies, `spfAuthorizes` finds the server exactly if a policy within three includes lists it; includes in a circle do no harm. |
| `AskedForPasses` | `delivery` | A domain that publishes what the page asks for passes all three checks, and one with another key fails DKIM. |
| `ReadsWhatWasSaved` | `purge` | Content is read back as saved under every setting, except an uncompressed attachment whose own name ends in `.gz` or `.zst`. |
| `ImagesThroughTheProxy` | `purge` | An absolute address of another host reaches the browser only in a style and only if it is not written as `cssURLRe` matches it, and the proxy fetches what it signed, from public addresses only. |
| `ShowsWhatIsSearched` | `purge` | The text a message is searched by is the text that it shows, unless it comes from the HTML. |
| `BalancedCSS` | `filters` | Of the texts of up to four braces the balanced ones are accepted. |
| `CountsAgree` | `mailbox_view` | The numbers of views and categories agree with the list, for any two rows, except that an email set to "none" is counted under "none" and not listed there. |

Deadlock is not checked: all these parts may come to rest.
`RetryTimeArrives`, days, ticks and workers are the only clocks; no run bounds
the number of bounces, since a second bounce changes nothing. Bounds marked
`bound:` in the modules appear in guards; all the others are parameters of the
program. Sets named `Workloads`, `Scenes` or `Mailings` keep apart behaviours
that have nothing to do with each other: one is chosen in `Init`.

Fairness. A worker's loop polls every ten seconds and a purger's every hour, so
both are weakly fair, each as one process and not action by action. This assumes
that the calls they make return; the MTA sets a timeout on the dial only, so a
remote server can break the assumption. `Delivery` therefore gives the attempt
weak fairness but lets a server fall silent for good, and `EveryAttemptEnds`
excepts exactly that. Goroutines of the pipeline are fair because Go schedules
them. Connections, sessions, requests and tabs are not: a client may stop talking
at any time, and nothing is claimed to happen eventually. Nobody has to send,
bounce, fail, crash or click.

## What the runs found

- The purge measures thirty days from `update_datetime`, which the handlers that
  delete an email do not set, and works through a list that may be stale
  (`purge_cutoff`).

The properties of the passing runs name as exceptions what the code does not
keep. No document of the repository denies any of these, but they are worth
knowing:

- A bounce does not stick: `UpdateOutboundJobDelivered` and `-Deferred`
  (`outbound_db.go:127`) do not look at the status they replace, so a bounce
  between the answer and the update is overwritten. A job claimed by a process
  that dies stays `SENDING` for ever (`lost` in `StrandedOnlyByFault`).
- `SendWithResponse` skips recipients that are not cut in two by "@"
  (`mta.go:198`). When no other is left it succeeds with an empty response, and
  the job becomes `DELIVERED` though no server was asked (`routable` in
  `HonestVerdict`). A quoted local part, which `parseAddresses` unquotes
  (`util.go:168`), is enough.
- A silent server holds the only worker for ever (`stalled` in
  `EveryAttemptEnds`); a recipient that a server refuses, while it takes the
  message for others, is in no answer (`refused` in `OkMeansTaken`).
- Two rotations of a DKIM key at once leave a page that shows a record whose key
  has been overwritten (`crossed` in `SignaturesVerify`), and so does a message
  signed before a rotation and checked after it (`stale`). A key that the
  bootstrap has made signs at once, and no page has said what to publish until an
  administrator opens the domain's (`shown`); a bootstrap whose search for a key
  failed adds one to a domain that has one.
- A second MAIL, or an AUTH, within an SMTP transaction leaves the recipients
  accepted before it, which are then served under a sender or an account that no
  rule has checked them with (`strayed` in `HandedAsAccepted`, at
  `smtp/server.go:156`).
- A block rule covers every address that contains its own, and
  `handleContactToggleBlock` deletes the first rule that covers the contact's:
  unblocking joann@... deletes the rule made for ann@..., who is let through
  though nobody asked (`swept` in `BlockHolds`).
- Emails whose category is the text "none", which `handleEmailCategory` stores like
  any other, are counted under "none" (`web_db.go:270`) and not listed there
  (`web_db.go:214`); see `CountsAgree`.
- In a style only `url(http...)` in small letters is sent through the proxy
  (`rewrite.go:29`); an address in `URL(`, `HTTP://`, an escape or another function
  stays as it is, and so does one without a scheme (`//host`), anywhere.
- The sending limit (`config.go:335`) counts first and stores later: requests at
  once pass it together (`LimitWithinWindows`). A job that cannot be inserted is
  only logged: the message is in the sent folder, its draft is gone, its sender
  is told it was sent, and nobody sends it (`HonestReply`). Saving a draft that
  another window has sent or discarded answers "Saved" (`SavedIsKept` excepts
  messages open in two windows).
- A pipeline's last write of an email may undo what a user did to it meanwhile:
  `ScreenedBeforeInbox` excepts emails that a user has moved.
- On local and GCS storage an interrupted purge is retried without success
  (`TrashIsEmptied` is therefore about S3).
- Two logins with one backup code at once both succeed, and a login beside a
  regeneration may bring the old codes back (`tangled` in `BackupCodesAddUp`);
  a reset link works twice when used twice at once, or when its deletion fails
  (`kept` in `ResetLinkWorksOnce`); two administrators can switch each other off
  (`crossed` in `AnAdministratorRemains`).
- The configuration file applied a second time makes its mailboxes and mappings
  again under new IDs (`runs` in `RoutesAreClear`); `LookupMailboxByAddress`
  then picks one of them.

Met while reading, and outside the properties:

- the README's account of sender validation (`README.md:9`) is laxer than
  `ValidateSender`, which wants alignment when there is a DMARC record;
- block rules are made from the `From` header but compared with the envelope's
  sender (`smtp/server.go:229`), so `BlockHolds` speaks of messages where the two
  agree; a pattern is not anchored, so blocking ann@... blocks joann@... too;
  `ON CONFLICT DO NOTHING` without a unique constraint stores duplicates;
- an ill-formed condition aborts the evaluation of all rules of the mailbox;
  editing a rule sets its priority back to 0; no page uses the reorder route;
- the suffix of a key decides whether content is decompressed
  (`mail.go`, `DecompressReader`): with compression switched off, an attachment
  that is itself called `*.gz` or `*.zst` is kept under that suffix, and is
  decompressed when it is downloaded;
- `WithTx` does not return the error of a failed commit (`db.go:47`), so the
  handler reports a saved rule that was not saved;
- the first page's element that loads more drops the category
  (`dashboard.templ:633`), and so does the refresh after new mail; an element
  whose request failed is not tried again.

## Proofs

Every invariant, action property and refinement that a run checks is also proved,
for every value of the constants, but the liveness properties (last paragraph). The only
assumptions are the modules' named ones, which TLC evaluates on the runs:
limits and capacities are positive, sizes are natural numbers, names that stand
for "none" are not names of something else, there is a user (`AccountsAssumption`), a mailbox begins with finitely many emails
(`MailboxViewAssumption`), a pattern covers the address it was made from
(`FilterRulesAssumption`).

Components that share their rows share a proof module: the one that lists emails
also holds the proofs about `TrashPurge`, the one about users those about
`Directory`, the one about the queue those about `Delivery`, its send. The second
module is there as a prefixed instance over constants and variables of its own
(`Trash!Spec`, `Dir!Spec`, `Mta!Spec`); what the proof needs of its constants is a
hypothesis of the theorem: that its bounds are natural numbers (`Retention`,
`MaxDay`, `MaxFaults`; `MaxRuns`; `MaxKeys`, `MaxTrips`); that the two users and the
configured addresses of the directory are among its users and addresses; and
`MtaConstants`: recipients have a domain or are malformed, and no domain has the
relay's name. All of them are part of that module's own assumption.

Type correctness is a theorem for every module that models a part of the
program. It is where a counter is shown to stay within its bound and a reference to point to a row that
exists, so most of these invariants need one of their own.

`OutboundQueueProofs` proves type correctness, `ExclusiveAttempt`,
`AttemptLogUnique`, `HonestVerdict`, `StrandedOnlyByFault` and
`NoSendAfterSettled` for every set of jobs and workers and every value of the
limits. (No run checks the first and the last of these: they follow from the
refinement of `JobLifecycle`, which the run does check.) None is inductive. What makes them so (`IInv`) is the
bookkeeping that the code spreads over a row and a worker's snapshot of it: a
held job is `SENDING` unless it has been bounced, its snapshot's `attempt_count`
is the number of sends so far, a claimable row's counter is too, and the log
holds no number above it. Each action preserves each conjunct (`NextIInv`,
one lemma per action), each invariant follows from the strengthening, and the
action property from the strengthening and one step (`SettledStep`).

`ImplementsLifecycleHolds` is the refinement: under the mapping, every step of the
queue is a step of the abstract life of one job or leaves every life as it is. Each
action has a lemma that names its abstract counterpart; beside the
invariant it needs `OutOfReach`: a job that a fault took from its worker is
claimed and worked on by nobody, and a server has taken no message it was not sent.

`SendsAsAgreedHolds` and `DeliversAsAgreedHolds` are the two refinements of
`Sending`. For the queue the point is that nothing leads back from a success:
once a call has succeeded its job is in no batch, its row cannot be claimed and
the write under way says `DELIVERED` (`Concluded`). For the MTA it is what an attempt
in progress stands for (`Contract`): it has failed only if there was something to
fail, and when it is through without a failure some server has the message.

Its last part proves type correctness, `OkMeansTaken`, `CopiesAreBounded` and `SignaturesVerify` of
`Delivery`. The attempt in progress is the difficulty: as long as it may still
bring the message to somebody, that recipient has one copy less than the bound
(`Bounded`), and as long as it has not failed, it leaves nobody out who is
neither served nor still to come (`NobodyLeft`); `Dialogue` says that whoever a
server was asked about has been accepted or refused, and that each recipient
belongs to one of the places still to visit. For the keys: as long as
administrators take turns, a page shows the key that signs, the rotation under
way is of that key (`InTurns`), and a key that has been shown is in the DNS or
still on somebody's page (`InDns`). The types rest on what rows, pages, signatures and records hold: keys
that have been generated (`KeyRows`).

`IngestionPipelineProofs` proves type correctness, `ScreenedBeforeInbox`,
`HonestIngestion`, `NothingDangles`, `LogIsOneRun` and `RepliesJoin` for any
messages, mailboxes and faults. The strengthening says for each step what it
leaves behind once a goroutine has passed it (`Passed`, `Done`): the filter
action is quarantine until something vouches for the sender, an email exists
with its thread, its objects were saved before the rows that name them, and the
steps logged so far are those passed, in their order.

`ConnectionGuardProofs` proves type correctness, `RateHonoured`, `ThresholdActs`
and `BlocksAreEarned`. That an address gains nothing by being forgotten rests on
`TokenAge` (an address last seen k ticks ago has k tokens back, or all) and
`Credit` (what was let through since a tick, and what the limiter would still let
through, keep to the rate); the threshold on who has still to act on a counter;
that blocks are earned (`Earned`) on an account of the refusals: those counted and
those still to be counted are the address's own, and once somebody is about to
block it, the first `Threshold` - 1 of them have been spent on no block.

`SmtpSessionProofs` proves type correctness and all three properties of
`SmtpSession`. `Sound` says that the session's recipients are those the library
accepted, as long as a transaction is open, that their sender and account are the
session's unless it strayed, and that there are none between transactions;
`Remembered` what an entry of the greylist says of the tries so far, and that an
absent one means there was none or a long pause; `Credit` is as above. The first of them also gives the type of what the other
two use of a session.

`FilterRulesProofs` proves type correctness, and `BlockHolds` for any members, addresses and patterns.
It is not inductive, since a request that has read a rule and is about to delete
it could take the last one that covers a held address. `HeldSafely` says that
every held address is covered by a rule nobody is about to delete, which is so
because whoever reads a rule lets go of the address he reads it for and sweeps
every other one it covers, and because block rules are never reused (`BlocksOK`). `ContactsOK`, that a contact in use
has an address, is what `handleContactToggleBlock` rests on. `RulesActAsSaved`
rests on the row locks: what a transaction has locked nobody else has
(`Exclusive`), so a rule that is half written is its writer's alone (`Saving`),
and a list gets priorities in its own order (`Ordering`, `Ranked`).

`MailboxViewProofs` proves type correctness, and `NothingUnannounced` for any number of tabs and emails
and every capacity but zero: an event is dropped only by a full channel, and a
full channel holds one (`OfferedIsHeld`). It proves `PagingIsComplete` for any
emails, times, sizes of pages and changes of rows: a page is in order and leaves
out only older rows (`Pages`, by `Numbered`: in a finite set the number of
emails before each is different for each and takes every value below the size
of the set), and whatever has stayed in the view is in the list or older than
its last row (`Answered`), also while an answer is on its way.

Three more are about operators, for any arguments. `CountsOfTheList`: the queries
for the numbers of views and categories count what the list's own query finds, and
under "none" the emails set to that text besides.
`ReadBackAsSaved`: content comes back as it was saved, whatever the algorithm, but
for the one case named above. `ElsewhereOnlyUnmatched`: of any HTML, with
any number of elements and addresses in them, what is shown names another host by
an absolute address only in a style, where the address is not written as `cssURLRe`
matches it.

Its last part proves type correctness, `PurgedMeansGone` and `NoStrangeLoss` of `TrashPurge`, for
any backend and any faults. A purger looks once and acts later; the proof is that
what it has listed stays overdue (`Listed`), since no handler moves
`update_datetime` and the purge itself only once it has marked the email, and that
of an email it is about to mark nothing is left (`Deleted`).

`AccountsProofs` proves type correctness, `AnAdministratorRemains`,
`SecondFactorKept`, `ResetLinkWorksOnce` and `BackupCodesAddUp`. Each says what a
request's earlier read is still worth: the codes it has read are those of the row
unless the user's codes are tangled, a login that needed no second factor began
before the one there is now, a token not in use twice has set no password when
one is about to. Its last part proves type correctness, `NoOrphanUser` and `RoutesAreClear` of
`Directory`: a creation in progress has its user's row to itself (`OneMaker`), and
the file maps an address once (`MappedOnce`). The types of the directory are its
foreign keys (`References`).

`ComposeProofs` proves type correctness, `HonestReply`, `LimitWithinWindows`,
`SavedIsKept` and `DraftsAreTidy` for any windows, drafts, messages and limit. A
window that may still create a row is alone with its message, and there is no
row of it; every id that a window holds, in its form or in a request, is that of
the only row of its message; and what the windows that have counted will store is
counted with what is stored.

Not proved but model-checked: the liveness properties `TrashIsEmptied`,
`EveryJobSettles`, `EveryIngestionCloses` and `EveryAttemptEnds` (liveness under
fairness is out of the prover's reach), and what the ASSUMEs of the MC modules
compare, but `CountsAgree`, `ReadsWhatWasSaved` and the first half of
`ImagesThroughTheProxy`, for which there are theorems. The others are about
recursive definitions (SPF in the checks of domains, `BalancedCSS`, the selections
from a sequence in `ShowsWhatIsSearched`) and would need induction over data.

## Plan

Left to do: the rows of `ingestion_step` of the session stages, and manual IP
blocks; the decisions of `MessageChecks` against a reference of their own, for
any domains and answers.

## Not modelled

Building and parsing MIME texts, layout, the protocols of DNS and TLS, and
cryptography; the SDKs of the stores; parsing of the configuration and
migrations; profiles, signatures, preferences and changes of one's own password,
which are rows written by single statements of their owner; the pages of
administration that only list. They are pure, external or without interleavings,
and their tests reach them. Some 44% of the
repository's Go lines are `*_templ.go` files that the templ compiler generates
from `src/templates/*.templ`: they render HTML and keep no state. What of the
templates takes part in the protocol (the compose form, the element that loads
more) is modelled from the `.templ` sources.
