------------------------------ MODULE Delivery ------------------------------
(***************************************************************************)
(* A message on its way out: it is signed with the key that the database   *)
(* holds (internal/outbound/mta.BuildMessage, dkim), and delivered to the  *)
(* relay, or domain by domain to their mail exchangers                     *)
(* (mta.SendWithResponse), again and again until an attempt succeeds or    *)
(* the caller gives up.  Meanwhile administrators make and rotate the key  *)
(* (internal/web/admin_handlers, cmd/mailaroo/admin_dkim) and copy what    *)
(* their page says into the DNS; the bootstrap (cmd/mailaroo/bootstrap)     *)
(* makes a key and says nothing.                                           *)
(*                                                                         *)
(* The remote servers may refuse anything at any point, take the message   *)
(* and fail to say so, or fall silent.                                     *)
(***************************************************************************)
EXTENDS DomainChecks, FiniteSets

CONSTANTS
  Recipient, Domain, Host,
  DomainOf,    \* the domain of each recipient, or "malformed"
  Exchangers,  \* per domain: its mail exchangers, or else its own name
  Smarthost,   \* the relay
  Admin,
  Tool,        \* per administrator: "page" or "command"
  MaxKeys,     \* bound: keys generated
  MaxAttempts, \* bound: attempts to deliver (Queue.maxRetries)
  Mailings     \* the messages considered, each with the configuration it meets

\* "agree": the commands run with the encryption key of the server.
Mailing == [to : SUBSET Recipient, relay : BOOLEAN, tls : BOOLEAN, rotate : BOOLEAN, agree : BOOLEAN]

ASSUME DeliveryAssumption ==
  /\ DomainOf \in [Recipient -> Domain \cup {"malformed"}]
  /\ Exchangers \in [Domain -> Seq(Host) \ {<<>>}]
  /\ Tool \in [Admin -> {"page", "command"}]
  /\ Smarthost \in Host /\ "relay" \notin Domain
  /\ MaxKeys \in Nat /\ MaxAttempts \in Nat
  /\ Mailings \subseteq Mailing

VARIABLES
  mailing,  \* the message, and MTA.relay and MTA.requireTLS
  keys,     \* dkim_key rows of the sender's domain, in the order of their creation
  dns,      \* the TXT records of each selector
  page,     \* per administrator: the record that the last page said to publish
  rotating, \* per administrator: a rotation that has read the row to replace
  booting,  \* administrators whose bootstrap has found no key
  generated, \* keys generated so far
  sig,      \* the message's signature: selector and key
  trip,     \* the attempt in progress
  attempt,  \* attempts made
  verdict,  \* what SendWithResponse returned last
  copies,   \* history: per recipient, how often a server took the message for it
  unheard,  \* history: per recipient, those of which no answer came back
  refused,  \* history: recipients that some server refused
  stale,    \* history: the keys have changed since the message was built
  shown,    \* history: the keys whose making, or display, has ended with a page
  crossed   \* history: a key was changed while another administrator had yet to
            \* publish, or to write

keyState == <<keys, dns, page, rotating, booting, generated, stale, shown, crossed>>
trips == <<trip, attempt, verdict, copies, unheard, refused>>
vars == <<mailing, keyState, sig, trips>>

-----------------------------------------------------------------------------
Selector == {"mailaroo", "configured"}
EncKey == {"server's", "other", "none"}
Row == [selector : Selector, key : 1..MaxKeys, under : EncKey]
NoRow == [selector |-> "none"]
Rest == [at |-> "rest"]

Init ==
  /\ mailing \in Mailings
  /\ keys = <<>>
  /\ dns = [s \in Selector |-> <<>>]
  /\ page = [a \in Admin |-> NoRow]
  /\ rotating = [a \in Admin |-> 0] /\ booting = {}
  /\ generated = 0 /\ shown = {}
  /\ sig = NoRow
  /\ trip = [at |-> "build"]
  /\ attempt = 0 /\ verdict = "none"
  /\ copies = [r \in Recipient |-> 0]
  /\ unheard = [r \in Recipient |-> 0]
  /\ refused = {}
  /\ stale = FALSE /\ crossed = FALSE

-----------------------------------------------------------------------------
(* Signing keys *)

\* parseEncKey: what a tool encrypts keys with.
EncKeyOf(tool) == IF tool = "page" \/ mailing.agree THEN "server's" ELSE "other"

RowOf(selector, key, under) == [selector |-> selector, key |-> key, under |-> under]

\* EncryptKey: the row that holds a key which this tool has encrypted.
Encrypted(selector, key, tool) == RowOf(selector, key, EncKeyOf(tool))

\* DecryptKey: the cipher tells a wrong key.
Decrypts(row, tool) == row.under = EncKeyOf(tool)

\* GetActiveDKIMKey, without a selector: the newest row.  Nothing makes a row
\* inactive.
Active == Last(keys)

\* Administrators other than a are between a change, or a page, and the DNS.
Busy(a) == \E b \in Admin \ {a} : page[b] # NoRow \/ rotating[b] # 0 \/ b \in booting

\* a has no call in progress.
Idle(a) == rotating[a] = 0 /\ a \notin booting

Changed(a) ==
  /\ stale' = TRUE
  /\ crossed' = (crossed \/ Busy(a))

\* GenerateKeyDER
Generate == generated < MaxKeys /\ generated' = generated + 1

\* InsertDKIMKey: (domain, selector) is UNIQUE.
InsertRow(a, row) ==
  /\ \A i \in DOMAIN keys : keys[i].selector # row.selector
  /\ Generate
  /\ keys' = Append(keys, row)
  /\ Changed(a)

\* A new key, and the page that shows its record.
Insert(a, selector) ==
  LET row == Encrypted(selector, generated + 1, Tool[a]) IN
  /\ Idle(a)
  /\ InsertRow(a, row)
  /\ page' = [page EXCEPT ![a] = row]
  /\ shown' = shown \cup {row.key}
  /\ UNCHANGED <<mailing, dns, rotating, booting, sig, trips>>

\* handleAdminDomainCreate
CreateDomain(a) == Tool[a] = "page" /\ Insert(a, "mailaroo")

\* dkimAddCmd
AddKey(a) == Tool[a] = "command" /\ Insert(a, "mailaroo")

\* bootstrapFromConfig, for a domain of the file: no key is found, or the search
\* fails, which is taken for the same ...
BootstrapRead(a) ==
  /\ Tool[a] = "command" /\ Idle(a) /\ generated < MaxKeys
  /\ booting' = booting \cup {a}
  /\ UNCHANGED <<mailing, keys, dns, page, rotating, generated, sig, stale, shown, crossed, trips>>

\* ... and the new row, encrypted if there is a key to do it with.  No page shows it.
BootstrapInsert(a) ==
  /\ a \in booting
  /\ \E s \in Selector, under \in {EncKeyOf("command"), "none"} :
       InsertRow(a, RowOf(s, generated + 1, under))
  /\ booting' = booting \ {a}
  /\ UNCHANGED <<mailing, dns, page, rotating, shown, sig, trips>>

\* The insert fails, as it does when the selector has a row by now.
BootstrapFails(a) ==
  /\ a \in booting
  /\ booting' = booting \ {a}
  /\ UNCHANGED <<mailing, keys, dns, page, rotating, generated, sig, stale, shown, crossed, trips>>

\* handleAdminDomainRotate, dkimRotateCmd: which row is to change ...
RotateRead(a) ==
  /\ Idle(a) /\ keys # <<>> /\ generated < MaxKeys
  /\ rotating' = [rotating EXCEPT ![a] = Len(keys)]
  /\ UNCHANGED <<mailing, keys, dns, page, booting, generated, sig, stale, shown, crossed, trips>>

\* UpdateDKIMKeyData
Rotated(a) == Encrypted(keys[rotating[a]].selector, generated + 1, Tool[a])

\* Mutant of Published: the record is derived from the row as it was read.
PublishedBefore(a) == keys[rotating[a]]

\* What is shown after a rotation: the key it has generated.
Published(a) == Rotated(a)

\* ... and the change, whatever has happened to the row since.
RotateWrite(a) ==
  /\ rotating[a] # 0
  /\ Generate
  /\ keys' = [keys EXCEPT ![rotating[a]] = Rotated(a)]
  /\ page' = [page EXCEPT ![a] = Published(a)]
  /\ shown' = shown \cup {Rotated(a).key}
  /\ rotating' = [rotating EXCEPT ![a] = 0]
  /\ Changed(a)
  /\ UNCHANGED <<mailing, dns, booting, sig, trips>>

RotateFails(a) ==
  /\ rotating[a] # 0
  /\ rotating' = [rotating EXCEPT ![a] = 0]
  /\ UNCHANGED <<mailing, keys, dns, page, booting, generated, sig, stale, shown, crossed, trips>>

Show(a) ==
  /\ Idle(a) /\ keys # <<>> /\ Decrypts(Active, Tool[a])
  /\ page' = [page EXCEPT ![a] = Active]
  /\ shown' = shown \cup {Active.key}
  /\ UNCHANGED <<mailing, keys, dns, rotating, booting, generated, sig, stale, crossed, trips>>

\* handleAdminDomainDNS, handleAdminDomainVerify: DomainChecks has what the latter adds.
ShowDns(a) == Tool[a] = "page" /\ Show(a)

\* dkimShowDNSCmd
ShowDnsCmd(a) == Tool[a] = "command" /\ Show(a)

\* The administrator does what the page says (outside the program).
Publish(a) ==
  /\ page[a] # NoRow /\ Idle(a)
  /\ dns' = [dns EXCEPT ![page[a].selector] = <<DERToDNSValue(page[a].key)>>]
  /\ page' = [page EXCEPT ![a] = NoRow]
  /\ UNCHANGED <<mailing, keys, rotating, booting, generated, sig, stale, shown, crossed, trips>>

\* loadKey, of the server.
LoadKey == IF keys # <<>> /\ Decrypts(Active, "page") THEN Active ELSE NoRow

\* Sign may fail whatever the key.
Sign == {LoadKey, NoRow}

\* BuildMessage: unless Sign succeeds, the message goes out unsigned.
Build ==
  /\ trip.at = "build"
  /\ sig' \in Sign
  /\ stale' = FALSE
  /\ trip' = Rest
  /\ UNCHANGED <<mailing, keys, dns, page, rotating, booting, generated, shown, crossed,
                 attempt, verdict, copies, unheard, refused>>

-----------------------------------------------------------------------------
(* Delivering *)

\* With a relay, everything goes there; without one, malformed addresses are
\* left out and the others are grouped by domain.
Destinations ==
  IF mailing.relay THEN {"relay"} ELSE {DomainOf[r] : r \in mailing.to} \ {"malformed"}
RecipientsAt(d) == IF d = "relay" THEN mailing.to ELSE {r \in mailing.to : DomainOf[r] = d}
HostsOf(d) == IF d = "relay" THEN <<Smarthost>> ELSE Exchangers[d]

At(place) == trip.at = place
Goto(place) == trip' = [trip EXCEPT !.at = place]

\* Mutant of Outcome: the loop keeps the last domain's error only.
OutcomeOfLast(ok) == ~ok

\* One domain is done with: the errors of all are kept.
Outcome(ok) == trip.failed \/ ~ok

DomainDone(ok) ==
  trip' = [at |-> "next", left |-> trip.left \ {trip.domain}, failed |-> Outcome(ok)]

\* Mutant of HostAfter: the index is not advanced when a host fails.
HostAfterStuck(n) == n

HostAfter(n) == n + 1

\* The host will not do: the next one, or the domain has failed.
TryNextHost ==
  LET n == HostAfter(trip.host) IN
  IF n <= Len(HostsOf(trip.domain))
  THEN trip' = [trip EXCEPT !.at = "dial", !.host = n, !.accepted = {}]
  ELSE DomainDone(FALSE)

Quiet == UNCHANGED <<mailing, keyState, sig, attempt, verdict, copies, unheard, refused>>

\* SendWithResponse is called: the first time, or again after an error.
Start ==
  /\ At("rest") /\ verdict \in {"none", "error"} /\ attempt < MaxAttempts
  /\ attempt' = attempt + 1
  /\ trip' = [at |-> "next", left |-> Destinations, failed |-> FALSE]
  /\ UNCHANGED <<mailing, keyState, sig, verdict, copies, unheard, refused>>

\* The domains come in the order in which Go iterates over the map: any.
PickDomain(d) ==
  /\ At("next") /\ d \in trip.left
  /\ trip' = [at |-> "dial", left |-> trip.left, failed |-> trip.failed,
              domain |-> d, host |-> 1, asked |-> {}, accepted |-> {}]
  /\ Quiet

\* Mutant of LookupFails: the domain is left out without an error.
LookupFailsQuietly(d) ==
  /\ At("next") /\ d \in trip.left /\ d # "relay"
  /\ trip' = [trip EXCEPT !.left = @ \ {d}]
  /\ Quiet

\* LookupMX fails: the same as a domain whose hosts have all failed.
LookupFails(d) ==
  /\ At("next") /\ d \in trip.left /\ d # "relay"
  /\ trip' = [trip EXCEPT !.left = @ \ {d}, !.failed = TRUE]
  /\ Quiet

\* The connection, the greeting and EHLO.
Dial ==
  /\ At("dial")
  /\ \/ trip' = [trip EXCEPT !.at = "tls", !.asked = {}]
     \/ TryNextHost
  /\ Quiet

\* STARTTLS succeeds; or it is not offered or fails, which is tolerated unless
\* the configuration requires it.
Secure ==
  /\ At("tls")
  /\ \/ Goto("mail")
     \/ mailing.tls /\ TryNextHost
  /\ Quiet

\* MAIL is refused by a server, or the connection did not survive STARTTLS.
Mail ==
  /\ At("mail")
  /\ Goto("rcpt") \/ TryNextHost
  /\ Quiet

\* RCPT: a refusal is logged.
Rcpt(r) ==
  /\ At("rcpt") /\ r \in RecipientsAt(trip.domain) \ trip.asked
  /\ \/ trip' = [trip EXCEPT !.asked = @ \cup {r}, !.accepted = @ \cup {r}] /\ UNCHANGED refused
     \/ trip' = [trip EXCEPT !.asked = @ \cup {r}] /\ refused' = refused \cup {r}
  /\ UNCHANGED <<mailing, keyState, sig, attempt, verdict, copies, unheard>>

AllAsked == At("rcpt") /\ RecipientsAt(trip.domain) \subseteq trip.asked
OneMore(f) == [r \in Recipient |-> IF r \in trip.accepted THEN f[r] + 1 ELSE f[r]]

\* Mutant of AfterAnswer: the remaining hosts are tried as well.
AfterAnswerGoOn == TryNextHost

\* The domain is served: the loop over its hosts returns.
AfterAnswer == DomainDone(TRUE)

\* sendDataCapture: the server takes the message for the recipients it accepted.
DataTaken ==
  /\ AllAsked /\ trip.accepted # {}
  /\ copies' = OneMore(copies)
  /\ AfterAnswer
  /\ UNCHANGED <<mailing, keyState, sig, attempt, verdict, unheard, refused>>

\* It takes the message, and the answer is lost.
DataUnheard ==
  /\ AllAsked /\ trip.accepted # {}
  /\ copies' = OneMore(copies) /\ unheard' = OneMore(unheard)
  /\ TryNextHost
  /\ UNCHANGED <<mailing, keyState, sig, attempt, verdict, refused>>

\* It does not take it: always so when it accepted no recipient.
DataFails == AllAsked /\ TryNextHost /\ Quiet

\* Only connecting has a deadline: a server that stops answering stops the attempt.
Silence ==
  /\ trip.at \in {"dial", "tls", "mail", "rcpt"}
  /\ trip' = [at |-> "stalled"]
  /\ Quiet

\* An attempt without any destination succeeds.
Return ==
  /\ At("next") /\ trip.left = {}
  /\ verdict' = IF trip.failed THEN "error" ELSE "ok"
  /\ trip' = Rest
  /\ UNCHANGED <<mailing, keyState, sig, attempt, copies, unheard, refused>>

-----------------------------------------------------------------------------
Administer ==
  mailing.rotate /\ \E a \in Admin :
    \/ CreateDomain(a) \/ AddKey(a)
    \/ BootstrapRead(a) \/ BootstrapInsert(a) \/ BootstrapFails(a)
    \/ RotateRead(a) \/ RotateWrite(a) \/ RotateFails(a)
    \/ ShowDns(a) \/ ShowDnsCmd(a) \/ Publish(a)

Deliver ==
  \/ \E d \in Destinations : PickDomain(d) \/ LookupFails(d)
  \/ Dial \/ Secure \/ Mail \/ \E r \in Recipient : Rcpt(r)
  \/ DataTaken \/ DataUnheard \/ DataFails \/ Return

Next == Administer \/ Build \/ Start \/ Deliver \/ Silence

\* An attempt that has begun goes on as long as the servers answer, whatever they
\* answer: nothing in the loops waits for anything else.
Spec == Init /\ [][Next]_vars /\ WF_vars(Deliver)

-----------------------------------------------------------------------------
(* Properties *)

TypeOK ==
  /\ mailing \in Mailings
  /\ \A i \in DOMAIN keys : keys[i] \in Row
  /\ dns \in [Selector -> {<<>>} \cup {<<DERToDNSValue(k)>> : k \in 1..MaxKeys}]
  /\ page \in [Admin -> Row \cup {NoRow}]
  /\ rotating \in [Admin -> 0..Len(keys)] /\ booting \subseteq Admin
  /\ generated \in 0..MaxKeys /\ shown \subseteq 1..generated
  /\ sig \in Row \cup {NoRow}
  /\ trip.at \in {"build", "rest", "next", "dial", "tls", "mail", "rcpt", "stalled"}
  /\ attempt \in 0..MaxAttempts /\ verdict \in {"none", "ok", "error"}
  /\ copies \in [Recipient -> Nat] /\ unheard \in [Recipient -> Nat]
  /\ refused \subseteq Recipient /\ stale \in BOOLEAN /\ crossed \in BOOLEAN

\* Success means that the message was taken for every recipient, over however
\* many domains, hosts and attempts, but for those whose address is malformed
\* and those that a server refused: the sender is told of neither.
OkMeansTaken ==
  verdict = "ok" => \A r \in mailing.to :
    copies[r] > 0 \/ r \in refused \/ DomainOf[r] = "malformed"

\* Nobody gets more copies than there were attempts, plus one for each answer
\* that was lost on the way: falling back to another host, or to another domain
\* after one has failed, repeats nothing by itself.
CopiesAreBounded ==
  \A r \in Recipient : copies[r] <= attempt + unheard[r]

\* If the administrators take turns and publish what their pages say, then a
\* message whose key was made or displayed by a page, and not changed since the
\* message was built, verifies with the record in the DNS: the page, the signature
\* and the row agree.  What the bootstrap has made signs before any page shows it.
SignaturesVerify ==
  (sig # NoRow /\ sig.key \in shown /\ ~stale /\ ~crossed
     /\ \A a \in Admin : page[a] = NoRow /\ rotating[a] = 0)
    => DKIMPasses(dns[sig.selector], DERToDNSValue(sig.key))

\* Calls that have returned.
Returned == IF At("rest") \/ At("build") THEN attempt ELSE attempt - 1

Agreement == INSTANCE Sending WITH
  MaxTries <- MaxAttempts,
  routable <- Destinations # {},
  tries <- Returned,
  answer <- verdict,
  reached <- \E r \in Recipient : copies[r] > 0

\* Seen from the queue, hosts, domains, recipients and answers come to what Sending
\* promises: a call succeeds only if the message has come to some server, if it
\* had anywhere to go, and no server takes a message that has nowhere to go.
DeliversAsAgreed == Agreement!Spec

\* An attempt comes to an end, unless a server falls silent.
EveryAttemptEnds == [](~At("rest") /\ ~At("build") => <>(At("rest") \/ At("stalled")))
=============================================================================
