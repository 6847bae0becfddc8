--------------------------- MODULE MessageChecks ---------------------------
(***************************************************************************)
(* What the steps of the data stage make of a message and of the answers   *)
(* of the services they ask (internal/pipeline, mail/rewrite, rspamd,      *)
(* classifier), without the state they leave.                              *)
(*                                                                         *)
(* Domains are written in lower case, "" is no domain.  An address is what *)
(* "@" splits it into.                                                     *)
(***************************************************************************)
EXTENDS Integers, Sequences

-----------------------------------------------------------------------------
(* The sender: an envelope address, a From header, whether SPF passed, the DKIM *)
(* signatures found, and the DMARC policy of each domain.                       *)

ExtractDomain(address) == IF Len(address) = 2 THEN address[2] ELSE ""

\* extractHeaderFromDomain: the message, the header or its address may be unreadable.
HeaderFromDomain(from) == IF from.readable THEN ExtractDomain(from.address) ELSE ""

\* checkDKIM: one good signature is enough.  A message that cannot be read has none.
DkimStatus(signatures) ==
  IF signatures = {} THEN "none"
  ELSE IF \E s \in signatures : s.pass THEN "pass" ELSE "fail"

\* Mutant of Aligned: any signature that passes will do.
AlignedAnyDomain(c) == DkimStatus(c.dkim) = "pass"

\* SPF or DKIM has authenticated the domain of the From header.
Aligned(c) ==
  LET from == HeaderFromDomain(c.from)
      envelope == ExtractDomain(c.envelope)
  IN \/ c.spf /\ envelope # "" /\ envelope = from
     \/ \E s \in c.dkim : s.pass /\ s.domain = from

\* ValidateSender's decision.  Alignment counts only where there is a DMARC record.
SenderPasses(c) ==
  LET from == HeaderFromDomain(c.from)
      policy == c.dmarc[IF from = "" THEN ExtractDomain(c.envelope) ELSE from]
  IN IF policy = "absent" THEN c.spf \/ DkimStatus(c.dkim) = "pass"
     ELSE Aligned(c) \/ policy = "none"

-----------------------------------------------------------------------------
(* Tracking pixels: an image has a width and a height, the dimensions that its *)
(* style sets to 0 or 1 pixels, and the host of its source.                    *)

TrackerDomains ==
  {"trk.klaviyo.com", "click.mailchimp.com", "list-manage.com", "sendgrid.net", "mandrillapp.com",
   "track.hubspot.com", "opens.campaign-archive.com", "tracking.tldrnewsletter.com"}

\* classifyTrackingPixel
TrackingPixel(img) ==
  \/ img.width \in {"0", "1"} /\ img.height \in {"0", "1"}
  \/ {"width", "height"} \subseteq img.style
  \/ img.host \in TrackerDomains

\* StripTrackingPixelsFromHTML: the images that stay, however deep they are nested.
Stripped(images) == {img \in images : ~TrackingPixel(img)}

-----------------------------------------------------------------------------
(* rspamd *)

\* Client.Check: whatever the HTTP status, a body in JSON is a result; a field that
\* it lacks is zero, or empty.
Checked(answer) == answer.reached /\ answer.json

\* CheckSpam
SpamStatus(answer, threshold) ==
  IF ~Checked(answer) THEN "error"
  ELSE IF answer.score >= threshold \/ answer.action = "reject" THEN "fail" ELSE "pass"

-----------------------------------------------------------------------------
(* Classifiers.  A reply is "" if it names no category. *)

Category ==
  {"needs_response", "personal", "marketing", "newsletter", "transactional", "notification", "spam"}

\* The first text of a reply, without the blanks around it and in lower case, has to
\* be a category.
Named(texts) == IF texts # <<>> /\ texts[1] \in Category THEN texts[1] ELSE ""

OpenAIClassify(reply) ==
  IF reply.reached /\ reply.status = 200 /\ reply.json THEN Named(reply.choices) ELSE ""

ClaudeClassify(reply) ==
  IF reply.reached /\ reply.status = 200 /\ reply.json THEN Named(reply.content) ELSE ""

\* classifier.New; with any other type the program does not start.
Provider == [openai |-> "openai", deepseek |-> "openai", gemini |-> "openai", claude |-> "claude"]

Classify(type, reply) ==
  IF Provider[type] = "claude" THEN ClaudeClassify(reply) ELSE OpenAIClassify(reply)
=============================================================================
