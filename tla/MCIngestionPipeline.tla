------------------------ MODULE MCIngestionPipeline ------------------------
(* Small workloads of IngestionPipeline for TLC: one message that meets every *)
(* check, fault and user, or a conversation whose goroutines interleave.      *)
EXTENDS IngestionPipeline, TLC

CONSTANTS advert, letter, m1, m2, m3, b1, b2

\* m2 answers m1 in another mailbox, m3 answers both in m1's.
Talk == {m1, m2, m3}
Alone == {advert, letter}
MCMsg == Talk \cup Alone
MCWorkloads == {{advert}, {letter}, Talk}
MCMailboxOf == [m \in MCMsg |-> IF m = m2 THEN b2 ELSE b1]
MCRefersTo == [m \in MCMsg |-> CASE m = m2 -> {m1} [] m = m3 -> {m1, m2} [] OTHER -> {}]

\* A message on its own meets every fault; each has the traits that belong together.
Only(S) == [m \in MCMsg |-> IF m \in Alone THEN S ELSE {}]
AllTraits == [m \in MCMsg |-> CASE m = advert -> {"malformed"}
                               [] m = letter -> {"attachment", "bounce"}
                               [] OTHER -> {}]
\* A pixel by its size, one by its style, one by its host, and a picture.
Image(width, style, host) == [width |-> width, height |-> width, style |-> style, host |-> host]
MCImages == [m \in MCMsg |->
  CASE m = advert -> {Image("1", {}, "shop"), Image("", {"width", "height"}, "shop"),
                      Image("", {}, "sendgrid.net"), Image("600", {}, "shop")}
    [] m = letter -> {Image("600", {}, "shop"), Image("", {"height"}, "shop")}
    [] OTHER -> {}]
SomeActions == Only({"delete", "mark_read"})
\* rspamd is away, would reject what scores low, or lets the message pass.
SomeAnswers == Only({[reached |-> FALSE, json |-> FALSE, score |-> 0, action |-> ""],
                     [reached |-> TRUE, json |-> TRUE, score |-> 2, action |-> "reject"],
                     [reached |-> TRUE, json |-> TRUE, score |-> 2, action |-> "no action"]})
Reply(status, content) == [reached |-> TRUE, status |-> status, json |-> TRUE, content |-> content]
SomeReplies == Only({Reply(200, <<"personal", "spam">>), Reply(200, <<"a letter">>)})
UserStatuses == Only({"INBOX"})
AllFaults == Only({"db", "storage", "crash"})
\* Two that pass and two that do not: SPF speaks for the domain of the header, which
\* asks for rejection, or what passes speaks for another domain; without a policy,
\* something has passed, or nothing has.
MCDomain == {"", "shop", "mailer"}
Sender(from, envelope, spf, dkim, policy) ==
  [envelope |-> <<"me", envelope>>, from |-> [readable |-> from # "", address |-> <<"me", from>>],
   spf |-> spf, dkim |-> dkim, dmarc |-> [d \in MCDomain |-> IF d = "shop" THEN policy ELSE "absent"]]
Good(d) == [domain |-> d, pass |-> TRUE]
Bad(d) == [domain |-> d, pass |-> FALSE]
SomeSenders == [m \in MCMsg |->
  CASE m = advert -> {Sender("shop", "shop", TRUE, {}, "reject"),
                      Sender("shop", "mailer", TRUE, {Good("mailer"), Bad("shop")}, "reject")}
    [] m = letter -> {Sender("", "shop", FALSE, {Good("mailer")}, "absent"),
                      Sender("shop", "shop", FALSE, {Bad("shop")}, "absent")}
    [] OTHER -> {Sender("shop", "mailer", FALSE, {Bad("mailer"), Good("shop")}, "quarantine")}]
=============================================================================
