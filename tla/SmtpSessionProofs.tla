------------------------- MODULE SmtpSessionProofs -------------------------
(***************************************************************************)
(* Proofs about SmtpSession, for every number of sessions, transactions,   *)
(* recipients and ticks.  That a message goes to whom it was accepted for  *)
(* rests on the session's fields following the library's list (Sound);     *)
(* the greylist's fairness on what an entry, and the absence of one, says  *)
(* of the tries so far (Remembered); the submission rate on the limiter's  *)
(* tokens (Credit).                                                        *)
(***************************************************************************)
EXTENDS SmtpSession, SequenceTheorems, TLAPS

-----------------------------------------------------------------------------
(* Sequences of bounded length *)

LEMMA EmptyIsBounded == ASSUME NEW S PROVE <<>> \in Sequences(S)
<1>1. <<>> \in [1..0 -> S] /\ 0 \in 0..MaxRcpt
  BY SessionAssumption
<1> QED
  BY <1>1 DEF Sequences

LEMMA BoundedIsSeq ==
  ASSUME NEW S, NEW q \in Sequences(S)
  PROVE  q \in Seq(S) /\ Len(q) \in 0..MaxRcpt
  BY SessionAssumption DEF Sequences

LEMMA AppendBounded ==
  ASSUME NEW S, NEW q \in Sequences(S), Len(q) < MaxRcpt, NEW x \in S
  PROVE  Append(q, x) \in Sequences(S)
<1>1. q \in Seq(S) /\ Len(q) \in Nat /\ Len(q) + 1 \in 0..MaxRcpt
  BY BoundedIsSeq, SessionAssumption
<1>2. Append(q, x) \in Seq(S) /\ Len(Append(q, x)) = Len(q) + 1
  BY <1>1
<1>3. Append(q, x) \in [1..(Len(q) + 1) -> S]
  BY <1>2, LenProperties
<1> QED
  BY <1>1, <1>3 DEF Sequences

(* The list that the library keeps and the one built from the session's     *)
(* fields grow by the same item.                                            *)
Paired(u, f, q) == [i \in DOMAIN q |-> <<u, f, q[i]>>]

LEMMA PairedAppend ==
  ASSUME NEW S, NEW u, NEW f, NEW q \in Seq(S), NEW x \in S
  PROVE  Append(Paired(u, f, q), <<u, f, x>>) = Paired(u, f, Append(q, x))
<1>1. Paired(u, f, q) \in Seq({u} \X {f} \X S) /\ Len(Paired(u, f, q)) = Len(q)
  BY DEF Paired
<1>2. DOMAIN Append(q, x) = 1..(Len(q) + 1)
  OBVIOUS
<1>3. DOMAIN Append(Paired(u, f, q), <<u, f, x>>) = 1..(Len(q) + 1)
  BY <1>1
<1>4. ASSUME NEW i \in 1..(Len(q) + 1)
      PROVE  Append(Paired(u, f, q), <<u, f, x>>)[i] = <<u, f, Append(q, x)[i]>>
  <2>1. CASE i = Len(q) + 1
    BY <1>1, <2>1
  <2>2. CASE i \in 1..Len(q)
    BY <1>1, <2>2 DEF Paired
  <2>3. i = Len(q) + 1 \/ i \in 1..Len(q)
    <3>1. Len(q) \in Nat
      OBVIOUS
    <3> QED
      BY <1>4, <3>1
  <2> QED
    BY <2>1, <2>2, <2>3
<1>5. Append(Paired(u, f, q), <<u, f, x>>) \in Seq({u} \X {f} \X S)
  BY <1>1, AppendProperties
<1>6. /\ Paired(u, f, Append(q, x)) \in Seq({u} \X {f} \X S)
      /\ Len(Paired(u, f, Append(q, x))) = Len(q) + 1
  BY <1>2 DEF Paired
<1>7. \A i \in 1..(Len(q) + 1) : Paired(u, f, Append(q, x))[i] = <<u, f, Append(q, x)[i]>>
  BY <1>2 DEF Paired
<1>8. Len(Append(Paired(u, f, q), <<u, f, x>>)) = Len(q) + 1
  BY <1>1, AppendProperties
<1> HIDE DEF Paired
<1> QED
  BY <1>4, <1>5, <1>6, <1>7, <1>8, SeqEqual

LEMMA SameDomain ==
  ASSUME NEW m \in Nat, NEW n \in Nat, 1..m = 1..n
  PROVE  m = n
<1>1. CASE m < n
  <2>1. n \in 1..n /\ n \notin 1..m
    BY <1>1
  <2> QED
    BY <2>1
<1>2. CASE n < m
  <2>1. m \in 1..m /\ m \notin 1..n
    BY <1>2
  <2> QED
    BY <2>1
<1> QED
  BY <1>1, <1>2

(* So do the recipients of the library's list, whatever its senders are.    *)
LEMMA RecipientsAppend ==
  ASSUME NEW q \in Seq(Item), NEW x \in Item, NEW l \in Seq(Recipient), Recipients(q) = l
  PROVE  Recipients(Append(q, x)) = Append(l, x[3])
<1> DEFINE r == x[3]
<1>0. r \in Recipient
  BY DEF Item
<1> HIDE DEF r
<1>1. DOMAIN q = 1..Len(q) /\ DOMAIN l = 1..Len(l) /\ DOMAIN Recipients(q) = DOMAIN q
  BY DEF Recipients
<1>2. Len(q) \in Nat /\ Len(l) \in Nat /\ Len(l) = Len(q)
  <2>1. Len(q) \in Nat /\ Len(l) \in Nat
    OBVIOUS
  <2>2. 1..Len(q) = 1..Len(l)
    BY <1>1
  <2> QED
    BY <2>1, <2>2, SameDomain
<1>3. /\ DOMAIN Append(q, x) = 1..(Len(q) + 1)
      /\ \A i \in 1..Len(q) : Append(q, x)[i] = q[i]
      /\ Append(q, x)[Len(q) + 1] = x
  BY AppendProperties
<1>4. /\ DOMAIN Append(l, r) = 1..(Len(l) + 1) /\ Append(l, r) \in Seq(Recipient)
      /\ \A i \in 1..Len(l) : Append(l, r)[i] = l[i]
      /\ Append(l, r)[Len(l) + 1] = r /\ Len(Append(l, r)) = Len(l) + 1
  BY <1>0, AppendProperties
<1>5. ASSUME NEW i \in 1..(Len(q) + 1) PROVE Append(q, x)[i][3] = Append(l, r)[i]
  <2>1. CASE i = Len(q) + 1
    BY <1>2, <1>3, <1>4, <2>1 DEF r
  <2>2. CASE i \in 1..Len(q)
    BY <1>1, <1>2, <1>3, <1>4, <2>2 DEF Recipients
  <2> QED
    BY <1>2, <2>1, <2>2
<1>6. Recipients(Append(q, x)) = [i \in 1..(Len(q) + 1) |-> Append(q, x)[i][3]]
  BY <1>3 DEF Recipients
<1>7. Append(l, r) = [i \in 1..(Len(q) + 1) |-> Append(l, r)[i]]
  <2>1. Append(l, r) \in [1..(Len(l) + 1) -> Recipient]
    BY <1>4, LenProperties
  <2> QED
    BY <1>2, <2>1
<1>8. Recipients(Append(q, x)) = Append(l, r)
  BY <1>5, <1>6, <1>7
<1> QED
  BY <1>8 DEF r

(* The recipients of what is built from the session's fields are its own.   *)
LEMMA RecipientsPaired ==
  ASSUME NEW S, NEW u, NEW f, NEW q \in Seq(S)
  PROVE  Recipients(Paired(u, f, q)) = q
  BY DEF Recipients, Paired

LEMMA PairedIsItems ==
  ASSUME NEW u \in User \cup {Nobody}, NEW f \in Address, NEW q \in Sequences(Recipient)
  PROVE  Paired(u, f, q) \in Sequences(Item)
<1>1. PICK n \in 0..MaxRcpt : q \in [1..n -> Recipient]
  BY DEF Sequences
<1>2. Paired(u, f, q) \in [1..n -> Item]
  BY <1>1 DEF Paired, Item
<1> QED
  BY <1>2 DEF Sequences

-----------------------------------------------------------------------------
(* Recipients *)

(* While a transaction is open, the session's recipients are those the      *)
(* library has accepted, and unless it strayed its sender and user are what *)
(* each was accepted with; between transactions there are none.             *)
Straight(x) ==
  /\ x.accepted = Paired(x.asked, x.from, x.to)
  /\ x.pc # "idle" => x.asked = x.user

Answered(x) ==
  IF x.reply = 250 \/ x.unsure
  THEN /\ Recipients(x.handed) = Recipients(x.accepted)
       /\ x.handed = x.accepted \/ x.strayed
  ELSE x.handed = <<>>

Sound(x) ==
  /\ x \in SessionRecord
  /\ Recipients(x.accepted) = x.to
  /\ x.strayed \/ Straight(x)
  /\ x.pc \in {"greylist", "rules"} => x.rcpt \in Recipient /\ Len(x.accepted) < MaxRcpt
  /\ x.pc # "idle" => x.from \in Address
  /\ x.pc = "idle" => x.to = <<>> /\ x.accepted = <<>>
  /\ x.pc # "done" => x.handed = <<>> /\ ~x.unsure
  /\ x.pc = "done" => Answered(x)

SoundInv ==
  /\ sess \in [Session -> SessionRecord]
  /\ \A s \in Session : Sound(sess[s])

(* A session's record, field by field. *)
Rec(pc, ip, user, from, to, ingestion, rcpt, accepted, reply, handed, asked, strayed, unsure) ==
  [pc |-> pc, ip |-> ip, user |-> user, from |-> from, to |-> to, ingestion |-> ingestion,
   rcpt |-> rcpt, accepted |-> accepted, reply |-> reply, handed |-> handed, asked |-> asked,
   strayed |-> strayed, unsure |-> unsure]

Same(x) == x = Rec(x.pc, x.ip, x.user, x.from, x.to, x.ingestion, x.rcpt, x.accepted,
                   x.reply, x.handed, x.asked, x.strayed, x.unsure)

LEMMA RecordIsSame == ASSUME NEW x \in SessionRecord PROVE Same(x)
  BY DEF Same, Rec, SessionRecord

LEMMA PairedEmpty == ASSUME NEW u, NEW f PROVE Paired(u, f, <<>>) = <<>>
  BY DEF Paired

LEMMA RecipientsEmpty == Recipients(<<>>) = <<>>
  BY DEF Recipients

LEMMA FreshSound == ASSUME NEW a \in Ip PROVE Sound(Fresh(a))
<1>1. Paired(Nobody, NoOne, <<>>) = <<>> /\ Recipients(<<>>) = <<>>
  BY PairedEmpty, RecipientsEmpty
<1>2. <<>> \in Sequences(Recipient) /\ <<>> \in Sequences(Item)
  BY EmptyIsBounded
<1> QED
  BY <1>1, <1>2, SessionAssumption DEF Sound, Straight, Fresh, SessionRecord, Pc

(* What a session's lists are, for the steps below. *)
LEMMA ListsTyped ==
  ASSUME NEW x, Sound(x)
  PROVE  /\ x.to \in Sequences(Recipient) /\ x.to \in Seq(Recipient)
         /\ x.accepted \in Sequences(Item) /\ x.accepted \in Seq(Item)
         /\ Len(x.accepted) = Len(x.to)
<1>1. x.to \in Sequences(Recipient) /\ x.accepted \in Sequences(Item)
  BY DEF Sound, SessionRecord
<1>2. x.to \in Seq(Recipient) /\ x.accepted \in Seq(Item)
  BY <1>1, BoundedIsSeq
<1>3. Recipients(x.accepted) = x.to
  BY DEF Sound
<1>4. DOMAIN x.to = DOMAIN x.accepted
  BY <1>3 DEF Recipients
<1>5. /\ DOMAIN x.to = 1..Len(x.to) /\ DOMAIN x.accepted = 1..Len(x.accepted)
      /\ Len(x.to) \in Nat /\ Len(x.accepted) \in Nat
  BY <1>2
<1>6. Len(x.accepted) = Len(x.to)
  BY <1>4, <1>5, SameDomain
<1> QED
  BY <1>1, <1>2, <1>6

(* Accepting a recipient for the open transaction. *)
LEMMA AddedSound ==
  ASSUME NEW x, Sound(x), x.pc # "idle", x.pc # "done", Len(x.accepted) < MaxRcpt,
         NEW r \in Recipient, NEW status \in {"accepted", "rejected"}
  PROVE  Sound(Added(x, r, status))
<1> DEFINE q == Append(x.to, r)
           l == Append(x.accepted, <<x.asked, x.from, r>>)
           y == Added(x, r, status)
<1>1. /\ x.to \in Seq(Recipient) /\ x.from \in Address /\ x.asked \in User \cup {Nobody}
      /\ x.to \in Sequences(Recipient) /\ x.accepted \in Sequences(Item)
      /\ x.accepted \in Seq(Item) /\ Len(x.accepted) = Len(x.to)
      /\ <<x.asked, x.from, r>> \in Item
  BY ListsTyped DEF Sound, SessionRecord, Item
<1>3. q \in Sequences(Recipient) /\ l \in Sequences(Item)
  BY <1>1, AppendBounded
<1>4. Recipients(l) = q
  <2> DEFINE item == <<x.asked, x.from, r>>
  <2>1. Recipients(x.accepted) = x.to
    BY DEF Sound
  <2>2. Recipients(Append(x.accepted, item)) = Append(x.to, r)
    <3>1. item \in Item /\ item[3] = r
      BY <1>1
    <3> HIDE DEF item
    <3> QED
      BY <1>1, <2>1, <3>1, RecipientsAppend
  <2> QED
    BY <2>2
<1>5. Straight(x) => l = Paired(x.asked, x.from, q) /\ x.asked = x.user
  BY <1>1, PairedAppend DEF Straight
<1>6. y = [x EXCEPT !.pc = "mail", !.to = q, !.accepted = l, !.ingestion = status]
  BY DEF Added
<1> HIDE DEF q, l, y
<1>7. y = Rec("mail", x.ip, x.user, x.from, q, status, x.rcpt, l, x.reply, x.handed, x.asked,
              x.strayed, x.unsure)
  <2>1. Same(x)
    BY RecordIsSame DEF Sound
  <2> QED
    BY <1>6, <2>1 DEF Same, Rec
<1>8. y \in SessionRecord
  BY <1>3, <1>7 DEF Sound, SessionRecord, Pc, Rec
<1>9. Sound(y)
  BY <1>1, <1>4, <1>5, <1>7, <1>8 DEF Sound, Straight, Rec
<1> QED
  BY <1>9 DEF y

(* MAIL opens a transaction, or names another sender in the open one. *)
LEMMA MailSound ==
  ASSUME NEW x, Sound(x), x.pc \in {"idle", "mail"},
         NEW f \in Address, NEW status \in {"accepted", "rejected"},
         NEW b \in BOOLEAN, x.accepted # <<>> => b
  PROVE  Sound([x EXCEPT !.pc = "mail", !.from = f, !.ingestion = status,
                         !.asked = x.user, !.strayed = b])
<1> DEFINE y == [x EXCEPT !.pc = "mail", !.from = f, !.ingestion = status,
                          !.asked = x.user, !.strayed = b]
<1>1. x \in SessionRecord /\ Same(x)
  BY RecordIsSame DEF Sound
<1>e. y = [x EXCEPT !.pc = "mail", !.from = f, !.ingestion = status,
                    !.asked = x.user, !.strayed = b]
  OBVIOUS
<1> HIDE DEF y
<1>2. y = Rec("mail", x.ip, x.user, f, x.to, status, x.rcpt, x.accepted, x.reply,
              x.handed, x.user, b, x.unsure)
  BY <1>e, <1>1 DEF Same, Rec
<1>3. y \in SessionRecord
  BY <1>1, <1>2 DEF SessionRecord, Pc, Rec
<1>4. /\ y.pc = "mail" /\ y.from = f /\ y.to = x.to /\ y.accepted = x.accepted
      /\ y.handed = x.handed /\ y.unsure = x.unsure
      /\ y.user = x.user /\ y.asked = x.user
  BY <1>2 DEF Rec
<1>5. y.strayed \/ Straight(y)
  <2>1. CASE b
    BY <1>2, <2>1 DEF Rec
  <2>2. CASE x.accepted = <<>>
    <3>1. x.to = <<>>
      BY <2>2, RecipientsEmpty DEF Sound
    <3> QED
      BY <1>4, <2>2, <3>1, PairedEmpty DEF Straight
  <2> QED
    BY <2>1, <2>2
<1>6. Sound(y)
  BY <1>3, <1>4, <1>5 DEF Sound
<1> QED
  BY <1>6 DEF y

(* Steps inside a transaction that touch neither recipients nor sender. *)
LEMMA MovedSound ==
  ASSUME NEW x, Sound(x), NEW y \in SessionRecord, x.pc \notin {"idle", "done"},
         y.pc \notin {"idle", "done"}, y.from = x.from, y.to = x.to, y.accepted = x.accepted,
         y.handed = x.handed, y.unsure = x.unsure, y.user = x.user, y.asked = x.asked,
         y.strayed = x.strayed,
         y.pc \in {"greylist", "rules"} => y.rcpt \in Recipient /\ Len(x.accepted) < MaxRcpt
  PROVE  Sound(y)
  BY DEF Sound, Straight

LEMMA HandingSound ==
  ASSUME NEW x, Sound(x), x.pc \notin {"idle", "done"},
         NEW code \in {250, 550}, NEW unsure \in BOOLEAN, code = 250 \/ unsure
  PROVE  Sound(Handing(x, code, unsure))
<1> DEFINE y == Handing(x, code, unsure)
           e == Envelope(x)
<1>1. x \in SessionRecord /\ x.from \in Address /\ x.user \in User \cup {Nobody}
  BY DEF Sound, SessionRecord
<1>p. e = Paired(x.user, x.from, x.to)
  BY DEF Envelope, Paired
<1>c. e \in Sequences(Item) /\ Recipients(e) = x.to
  BY <1>1, <1>p, ListsTyped, PairedIsItems, RecipientsPaired
<1>2. y = [x EXCEPT !.pc = "done", !.reply = code, !.handed = e, !.unsure = unsure]
  BY DEF Handing
<1>d. Straight(x) => e = x.accepted
  BY <1>p DEF Straight
<1> HIDE DEF y, e
<1>a. y = Rec("done", x.ip, x.user, x.from, x.to, x.ingestion, x.rcpt, x.accepted, code,
              e, x.asked, x.strayed, unsure)
  <2>1. Same(x)
    BY <1>1, RecordIsSame
  <2> QED
    BY <2>1, <1>2 DEF Same, Rec
<1>3. y \in SessionRecord
  BY <1>1, <1>a, <1>c DEF SessionRecord, Pc, Rec
<1>4. /\ y.pc = "done" /\ y.from = x.from /\ y.to = x.to /\ y.accepted = x.accepted
      /\ y.handed = e /\ y.unsure = unsure /\ y.reply = code
      /\ y.user = x.user /\ y.asked = x.asked /\ y.strayed = x.strayed
  BY <1>a DEF Rec
<1>5. Answered(y)
  BY <1>4, <1>c, <1>d DEF Answered, Sound
<1>6. y.strayed \/ Straight(y)
  BY <1>4 DEF Sound, Straight
<1>7. Sound(y)
  BY <1>3, <1>4, <1>5, <1>6 DEF Sound
<1> QED
  BY <1>7 DEF y

LEMMA Handed ==
  ASSUME NEW x, Sound(x), x.pc \notin {"idle", "done"}
  PROVE  Sound(Handing(x, 250, FALSE)) /\ Sound(Handing(x, 550, TRUE))
<1> DEFINE Taken(unsure) == Sound(Handing(x, 250, unsure))
           Refused(unsure) == unsure => Sound(Handing(x, 550, unsure))
<1>1. \A unsure \in BOOLEAN : Taken(unsure) /\ Refused(unsure)
  BY HandingSound
<1> HIDE DEF Taken, Refused
<1>2. Taken(FALSE) /\ Refused(TRUE)
  BY <1>1
<1> QED
  BY <1>2 DEF Taken, Refused

LEMMA RefusingSound ==
  ASSUME NEW x, Sound(x), x.pc \notin {"idle", "done"}
  PROVE  Sound(Refusing(x))
<1> DEFINE y == Refusing(x)
           code == 550
<1>1. x \in SessionRecord
  BY DEF Sound
<1>e. y = [x EXCEPT !.pc = "done", !.reply = code]
  BY DEF Refusing
<1> HIDE DEF y, code
<1>a. y = Rec("done", x.ip, x.user, x.from, x.to, x.ingestion, x.rcpt, x.accepted, code,
              x.handed, x.asked, x.strayed, x.unsure)
  <2>1. Same(x)
    BY <1>1, RecordIsSame
  <2> QED
    BY <1>e, <2>1 DEF Same, Rec
<1>2. y \in SessionRecord
  BY <1>1, <1>a DEF SessionRecord, Pc, Rec, code
<1>3. /\ y.pc = "done" /\ y.from = x.from /\ y.to = x.to /\ y.accepted = x.accepted
      /\ y.handed = x.handed /\ y.unsure = x.unsure /\ y.reply = 550
      /\ y.user = x.user /\ y.asked = x.asked /\ y.strayed = x.strayed
  BY <1>a DEF Rec, code
<1>5. Answered(y)
  BY <1>3 DEF Answered, Sound
<1>6. y.strayed \/ Straight(y)
  BY <1>3 DEF Sound, Straight
<1>4. Sound(y)
  BY <1>2, <1>3, <1>5, <1>6 DEF Sound
<1> QED
  BY <1>4 DEF y

LEMMA ClearedSound == ASSUME NEW x, Sound(x) PROVE Sound(Cleared(x))
<1> DEFINE z == Fresh(x.ip)
           y == Cleared(x)
<1>1. x \in SessionRecord /\ x.ip \in Ip
  BY DEF Sound, SessionRecord, Pc
<1>2. Sound(z) /\ z \in SessionRecord
  BY <1>1, FreshSound DEF Sound
<1>3. y = [z EXCEPT !.user = x.user, !.ingestion = x.ingestion]
  BY DEF Cleared
<1>4. z.pc = "idle"
  BY DEF Fresh
<1> HIDE DEF y, z
<1>a. y = Rec(z.pc, z.ip, x.user, z.from, z.to, x.ingestion, z.rcpt, z.accepted, z.reply,
              z.handed, z.asked, z.strayed, z.unsure)
  <2>1. Same(z)
    BY <1>2, RecordIsSame
  <2> QED
    BY <2>1, <1>3 DEF Same, Rec
<1>5. y \in SessionRecord
  BY <1>1, <1>2, <1>a DEF SessionRecord, Rec
<1>6. /\ y.pc = "idle" /\ y.from = z.from /\ y.to = z.to /\ y.accepted = z.accepted
      /\ y.handed = z.handed /\ y.unsure = z.unsure /\ y.asked = z.asked
      /\ y.strayed = z.strayed
  BY <1>4, <1>a DEF Rec
<1>7. Sound(y)
  BY <1>2, <1>4, <1>5, <1>6 DEF Sound, Straight
<1> QED
  BY <1>7 DEF y

(* The remaining changes of one session's record. *)
LEMMA LoginSound ==
  ASSUME NEW x, Sound(x), NEW u \in User, NEW b \in BOOLEAN,
         x.pc = "idle" \/ (x.pc = "mail" /\ b)
  PROVE  Sound([x EXCEPT !.user = u, !.strayed = b])
<1> DEFINE y == [x EXCEPT !.user = u, !.strayed = b]
<1>1. y = [x EXCEPT !.user = u, !.strayed = b]
  OBVIOUS
<1> HIDE DEF y
<1>2. x \in SessionRecord /\ Same(x)
  BY RecordIsSame DEF Sound
<1>3. y = Rec(x.pc, x.ip, u, x.from, x.to, x.ingestion, x.rcpt, x.accepted, x.reply,
              x.handed, x.asked, b, x.unsure)
  BY <1>1, <1>2 DEF Same, Rec
<1>4. y \in SessionRecord
  BY <1>2, <1>3 DEF SessionRecord, Rec
<1>5. y.strayed \/ Straight(y)
  <2>1. CASE b
    BY <1>3, <2>1 DEF Rec
  <2>2. CASE x.pc = "idle"
    BY <1>3, <2>2, PairedEmpty DEF Sound, Straight, Rec
  <2> QED
    BY <2>1, <2>2
<1>6. /\ y.pc = x.pc /\ y.from = x.from /\ y.to = x.to /\ y.accepted = x.accepted
      /\ y.rcpt = x.rcpt /\ y.handed = x.handed /\ y.unsure = x.unsure
  BY <1>3 DEF Rec
<1>7. Sound(y)
  BY <1>4, <1>5, <1>6 DEF Sound
<1> QED
  BY <1>7 DEF y

LEMMA RcptSound ==
  ASSUME NEW x, Sound(x), x.pc = "mail", Len(x.accepted) < MaxRcpt,
         NEW r \in Recipient, NEW p \in {"greylist", "rules"}
  PROVE  Sound([x EXCEPT !.rcpt = r, !.pc = p])
<1> DEFINE y == [x EXCEPT !.rcpt = r, !.pc = p]
<1>1. y = [x EXCEPT !.rcpt = r, !.pc = p]
  OBVIOUS
<1> HIDE DEF y
<1>2. x \in SessionRecord /\ Same(x)
  BY RecordIsSame DEF Sound
<1>3. y = Rec(p, x.ip, x.user, x.from, x.to, x.ingestion, r, x.accepted, x.reply,
              x.handed, x.asked, x.strayed, x.unsure)
  BY <1>1, <1>2 DEF Same, Rec
<1>4. y \in SessionRecord
  BY <1>2, <1>3 DEF SessionRecord, Pc, Rec
<1>5. Sound(y)
  BY <1>3, <1>4, MovedSound DEF Rec
<1> QED
  BY <1>5 DEF y

LEMMA GotoSound ==
  ASSUME NEW x, Sound(x), x.pc \notin {"idle", "done"}, NEW p \in {"mail", "rules", "insert"},
         p = "rules" => x.pc = "greylist"
  PROVE  Sound([x EXCEPT !.pc = p])
<1> DEFINE y == [x EXCEPT !.pc = p]
<1>1. y = [x EXCEPT !.pc = p]
  OBVIOUS
<1> HIDE DEF y
<1>2. x \in SessionRecord /\ Same(x)
  BY RecordIsSame DEF Sound
<1>3. y = Rec(p, x.ip, x.user, x.from, x.to, x.ingestion, x.rcpt, x.accepted, x.reply,
              x.handed, x.asked, x.strayed, x.unsure)
  BY <1>1, <1>2 DEF Same, Rec
<1>4. y \in SessionRecord
  BY <1>2, <1>3 DEF SessionRecord, Pc, Rec
<1>6. x.pc = "greylist" => x.rcpt \in Recipient /\ Len(x.accepted) < MaxRcpt
  BY DEF Sound
<1>5. Sound(y)
  BY <1>3, <1>4, <1>6, MovedSound DEF Rec
<1> QED
  BY <1>5 DEF y

LEMMA RejectSound ==
  ASSUME NEW x, Sound(x), x.pc = "rules", NEW status \in {"accepted", "rejected"}
  PROVE  Sound([x EXCEPT !.pc = "mail", !.ingestion = status])
<1> DEFINE y == [x EXCEPT !.pc = "mail", !.ingestion = status]
<1>1. y = [x EXCEPT !.pc = "mail", !.ingestion = status]
  OBVIOUS
<1> HIDE DEF y
<1>2. x \in SessionRecord /\ Same(x)
  BY RecordIsSame DEF Sound
<1>3. y = Rec("mail", x.ip, x.user, x.from, x.to, status, x.rcpt, x.accepted, x.reply,
              x.handed, x.asked, x.strayed, x.unsure)
  BY <1>1, <1>2 DEF Same, Rec
<1>4. y \in SessionRecord
  BY <1>2, <1>3 DEF SessionRecord, Pc, Rec
<1>5. Sound(y)
  BY <1>3, <1>4, MovedSound DEF Rec
<1> QED
  BY <1>5 DEF y

(* A step changes one session. *)
LEMMA OneChanges ==
  ASSUME SoundInv, NEW s \in Session, NEW y, Sound(y), sess' = [sess EXCEPT ![s] = y]
  PROVE  SoundInv'
<1>1. y \in SessionRecord
  BY DEF Sound
<1>2. sess' \in [Session -> SessionRecord]
  BY <1>1 DEF SoundInv
<1>3. \A r \in Session : sess'[r] = y \/ sess'[r] = sess[r]
  BY DEF SoundInv
<1> QED
  BY <1>2, <1>3 DEF SoundInv

LEMMA InitSound == Init => SoundInv
<1> SUFFICES ASSUME Init PROVE SoundInv
  OBVIOUS
<1>1. PICK ip \in [Session -> Ip] : sess = [s \in Session |-> Fresh(ip[s])]
  BY DEF Init
<1>2. \A s \in Session : Sound(Fresh(ip[s])) /\ Fresh(ip[s]) \in SessionRecord
  BY FreshSound DEF Sound
<1> QED
  BY <1>1, <1>2 DEF SoundInv

LEMMA StepSound == SoundInv /\ [Next]_vars => SoundInv'
<1> SUFFICES ASSUME SoundInv, [Next]_vars PROVE SoundInv'
  OBVIOUS
<1>S. ASSUME NEW s \in Session PROVE Sound(sess[s]) /\ sess[s] \in SessionRecord
  BY DEF SoundInv
<1>1. ASSUME NEW s \in Session, NEW u \in User, Auth(s, u) PROVE SoundInv'
  <2> DEFINE y(b) == [sess[s] EXCEPT !.user = u, !.strayed = b]
  <2>1. \E b \in BOOLEAN :
          /\ sess' = [sess EXCEPT ![s] = y(b)]
          /\ sess[s].pc = "idle" \/ (sess[s].pc = "mail" /\ b)
    BY <1>1 DEF Auth, Become
  <2>2. PICK b \in BOOLEAN :
          /\ sess' = [sess EXCEPT ![s] = y(b)]
          /\ sess[s].pc = "idle" \/ (sess[s].pc = "mail" /\ b)
    BY <2>1
  <2>3. Sound(y(b))
    BY <1>S, <2>2, LoginSound
  <2> QED
    BY <2>2, <2>3, OneChanges
<1>2. ASSUME NEW s \in Session, NEW f \in Address, Mail(s, f) PROVE SoundInv'
  <2> DEFINE y(status, b) ==
               [sess[s] EXCEPT !.pc = "mail", !.from = f, !.ingestion = status,
                               !.asked = sess[s].user, !.strayed = b]
  <2>1. \E status \in Status(s, "accepted"), b \in BOOLEAN :
          /\ sess' = [sess EXCEPT ![s] = y(status, b)]
          /\ sess[s].accepted # <<>> => b
    BY <1>2 DEF Mail, Become
  <2>2. PICK status \in Status(s, "accepted"), b \in BOOLEAN :
          /\ sess' = [sess EXCEPT ![s] = y(status, b)]
          /\ sess[s].accepted # <<>> => b
    BY <2>1
  <2>3. status \in {"accepted", "rejected"}
    BY <1>S, <2>2 DEF Status, SessionRecord
  <2>4. sess[s].pc \in {"idle", "mail"}
    BY <1>2 DEF Mail
  <2>5. Sound(y(status, b))
    BY <1>S, <2>2, <2>3, <2>4, MailSound
  <2> QED
    BY <2>2, <2>5, OneChanges
<1>3. ASSUME NEW s \in Session, NEW r \in Recipient, RcptRelay(s, r) PROVE SoundInv'
  <2>1. /\ sess[s].pc = "mail" /\ Len(sess[s].accepted) < MaxRcpt
        /\ sess' = [sess EXCEPT ![s] = Added(sess[s], r, sess[s].ingestion)]
        /\ sess[s].ingestion \in {"accepted", "rejected"}
    BY <1>3, <1>S DEF RcptRelay, MayAdd, Become, SessionRecord
  <2>2. Sound(Added(sess[s], r, sess[s].ingestion))
    BY <1>S, <2>1, AddedSound
  <2> QED
    BY <2>1, <2>2, OneChanges
<1>4. ASSUME NEW s \in Session, NEW r \in Recipient, Rcpt(s, r) PROVE SoundInv'
  <2>1. /\ sess[s].pc = "mail" /\ Len(sess[s].accepted) < MaxRcpt
        /\ \E p \in {"greylist", "rules"} :
             sess' = [sess EXCEPT ![s] = [sess[s] EXCEPT !.rcpt = r, !.pc = p]]
    BY <1>4 DEF Rcpt, MayAdd, Become
  <2>2. PICK p \in {"greylist", "rules"} :
          sess' = [sess EXCEPT ![s] = [sess[s] EXCEPT !.rcpt = r, !.pc = p]]
    BY <2>1
  <2>3. Sound([sess[s] EXCEPT !.rcpt = r, !.pc = p])
    BY <1>S, <2>1, RcptSound
  <2> QED
    BY <2>2, <2>3, OneChanges
<1>5. ASSUME NEW s \in Session, NEW p \in {"mail", "rules", "insert"},
             sess' = [sess EXCEPT ![s].pc = p],
             sess[s].pc \notin {"idle", "done"}, p = "rules" => sess[s].pc = "greylist"
      PROVE  SoundInv'
  <2>1. sess' = [sess EXCEPT ![s] = [sess[s] EXCEPT !.pc = p]]
    BY <1>5
  <2>2. Sound([sess[s] EXCEPT !.pc = p])
    BY <1>S, <1>5, GotoSound
  <2> QED
    BY <2>1, <2>2, OneChanges
<1>6. ASSUME NEW s \in Session, Greylist(s) \/ GreylistFails(s) PROVE SoundInv'
  <2>1. sess[s].pc = "greylist" /\ \E p \in {"mail", "rules"} : sess' = [sess EXCEPT ![s].pc = p]
    BY <1>6 DEF Greylist, GreylistFails, Goto
  <2> QED
    BY <1>5, <2>1
<1>7. ASSUME NEW s \in Session, Rules(s) PROVE SoundInv'
  <2>1. sess[s].pc = "rules" /\ sess[s].rcpt \in Recipient /\ Len(sess[s].accepted) < MaxRcpt
    BY <1>7, <1>S DEF Rules, Sound
  <2>2. CASE \E status \in Status(s, "accepted") :
               sess' = [sess EXCEPT ![s] = Added(sess[s], sess[s].rcpt, status)]
    <3>1. PICK status \in Status(s, "accepted") :
               sess' = [sess EXCEPT ![s] = Added(sess[s], sess[s].rcpt, status)]
      BY <2>2
    <3>2. status \in {"accepted", "rejected"}
      BY <1>S, <3>1 DEF Status, SessionRecord
    <3>3. Sound(Added(sess[s], sess[s].rcpt, status))
      BY <1>S, <2>1, <3>2, AddedSound
    <3> QED
      BY <3>1, <3>3, OneChanges
  <2>3. CASE \E status \in Status(s, "rejected") :
               sess' = [sess EXCEPT ![s] = [sess[s] EXCEPT !.pc = "mail", !.ingestion = status]]
    <3>1. PICK status \in Status(s, "rejected") :
               sess' = [sess EXCEPT ![s] = [sess[s] EXCEPT !.pc = "mail", !.ingestion = status]]
      BY <2>3
    <3>2. status \in {"accepted", "rejected"}
      BY <1>S, <3>1 DEF Status, SessionRecord
    <3>3. Sound([sess[s] EXCEPT !.pc = "mail", !.ingestion = status])
      BY <1>S, <2>1, <3>2, RejectSound
    <3> QED
      BY <3>1, <3>3, OneChanges
  <2> QED
    BY <1>7, <2>2, <2>3 DEF Rules, Become
<1>8. ASSUME NEW s \in Session, sess[s].pc \notin {"idle", "done"},
             sess' = [sess EXCEPT ![s] = Refusing(sess[s])]
      PROVE  SoundInv'
  BY <1>8, <1>S, RefusingSound, OneChanges
<1>9. ASSUME NEW s \in Session, sess[s].pc \notin {"idle", "done"},
             \/ sess' = [sess EXCEPT ![s] = Handing(sess[s], 250, FALSE)]
             \/ sess' = [sess EXCEPT ![s] = Handing(sess[s], 550, TRUE)]
      PROVE  SoundInv'
  <2> DEFINE y == Handing(sess[s], 250, FALSE)
             z == Handing(sess[s], 550, TRUE)
  <2>1. Sound(y) /\ Sound(z)
    <3>1. Sound(sess[s]) /\ sess[s].pc \notin {"idle", "done"}
      BY <1>9, <1>S
    <3> QED
      BY <3>1, Handed
  <2>2. sess' = [sess EXCEPT ![s] = y] \/ sess' = [sess EXCEPT ![s] = z]
    BY <1>9
  <2> HIDE DEF y, z
  <2>3. CASE sess' = [sess EXCEPT ![s] = y]
    BY <2>1, <2>3, OneChanges
  <2>4. CASE sess' = [sess EXCEPT ![s] = z]
    BY <2>1, <2>4, OneChanges
  <2> QED
    BY <2>2, <2>3, <2>4
<1>10. ASSUME NEW s \in Session, HandleInbound(s) PROVE SoundInv'
  <2>1. /\ sess[s].pc \notin {"idle", "done"}
        /\ sess' = [sess EXCEPT ![s] = Handing(sess[s], 250, FALSE)]
    BY <1>10 DEF HandleInbound, MayEnd, Become
  <2> QED
    BY <1>9, <2>1
<1>11. ASSUME NEW s \in Session, HandleOutbound(s) PROVE SoundInv'
  <2>1. sess[s].pc = "mail"
    BY <1>11 DEF HandleOutbound, MayEnd
  <2>2. CASE Goto(s, "insert")
    BY <1>5, <2>1, <2>2 DEF Goto
  <2>3. CASE Become(s, Refusing(sess[s]))
    BY <1>8, <2>1, <2>3 DEF Become
  <2> QED
    BY <1>11, <2>2, <2>3 DEF HandleOutbound
<1>12. ASSUME NEW s \in Session, InsertOutboundJob(s) PROVE SoundInv'
  <2>1. /\ sess[s].pc \notin {"idle", "done"}
        /\ sess' = [sess EXCEPT ![s] = Handing(sess[s], 250, FALSE)]
    BY <1>12 DEF InsertOutboundJob, Become
  <2> QED
    BY <1>9, <2>1
<1>13. ASSUME NEW s \in Session, InsertFails(s) PROVE SoundInv'
  BY <1>13, <1>8 DEF InsertFails, Become
<1>14. ASSUME NEW s \in Session, InsertUnconfirmed(s) PROVE SoundInv'
  <2>1. /\ sess[s].pc \notin {"idle", "done"}
        /\ sess' = [sess EXCEPT ![s] = Handing(sess[s], 550, TRUE)]
    BY <1>14 DEF InsertUnconfirmed, Become
  <2> QED
    BY <1>9, <2>1
<1>15. ASSUME NEW s \in Session, Reset(s) PROVE SoundInv'
  BY <1>15, <1>S, ClearedSound, OneChanges DEF Reset, Become
<1>16. CASE Elapse \/ Purge \/ UNCHANGED vars
  <2>1. sess' = sess
    BY <1>16 DEF Elapse, Purge, vars
  <2> QED
    BY <2>1 DEF SoundInv
<1> QED
  BY <1>1, <1>2, <1>3, <1>4, <1>6, <1>7, <1>10, <1>11, <1>12, <1>13, <1>14, <1>15, <1>16
     DEF Next

(* In every session, what a client was told about its message is true: 250  *)
(* means that it goes to exactly the recipients accepted in this transaction *)
(* and, unless a second MAIL or an AUTH came within it, under the sender and *)
(* for the account each was accepted with; a refusal means that it goes      *)
(* nowhere, unless the answer of the insert was lost.                        *)
THEOREM HandedCorrect == Spec => []HandedAsAccepted
<1>1. SoundInv => HandedAsAccepted
  BY DEF SoundInv, Sound, Answered, HandedAsAccepted
<1> QED
  BY <1>1, InitSound, StepSound, PTL DEF Spec

-----------------------------------------------------------------------------
(* The greylist *)

(* What an entry, and the absence of one, says of the tries of a triplet: an *)
(* entry is as old as some try, and not older than the tries that no long    *)
(* pause parts from the last one; without an entry a pause is over or there  *)
(* was no try.                                                               *)
Fits(entry, e, s, l) ==
  /\ e = Never \/ e \in 0..now
  /\ \/ entry = Gone /\ (l = Never \/ (l \in 0..now /\ l + Expiry < now))
     \/ /\ entry.first \in 0..now /\ s \in 0..now /\ l \in 0..now
        /\ entry.last = l /\ e <= entry.first /\ entry.first <= s

Remembered ==
  /\ now \in Tick
  /\ greylist \in [Triplet -> [first : 0..Never, last : 0..Never]]
  /\ {ever, since, last} \subseteq [Triplet -> 0..Never]
  /\ \A t \in Triplet : Fits(greylist[t], ever[t], since[t], last[t])

LEMMA InitRemembered == Init => Remembered
<1> SUFFICES ASSUME Init PROVE Remembered
  OBVIOUS
<1>1. Never \in 0..Never /\ Gone \in [first : 0..Never, last : 0..Never] /\ now \in Tick
  BY SessionAssumption DEF Init, Never, Gone, Tick
<1>2. \A t \in Triplet :
        greylist[t] = Gone /\ ever[t] = Never /\ since[t] = Never /\ last[t] = Never
  BY DEF Init
<1>3. /\ greylist \in [Triplet -> [first : 0..Never, last : 0..Never]]
      /\ {ever, since, last} \subseteq [Triplet -> 0..Never]
  BY <1>1 DEF Init
<1>4. Fits(Gone, Never, Never, Never)
  BY DEF Fits
<1>5. \A t \in Triplet : Fits(greylist[t], ever[t], since[t], last[t])
  BY <1>2, <1>4
<1> QED
  BY <1>1, <1>3, <1>5 DEF Remembered

(* A try of a triplet and what it makes of the entry. *)
LEMMA TryFits ==
  ASSUME now \in Tick, NEW entry \in [first : 0..Never, last : 0..Never],
         NEW e \in 0..Never, NEW s \in 0..Never, NEW l \in 0..Never, Fits(entry, e, s, l),
         NEW n, n = Upsert(entry)
  PROVE  /\ n \in [first : 0..Never, last : 0..Never]
         /\ n.first \in 0..now
         /\ (IF e = Never THEN now ELSE e) <= n.first
         /\ n.first <= (IF l = Never \/ l + Expiry < now THEN now ELSE s)
         /\ Fits(n, IF e = Never THEN now ELSE e,
                    IF l = Never \/ l + Expiry < now THEN now ELSE s, now)
<1>1. now \in Nat /\ now < Never /\ now \in 0..now /\ Never \in Nat
  BY SessionAssumption DEF Tick, Never
<1>2. n.last = now /\ n.first = (IF entry = Gone THEN now ELSE entry.first)
  BY DEF Upsert
<1>3. entry.first \in 0..Never
  OBVIOUS
<1>4. n \in [first : 0..Never, last : 0..Never]
  BY <1>1, <1>3 DEF Upsert
<1>5. CASE entry = Gone
  <2>1. entry.first = Never
    BY <1>5 DEF Gone
  <2>2. l = Never \/ l + Expiry < now
    BY <1>1, <1>5, <2>1 DEF Fits
  <2>3. n.first = now
    BY <1>2, <1>5
  <2>4. e = Never \/ e \in 0..now
    BY DEF Fits
  <2> QED
    BY <1>1, <1>2, <1>4, <2>2, <2>3, <2>4 DEF Fits
<1>6. CASE entry # Gone
  <2>1. /\ entry.first \in 0..now /\ s \in 0..now /\ l \in 0..now
        /\ e <= entry.first /\ entry.first <= s /\ (e = Never \/ e \in 0..now)
    BY <1>6 DEF Fits
  <2>2. n.first = entry.first
    BY <1>2, <1>6
  <2>3. e # Never
    BY <1>1, <2>1
  <2> QED
    BY <1>1, <1>2, <1>4, <2>1, <2>2, <2>3 DEF Fits
<1> QED
  BY <1>5, <1>6

(* The same for the tables. *)
LEMMA TryRemembered ==
  ASSUME Remembered, NEW t \in Triplet, Try(t), now' = now
  PROVE  /\ Remembered'
         /\ greylist'[t].first \in 0..now
         /\ ever'[t] \in Nat /\ ever'[t] <= greylist'[t].first
         /\ since'[t] \in Nat /\ greylist'[t].first <= since'[t]
<1> DEFINE n == Upsert(greylist[t])
           e == IF ever[t] = Never THEN now ELSE ever[t]
           r == IF last[t] = Never \/ last[t] + Expiry < now THEN now ELSE since[t]
<1>1. /\ greylist' = [greylist EXCEPT ![t] = n] /\ ever' = [ever EXCEPT ![t] = e]
      /\ since' = [since EXCEPT ![t] = r] /\ last' = [last EXCEPT ![t] = now]
      /\ now' = now
  BY DEF Try
<1>2. /\ greylist \in [Triplet -> [first : 0..Never, last : 0..Never]]
      /\ ever \in [Triplet -> 0..Never] /\ since \in [Triplet -> 0..Never]
      /\ last \in [Triplet -> 0..Never]
      /\ now \in Tick
      /\ \A u \in Triplet : Fits(greylist[u], ever[u], since[u], last[u])
  BY DEF Remembered
<1>3. now \in 0..Never /\ now \in Nat /\ Never \in Nat
  BY <1>2, SessionAssumption DEF Tick, Never
<1>4. /\ greylist[t] \in [first : 0..Never, last : 0..Never]
      /\ ever[t] \in 0..Never /\ since[t] \in 0..Never /\ last[t] \in 0..Never
      /\ Fits(greylist[t], ever[t], since[t], last[t])
  BY <1>2
<1>5. /\ n \in [first : 0..Never, last : 0..Never] /\ n.first \in 0..now
      /\ e <= n.first /\ n.first <= r /\ Fits(n, e, r, now)
  BY <1>2, <1>4, TryFits
<1>6. e \in 0..Never /\ r \in 0..Never
  BY <1>3, <1>4
<1> HIDE DEF n, e, r
<1>7. greylist'[t] = n /\ ever'[t] = e /\ since'[t] = r /\ last'[t] = now
  BY <1>1, <1>2
<1>8. \A u \in Triplet : u # t =>
        greylist'[u] = greylist[u] /\ ever'[u] = ever[u] /\ since'[u] = since[u] /\ last'[u] = last[u]
  BY <1>1, <1>2
<1>9. /\ greylist' \in [Triplet -> [first : 0..Never, last : 0..Never]]
      /\ {ever', since', last'} \subseteq [Triplet -> 0..Never]
  BY <1>1, <1>2, <1>3, <1>5, <1>6
<1>10. \A u \in Triplet : Fits(greylist'[u], ever'[u], since'[u], last'[u])
  BY <1>2, <1>5, <1>7, <1>8
<1>11. Remembered'
  BY <1>1, <1>2, <1>9, <1>10 DEF Remembered, Fits, Tick, Never, Gone
<1> QED
  BY <1>3, <1>5, <1>6, <1>7, <1>11

(* What GreylistFair asks of a step, for one session. *)
Fair(s) ==
  IF sess'[s].pc = "mail" THEN since'[Checked(s)] + Delay > now
  ELSE ever'[Checked(s)] + Delay <= now

LEMMA CheckedIsTriplet ==
  ASSUME SoundInv, NEW s \in Session, sess[s].pc = "greylist"
  PROVE  Checked(s) \in Triplet
<1>1. Sound(sess[s]) /\ sess[s] \in SessionRecord
  BY DEF SoundInv
<1>2. sess[s].ip \in Ip /\ sess[s].from \in Address /\ sess[s].rcpt \in Recipient
  BY <1>1 DEF Sound, SessionRecord
<1> QED
  BY <1>2 DEF Checked, Triplet

LEMMA GreylistIsFair ==
  ASSUME SoundInv, Remembered, NEW s \in Session, Greylist(s)
  PROVE  Remembered' /\ Fair(s)
<1> DEFINE t == Checked(s)
<1>1. /\ sess[s].pc = "greylist" /\ Try(t) /\ now' = now
      /\ sess' = [sess EXCEPT ![s].pc = IF greylist'[t].first + Delay > now THEN "mail" ELSE "rules"]
  BY DEF Greylist, Goto
<1>2. t \in Triplet
  BY <1>1, CheckedIsTriplet
<1>3. /\ Remembered' /\ greylist'[t].first \in Nat
      /\ ever'[t] \in Nat /\ ever'[t] <= greylist'[t].first
      /\ since'[t] \in Nat /\ greylist'[t].first <= since'[t]
  BY <1>1, <1>2, TryRemembered
<1>4. now \in Nat /\ Delay \in Nat
  BY SessionAssumption DEF Remembered, Tick
<1> HIDE DEF t
<1>5. sess'[s].pc = (IF greylist'[t].first + Delay > now THEN "mail" ELSE "rules")
  BY <1>1 DEF SoundInv, SessionRecord
<1> QED
  BY <1>3, <1>4, <1>5 DEF Fair, t

LEMMA StepRemembered == SoundInv /\ Remembered /\ [Next]_vars => Remembered'
<1> SUFFICES ASSUME SoundInv, Remembered, [Next]_vars PROVE Remembered'
  OBVIOUS
<1>1. ASSUME NEW s \in Session, Greylist(s) PROVE Remembered'
  BY <1>1, GreylistIsFair
<1>2. ASSUME UNCHANGED <<now, tries>> PROVE Remembered'
  BY <1>2 DEF Remembered, Fits, tries, Tick
<1>3. ASSUME NEW s \in Session, GreylistFails(s) PROVE Remembered'
  <2>1. Checked(s) \in Triplet /\ now' = now
    BY <1>3, CheckedIsTriplet DEF GreylistFails
  <2>2. CASE Try(Checked(s))
    BY <2>1, <2>2, TryRemembered
  <2>3. CASE UNCHANGED tries
    BY <1>2, <2>1, <2>3
  <2> QED
    BY <1>3, <2>2, <2>3 DEF GreylistFails
<1>4. ASSUME NEW s \in Session,
             \/ \E u \in User : Auth(s, u)
             \/ \E f \in Address : Mail(s, f)
             \/ \E r \in Recipient : RcptRelay(s, r) \/ Rcpt(s, r)
             \/ Rules(s) \/ HandleInbound(s) \/ HandleOutbound(s)
             \/ InsertOutboundJob(s) \/ InsertFails(s) \/ InsertUnconfirmed(s)
             \/ Reset(s)
      PROVE  Remembered'
  <2>1. UNCHANGED <<now, tries>>
    BY <1>4 DEF Auth, Mail, RcptRelay, Rcpt, Rules, HandleInbound, HandleOutbound,
                InsertOutboundJob, InsertFails, InsertUnconfirmed, Reset
  <2> QED
    BY <1>2, <2>1
<1>5. CASE Elapse
  <2>1. /\ UNCHANGED tries /\ now' = now + 1 /\ now < MaxTick
    BY <1>5 DEF Elapse
  <2>2. now \in Nat /\ now' \in Tick
    BY <2>1, SessionAssumption DEF Remembered, Tick
  <2>3. \A t \in Triplet : Fits(greylist[t], ever[t], since[t], last[t])'
    BY <2>1, <2>2, SessionAssumption DEF Remembered, Fits, Never, tries, Gone
  <2> QED
    BY <2>1, <2>2, <2>3 DEF Remembered, tries, Never
<1>6. CASE Purge
  <2>1. /\ greylist' = [t \in Triplet |-> IF Expired(greylist[t]) THEN Gone ELSE greylist[t]]
        /\ UNCHANGED <<now, ever, since, last>>
    BY <1>6 DEF Purge
  <2>2. Gone \in [first : 0..Never, last : 0..Never]
    BY SessionAssumption DEF Gone, Never
  <2>3. greylist' \in [Triplet -> [first : 0..Never, last : 0..Never]]
    BY <2>1, <2>2 DEF Remembered
  <2>4. ASSUME NEW t \in Triplet PROVE Fits(greylist'[t], ever[t], since[t], last[t])
    <3>1. Fits(greylist[t], ever[t], since[t], last[t])
      BY DEF Remembered
    <3>2. CASE Expired(greylist[t])
      <4>1. greylist'[t] = Gone
        BY <2>1, <3>2
      <4>2. last[t] \in 0..now /\ last[t] + Expiry < now
        BY <3>1, <3>2 DEF Fits, Expired
      <4> QED
        BY <3>1, <4>1, <4>2 DEF Fits
    <3>3. CASE ~Expired(greylist[t])
      BY <2>1, <3>1, <3>3
    <3> QED
      BY <3>2, <3>3
  <2> QED
    BY <2>1, <2>3, <2>4 DEF Remembered, Fits, Tick
<1>7. CASE UNCHANGED vars
  BY <1>2, <1>7 DEF vars
<1> QED
  BY <1>1, <1>3, <1>4, <1>5, <1>6, <1>7 DEF Next

(* However tries, purges and pauses follow each other, a check that does not *)
(* fail lets a triplet pass only Delay after its first try, and holds it up  *)
(* no longer than Delay after the first try that no long pause separates     *)
(* from now.                                                                 *)
THEOREM GreylistCorrect == Spec => GreylistFair
<1>1. Init => SoundInv /\ Remembered
  BY InitSound, InitRemembered
<1>2. SoundInv /\ Remembered /\ [Next]_vars => (SoundInv /\ Remembered)'
  BY StepSound, StepRemembered
<1>3. SoundInv /\ Remembered =>
        [\A s \in Session : Greylist(s) =>
           IF sess'[s].pc = "mail" THEN since'[Checked(s)] + Delay > now
           ELSE ever'[Checked(s)] + Delay <= now]_vars
  BY GreylistIsFair DEF Fair
<1> QED
  BY <1>1, <1>2, <1>3, PTL DEF Spec, GreylistFair

-----------------------------------------------------------------------------
(* The limiters of sending users *)

(* What a user submitted since the tick t and what its limiter would still  *)
(* let through, together, keep to the rate.                                 *)
Credit ==
  \A u \in User : \A t \in 0..now :
    passed[u][now] + tokens[u] + t <= SendLimit + now + PassedBefore(u, t)

LimitInv ==
  /\ now \in Tick
  /\ tokens \in [User -> 0..SendLimit]
  /\ passed \in [User -> [Tick -> Nat]]
  /\ SendLimit > 0 => Credit /\ SubmissionRate

LEMMA PassedBeforeNat ==
  ASSUME LimitInv, NEW u \in User, NEW t \in 0..now
  PROVE  PassedBefore(u, t) \in Nat
<1>1. now \in Nat /\ now <= MaxTick /\ passed[u] \in [Tick -> Nat]
  BY SessionAssumption DEF LimitInv, Tick
<1>2. t # 0 => t - 1 \in Tick
  BY <1>1, SessionAssumption DEF Tick
<1> QED
  BY <1>1, <1>2 DEF PassedBefore

LEMMA InitLimit == Init => LimitInv
<1> SUFFICES ASSUME Init PROVE LimitInv
  OBVIOUS
<1>1. /\ now = 0 /\ now \in Tick /\ 0 \in Tick
      /\ tokens = [u \in User |-> SendLimit]
      /\ passed = [u \in User |-> [t \in Tick |-> 0]]
  BY SessionAssumption DEF Init, Tick
<1>2. tokens \in [User -> 0..SendLimit] /\ passed \in [User -> [Tick -> Nat]]
  BY <1>1, SessionAssumption
<1>3. \A u \in User : tokens[u] = SendLimit /\ passed[u][0] = 0
  BY <1>1
<1>4. Credit
  BY <1>1, <1>3, SessionAssumption DEF Credit, PassedBefore
<1>5. SubmissionRate
  BY <1>1, <1>3, SessionAssumption DEF SubmissionRate, PassedBefore
<1> QED
  BY <1>1, <1>2, <1>4, <1>5 DEF LimitInv

(* From the credit at the last tick and the rate at the earlier ones, the   *)
(* rate at all of them.                                                     *)
LEMMA LimitInvFrom ==
  ASSUME now' \in Tick, tokens' \in [User -> 0..SendLimit],
         passed' \in [User -> [Tick -> Nat]], SendLimit > 0 => Credit',
         SendLimit > 0 =>
           \A u \in User : \A t, v \in 0..now' :
             t <= v /\ v # now' =>
               passed'[u][v] - PassedBefore(u, t)' <= SendLimit + (v - t)
  PROVE  LimitInv'
<1>1. ASSUME SendLimit > 0, NEW u \in User, NEW t \in 0..now', NEW v \in 0..now', t <= v
      PROVE  passed'[u][v] - PassedBefore(u, t)' <= SendLimit + (v - t)
  <2>1. CASE v = now'
    <3>1. passed'[u][now'] + tokens'[u] + t <= SendLimit + now' + PassedBefore(u, t)'
      BY <1>1 DEF Credit
    <3>2. /\ now' \in Nat /\ tokens'[u] \in Nat /\ passed'[u] \in [Tick -> Nat]
          /\ passed'[u][now'] \in Nat /\ now' <= MaxTick
      BY SessionAssumption DEF Tick
    <3>3. t # 0 => t - 1 \in Tick
      BY <3>2, SessionAssumption DEF Tick
    <3>4. PassedBefore(u, t)' \in Nat
      BY <3>2, <3>3 DEF PassedBefore
    <3> QED
      BY <2>1, <3>1, <3>2, <3>4, SessionAssumption
  <2>2. CASE v # now'
    BY <1>1, <2>2
  <2> QED
    BY <2>1, <2>2
<1>2. SendLimit > 0 => SubmissionRate'
  BY <1>1 DEF SubmissionRate
<1> QED
  BY <1>2 DEF LimitInv

LEMMA StepLimit == SoundInv /\ LimitInv /\ [Next]_vars => LimitInv'
<1> SUFFICES ASSUME SoundInv, LimitInv, [Next]_vars PROVE LimitInv'
  OBVIOUS
<1>T. /\ now \in Nat /\ now \in Tick /\ SendLimit \in Nat
      /\ tokens \in [User -> 0..SendLimit] /\ passed \in [User -> [Tick -> Nat]]
      /\ \A u \in User : tokens[u] \in Nat /\ passed[u][now] \in Nat
  BY SessionAssumption DEF LimitInv, Tick
<1>1. ASSUME UNCHANGED <<now, limits>> PROVE LimitInv'
  BY <1>1 DEF LimitInv, limits, Credit, SubmissionRate, PassedBefore, Tick
<1>2. ASSUME NEW s \in Session, HandleOutbound(s) PROVE LimitInv'
  <2> DEFINE w == sess[s].user
  <2>1. w \in User /\ now' = now
    BY <1>2 DEF HandleOutbound, SoundInv, SessionRecord
  <2>2. CASE UNCHANGED limits
    BY <1>1, <2>1, <2>2
  <2>3. CASE Take(w) /\ passed' = [passed EXCEPT ![w][now] = @ + 1]
    <3> HIDE DEF w
    <3>1. ASSUME NEW u \in User
          PROVE  /\ passed'[u] = IF u = w THEN [passed[u] EXCEPT ![now] = @ + 1] ELSE passed[u]
                 /\ passed'[u][now] = IF u = w THEN passed[u][now] + 1 ELSE passed[u][now]
                 /\ \A v \in 0..now : v # now => passed'[u][v] = passed[u][v]
      <4>1. passed'[u] = IF u = w THEN [passed[u] EXCEPT ![now] = @ + 1] ELSE passed[u]
        BY <1>T, <2>3
      <4>2. passed[u] \in [Tick -> Nat]
        BY <1>T
      <4> QED
        BY <1>T, <4>1, <4>2
    <3>2. ASSUME NEW u \in User, NEW t \in 0..now PROVE PassedBefore(u, t)' = PassedBefore(u, t)
      <4>1. t # 0 => t - 1 \in 0..now /\ t - 1 # now
        BY <1>T
      <4>2. t # 0 => passed'[u][t - 1] = passed[u][t - 1]
        BY <3>1, <4>1
      <4> QED
        BY <4>2 DEF PassedBefore
    <3>3. passed' \in [User -> [Tick -> Nat]]
      BY <1>T, <2>1, <2>3
    <3>4. tokens' \in [User -> 0..SendLimit]
      BY <1>T, <2>1, <2>3 DEF Take
    <3>5. ASSUME SendLimit > 0 PROVE Credit'
      <4>1. \A u \in User : tokens'[u] = IF u = w THEN tokens[u] - 1 ELSE tokens[u]
        BY <1>T, <2>1, <2>3, <3>5 DEF Take
      <4>2. ASSUME NEW u \in User, NEW t \in 0..now
            PROVE  passed'[u][now] + tokens'[u] + t <= SendLimit + now + PassedBefore(u, t)
        <5>1. passed[u][now] + tokens[u] + t <= SendLimit + now + PassedBefore(u, t)
          BY <3>5 DEF LimitInv, Credit
        <5>2. passed'[u][now] + tokens'[u] = passed[u][now] + tokens[u]
          <6>1. CASE u = w
            <7>1. passed'[u][now] = passed[u][now] + 1 /\ tokens'[u] = tokens[u] - 1
              BY <3>1, <4>1, <6>1
            <7>2. passed[u][now] \in Nat /\ tokens[u] \in Nat
              BY <1>T
            <7> QED
              BY <7>1, <7>2
          <6>2. CASE u # w
            BY <3>1, <4>1, <6>2
          <6> QED
            BY <6>1, <6>2
        <5> QED
          BY <5>1, <5>2
      <4> QED
        BY <2>1, <3>2, <4>2 DEF Credit
    <3>6. ASSUME SendLimit > 0, NEW u \in User, NEW t \in 0..now, NEW v \in 0..now,
                 t <= v, v # now
          PROVE  passed'[u][v] - PassedBefore(u, t)' <= SendLimit + (v - t)
      BY <3>1, <3>2, <3>6 DEF LimitInv, SubmissionRate
    <3> QED
      BY <1>T, <2>1, <3>3, <3>4, <3>5, <3>6, LimitInvFrom
  <2> QED
    BY <1>2, <2>2, <2>3 DEF HandleOutbound
<1>3. CASE Elapse
  <2>1. /\ now' = now + 1 /\ now' \in Tick
        /\ tokens' = [u \in User |-> IF tokens[u] < SendLimit THEN tokens[u] + 1 ELSE SendLimit]
        /\ passed' = [u \in User |-> [passed[u] EXCEPT ![now + 1] = passed[u][now]]]
    BY <1>T, <1>3, SessionAssumption DEF Elapse, Tick
  <2>2. ASSUME NEW u \in User
        PROVE  /\ passed'[u][now + 1] = passed[u][now]
               /\ \A v \in 0..now : passed'[u][v] = passed[u][v]
    <3>1. passed'[u] = [passed[u] EXCEPT ![now + 1] = passed[u][now]] /\ passed[u] \in [Tick -> Nat]
      BY <1>T, <2>1
    <3>2. \A v \in 0..now : v \in Tick /\ v # now + 1
      BY <1>T, SessionAssumption DEF Tick
    <3> QED
      BY <2>1, <3>1, <3>2
  <2>3. \A u \in User : \A t \in 0..now : PassedBefore(u, t)' = PassedBefore(u, t)
    BY <1>T, <2>2 DEF PassedBefore
  <2>4. ASSUME NEW u \in User, NEW t \in Nat, t = now + 1
        PROVE  PassedBefore(u, t)' = passed[u][now]
    <3>1. t # 0 /\ t - 1 = now /\ now \in 0..now
      BY <1>T, <2>4
    <3>2. passed'[u][t - 1] = passed[u][now]
      BY <2>2, <3>1
    <3> QED
      BY <3>1, <3>2 DEF PassedBefore
  <2>5. tokens' \in [User -> 0..SendLimit] /\ passed' \in [User -> [Tick -> Nat]]
    BY <1>T, <2>1
  <2>6. ASSUME SendLimit > 0 PROVE Credit'
    <3> SUFFICES ASSUME NEW u \in User, NEW t \in 0..(now + 1)
                 PROVE  passed'[u][now + 1] + tokens'[u] + t
                          <= SendLimit + (now + 1) + PassedBefore(u, t)'
      BY <2>1 DEF Credit
    <3>1. tokens'[u] = (IF tokens[u] < SendLimit THEN tokens[u] + 1 ELSE SendLimit)
      BY <2>1
    <3>2. tokens[u] \in 0..SendLimit /\ passed[u][now] \in Nat
      BY <1>T
    <3>3. CASE t = now + 1
      BY <1>T, <2>2, <2>4, <3>1, <3>2, <3>3
    <3>4. CASE t # now + 1
      <4>1. t \in 0..now
        BY <1>T, <3>4
      <4>2. passed[u][now] + tokens[u] + t <= SendLimit + now + PassedBefore(u, t)
        BY <2>6, <4>1 DEF LimitInv, Credit
      <4>3. PassedBefore(u, t) \in Nat
        BY <4>1, PassedBeforeNat
      <4>4. tokens'[u] <= tokens[u] + 1 /\ tokens'[u] \in Nat
        BY <1>T, <3>1, <3>2
      <4> QED
        BY <1>T, <2>2, <2>3, <4>1, <4>2, <4>3, <4>4, <3>2
    <3> QED
      BY <3>3, <3>4
  <2>7. ASSUME SendLimit > 0, NEW u \in User, NEW t \in 0..now', NEW v \in 0..now',
               t <= v, v # now'
        PROVE  passed'[u][v] - PassedBefore(u, t)' <= SendLimit + (v - t)
    <3>1. t \in 0..now /\ v \in 0..now
      BY <1>T, <2>1, <2>7
    <3> QED
      BY <2>2, <2>3, <2>7, <3>1 DEF LimitInv, SubmissionRate
  <2> QED
    BY <2>1, <2>5, <2>6, <2>7, LimitInvFrom
<1>4. ASSUME NEW s \in Session,
             \/ \E u \in User : Auth(s, u)
             \/ \E f \in Address : Mail(s, f)
             \/ \E r \in Recipient : RcptRelay(s, r) \/ Rcpt(s, r)
             \/ Greylist(s) \/ GreylistFails(s) \/ Rules(s) \/ HandleInbound(s)
             \/ InsertOutboundJob(s) \/ InsertFails(s) \/ InsertUnconfirmed(s)
             \/ Reset(s)
      PROVE  LimitInv'
  <2>1. UNCHANGED <<now, limits>>
    BY <1>4 DEF Auth, Mail, RcptRelay, Rcpt, Greylist, GreylistFails, Rules, HandleInbound,
                InsertOutboundJob, InsertFails, InsertUnconfirmed, Reset
  <2> QED
    BY <1>1, <2>1
<1>5. CASE Purge \/ UNCHANGED vars
  BY <1>1, <1>5 DEF Purge, vars
<1> QED
  BY <1>2, <1>3, <1>4, <1>5 DEF Next

(* However many sessions an account has, what they submit together keeps to *)
(* the account's rate over every stretch of time.                           *)
THEOREM SubmissionRateCorrect == Spec => []SubmissionRate
<1>1. Init => SoundInv /\ LimitInv
  BY InitSound, InitLimit
<1>2. SoundInv /\ LimitInv /\ [Next]_vars => (SoundInv /\ LimitInv)'
  BY StepSound, StepLimit
<1>3. LimitInv => SubmissionRate
  BY DEF LimitInv, SubmissionRate
<1> QED
  BY <1>1, <1>2, <1>3, PTL DEF Spec

-----------------------------------------------------------------------------

LEMMA StepTxn == txn \in 0..MaxTxn /\ [Next]_vars => (txn \in 0..MaxTxn)'
<1> SUFFICES ASSUME txn \in 0..MaxTxn, [Next]_vars
             PROVE  txn' \in 0..MaxTxn
  OBVIOUS
<1>1. ASSUME NEW s \in Session, NEW f \in Address, Mail(s, f)
      PROVE  txn' \in 0..MaxTxn
  BY <1>1, SessionAssumption DEF Mail
<1>2. ASSUME UNCHANGED txn PROVE txn' \in 0..MaxTxn
  BY <1>2
<1> QED
  BY <1>1, <1>2, ZenonT(60) DEF Next, vars, Auth, RcptRelay, Rcpt, Greylist, GreylistFails, Rules,
       HandleInbound, HandleOutbound, InsertOutboundJob, InsertFails, InsertUnconfirmed,
       Reset, Elapse, Purge

(* Sessions, greylist, limiters and histories keep to their sets.           *)
THEOREM TypeCorrect == Spec => []TypeOK
<1> DEFINE Inv == SoundInv /\ Remembered /\ LimitInv /\ txn \in 0..MaxTxn
<1>1. Init => Inv
  <2>1. Init => txn \in 0..MaxTxn
    BY SessionAssumption DEF Init
  <2> QED
    BY <2>1, InitSound, InitRemembered, InitLimit
<1>2. Inv /\ [Next]_vars => Inv'
  BY StepSound, StepRemembered, StepLimit, StepTxn
<1>3. Inv => TypeOK
  BY DEF SoundInv, Remembered, LimitInv, TypeOK
<1> QED
  BY <1>1, <1>2, <1>3, PTL DEF Spec
=============================================================================
