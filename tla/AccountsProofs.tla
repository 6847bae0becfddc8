--------------------------- MODULE AccountsProofs ---------------------------
(***************************************************************************)
(* What logins, second factors, reset links and the administrators'        *)
(* switches keep true, for any users, requests at the same time, sessions, *)
(* tokens and numbers of backup codes.                                     *)
(*                                                                         *)
(* A request decides by what it has read before.  Each invariant says what *)
(* that is still worth: the codes read by a request are those in the row   *)
(* unless the user's codes are tangled, a login that needed no second      *)
(* factor began before the one that is there now was set up, and a token   *)
(* that is not in use twice has set no password yet when one is about to.  *)
(*                                                                         *)
(* The last part is about Directory, where these users, and mailboxes and  *)
(* addresses, are made, for any users, forms and numbers of applications   *)
(* of the file.  A creation in progress has its user's row to itself       *)
(* (OneMaker), and the file maps its address once (MappedOnce).            *)
(***************************************************************************)
EXTENDS Accounts, Functions, SequenceTheorems, FiniteSetTheorems, TLAPS

Requests ==
       {Idle}
  \cup [at : {"ask", "admit"}, user : User, factors : {1, 2}, since : 0..MaxGen]
  \cup [at : {"verify", "settle"}, user : User, pending : Pending]
  \cup [at : {"read"}, user : User, pending : Pending, index : Nat \ {0}, code : Code]
  \cup [at : {"remove"}, user : User, pending : Pending, code : Code, codes : Seq(Code)]
  \cup [at : {"auth"}, user : User, kind : Authenticated]
  \cup [at : Authenticated, user : User, totp : BOOLEAN]
  \cup [at : {"forget", "forgot"}, user : User]
  \cup [at : {"set", "spend"}, token : Token]

Types == TypeOK /\ req \in [Request -> Requests]

\* A login with the password only began before the second factor there is now.
Before(u, since) == since <= gen /\ (user[u].totp => since < enrolled[u])

FactorInv ==
  /\ \A s \in Session :
       session[s] # NoSession /\ session[s].factors = 1
         => Before(session[s].user, session[s].since)
  /\ \A r \in Request :
       At(r, "admit") /\ req[r].factors = 1 => Before(Who(r), req[r].since)

Using(r, t) == req[r].at \in {"set", "spend"} /\ req[r].token = t

Single(t) ==
  /\ \A q, r \in Request : Using(q, t) /\ Using(r, t) => q = r
  /\ \A r \in Request : Using(r, t) /\ At(r, "set") => uses[t] = 0
  /\ reset[t] # "gone" /\ (\A r \in Request : ~Using(r, t)) => uses[t] = 0
  /\ uses[t] <= 1

ResetInv == \A t \in Token : t \in kept \/ Single(t)

\* The code c was made, and not for another user's present sheet.
Mine(u, c) == c[1] <= gen /\ \A v \in User \ {u} : shown[v] # c[1]

\* The codes that u's row and the requests for u hold are u's.
Owned(u) ==
  /\ \A c \in CodesOf(u) : Mine(u, c)
  /\ \A r \in Request :
       /\ req[r].at \in {"read", "remove"} /\ Who(r) = u => Mine(u, req[r].code)
       /\ At(r, "remove") /\ Who(r) = u => \A i \in DOMAIN req[r].codes : Mine(u, req[r].codes[i])

Sheet(u) == IF shown[u] = 0 THEN {} ELSE {shown[u]} \X (1..NumCodes)

\* The row has what is left of the sheet, and requests have read it as it is.
Orderly(u) ==
  /\ CodesOf(u) = Sheet(u) \ used
  /\ IsInjective(user[u].codes)
  /\ \A r \in Request :
       /\ At(r, "read") /\ Who(r) = u =>
            req[r].index \in DOMAIN user[u].codes /\ user[u].codes[req[r].index] = req[r].code
       /\ At(r, "remove") /\ Who(r) = u =>
            \E i \in DOMAIN user[u].codes :
              /\ user[u].codes[i] = req[r].code
              /\ req[r].codes = RemoveAt(user[u].codes, i)

CodesInv ==
  /\ \A c \in used : c[1] <= gen
  /\ \A u \in User : shown[u] <= gen
  /\ \A u, v \in User : u # v /\ shown[u] # 0 => shown[u] # shown[v]
  /\ \A u \in User : Owned(u)
  /\ \A u \in User \ tangled : Orderly(u)

-----------------------------------------------------------------------------
(* What the requests hold *)

LEMMA Fields ==
  ASSUME Types, NEW r \in Request
  PROVE  /\ req[r].at \in {"ask", "admit"} =>
              /\ Who(r) \in User /\ req[r].factors \in {1, 2} /\ req[r].since \in 0..MaxGen
         /\ req[r].at \in {"verify", "settle", "read", "remove"} =>
              Who(r) \in User /\ req[r].pending \in Pending
         /\ req[r].at \in {"read", "remove"} => req[r].code \in Code
         /\ At(r, "read") => req[r].index \in Nat \ {0}
         /\ At(r, "remove") => req[r].codes \in Seq(Code)
         /\ At(r, "auth") => req[r].kind \in Authenticated
         /\ req[r].at \in Authenticated \cup {"auth", "forget", "forgot"} => Who(r) \in User
         /\ req[r].at \in Authenticated => req[r].totp \in BOOLEAN
         /\ req[r].at \in {"set", "spend"} => req[r].token \in Token
<1>1. req[r] \in Requests
  BY DEF Types
<1> QED
  BY <1>1 DEF Requests, Idle, At, Who, Authenticated, Kind

LEMMA Made ==
  ASSUME NEW u \in User
  PROVE  /\ Idle \in Requests
         /\ \A at \in {"ask", "admit"}, k \in {1, 2}, n \in 0..MaxGen :
              [at |-> at, user |-> u, factors |-> k, since |-> n] \in Requests
         /\ \A at \in {"verify", "settle"}, p \in Pending :
              [at |-> at, user |-> u, pending |-> p] \in Requests
         /\ \A p \in Pending, i \in Nat \ {0}, c \in Code :
              [at |-> "read", user |-> u, pending |-> p, index |-> i, code |-> c] \in Requests
         /\ \A p \in Pending, c \in Code, l \in Seq(Code) :
              [at |-> "remove", user |-> u, pending |-> p, code |-> c, codes |-> l] \in Requests
         /\ \A k \in Authenticated : [at |-> "auth", user |-> u, kind |-> k] \in Requests
         /\ \A k \in Authenticated, b \in BOOLEAN : [at |-> k, user |-> u, totp |-> b] \in Requests
         /\ \A at \in {"forget", "forgot"} : [at |-> at, user |-> u] \in Requests
         /\ \A at \in {"set", "spend"}, t \in Token : [at |-> at, token |-> t] \in Requests
BY DEF Requests

\* What a user's row has left without its i-th code.
LEMMA WithoutOne ==
  ASSUME NEW S, NEW s \in Seq(S), NEW i \in DOMAIN s
  PROVE  /\ RemoveAt(s, i) \in Seq(S)
         /\ Len(RemoveAt(s, i)) = Len(s) - 1
         /\ \A j \in DOMAIN RemoveAt(s, i) :
              /\ j \in Nat
              /\ RemoveAt(s, i)[j] = IF j < i THEN s[j] ELSE s[j + 1]
<1>1. i \in 1..Len(s) /\ Len(s) \in Nat
  OBVIOUS
<1> DEFINE a == SubSeq(s, 1, i - 1)
           b == SubSeq(s, i + 1, Len(s))
<1>2. a \in Seq(S) /\ Len(a) = i - 1 /\ \A j \in 1..(i - 1) : a[j] = s[j]
  BY <1>1
<1>3. b \in Seq(S) /\ Len(b) = Len(s) - i /\ \A j \in 1..(Len(s) - i) : b[j] = s[i + j]
  BY <1>1
<1> HIDE DEF a, b
<1>4. RemoveAt(s, i) = a \o b
  BY DEF RemoveAt, a, b
<1>5. /\ a \o b \in Seq(S) /\ Len(a \o b) = Len(a) + Len(b)
      /\ \A j \in 1..(Len(a) + Len(b)) :
           (a \o b)[j] = IF j <= Len(a) THEN a[j] ELSE b[j - Len(a)]
  BY <1>2, <1>3, ConcatProperties
<1> DEFINE w == RemoveAt(s, i)
<1>6. w = a \o b /\ w \in Seq(S) /\ Len(w) = Len(s) - 1
  BY <1>1, <1>2, <1>3, <1>4, <1>5
<1> HIDE DEF w
<1>7. ASSUME NEW j \in 1..(Len(s) - 1) PROVE w[j] = IF j < i THEN s[j] ELSE s[j + 1]
  <2>1. w[j] = IF j <= i - 1 THEN a[j] ELSE b[j - (i - 1)]
    <3>1. j \in 1..(Len(a) + Len(b)) /\ Len(a) = i - 1
      BY <1>1, <1>2, <1>3
    <3> QED
      BY <1>5, <1>6, <3>1
  <2>2. CASE j < i
    BY <1>1, <1>2, <2>1, <2>2
  <2>3. CASE ~(j < i)
    <3>1. j - (i - 1) \in 1..(Len(s) - i) /\ i + (j - (i - 1)) = j + 1 /\ ~(j <= i - 1)
      BY <1>1, <2>3
    <3> QED
      BY <1>3, <2>1, <2>3, <3>1
  <2> QED
    BY <2>2, <2>3
<1>8. DOMAIN w = 1..(Len(s) - 1)
  BY <1>6
<1>9. \A j \in DOMAIN w : j \in Nat /\ w[j] = IF j < i THEN s[j] ELSE s[j + 1]
  BY <1>1, <1>7, <1>8
<1> QED
  BY <1>6, <1>9 DEF w

LEMMA RemovedIsThere ==
  ASSUME NEW S, NEW s \in Seq(S), NEW i \in Nat \ {0}
  PROVE  /\ Removed(s, i) \in Seq(S)
         /\ \A j \in DOMAIN Removed(s, i) : \E k \in DOMAIN s : Removed(s, i)[j] = s[k]
<1>1. CASE i <= Len(s)
  <2>1. i \in DOMAIN s
    BY <1>1
  <2>2. Removed(s, i) = RemoveAt(s, i)
    BY <1>1 DEF Removed
  <2> DEFINE w == RemoveAt(s, i)
  <2>3. /\ w \in Seq(S) /\ Len(w) = Len(s) - 1 /\ DOMAIN w = 1..Len(w) /\ DOMAIN s = 1..Len(s)
        /\ \A j \in DOMAIN w : w[j] = IF j < i THEN s[j] ELSE s[j + 1]
    BY <2>1, WithoutOne
  <2> HIDE DEF w
  <2>4. ASSUME NEW j \in DOMAIN w PROVE \E k \in DOMAIN s : w[j] = s[k]
    <3>1. j \in DOMAIN s /\ j + 1 \in DOMAIN s
      BY <2>3
    <3> QED
      BY <2>3, <3>1
  <2> QED
    BY <2>2, <2>3, <2>4 DEF w
<1>2. CASE ~(i <= Len(s))
  BY <1>2 DEF Removed
<1> QED
  BY <1>1, <1>2

\* A code that is in a row once is gone when its place is.
LEMMA WithoutItsCode ==
  ASSUME NEW S, NEW s \in Seq(S), NEW i \in DOMAIN s, IsInjective(s)
  PROVE  LET w == RemoveAt(s, i) IN
           /\ IsInjective(w)
           /\ {w[j] : j \in DOMAIN w} = {s[j] : j \in DOMAIN s} \ {s[i]}
<1> DEFINE w == RemoveAt(s, i)
<1>1. /\ w \in Seq(S) /\ Len(w) = Len(s) - 1 /\ DOMAIN w = 1..Len(w) /\ DOMAIN s = 1..Len(s)
      /\ \A j \in DOMAIN w : w[j] = IF j < i THEN s[j] ELSE s[j + 1]
      /\ Len(s) \in Nat /\ i \in 1..Len(s)
  BY WithoutOne
<1> HIDE DEF w
<1>2. \A j, k \in 1..Len(s) : s[j] = s[k] => j = k
  BY <1>1 DEF IsInjective
<1>3. IsInjective(w)
  <2> SUFFICES ASSUME NEW j \in DOMAIN w, NEW k \in DOMAIN w, w[j] = w[k] PROVE j = k
    BY DEF IsInjective
  <2>1. j \in 1..(Len(s) - 1) /\ k \in 1..(Len(s) - 1)
    BY <1>1
  <2> QED
    BY <1>1, <1>2, <2>1
<1>4. ASSUME NEW j \in DOMAIN w PROVE \E k \in DOMAIN s : w[j] = s[k] /\ s[k] # s[i]
  <2>1. j \in 1..(Len(s) - 1)
    BY <1>1
  <2>2. CASE j < i
    BY <1>1, <1>2, <2>1, <2>2
  <2>3. CASE ~(j < i)
    <3>1. w[j] = s[j + 1] /\ j + 1 \in 1..Len(s) /\ j + 1 # i
      BY <1>1, <2>1, <2>3
    <3> QED
      BY <1>1, <1>2, <3>1
  <2> QED
    BY <2>2, <2>3
<1>5. ASSUME NEW k \in DOMAIN s, s[k] # s[i] PROVE \E j \in DOMAIN w : w[j] = s[k]
  <2>1. k \in 1..Len(s) /\ k # i
    BY <1>1, <1>5
  <2>2. CASE k < i
    <3>1. k \in DOMAIN w /\ w[k] = s[k]
      BY <1>1, <2>1, <2>2
    <3> QED
      BY <3>1
  <2>3. CASE k > i
    <3>1. k - 1 \in 1..Len(w) /\ ~(k - 1 < i) /\ (k - 1) + 1 = k
      BY <1>1, <2>1, <2>3
    <3>2. k - 1 \in DOMAIN w /\ w[k - 1] = s[k]
      BY <1>1, <3>1
    <3> QED
      BY <3>2
  <2> QED
    BY <1>1, <2>1, <2>2, <2>3
<1>6. {w[j] : j \in DOMAIN w} = {s[j] : j \in DOMAIN s} \ {s[i]}
  BY <1>4, <1>5
<1> QED
  BY <1>3, <1>6 DEF w

-----------------------------------------------------------------------------
(* Types *)

LEMMA TypesInitially == Init => Types
<1> SUFFICES ASSUME Init PROVE Types
  OBVIOUS
<1>1. user \in [User -> UserRow]
  <2>1. [active |-> TRUE, admin |-> TRUE, totp |-> FALSE, codes |-> <<>>] \in UserRow
    BY DEF UserRow
  <2> QED
    BY <2>1 DEF Init
<1>2. req \in [Request -> Requests]
  BY DEF Init, Requests
<1>3. gen \in 0..MaxGen /\ shown \in [User -> 0..MaxGen] /\ enrolled \in [User -> 0..MaxGen]
  BY AccountsAssumption DEF Init
<1> QED
  BY <1>1, <1>2, <1>3 DEF Init, Types, TypeOK

\* A step that only takes a request further.
LEMMA RequestTypes ==
  ASSUME Types, NEW r \in Request, NEW next \in Requests, Becomes(r, next)
  PROVE  req' \in [Request -> Requests]
BY DEF Types, Becomes

LEMMA StayingTypes ==
  ASSUME Types, UNCHANGED <<traffic, rows, history>>, req' \in [Request -> Requests]
  PROVE  Types'
BY DEF Types, TypeOK, rows, history, codeHistory

LEMMA NoSessionIsNone == NoSession \notin SessionRow
BY DEF NoSession, SessionRow

LEMMA LoginTypes ==
  ASSUME Types, NEW r \in Request, LoggingIn(r)
  PROVE  Types'
<1>0. gen \in 0..MaxGen /\ user \in [User -> UserRow] /\ pending \in [Pending -> User \cup {"none"}]
  BY DEF Types, TypeOK
<1>1. ASSUME NEW u \in User, Login(r, u) PROVE Types'
  <2>1. PICK next : next = [at |-> IF SecondFactor(user[u]) THEN "ask" ELSE "admit",
                            user |-> u, factors |-> 1, since |-> gen]
    OBVIOUS
  <2>2. next \in Requests
    BY <1>0, <2>1, Made
  <2>3. Becomes(r, next) /\ UNCHANGED <<traffic, rows, history>>
    BY <1>1, <2>1 DEF Login
  <2> QED
    BY <2>2, <2>3, RequestTypes, StayingTypes
<1>2. ASSUME NEW p \in Pending, AskSecondFactor(r, p) PROVE Types'
  <2>1. Who(r) \in User
    BY <1>2, Fields DEF AskSecondFactor, At
  <2>2. req' \in [Request -> Requests]
    BY <1>2, <2>1, Made, RequestTypes DEF AskSecondFactor, End
  <2> QED
    BY <1>2, <2>1, <2>2 DEF AskSecondFactor, Types, TypeOK, history, codeHistory
<1>3. ASSUME NEW p \in Pending, VerifyTOTP(r, p) PROVE Types'
  <2>1. PICK next : next = [at |-> "verify", user |-> pending[p], pending |-> p]
    OBVIOUS
  <2>2. pending[p] \in User
    BY <1>0, <1>3 DEF VerifyTOTP
  <2>3. next \in Requests
    BY <2>1, <2>2, Made
  <2>4. Becomes(r, next) /\ UNCHANGED <<traffic, rows, history>>
    BY <1>3, <2>1 DEF VerifyTOTP
  <2> QED
    BY <2>3, <2>4, RequestTypes, StayingTypes
<1>4. ASSUME NEW s \in Session, OpenSession(r, s) PROVE Types'
  <2>1. Who(r) \in User /\ req[r].factors \in {1, 2} /\ req[r].since \in 0..MaxGen
    BY <1>4, Fields DEF OpenSession, At
  <2>2. req' \in [Request -> Requests]
    BY <1>4, <2>1, Made, RequestTypes DEF OpenSession, End
  <2>3. session' \in [Session -> SessionRow \cup {NoSession}]
    BY <1>4, <2>1 DEF OpenSession, Types, TypeOK, SessionRow
  <2> QED
    BY <1>4, <2>2, <2>3 DEF OpenSession, Types, TypeOK, history, codeHistory
<1>5. CASE CheckCode(r)
  <2> DEFINE u == Who(r)
             p == req[r].pending
  <2>1. u \in User /\ p \in Pending
    BY <1>5, Fields DEF CheckCode, At
  <2>2. user[u].codes \in Seq(Code)
    BY <1>0, <2>1 DEF UserRow
  <2>3. UNCHANGED <<traffic, rows, history>>
    BY <1>5 DEF CheckCode
  <2>4. CASE Becomes(r, [at |-> "settle", user |-> u, pending |-> p])
    BY <2>1, <2>3, <2>4, Made, RequestTypes, StayingTypes
  <2>5. ASSUME NEW i \in DOMAIN user[u].codes,
               Becomes(r, [at |-> "read", user |-> u, pending |-> p,
                           index |-> i, code |-> user[u].codes[i]])
        PROVE  Types'
    <3>1. i \in Nat \ {0} /\ user[u].codes[i] \in Code
      BY <2>2
    <3> QED
      BY <2>1, <2>3, <2>5, <3>1, Made, RequestTypes, StayingTypes
  <2>6. CASE End(r)
    BY <2>1, <2>3, <2>6, Made, RequestTypes, StayingTypes DEF End
  <2> QED
    BY <1>5, <2>4, <2>5, <2>6 DEF CheckCode
<1>6. CASE ReadCodes(r)
  <2> DEFINE u == Who(r)
             l == Removed(user[u].codes, req[r].index)
             next == [at |-> "remove", user |-> u, pending |-> req[r].pending,
                      code |-> req[r].code, codes |-> l]
  <2>1. u \in User /\ req[r].pending \in Pending /\ req[r].code \in Code /\ req[r].index \in Nat \ {0}
    BY <1>6, Fields DEF ReadCodes, At
  <2>2. l \in Seq(Code)
    BY <1>0, <2>1, RemovedIsThere DEF UserRow
  <2>3. Becomes(r, next) /\ UNCHANGED <<traffic, rows, history>>
    BY <1>6 DEF ReadCodes
  <2> HIDE DEF l
  <2>4. next \in Requests
    BY <2>1, <2>2, Made
  <2> HIDE DEF next
  <2> QED
    BY <2>3, <2>4, RequestTypes, StayingTypes
<1>7. CASE RemoveCode(r)
  <2> DEFINE u == Who(r)
  <2>1. u \in User /\ req[r].pending \in Pending /\ req[r].code \in Code /\ req[r].codes \in Seq(Code)
    BY <1>7, Fields DEF RemoveCode, At
  <2>2. req' \in [Request -> Requests]
    BY <1>7, <2>1, Made, RequestTypes DEF RemoveCode
  <2>3. user' \in [User -> UserRow]
    BY <1>0, <1>7, <2>1 DEF RemoveCode, UserRow
  <2> QED
    BY <1>7, <2>1, <2>2, <2>3 DEF RemoveCode, Tangles, Types, TypeOK
<1>8. CASE SettlePending(r)
  <2>1. Who(r) \in User /\ req[r].pending \in Pending
    BY <1>8, Fields DEF SettlePending, At
  <2>2. 0 \in 0..MaxGen
    BY AccountsAssumption
  <2>3. req' \in [Request -> Requests]
    BY <1>8, <2>1, <2>2, Made, RequestTypes DEF SettlePending
  <2>4. pending' \in [Pending -> User \cup {"none"}]
    BY <1>0, <1>8, <2>1 DEF SettlePending
  <2> QED
    BY <1>8, <2>3, <2>4 DEF SettlePending, Types, TypeOK, history, codeHistory
<1> QED
  BY <1>1, <1>2, <1>3, <1>4, <1>5, <1>6, <1>7, <1>8 DEF LoggingIn

LEMMA GeneratedCodes ==
  ASSUME Types, gen < MaxGen
  PROVE  /\ gen + 1 \in 1..MaxGen
         /\ Generated \in Seq(Code) /\ Len(Generated) = NumCodes
         /\ \A n \in DOMAIN Generated : n \in 1..NumCodes /\ Generated[n] = <<gen + 1, n>>
<1>1. gen + 1 \in 1..MaxGen /\ NumCodes \in Nat
  BY AccountsAssumption DEF Types, TypeOK
<1> QED
  BY <1>1 DEF Generated, Code

LEMMA LoggedInTypes ==
  ASSUME Types, NEW r \in Request, LoggedIn(r)
  PROVE  Types'
<1>0. gen \in 0..MaxGen /\ user \in [User -> UserRow] /\ MaxGen \in Nat
  BY AccountsAssumption DEF Types, TypeOK
<1>1. ASSUME NEW s \in Session, NEW kind \in Authenticated, Authenticate(r, s, kind)
      PROVE  Types'
  <2>1. session[s].user \in User
    BY <1>1 DEF Authenticate, Types, TypeOK, SessionRow
  <2>2. [at |-> "auth", user |-> session[s].user, kind |-> kind] \in Requests
    BY <2>1, Made
  <2> QED
    BY <1>1, <2>2, RequestTypes, StayingTypes DEF Authenticate
<1>2. CASE Authorize(r)
  <2> DEFINE u == Who(r)
             next == [at |-> req[r].kind, user |-> u, totp |-> user[u].totp]
  <2>1. u \in User /\ req[r].kind \in Authenticated
    BY <1>2, Fields DEF Authorize, At
  <2>2. user[u].totp \in BOOLEAN
    BY <1>0, <2>1 DEF UserRow
  <2>3. next \in Requests /\ Idle \in Requests
    BY <2>1, <2>2, Made
  <2>4. UNCHANGED <<traffic, rows, history>> /\ (Becomes(r, next) \/ Becomes(r, Idle))
    BY <1>2 DEF Authorize, End
  <2> HIDE DEF next
  <2> QED
    BY <2>3, <2>4, RequestTypes, StayingTypes
<1>3. ASSUME SetupTOTP(r) \/ ForgetSetup(r) PROVE Types'
  <2>1. Who(r) \in User
    BY <1>3, Fields DEF SetupTOTP, ForgetSetup, At, Authenticated, Kind
  <2>2. req' \in [Request -> Requests]
    BY <1>3, <2>1, Made, RequestTypes DEF SetupTOTP, ForgetSetup, End
  <2>3. pendingSetups' \subseteq User
    BY <1>3, <2>1 DEF SetupTOTP, ForgetSetup, Types, TypeOK
  <2> QED
    BY <1>3, <2>2, <2>3 DEF SetupTOTP, ForgetSetup, Types, TypeOK, history, codeHistory
<1>4. ASSUME EnableTOTP(r) \/ RegenerateCodes(r) \/ DisableTOTP(r) PROVE Types'
  <2> DEFINE u == Who(r)
  <2>1. u \in User
    BY <1>4, Fields DEF EnableTOTP, RegenerateCodes, DisableTOTP, At, Authenticated, Kind
  <2>2. req' \in [Request -> Requests]
    BY <1>4, <2>1, Made, RequestTypes DEF EnableTOTP, RegenerateCodes, DisableTOTP, End
  <2>3. CASE EnableTOTP(r) \/ RegenerateCodes(r)
    <3>1. gen + 1 \in 0..MaxGen /\ Generated \in Seq(Code)
      BY <1>0, <2>3, GeneratedCodes DEF EnableTOTP, RegenerateCodes
    <3>2. user' \in [User -> UserRow]
      <4>1. user[u] \in UserRow
        BY <1>0, <2>1
      <4>2. /\ [user[u] EXCEPT !.codes = Generated] \in UserRow
            /\ [user[u] EXCEPT !.totp = TRUE, !.codes = Generated] \in UserRow
        BY <3>1, <4>1 DEF UserRow
      <4>3. \/ user' = [user EXCEPT ![u] = [user[u] EXCEPT !.codes = Generated]]
            \/ user' = [user EXCEPT ![u] = [user[u] EXCEPT !.totp = TRUE, !.codes = Generated]]
        BY <1>0, <2>1, <2>3 DEF EnableTOTP, RegenerateCodes
      <4> QED
        BY <1>0, <4>2, <4>3
    <3>3. gen' \in 0..MaxGen /\ shown' \in [User -> 0..MaxGen] /\ enrolled' \in [User -> 0..MaxGen]
      <4>1. /\ gen' = gen + 1 /\ shown' = [shown EXCEPT ![u] = gen + 1]
            /\ enrolled' = enrolled \/ enrolled' = [enrolled EXCEPT ![u] = gen + 1]
        BY <2>3 DEF EnableTOTP, RegenerateCodes
      <4> QED
        BY <3>1, <4>1 DEF Types, TypeOK
    <3>4. tangled' \subseteq User
      BY <2>1, <2>3 DEF EnableTOTP, RegenerateCodes, Tangles, Types, TypeOK
    <3> QED
      BY <2>2, <2>3, <3>2, <3>3, <3>4 DEF EnableTOTP, RegenerateCodes, Types, TypeOK
  <2>4. CASE DisableTOTP(r)
    <3>1. <<>> \in Seq(Code) /\ 0 \in 0..MaxGen
      BY <1>0
    <3>2. user' \in [User -> UserRow] /\ shown' \in [User -> 0..MaxGen]
      BY <1>0, <2>1, <2>4, <3>1, ZenonT(60) DEF DisableTOTP, UserRow, Types, TypeOK
    <3> QED
      BY <2>1, <2>2, <2>4, <3>2 DEF DisableTOTP, Tangles, Types, TypeOK
  <2> QED
    BY <1>4, <2>3, <2>4
<1>5. ASSUME NEW s \in Session, CancelSession(r, s) PROVE Types'
  <2>1. Who(r) \in User
    BY <1>5, Fields DEF CancelSession, At, Authenticated, Kind
  <2>2. req' \in [Request -> Requests]
    BY <1>5, <2>1, Made, RequestTypes DEF CancelSession, End
  <2>3. session' \in [Session -> SessionRow \cup {NoSession}]
    BY <1>5 DEF CancelSession, Types, TypeOK
  <2> QED
    BY <1>5, <2>2, <2>3 DEF CancelSession, Types, TypeOK, history, codeHistory
<1>6. ASSUME NEW v \in User, Toggle(r, v) PROVE Types'
  <2>1. Who(r) \in User
    BY <1>6, Fields DEF Toggle, At, Authenticated, Kind, AdminOnly
  <2>2. req' \in [Request -> Requests]
    BY <1>6, <2>1, Made, RequestTypes DEF Toggle, End
  <2>3. user' \in [User -> UserRow]
    BY <1>0, <1>6 DEF Toggle, UserRow
  <2>4. crossed' \in BOOLEAN
    BY <1>6 DEF Toggle
  <2> QED
    BY <1>6, <2>2, <2>3, <2>4 DEF Toggle, Types, TypeOK, codeHistory
<1> QED
  BY <1>1, <1>2, <1>3, <1>4, <1>5, <1>6 DEF LoggedIn

LEMMA ResettingTypes ==
  ASSUME Types, NEW r \in Request, Resetting(r) \/ GiveUp(r)
  PROVE  Types'
<1>0. Idle \in Requests
  BY DEF Requests
<1>1. ASSUME NEW u \in User, Forgot(r, u) PROVE Types'
  <2>1. [at |-> "forgot", user |-> u] \in Requests
    BY Made
  <2> QED
    BY <1>1, <2>1, RequestTypes, StayingTypes DEF Forgot
<1>2. ASSUME NEW t \in Token, CreateReset(r, t) PROVE Types'
  <2>1. req' \in [Request -> Requests]
    BY <1>0, <1>2, RequestTypes DEF CreateReset, End
  <2> QED
    BY <1>2, <2>1 DEF CreateReset, Types, TypeOK, history, codeHistory
<1>3. ASSUME NEW t \in Token, ResetPassword(r, t) PROVE Types'
  <2>1. [at |-> "set", token |-> t] \in Requests
    BY DEF Requests
  <2>2. req' \in [Request -> Requests]
    BY <1>3, <2>1, RequestTypes DEF ResetPassword
  <2> QED
    BY <1>3, <2>2 DEF ResetPassword, Types, TypeOK, rows, codeHistory
<1>4. CASE SetPassword(r)
  <2>1. req[r].token \in Token
    BY <1>4, Fields DEF SetPassword, At
  <2>2. req[r] \in [at : {"set", "spend"}, token : Token]
    BY <1>4 DEF SetPassword, At, Types, Requests, Idle, Authenticated, Kind
  <2>3. [req[r] EXCEPT !.at = "spend"] \in Requests
    BY <2>2 DEF Requests
  <2>4. req' \in [Request -> Requests]
    BY <1>4, <2>3 DEF SetPassword, Goto, Types
  <2>5. uses' \in [Token -> Nat]
    BY <1>4, <2>1 DEF SetPassword, Types, TypeOK
  <2> QED
    BY <1>4, <2>4, <2>5 DEF SetPassword, Types, TypeOK, rows, codeHistory
<1>5. CASE SpendToken(r)
  <2>1. req[r].token \in Token
    BY <1>5, Fields DEF SpendToken, At
  <2>2. req' \in [Request -> Requests]
    BY <1>0, <1>5, RequestTypes DEF SpendToken, End
  <2>3. reset' \in [Token -> {"none", "valid", "gone"}] /\ kept' \subseteq Token
    BY <1>5, <2>1 DEF SpendToken, Types, TypeOK
  <2> QED
    BY <1>5, <2>2, <2>3 DEF SpendToken, Types, TypeOK, codeHistory
<1>6. CASE GiveUp(r)
  BY <1>0, <1>6, RequestTypes, StayingTypes DEF GiveUp, End
<1> QED
  BY <1>1, <1>2, <1>3, <1>4, <1>5, <1>6 DEF Resetting

LEMMA TypesKept == Types /\ [Next]_vars => Types'
<1> SUFFICES ASSUME Types, [Next]_vars PROVE Types'
  OBVIOUS
<1>1. CASE Expire
  BY <1>1 DEF Expire, Types, TypeOK, history, codeHistory
<1>2. ASSUME NEW s \in Session, Logout(s) PROVE Types'
  BY <1>2 DEF Logout, Types, TypeOK, history, codeHistory
<1>3. CASE UNCHANGED vars
  BY <1>3, StayingTypes DEF vars, Types
<1> QED
  BY <1>1, <1>2, <1>3, LoginTypes, LoggedInTypes, ResettingTypes DEF Next

-----------------------------------------------------------------------------
(* An administrator *)

LEMMA SwitchesLeftAlone ==
  ASSUME AnAdministratorRemains, crossed' = crossed,
         \A u \in User : user'[u].active = user[u].active /\ user'[u].admin = user[u].admin
  PROVE  AnAdministratorRemains'
BY DEF AnAdministratorRemains

LEMMA AdminKept == Types /\ AnAdministratorRemains /\ [Next]_vars => AnAdministratorRemains'
<1> SUFFICES ASSUME Types, AnAdministratorRemains, [Next]_vars PROVE AnAdministratorRemains'
  OBVIOUS
<1>0. user \in [User -> UserRow]
  BY DEF Types, TypeOK
<1>1. ASSUME UNCHANGED <<user, crossed>> PROVE AnAdministratorRemains'
  BY <1>1, SwitchesLeftAlone
<1>2. ASSUME NEW r \in Request,
             RemoveCode(r) \/ EnableTOTP(r) \/ DisableTOTP(r) \/ RegenerateCodes(r)
      PROVE  AnAdministratorRemains'
  <2>1. /\ crossed' = crossed
        /\ \A u \in User : user'[u].active = user[u].active /\ user'[u].admin = user[u].admin
    <3>1. crossed' = crossed
      BY <1>2 DEF RemoveCode, EnableTOTP, DisableTOTP, RegenerateCodes
    <3>2. CASE RemoveCode(r)
      BY <1>0, <3>1, <3>2 DEF RemoveCode, UserRow
    <3>3. CASE EnableTOTP(r)
      BY <1>0, <3>1, <3>3 DEF EnableTOTP, UserRow
    <3>4. CASE DisableTOTP(r)
      BY <1>0, <3>1, <3>4 DEF DisableTOTP, UserRow
    <3>5. CASE RegenerateCodes(r)
      BY <1>0, <3>1, <3>5 DEF RegenerateCodes, UserRow
    <3> QED
      BY <1>2, <3>2, <3>3, <3>4, <3>5
  <2> QED
    BY <2>1, SwitchesLeftAlone
<1>3. ASSUME NEW r \in Request, NEW v \in User, Toggle(r, v) PROVE AnAdministratorRemains'
  <2> DEFINE a == Who(r)
  <2>1. a \in User /\ v # a
    BY <1>3, Fields DEF Toggle, MayToggle, Authenticated, Kind, AdminOnly
  <2>2. user'[a] = user[a]
    BY <1>0, <1>3, <2>1 DEF Toggle
  <2>3. crossed' = (crossed \/ ~user[a].active \/ ~user[a].admin)
    BY <1>3 DEF Toggle
  <2> QED
    BY <2>1, <2>2, <2>3 DEF AnAdministratorRemains
<1>4. ASSUME NEW r \in Request, LoggingIn(r) PROVE AnAdministratorRemains'
  BY <1>1, <1>2, <1>4
     DEF LoggingIn, Login, AskSecondFactor, VerifyTOTP, OpenSession, CheckCode, ReadCodes,
         SettlePending, rows, history
<1>5. ASSUME NEW r \in Request, LoggedIn(r) PROVE AnAdministratorRemains'
  BY <1>1, <1>2, <1>3, <1>5
     DEF LoggedIn, Authenticate, Authorize, SetupTOTP, ForgetSetup, CancelSession, rows, history
<1>6. ASSUME NEW r \in Request, Resetting(r) \/ GiveUp(r) PROVE AnAdministratorRemains'
  BY <1>1, <1>6
     DEF Resetting, GiveUp, Forgot, CreateReset, ResetPassword, SetPassword, SpendToken,
         rows, history
<1>7. CASE Expire \/ \E s \in Session : Logout(s)
  BY <1>1, <1>7 DEF Expire, Logout, history
<1>8. CASE UNCHANGED vars
  BY <1>1, <1>8 DEF vars, rows, history
<1> QED
  BY <1>4, <1>5, <1>6, <1>7, <1>8 DEF Next

-----------------------------------------------------------------------------
(* Second factors *)

\* A step that lets nobody in with a password only.
NobodyNew ==
  /\ gen' \in Nat /\ gen' >= gen
  /\ \A u \in User : user'[u].totp =>
       \/ user[u].totp /\ enrolled'[u] = enrolled[u]
       \/ enrolled'[u] = gen + 1
  /\ \A s \in Session : session'[s] \in {session[s], NoSession}
  /\ \A r \in Request :
       req'[r] = req[r] \/ req'[r].at # "admit" \/ req'[r].factors # 1

LEMMA NobodyNewIsFine ==
  ASSUME Types, FactorInv, NobodyNew
  PROVE  FactorInv'
<1>0. gen \in Nat /\ gen' \in Nat /\ gen' >= gen /\ enrolled \in [User -> 0..MaxGen] /\ MaxGen \in Nat
  BY AccountsAssumption DEF Types, TypeOK, NobodyNew
<1>1. ASSUME NEW u \in User, NEW since \in 0..MaxGen, Before(u, since) PROVE Before(u, since)'
  <2>1. since <= gen /\ (user[u].totp => since < enrolled[u]) /\ since \in Nat
    BY <1>0, <1>1 DEF Before
  <2>2. user'[u].totp => \/ user[u].totp /\ enrolled'[u] = enrolled[u]
                         \/ enrolled'[u] = gen + 1
    BY DEF NobodyNew
  <2> QED
    BY <1>0, <2>1, <2>2 DEF Before
<1>2. ASSUME NEW s \in Session, session'[s] # NoSession, session'[s].factors = 1
      PROVE  Before(session[s].user, session[s].since)' /\ session'[s] = session[s]
  <2>1. session'[s] = session[s]
    BY <1>2 DEF NobodyNew
  <2>2. session[s].user \in User /\ session[s].since \in 0..MaxGen
    BY <1>2, <2>1 DEF Types, TypeOK, SessionRow
  <2>3. Before(session[s].user, session[s].since)
    BY <1>2, <2>1 DEF FactorInv
  <2> QED
    BY <1>1, <2>1, <2>2, <2>3
<1>3. ASSUME NEW r \in Request, At(r, "admit")', req'[r].factors = 1
      PROVE  Before(Who(r), req[r].since)'
  <2>1. req'[r] = req[r]
    BY <1>3 DEF NobodyNew, At
  <2>2. Who(r) \in User /\ req[r].since \in 0..MaxGen
    BY <1>3, <2>1, Fields DEF At
  <2>3. Before(Who(r), req[r].since)
    BY <1>3, <2>1 DEF FactorInv, At
  <2>4. Who(r)' = Who(r)
    BY <2>1 DEF Who
  <2> QED
    BY <1>1, <2>1, <2>2, <2>3, <2>4
<1> QED
  BY <1>2, <1>3 DEF FactorInv

LEMMA FactorKept == Types /\ FactorInv /\ [Next]_vars => FactorInv'
<1> SUFFICES ASSUME Types, FactorInv, [Next]_vars PROVE FactorInv'
  OBVIOUS
<1>0. /\ gen \in Nat /\ req = [r \in Request |-> req[r]] /\ user \in [User -> UserRow]
      /\ session = [s \in Session |-> session[s]] /\ enrolled \in [User -> 0..MaxGen]
  BY DEF Types, TypeOK
<1>1. ASSUME NEW r \in Request, NEW next, Becomes(r, next),
             next.at # "admit" \/ next.factors # 1,
             UNCHANGED <<user, gen, enrolled>>,
             \A s \in Session : session'[s] \in {session[s], NoSession}
      PROVE  FactorInv'
  BY <1>0, <1>1, NobodyNewIsFine DEF Becomes, NobodyNew
<1>2. ASSUME NEW r \in Request, LoggingIn(r) PROVE FactorInv'
  <2>1. ASSUME NEW u \in User, Login(r, u) PROVE FactorInv'
    <3>1. /\ UNCHANGED <<user, gen, enrolled, session>>
          /\ Becomes(r, [at |-> IF SecondFactor(user[u]) THEN "ask" ELSE "admit",
                         user |-> u, factors |-> 1, since |-> gen])
      BY <2>1 DEF Login, rows, history, codeHistory
    <3>2. CASE user[u].totp
      BY <1>1, <3>1, <3>2 DEF SecondFactor
    <3>3. CASE ~user[u].totp
      <4>1. req'[r] = [at |-> "admit", user |-> u, factors |-> 1, since |-> gen]
            /\ \A q \in Request \ {r} : req'[q] = req[q]
        BY <1>0, <3>1, <3>3 DEF SecondFactor, Becomes
      <4>2. Before(u, gen)
        BY <1>0, <3>3 DEF Before
      <4> QED
        BY <3>1, <4>1, <4>2 DEF FactorInv, Before, At, Who
    <3> QED
      BY <3>2, <3>3
  <2>2. ASSUME NEW p \in Pending, AskSecondFactor(r, p) PROVE FactorInv'
    BY <1>1, <2>2 DEF AskSecondFactor, End, Idle, history, codeHistory
  <2>3. ASSUME NEW p \in Pending, VerifyTOTP(r, p) PROVE FactorInv'
    BY <1>1, <2>3 DEF VerifyTOTP, rows, history, codeHistory
  <2>4. ASSUME NEW s \in Session, OpenSession(r, s) PROVE FactorInv'
    <3>1. /\ UNCHANGED <<user, gen, enrolled>> /\ At(r, "admit")
          /\ session' = [session EXCEPT ![s] =
               [user |-> Who(r), factors |-> req[r].factors, since |-> req[r].since]]
          /\ req' = [req EXCEPT ![r] = Idle]
      BY <2>4 DEF OpenSession, End, Becomes, history, codeHistory
    <3>2. /\ session'[s] = [user |-> Who(r), factors |-> req[r].factors, since |-> req[r].since]
          /\ \A q \in Session \ {s} : session'[q] = session[q]
          /\ req'[r] = Idle /\ \A q \in Request \ {r} : req'[q] = req[q]
      BY <1>0, <3>1
    <3>3. ~At(r, "admit")'
      BY <3>2 DEF At, Idle
    <3>4. req[r].factors = 1 => Before(Who(r), req[r].since)
      BY <3>1 DEF FactorInv
    <3> QED
      BY <3>1, <3>2, <3>3, <3>4 DEF FactorInv, Before, At, Who
  <2>5. CASE CheckCode(r)
    BY <1>1, <2>5 DEF CheckCode, End, Idle, rows, history, codeHistory
  <2>6. CASE ReadCodes(r)
    BY <1>1, <2>6 DEF ReadCodes, rows, history, codeHistory
  <2>7. CASE RemoveCode(r)
    <3>1. \A u \in User : user'[u].totp = user[u].totp
      BY <1>0, <2>7 DEF RemoveCode, UserRow
    <3>2. NobodyNew
      BY <1>0, <2>7, <3>1 DEF RemoveCode, Becomes, NobodyNew
    <3> QED
      BY <3>2, NobodyNewIsFine
  <2>8. CASE SettlePending(r)
    BY <1>1, <2>8 DEF SettlePending, history, codeHistory
  <2> QED
    BY <1>2, <2>1, <2>2, <2>3, <2>4, <2>5, <2>6, <2>7, <2>8 DEF LoggingIn
<1>3. ASSUME NEW r \in Request, LoggedIn(r) PROVE FactorInv'
  <2>1. ASSUME NEW s \in Session, NEW kind \in Authenticated, Authenticate(r, s, kind)
        PROVE FactorInv'
    BY <1>1, <2>1 DEF Authenticate, rows, history, codeHistory
  <2>2. CASE Authorize(r)
    <3>1. req[r].kind # "admit"
      BY <2>2, Fields DEF Authorize, Authenticated, Kind
    <3> QED
      BY <1>1, <2>2, <3>1 DEF Authorize, End, Idle, rows, history, codeHistory
  <2>3. CASE SetupTOTP(r) \/ ForgetSetup(r) \/ \E s \in Session : CancelSession(r, s)
    BY <1>0, <1>1, <2>3 DEF SetupTOTP, ForgetSetup, CancelSession, End, Idle, history, codeHistory
  <2>4. CASE EnableTOTP(r)
    <3> DEFINE u == Who(r)
    <3>1. u \in User
      BY <2>4, Fields DEF EnableTOTP, At, Authenticated, Kind
    <3>2. /\ \A v \in User \ {u} : user'[v] = user[v] /\ enrolled'[v] = enrolled[v]
          /\ enrolled'[u] = gen + 1 /\ gen' = gen + 1
      BY <1>0, <2>4, <3>1 DEF EnableTOTP
    <3>3. session' = session /\ Becomes(r, [at |-> "forget", user |-> u])
      BY <2>4 DEF EnableTOTP
    <3>4. NobodyNew
      BY <1>0, <3>2, <3>3 DEF Becomes, NobodyNew
    <3> QED
      BY <3>4, NobodyNewIsFine
  <2>5. CASE DisableTOTP(r)
    <3>1. \A u \in User : user'[u].totp => user[u].totp
      BY <1>0, <2>5 DEF DisableTOTP, UserRow
    <3>2. NobodyNew
      BY <1>0, <2>5, <3>1 DEF DisableTOTP, End, Idle, Becomes, NobodyNew
    <3> QED
      BY <3>2, NobodyNewIsFine
  <2>6. CASE RegenerateCodes(r)
    <3>1. \A u \in User : user'[u].totp = user[u].totp
      BY <1>0, <2>6 DEF RegenerateCodes, UserRow
    <3>2. NobodyNew
      BY <1>0, <2>6, <3>1 DEF RegenerateCodes, End, Idle, Becomes, NobodyNew
    <3> QED
      BY <3>2, NobodyNewIsFine
  <2>7. ASSUME NEW v \in User, Toggle(r, v) PROVE FactorInv'
    <3>1. \A u \in User : user'[u].totp = user[u].totp
      BY <1>0, <2>7 DEF Toggle, UserRow
    <3>2. NobodyNew
      BY <1>0, <2>7, <3>1 DEF Toggle, End, Idle, Becomes, NobodyNew, codeHistory
    <3> QED
      BY <3>2, NobodyNewIsFine
  <2> QED
    BY <1>3, <2>1, <2>2, <2>3, <2>4, <2>5, <2>6, <2>7 DEF LoggedIn
<1>4. ASSUME NEW r \in Request, Resetting(r) \/ GiveUp(r) PROVE FactorInv'
  <2>1. UNCHANGED <<user, gen, enrolled, session>>
    BY <1>4 DEF Resetting, GiveUp, Forgot, CreateReset, ResetPassword, SetPassword, SpendToken,
                rows, history, codeHistory
  <2>2. CASE SetPassword(r)
    <3>1. req[r] \in [at : {"set", "spend"}, token : Token]
      BY <2>2 DEF SetPassword, At, Types, Requests, Idle, Authenticated, Kind
    <3>2. req'[r].at = "spend" /\ \A q \in Request \ {r} : req'[q] = req[q]
      BY <1>0, <2>2, <3>1 DEF SetPassword, Goto
    <3> QED
      BY <1>0, <2>1, <3>2, NobodyNewIsFine DEF NobodyNew
  <2> QED
    BY <1>1, <1>4, <2>1, <2>2
       DEF Resetting, GiveUp, Forgot, CreateReset, ResetPassword, SpendToken, End, Idle
<1>5. CASE Expire \/ \E s \in Session : Logout(s)
  BY <1>0, <1>5, NobodyNewIsFine DEF Expire, Logout, NobodyNew, history, codeHistory
<1>6. CASE UNCHANGED vars
  BY <1>0, <1>6, NobodyNewIsFine DEF vars, rows, history, codeHistory, NobodyNew
<1> QED
  BY <1>2, <1>3, <1>4, <1>5, <1>6 DEF Next

-----------------------------------------------------------------------------
(* Reset links *)

\* A step that sets no password and takes no token into use.
LinksStay ==
  /\ uses' = uses /\ kept' = kept
  /\ \A t \in Token : reset'[t] # "gone" => reset[t] # "gone"
  /\ \A r \in Request :
       req'[r] = req[r] \/ (~At(r, "spend") /\ req'[r].at \notin {"set", "spend"})

LEMMA LinksStayIsFine == ASSUME ResetInv, LinksStay PROVE ResetInv'
<1> SUFFICES ASSUME NEW t \in Token, t \notin kept PROVE Single(t)'
  BY DEF ResetInv, LinksStay
<1>1. Single(t) /\ uses' = uses
  BY DEF ResetInv, LinksStay
<1>2. \A r \in Request : Using(r, t)' => Using(r, t) /\ req'[r] = req[r]
  BY DEF LinksStay, Using
<1>3. \A r \in Request : Using(r, t) /\ ~Using(r, t)' => At(r, "set")
  BY DEF LinksStay, Using, At
<1>4. reset'[t] # "gone" => reset[t] # "gone"
  BY DEF LinksStay
<1> QED
  BY <1>1, <1>2, <1>3, <1>4 DEF Single, At

LEMMA ResetKept == Types /\ ResetInv /\ [Next]_vars => ResetInv'
<1> SUFFICES ASSUME Types, ResetInv, [Next]_vars PROVE ResetInv'
  OBVIOUS
<1>0. /\ req = [r \in Request |-> req[r]] /\ uses \in [Token -> Nat]
      /\ reset \in [Token -> {"none", "valid", "gone"}]
  BY DEF Types, TypeOK
<1>1. ASSUME NEW r \in Request, NEW next, Becomes(r, next), ~At(r, "spend"),
             next.at \notin {"set", "spend"}, UNCHANGED <<uses, kept>>,
             \A t \in Token : reset'[t] # "gone" => reset[t] # "gone"
      PROVE  ResetInv'
  BY <1>0, <1>1, LinksStayIsFine DEF Becomes, LinksStay
<1>2. ASSUME NEW r \in Request, LoggingIn(r) PROVE ResetInv'
  <2>1. UNCHANGED <<uses, kept, reset>> /\ ~At(r, "spend")
    BY <1>2 DEF LoggingIn, Login, AskSecondFactor, VerifyTOTP, OpenSession, CheckCode, ReadCodes,
                RemoveCode, SettlePending, rows, history, At
  <2>2. ASSUME NEW next, Becomes(r, next), next.at \notin {"set", "spend"} PROVE ResetInv'
    BY <1>1, <2>1, <2>2
  <2>3. CASE \E u \in User : Login(r, u)
    BY <2>2, <2>3 DEF Login
  <2>4. CASE \E p \in Pending : AskSecondFactor(r, p) \/ VerifyTOTP(r, p)
    BY <2>2, <2>4 DEF AskSecondFactor, VerifyTOTP, End, Idle
  <2>5. CASE \E s \in Session : OpenSession(r, s)
    BY <2>2, <2>5 DEF OpenSession, End, Idle
  <2>6. CASE CheckCode(r)
    BY <2>2, <2>6 DEF CheckCode, End, Idle
  <2>7. CASE ReadCodes(r) \/ RemoveCode(r) \/ SettlePending(r)
    BY <2>2, <2>7 DEF ReadCodes, RemoveCode, SettlePending
  <2> QED
    BY <1>2, <2>3, <2>4, <2>5, <2>6, <2>7 DEF LoggingIn
<1>3. ASSUME NEW r \in Request, LoggedIn(r) PROVE ResetInv'
  <2>1. UNCHANGED <<uses, kept, reset>> /\ ~At(r, "spend")
    BY <1>3 DEF LoggedIn, Authenticate, Authorize, SetupTOTP, EnableTOTP, ForgetSetup, DisableTOTP,
                RegenerateCodes, CancelSession, Toggle, AdminOnly, rows, history, At
  <2>2. At(r, "auth") => req[r].kind \notin {"set", "spend"}
    BY Fields DEF Authenticated, Kind
  <2>3. ASSUME NEW next, Becomes(r, next), next.at \notin {"set", "spend"} PROVE ResetInv'
    BY <1>1, <2>1, <2>3
  <2>4. CASE \E s \in Session, kind \in Authenticated : Authenticate(r, s, kind)
    BY <2>3, <2>4 DEF Authenticate
  <2>5. CASE Authorize(r)
    BY <2>2, <2>3, <2>5 DEF Authorize, End, Idle
  <2>6. CASE SetupTOTP(r) \/ EnableTOTP(r) \/ ForgetSetup(r) \/ DisableTOTP(r) \/ RegenerateCodes(r)
    BY <2>3, <2>6 DEF SetupTOTP, EnableTOTP, ForgetSetup, DisableTOTP, RegenerateCodes, End, Idle
  <2>7. CASE (\E s \in Session : CancelSession(r, s)) \/ \E v \in User : Toggle(r, v)
    BY <2>3, <2>7 DEF CancelSession, Toggle, End, Idle
  <2> QED
    BY <1>3, <2>4, <2>5, <2>6, <2>7 DEF LoggedIn
<1>4. ASSUME NEW r \in Request, GiveUp(r) \/ \E u \in User : Forgot(r, u) PROVE ResetInv'
  BY <1>1, <1>4 DEF GiveUp, Forgot, End, Idle, At, rows, history
<1>5. ASSUME NEW r \in Request, NEW t \in Token, CreateReset(r, t) PROVE ResetInv'
  <2>1. \A d \in Token : reset'[d] # "gone" => reset[d] # "gone"
    BY <1>0, <1>5 DEF CreateReset
  <2> QED
    BY <1>1, <1>5, <2>1 DEF CreateReset, End, Idle, At, history
<1>6. ASSUME NEW r \in Request, NEW t \in Token, ResetPassword(r, t) PROVE ResetInv'
  <2>1. /\ At(r, "idle") /\ reset[t] = "valid" /\ UNCHANGED <<reset, uses>>
        /\ kept' = IF \E q \in Request : Using(q, t) THEN kept \cup {t} ELSE kept
    BY <1>6 DEF ResetPassword, Using, rows
  <2>2. req'[r] = [at |-> "set", token |-> t] /\ \A q \in Request \ {r} : req'[q] = req[q]
    BY <1>0, <1>6 DEF ResetPassword, Becomes
  <2>3. /\ Using(r, t)' /\ \A d \in Token : ~Using(r, d) /\ (Using(r, d)' => d = t)
        /\ \A q \in Request \ {r} : \A d \in Token : Using(q, d)' <=> Using(q, d)
    BY <2>1, <2>2 DEF Using, At
  <2>4. ASSUME NEW d \in Token, d \notin kept', d # t PROVE Single(d)'
    <3>1. Single(d)
      BY <2>1, <2>4 DEF ResetInv
    <3>2. \A q \in Request : Using(q, d)' => q # r
      BY <2>3, <2>4
    <3> QED
      BY <2>1, <2>2, <2>3, <3>1, <3>2 DEF Single, At
  <2>5. ASSUME t \notin kept' PROVE Single(t)'
    <3>1. Single(t) /\ \A q \in Request : ~Using(q, t)
      BY <2>1, <2>5 DEF ResetInv
    <3>2. uses[t] = 0
      BY <2>1, <3>1 DEF Single
    <3>3. \A q \in Request : Using(q, t)' => q = r
      BY <2>3, <3>1
    <3> QED
      BY <2>1, <2>3, <3>2, <3>3 DEF Single
  <2> QED
    BY <2>4, <2>5 DEF ResetInv
<1>7. ASSUME NEW r \in Request, SetPassword(r) PROVE ResetInv'
  <2>0. PICK t : t = req[r].token
    OBVIOUS
  <2>1. t \in Token /\ At(r, "set") /\ UNCHANGED <<reset, kept>> /\ uses' = [uses EXCEPT ![t] = @ + 1]
    BY <1>7, <2>0, Fields DEF SetPassword, At, rows
  <2>2. req[r] \in [at : {"set", "spend"}, token : Token]
    BY <2>1 DEF At, Types, Requests, Idle, Authenticated, Kind
  <2>3. /\ req'[r].at = "spend" /\ req'[r].token = t
        /\ \A q \in Request \ {r} : req'[q] = req[q]
    BY <1>0, <1>7, <2>0, <2>2 DEF SetPassword, Goto
  <2>4. /\ Using(r, t) /\ Using(r, t)' /\ \A d \in Token : Using(r, d)' => d = t
        /\ \A q \in Request : \A d \in Token : Using(q, d)' <=> Using(q, d)
    BY <2>0, <2>1, <2>3 DEF Using, At
  <2>5. ASSUME NEW d \in Token, d \notin kept, d # t PROVE Single(d)'
    <3>1. Single(d) /\ uses'[d] = uses[d]
      BY <1>0, <2>1, <2>5 DEF ResetInv
    <3>2. \A q \in Request : Using(q, d)' => q # r
      BY <2>4, <2>5
    <3> QED
      BY <2>1, <2>3, <2>4, <3>1, <3>2 DEF Single, At
  <2>6. ASSUME t \notin kept PROVE Single(t)'
    <3>1. uses[t] = 0 /\ \A q \in Request : Using(q, t) => q = r
      BY <2>1, <2>4, <2>6 DEF ResetInv, Single
    <3>2. uses'[t] = 1
      BY <1>0, <2>1, <3>1
    <3>3. ~At(r, "set")'
      BY <2>3 DEF At
    <3>4. \A q \in Request : Using(q, t)' => q = r
      BY <2>1, <2>4, <3>1
    <3> QED
      BY <2>4, <3>2, <3>3, <3>4 DEF Single
  <2> QED
    BY <2>1, <2>5, <2>6 DEF ResetInv
<1>8. ASSUME NEW r \in Request, SpendToken(r) PROVE ResetInv'
  <2>0. PICK t : t = req[r].token
    OBVIOUS
  <2>1. /\ t \in Token /\ At(r, "spend") /\ uses' = uses
        /\ \/ reset' = [reset EXCEPT ![t] = "gone"] /\ kept' = kept
           \/ kept' = kept \cup {t} /\ reset' = reset
    BY <1>8, <2>0, Fields DEF SpendToken, At
  <2>2. req'[r] = Idle /\ \A q \in Request \ {r} : req'[q] = req[q]
    BY <1>0, <1>8 DEF SpendToken, End, Becomes
  <2>3. /\ Using(r, t) /\ \A d \in Token : ~Using(r, d)' /\ (Using(r, d) => d = t)
        /\ \A q \in Request \ {r} : \A d \in Token : Using(q, d)' <=> Using(q, d)
    BY <2>0, <2>1, <2>2 DEF Using, At, Idle
  <2>4. ASSUME NEW d \in Token, d \notin kept', d # t PROVE Single(d)'
    <3>1. Single(d) /\ reset'[d] = reset[d]
      BY <1>0, <2>1, <2>4 DEF ResetInv
    <3> QED
      BY <2>1, <2>2, <2>3, <2>4, <3>1 DEF Single, At
  <2>5. ASSUME t \notin kept' PROVE Single(t)'
    <3>1. Single(t) /\ reset'[t] = "gone"
      BY <1>0, <2>1, <2>5 DEF ResetInv
    <3> QED
      BY <2>1, <2>2, <2>3, <3>1 DEF Single, At
  <2> QED
    BY <2>4, <2>5 DEF ResetInv
<1>9. CASE Expire \/ \E s \in Session : Logout(s)
  <2>1. LinksStay
    BY <1>0, <1>9 DEF Expire, Logout, LinksStay, history
  <2> QED
    BY <2>1, LinksStayIsFine
<1>10. CASE UNCHANGED vars
  <2>1. LinksStay
    BY <1>10 DEF vars, rows, history, LinksStay
  <2> QED
    BY <2>1, LinksStayIsFine
<1> QED
  BY <1>2, <1>3, <1>4, <1>5, <1>6, <1>7, <1>8, <1>9, <1>10 DEF Next, Resetting

-----------------------------------------------------------------------------
(* Backup codes *)

\* A step that neither writes codes nor takes a request to where it holds some.
CodesStay ==
  /\ UNCHANGED <<used, gen, shown, tangled>>
  /\ \A u \in User : user'[u].codes = user[u].codes
  /\ \A r \in Request : req'[r] = req[r] \/ req'[r].at \notin {"read", "remove"}

LEMMA CodesStayIsFine == ASSUME CodesInv, CodesStay PROVE CodesInv'
<1>1. \A u \in User : \A c : Mine(u, c)' <=> Mine(u, c)
  BY DEF Mine, CodesStay
<1>2. ASSUME NEW r \in Request, req'[r].at \in {"read", "remove"}
      PROVE  req'[r] = req[r]
  BY <1>2 DEF CodesStay
<1>3. ASSUME NEW u \in User PROVE Owned(u)'
  <2>1. Owned(u) /\ CodesOf(u)' = CodesOf(u)
    BY DEF CodesInv, CodesStay, CodesOf
  <2> QED
    BY <1>1, <1>2, <2>1 DEF Owned, At, Who
<1>4. ASSUME NEW u \in User \ tangled PROVE Orderly(u)'
  <2>1. /\ Orderly(u) /\ CodesOf(u)' = CodesOf(u) /\ Sheet(u)' = Sheet(u) /\ used' = used
        /\ user'[u].codes = user[u].codes
    BY DEF CodesInv, CodesStay, CodesOf, Sheet
  <2> QED
    BY <1>2, <2>1 DEF Orderly, At, Who
<1> QED
  BY <1>3, <1>4 DEF CodesInv, CodesStay

\* What is in a row, and in the requests, are codes.
LEMMA AreCodes ==
  ASSUME Types, NEW u \in User
  PROVE  /\ user[u].codes \in Seq(Code) /\ CodesOf(u) \subseteq Code
         /\ \A i \in DOMAIN user[u].codes : user[u].codes[i] \in CodesOf(u)
         /\ \A c \in Code : c[1] \in Nat \ {0}
<1>1. user[u].codes \in Seq(Code)
  BY DEF Types, TypeOK, UserRow
<1> QED
  BY <1>1, AccountsAssumption DEF CodesOf, Code

\* Somebody's request reads a code, or what is left without it.
LEMMA ReadingKeepsCodes ==
  ASSUME Types, CodesInv, NEW r \in Request, NEW u \in User,
         UNCHANGED <<user, used, gen, shown, tangled>>,
         \A q \in Request \ {r} : req'[q] = req[q],
         Who(r)' = u, Mine(u, req'[r].code),
         At(r, "remove")' => \A i \in DOMAIN req'[r].codes : Mine(u, req'[r].codes[i]),
         u \notin tangled /\ At(r, "read")' =>
           /\ req'[r].index \in DOMAIN user[u].codes
           /\ user[u].codes[req'[r].index] = req'[r].code,
         u \notin tangled /\ At(r, "remove")' =>
           \E i \in DOMAIN user[u].codes :
              user[u].codes[i] = req'[r].code /\ req'[r].codes = RemoveAt(user[u].codes, i)
  PROVE  CodesInv'
<1>1. \A v \in User : \A c : Mine(v, c)' <=> Mine(v, c)
  BY DEF Mine
<1>2. ASSUME NEW v \in User PROVE Owned(v)'
  <2>1. Owned(v) /\ CodesOf(v)' = CodesOf(v)
    BY DEF CodesInv, CodesOf
  <2> QED
    BY <1>1, <2>1 DEF Owned, At, Who
<1>3. ASSUME NEW v \in User \ tangled PROVE Orderly(v)'
  <2>1. Orderly(v) /\ CodesOf(v)' = CodesOf(v) /\ Sheet(v)' = Sheet(v)
    BY DEF CodesInv, CodesOf, Sheet
  <2> QED
    BY <2>1 DEF Orderly, At, Who
<1> QED
  BY <1>2, <1>3 DEF CodesInv

LEMMA CheckCodeStep ==
  ASSUME Types, CodesInv, NEW r \in Request, CheckCode(r)
  PROVE  CodesInv'
<1>0. PICK u : u = Who(r)
  OBVIOUS
<1>1. /\ u \in User /\ UNCHANGED <<user, used, gen, shown, tangled>>
      /\ req = [q \in Request |-> req[q]]
  BY <1>0, Fields DEF CheckCode, At, rows, history, codeHistory, Types
<1>2. ASSUME NEW next, Becomes(r, next), next.at \notin {"read", "remove"} PROVE CodesInv'
  <2>1. CodesStay
    BY <1>1, <1>2 DEF Becomes, CodesStay
  <2> QED
    BY <2>1, CodesStayIsFine
<1>3. ASSUME NEW i \in DOMAIN user[u].codes,
             Becomes(r, [at |-> "read", user |-> u, pending |-> req[r].pending,
                         index |-> i, code |-> user[u].codes[i]])
      PROVE  CodesInv'
  <2>1. /\ req'[r].at = "read" /\ req'[r].user = u /\ req'[r].index = i
        /\ req'[r].code = user[u].codes[i]
        /\ \A q \in Request \ {r} : req'[q] = req[q]
    BY <1>1, <1>3 DEF Becomes
  <2>2. Mine(u, user[u].codes[i])
    BY <1>1, AreCodes DEF CodesInv, Owned
  <2>3. At(r, "read")' /\ ~At(r, "remove")' /\ Who(r)' = u
    BY <2>1 DEF At, Who
  <2> QED
    BY <1>1, <2>1, <2>2, <2>3, ReadingKeepsCodes
<1> QED
  BY <1>0, <1>2, <1>3 DEF CheckCode, End, Idle

LEMMA ReadCodesStep ==
  ASSUME Types, CodesInv, NEW r \in Request, ReadCodes(r)
  PROVE  CodesInv'
<1>0. PICK u, s, k : u = Who(r) /\ s = user[u].codes /\ k = req[r].index
  OBVIOUS
<1>1. /\ u \in User /\ At(r, "read") /\ UNCHANGED <<user, used, gen, shown, tangled>>
      /\ k \in Nat \ {0} /\ s \in Seq(Code)
  BY <1>0, Fields, AreCodes DEF ReadCodes, At, rows, history, codeHistory
<1>2. /\ req'[r].at = "remove" /\ req'[r].user = u /\ req'[r].code = req[r].code
      /\ req'[r].codes = Removed(s, k)
      /\ \A q \in Request \ {r} : req'[q] = req[q]
  BY <1>0 DEF ReadCodes, Becomes, Types
<1>3. Mine(u, req[r].code) /\ \A i \in DOMAIN s : Mine(u, s[i])
  BY <1>0, <1>1, AreCodes DEF CodesInv, Owned, At
<1>4. \A i \in DOMAIN Removed(s, k) : Mine(u, Removed(s, k)[i])
  BY <1>1, <1>3, RemovedIsThere
<1>5. ASSUME u \notin tangled PROVE k \in DOMAIN s /\ s[k] = req[r].code /\ Removed(s, k) = RemoveAt(s, k)
  <2>1. k \in DOMAIN s /\ s[k] = req[r].code
    BY <1>0, <1>1, <1>5 DEF CodesInv, Orderly
  <2>2. k <= Len(s)
    BY <1>1, <2>1
  <2> QED
    BY <2>1, <2>2 DEF Removed
<1>6. At(r, "remove")' /\ ~At(r, "read")' /\ Who(r)' = u
  BY <1>2 DEF At, Who
<1> QED
  BY <1>0, <1>1, <1>2, <1>3, <1>4, <1>5, <1>6, ReadingKeepsCodes, ZenonT(60)

LEMMA RemoveCodeStep ==
  ASSUME Types, CodesInv, NEW r \in Request, RemoveCode(r)
  PROVE  CodesInv'
<1>0. PICK u, s, l, c : u = Who(r) /\ s = user[u].codes /\ l = req[r].codes /\ c = req[r].code
  OBVIOUS
<1>1. /\ u \in User /\ At(r, "remove") /\ UNCHANGED <<gen, shown>>
      /\ s \in Seq(Code) /\ l \in Seq(Code) /\ c \in Code
      /\ used' = used \cup {c} /\ tangled' = IF Consuming(r, u) THEN tangled \cup {u} ELSE tangled
  BY <1>0, Fields, AreCodes DEF RemoveCode, Tangles, At
<1>2. user'[u].codes = l /\ \A v \in User \ {u} : user'[v] = user[v]
  BY <1>0, <1>1 DEF RemoveCode, Types, TypeOK, UserRow
<1>3. req'[r].at = "settle" /\ \A q \in Request \ {r} : req'[q] = req[q]
  BY DEF RemoveCode, Becomes, Types
<1>4. \A v \in User : \A d : Mine(v, d)' <=> Mine(v, d)
  BY <1>1 DEF Mine
<1>5. Mine(u, c) /\ \A i \in DOMAIN l : Mine(u, l[i])
  BY <1>0, <1>1 DEF CodesInv, Owned, At
<1>6. ASSUME NEW v \in User PROVE Owned(v)'
  <2>1. \A d \in CodesOf(v)' : Mine(v, d)
    <3>1. CASE v = u
      BY <1>2, <1>5, <3>1 DEF CodesOf
    <3>2. CASE v # u
      BY <1>2, <3>2 DEF CodesOf, CodesInv, Owned
    <3> QED
      BY <3>1, <3>2
  <2>2. Owned(v)
    BY DEF CodesInv
  <2> QED
    BY <1>3, <1>4, <2>1, <2>2 DEF Owned, At, Who
<1>7. ASSUME NEW v \in User \ tangled', v # u PROVE Orderly(v)'
  <2>1. Orderly(v) /\ CodesOf(v)' = CodesOf(v) /\ Sheet(v)' = Sheet(v) /\ user'[v] = user[v]
    BY <1>1, <1>2, <1>7 DEF CodesInv, CodesOf, Sheet
  <2>2. c \notin Sheet(v)
    BY <1>5, <1>7 DEF Mine, Sheet
  <2>3. CodesOf(v)' = Sheet(v)' \ used'
    BY <1>1, <2>1, <2>2 DEF Orderly
  <2> QED
    BY <1>3, <2>1, <2>3 DEF Orderly, At, Who
<1>8. ASSUME u \notin tangled' PROVE Orderly(u)'
  <2>1. u \notin tangled /\ ~Consuming(r, u) /\ Orderly(u)
    BY <1>1, <1>8 DEF CodesInv
  <2>2. PICK i \in DOMAIN s : s[i] = c /\ l = RemoveAt(s, i)
    BY <1>0, <1>1, <2>1 DEF Orderly
  <2>3. IsInjective(s)
    BY <1>0, <2>1 DEF Orderly
  <2>4. IsInjective(l) /\ {l[j] : j \in DOMAIN l} = {s[j] : j \in DOMAIN s} \ {c}
    BY <1>1, <2>2, <2>3, WithoutItsCode
  <2>5. CodesOf(u) = {s[j] : j \in DOMAIN s} /\ CodesOf(u)' = {l[j] : j \in DOMAIN l}
    BY <1>0, <1>2 DEF CodesOf
  <2>6. CodesOf(u)' = Sheet(u)' \ used'
    BY <1>1, <2>1, <2>4, <2>5 DEF Orderly, Sheet
  <2>7. \A q \in Request : Who(q)' = u => ~At(q, "read")' /\ ~At(q, "remove")'
    BY <1>3, <2>1 DEF Consuming, At, Who
  <2> QED
    BY <1>2, <2>4, <2>6, <2>7 DEF Orderly
<1>9. (\A d \in used' : d[1] <= gen') /\ \A v \in User : shown'[v] <= gen'
  BY <1>1, <1>5 DEF CodesInv, Mine
<1>10. \A v, w \in User : v # w /\ shown'[v] # 0 => shown'[v] # shown'[w]
  BY <1>1 DEF CodesInv
<1> QED
  BY <1>6, <1>7, <1>8, <1>9, <1>10 DEF CodesInv

\* u gets a sheet of codes that nobody has had, or has none any more.
LEMMA NewSheetStep ==
  ASSUME Types, CodesInv, NEW r \in Request, NEW u \in User, NEW n, NEW l,
         \/ n = 0 /\ l = <<>> /\ gen' = gen
         \/ gen < MaxGen /\ n = gen + 1 /\ l = Generated /\ gen' = gen + 1,
         user'[u].codes = l, \A v \in User \ {u} : user'[v] = user[v],
         shown' = [shown EXCEPT ![u] = n], used' = used, Tangles(r, u),
         req'[r].at \notin {"read", "remove"}, \A q \in Request \ {r} : req'[q] = req[q]
  PROVE  CodesInv'
<1>1. gen \in Nat /\ shown \in [User -> Nat]
  BY AccountsAssumption DEF Types, TypeOK
<1>2. shown'[u] = n /\ \A v \in User \ {u} : shown'[v] = shown[v]
  BY <1>1
<1>3. n \in {0, gen + 1} /\ gen' \in Nat /\ gen <= gen' /\ n <= gen'
  BY <1>1
<1>4. \A i \in DOMAIN l : l[i][1] = n /\ n = gen + 1
  BY GeneratedCodes
<1>5. ASSUME NEW v \in User, NEW d \in Code, Mine(v, d) PROVE Mine(v, d)'
  <2>1. d[1] \in Nat \ {0} /\ d[1] <= gen /\ \A w \in User \ {v} : shown[w] # d[1]
    BY <1>5, AreCodes DEF Mine
  <2>2. d[1] <= gen' /\ d[1] # n
    BY <1>1, <1>3, <2>1
  <2> QED
    BY <1>2, <2>1, <2>2 DEF Mine
<1>6. \A d \in used : d[1] <= gen
  BY DEF CodesInv
<1>7. \A v \in User : shown[v] <= gen /\ shown[v] \in Nat
  BY <1>1 DEF CodesInv
<1>8. ASSUME NEW i \in DOMAIN l PROVE Mine(u, l[i])'
  <2>1. l[i][1] = gen + 1 /\ gen + 1 <= gen'
    BY <1>3, <1>4
  <2>2. \A v \in User \ {u} : shown'[v] # gen + 1
    BY <1>1, <1>2, <1>7
  <2> QED
    BY <2>1, <2>2 DEF Mine
<1>9. ASSUME NEW v \in User PROVE Owned(v)'
  <2>1. ASSUME NEW d \in CodesOf(v)' PROVE Mine(v, d)'
    <3>1. CASE v = u
      BY <1>8, <2>1, <3>1 DEF CodesOf
    <3>2. CASE v # u
      <4>1. d \in CodesOf(v)
        BY <2>1, <3>2 DEF CodesOf
      <4> QED
        BY <1>5, <4>1, AreCodes DEF CodesInv, Owned
    <3> QED
      BY <3>1, <3>2
  <2>2. ASSUME NEW q \in Request, req'[q].at \in {"read", "remove"}, Who(q)' = v
        PROVE  /\ Mine(v, req[q].code)' /\ req'[q] = req[q]
               /\ At(q, "remove") => \A i \in DOMAIN req[q].codes : Mine(v, req[q].codes[i])'
    <3>1. req'[q] = req[q]
      BY <2>2
    <3>2. /\ Mine(v, req[q].code) /\ req[q].code \in Code
          /\ At(q, "remove") => \A i \in DOMAIN req[q].codes :
                                  Mine(v, req[q].codes[i]) /\ req[q].codes[i] \in Code
      BY <2>2, <3>1, Fields DEF CodesInv, Owned, At, Who
    <3>3. Mine(v, req[q].code)'
      <4>1. PICK d \in Code : d = req[q].code
        BY <3>2
      <4>2. Mine(v, d)'
        BY <1>5, <3>2, <4>1
      <4> QED
        BY <3>1, <4>1, <4>2 DEF Mine
    <3>4. ASSUME NEW i \in DOMAIN req[q].codes, At(q, "remove") PROVE Mine(v, req[q].codes[i])'
      <4>1. PICK d \in Code : d = req[q].codes[i]
        BY <3>2, <3>4
      <4>2. Mine(v, d)'
        BY <1>5, <3>2, <3>4, <4>1
      <4> QED
        BY <3>1, <4>1, <4>2 DEF Mine
    <3> QED
      BY <3>1, <3>3, <3>4
  <2> QED
    BY <2>1, <2>2 DEF Owned, At, Who
<1>10. tangled' = IF Consuming(r, u) THEN tangled \cup {u} ELSE tangled
  BY DEF Tangles
<1>11. ASSUME NEW v \in User \ tangled', v # u PROVE Orderly(v)'
  <2>1. Orderly(v) /\ CodesOf(v)' = CodesOf(v) /\ Sheet(v)' = Sheet(v) /\ user'[v] = user[v]
    BY <1>2, <1>10, <1>11 DEF CodesInv, CodesOf, Sheet
  <2> QED
    BY <2>1 DEF Orderly, At, Who
<1>12. ASSUME u \notin tangled' PROVE Orderly(u)'
  <2>1. ~Consuming(r, u)
    BY <1>10, <1>12
  <2>2. \A q \in Request : Who(q)' = u => ~At(q, "read")' /\ ~At(q, "remove")'
    BY <2>1 DEF Consuming, At, Who
  <2>3. IsInjective(l) /\ {l[i] : i \in DOMAIN l} = IF n = 0 THEN {} ELSE {n} \X (1..NumCodes)
    <3>1. CASE n = 0 /\ l = <<>>
      BY <3>1 DEF IsInjective
    <3>2. CASE gen < MaxGen /\ n = gen + 1 /\ l = Generated
      <4>1. /\ DOMAIN l = 1..NumCodes /\ \A i \in 1..NumCodes : l[i] = <<n, i>>
            /\ n # 0
        BY <1>1, <3>2 DEF Generated
      <4>2. IsInjective(l)
        BY <4>1 DEF IsInjective
      <4>3. {l[i] : i \in DOMAIN l} = {n} \X (1..NumCodes)
        <5>1. ASSUME NEW i \in 1..NumCodes PROVE l[i] \in {n} \X (1..NumCodes)
          <6>1. l[i] = <<n, i>>
            BY <4>1
          <6> QED
            BY <6>1
        <5>2. ASSUME NEW x \in {n} \X (1..NumCodes) PROVE x \in {l[i] : i \in DOMAIN l}
          <6>1. PICK i \in 1..NumCodes : x = <<n, i>>
            OBVIOUS
          <6> QED
            BY <4>1, <6>1
        <5> QED
          BY <4>1, <5>1, <5>2
      <4> QED
        BY <4>1, <4>2, <4>3
    <3> QED
      BY <3>1, <3>2
  <2>4. \A d \in used : d[1] # n \/ n = 0
    BY <1>1, <1>3, <1>6, AreCodes DEF Types, TypeOK
  <2>5. CodesOf(u)' = {l[i] : i \in DOMAIN l}
    BY DEF CodesOf
  <2>6. CodesOf(u)' = Sheet(u)' \ used'
    BY <1>2, <2>3, <2>4, <2>5 DEF Sheet
  <2> QED
    BY <2>2, <2>3, <2>6 DEF Orderly
<1>13. /\ \A d \in used' : d[1] <= gen'
       /\ \A v \in User : shown'[v] <= gen'
  <2>1. \A d \in used : d[1] \in Nat
    BY AreCodes DEF Types, TypeOK
  <2> QED
    BY <1>1, <1>2, <1>3, <1>6, <1>7, <2>1
<1>14. \A v, w \in User : v # w /\ shown'[v] # 0 => shown'[v] # shown'[w]
  BY <1>1, <1>2, <1>3, <1>7 DEF CodesInv
<1> QED
  BY <1>9, <1>11, <1>12, <1>13, <1>14 DEF CodesInv

LEMMA CodesKept == Types /\ CodesInv /\ [Next]_vars => CodesInv'
<1> SUFFICES ASSUME Types, CodesInv, [Next]_vars PROVE CodesInv'
  OBVIOUS
<1>0. req = [r \in Request |-> req[r]] /\ user \in [User -> UserRow]
  BY DEF Types, TypeOK
<1>1. ASSUME NEW r \in Request, NEW next, Becomes(r, next), next.at \notin {"read", "remove"},
             UNCHANGED <<used, gen, shown, tangled>>,
             \A u \in User : user'[u].codes = user[u].codes
      PROVE  CodesInv'
  <2>1. CodesStay
    BY <1>0, <1>1 DEF Becomes, CodesStay
  <2> QED
    BY <2>1, CodesStayIsFine
<1>2. ASSUME NEW r \in Request, LoggingIn(r) PROVE CodesInv'
  <2>1. CASE \E u \in User : Login(r, u)
    BY <1>1, <2>1 DEF Login, rows, history, codeHistory
  <2>2. CASE \E p \in Pending : AskSecondFactor(r, p) \/ VerifyTOTP(r, p)
    BY <1>1, <2>2 DEF AskSecondFactor, VerifyTOTP, End, Idle, rows, history, codeHistory
  <2>3. CASE \E s \in Session : OpenSession(r, s)
    BY <1>1, <2>3 DEF OpenSession, End, Idle, history, codeHistory
  <2>4. CASE SettlePending(r)
    BY <1>1, <2>4 DEF SettlePending, history, codeHistory
  <2> QED
    BY <1>2, <2>1, <2>2, <2>3, <2>4, CheckCodeStep, ReadCodesStep, RemoveCodeStep DEF LoggingIn
<1>3. ASSUME NEW r \in Request, LoggedIn(r) PROVE CodesInv'
  <2>1. CASE \E s \in Session, kind \in Authenticated : Authenticate(r, s, kind)
    BY <1>1, <2>1 DEF Authenticate, rows, history, codeHistory
  <2>2. CASE Authorize(r)
    <3>1. req[r].kind \notin {"read", "remove"}
      BY <2>2, Fields DEF Authorize, Authenticated, Kind
    <3> QED
      BY <1>1, <2>2, <3>1 DEF Authorize, End, Idle, rows, history, codeHistory
  <2>3. CASE SetupTOTP(r) \/ ForgetSetup(r) \/ \E s \in Session : CancelSession(r, s)
    BY <1>1, <2>3 DEF SetupTOTP, ForgetSetup, CancelSession, End, Idle, history, codeHistory
  <2>4. CASE \E v \in User : Toggle(r, v)
    <3>1. \A u \in User : user'[u].codes = user[u].codes
      BY <1>0, <2>4 DEF Toggle, UserRow
    <3> QED
      BY <1>1, <2>4, <3>1 DEF Toggle, End, Idle, codeHistory
  <2>5. ASSUME EnableTOTP(r) \/ DisableTOTP(r) \/ RegenerateCodes(r) PROVE CodesInv'
    <3>0. PICK u : u = Who(r)
      OBVIOUS
    <3>1. u \in User
      BY <2>5, <3>0, Fields DEF EnableTOTP, DisableTOTP, RegenerateCodes, At, Authenticated, Kind
    <3>2. used' = used /\ Tangles(r, u)
      BY <2>5, <3>0 DEF EnableTOTP, DisableTOTP, RegenerateCodes
    <3>3. req'[r].at \notin {"read", "remove"} /\ \A q \in Request \ {r} : req'[q] = req[q]
      BY <1>0, <2>5 DEF EnableTOTP, DisableTOTP, RegenerateCodes, End, Idle, Becomes
    <3>4. CASE EnableTOTP(r)
      <4>1. /\ user'[u].codes = Generated /\ \A v \in User \ {u} : user'[v] = user[v]
            /\ gen < MaxGen /\ gen' = gen + 1 /\ shown' = [shown EXCEPT ![u] = gen + 1]
        BY <1>0, <3>0, <3>1, <3>4 DEF EnableTOTP, UserRow
      <4> QED
        BY <3>1, <3>2, <3>3, <4>1, NewSheetStep
    <3>5. CASE RegenerateCodes(r)
      <4>1. /\ user'[u].codes = Generated /\ \A v \in User \ {u} : user'[v] = user[v]
            /\ gen < MaxGen /\ gen' = gen + 1 /\ shown' = [shown EXCEPT ![u] = gen + 1]
        BY <1>0, <3>0, <3>1, <3>5 DEF RegenerateCodes, UserRow
      <4> QED
        BY <3>1, <3>2, <3>3, <4>1, NewSheetStep
    <3>6. CASE DisableTOTP(r)
      <4>1. /\ user'[u].codes = <<>> /\ \A v \in User \ {u} : user'[v] = user[v]
            /\ gen' = gen /\ shown' = [shown EXCEPT ![u] = 0]
        BY <1>0, <3>0, <3>1, <3>6 DEF DisableTOTP, UserRow
      <4> QED
        BY <3>1, <3>2, <3>3, <4>1, NewSheetStep
    <3> QED
      BY <2>5, <3>4, <3>5, <3>6
  <2> QED
    BY <1>3, <2>1, <2>2, <2>3, <2>4, <2>5 DEF LoggedIn
<1>4. ASSUME NEW r \in Request, Resetting(r) \/ GiveUp(r) PROVE CodesInv'
  <2>1. UNCHANGED <<user, used, gen, shown, tangled>>
    BY <1>4 DEF Resetting, GiveUp, Forgot, CreateReset, ResetPassword, SetPassword, SpendToken,
                rows, history, codeHistory
  <2>2. CASE SetPassword(r)
    <3>1. req[r] \in [at : {"set", "spend"}, token : Token]
      BY <2>2 DEF SetPassword, At, Types, Requests, Idle, Authenticated, Kind
    <3>2. req'[r].at = "spend" /\ \A q \in Request \ {r} : req'[q] = req[q]
      BY <1>0, <2>2, <3>1 DEF SetPassword, Goto
    <3>3. CodesStay
      BY <2>1, <3>2 DEF CodesStay
    <3> QED
      BY <3>3, CodesStayIsFine
  <2> QED
    BY <1>1, <1>4, <2>1, <2>2
       DEF Resetting, GiveUp, Forgot, CreateReset, ResetPassword, SpendToken, End, Idle
<1>5. CASE Expire \/ \E s \in Session : Logout(s)
  <2>1. CodesStay
    BY <1>5 DEF Expire, Logout, CodesStay, history, codeHistory
  <2> QED
    BY <2>1, CodesStayIsFine
<1>6. CASE UNCHANGED vars
  <2>1. CodesStay
    BY <1>6 DEF vars, rows, history, codeHistory, CodesStay
  <2> QED
    BY <2>1, CodesStayIsFine
<1> QED
  BY <1>2, <1>3, <1>4, <1>5, <1>6 DEF Next

-----------------------------------------------------------------------------
LEMMA Initially == Init => AnAdministratorRemains /\ FactorInv /\ ResetInv /\ CodesInv
<1> SUFFICES ASSUME Init PROVE AnAdministratorRemains /\ FactorInv /\ ResetInv /\ CodesInv
  OBVIOUS
<1>1. \A r \in Request : req[r].at = "idle"
  BY DEF Init, Idle
<1>2. FactorInv
  BY <1>1 DEF Init, FactorInv, At
<1>3. ResetInv
  BY <1>1 DEF Init, ResetInv, Single, Using, At
<1>4. AnAdministratorRemains
  BY AccountsAssumption DEF Init, AnAdministratorRemains
<1>5. \A u \in User : user[u].codes = <<>> /\ CodesOf(u) = {} /\ Sheet(u) = {}
  BY DEF Init, CodesOf, Sheet
<1>6. \A u \in User : Owned(u) /\ Orderly(u)
  BY <1>1, <1>5 DEF Owned, Orderly, At, IsInjective
<1>7. CodesInv
  BY <1>6 DEF Init, CodesInv
<1> QED
  BY <1>2, <1>3, <1>4, <1>7

\* The rows, the requests and what is remembered of them have their types.
THEOREM TypeCorrect == Spec => []TypeOK
<1>1. Types => TypeOK
  BY DEF Types
<1> QED
  BY <1>1, TypesInitially, TypesKept, PTL DEF Spec

\* handleAdminUserToggleActive and handleAdminUserToggleAdmin leave one administrator who
\* can log in, unless the one who switches was switched off during the request.
THEOREM AnAdministratorStays == Spec => []AnAdministratorRemains
BY Initially, TypesInitially, TypesKept, AdminKept, PTL DEF Spec

\* handleLoginPost lets nobody in with the password alone to an account whose second
\* factor was there when the login began, however long the session takes to be made.
THEOREM SecondFactorStays == Spec => []SecondFactorKept
<1>1. FactorInv => SecondFactorKept
  BY DEF FactorInv, SecondFactorKept, Before
<1> QED
  BY <1>1, Initially, TypesInitially, TypesKept, FactorKept, PTL DEF Spec

\* A link that handleResetPasswordPost uses in one request at a time, and whose row it
\* deletes, sets one password.
THEOREM ResetLinkWorks == Spec => []ResetLinkWorksOnce
<1>1. ResetInv => ResetLinkWorksOnce
  BY DEF ResetInv, Single, ResetLinkWorksOnce
<1> QED
  BY <1>1, Initially, TypesInitially, TypesKept, ResetKept, PTL DEF Spec

\* What RemoveTOTPBackupCode, SaveTOTPSetup and DisableTOTP leave in a user's row are the
\* codes of the last sheet that nobody has logged in with, in any order of the requests
\* that do not write the codes of one user at once.
THEOREM BackupCodesStay == Spec => []BackupCodesAddUp
<1>1. CodesInv => BackupCodesAddUp
  BY DEF CodesInv, Orderly, Sheet, BackupCodesAddUp
<1> QED
  BY <1>1, Initially, TypesInitially, TypesKept, CodesKept, PTL DEF Spec

-----------------------------------------------------------------------------
(* Directory *)

CONSTANTS Mailbox, Address, Creation, Owner, Other, Configured, MaxRuns, Administration
VARIABLES duties, users, mailboxes, member, mapping, sending, creation, boot, runs, settled,
          byHand

\* A creation of a user is one of its requests.
Dir == INSTANCE Directory WITH
  Request <- Creation, Workloads <- Administration, req <- creation

Making(r) == creation[r].at # "idle"

Forms ==
  [at : {"mailbox", "receive", "send", "cleanup"}, user : User,
   target : Mailbox \cup {"new"}, receive : Dir!Pattern \cup {"none", "broken"},
   send : Address \cup {"none"}]

BootStages == {"off", "owner", "other", "mailbox", "member", "mapping", "sending"}

DirectoryTypes ==
  /\ mailboxes \subseteq Mailbox
  /\ creation \in [Creation -> {Dir!Idle} \cup Forms]
  /\ boot \in [at : BootStages] \cup [at : BootStages, mailbox : Mailbox]
  /\ runs \in Nat

\* A creation has a user's row to itself, until it is settled.
OneMaker ==
  /\ \A r \in Creation : Making(r) => creation[r].user \in users \ settled
  /\ \A r, q \in Creation : r # q /\ Making(r) /\ Making(q) => creation[r].user # creation[q].user

\* The file is yet to make the first of its mappings.
NotYetMapped == runs = 0 \/ (runs = 1 /\ boot.at \in BootStages \ {"off", "sending"})

\* Addresses that no form asked for have a destination from the file alone.
MappedOnce ==
  /\ boot.at # "off" => runs > 0
  /\ NotYetMapped => \A x \in mapping : x[2][1] \in byHand
  /\ runs <= 1 => \A x, y \in mapping : x[2][1] = y[2][1] => x[2][1] \in byHand \/ x[1] = y[1]

DirectoryInv == DirectoryTypes /\ OneMaker /\ Dir!NoOrphanUser /\ MappedOnce

LEMMA FormFields ==
  ASSUME DirectoryTypes, NEW r \in Creation
  PROVE  /\ Making(r) <=> creation[r] \in Forms
         /\ ~Making(r) <=> creation[r] = Dir!Idle
BY DEF DirectoryTypes, Making, Forms, Dir!Idle

LEMMA DirectoryInit == Dir!Init => DirectoryInv
BY DEF Dir!Init, DirectoryInv, DirectoryTypes, OneMaker, Making, Dir!NoOrphanUser, MappedOnce,
       NotYetMapped, BootStages, Dir!Idle, Dir!Off

\* One request goes on to another place.
LEMMA FormMoves ==
  ASSUME DirectoryTypes, NEW r \in Creation, Making(r),
         NEW f \in Forms, f.user = creation[r].user, creation' = [creation EXCEPT ![r] = f],
         UNCHANGED <<users, settled>>, OneMaker, Dir!NoOrphanUser
  PROVE  OneMaker' /\ Dir!NoOrphanUser' /\ creation' \in [Creation -> {Dir!Idle} \cup Forms]
<1>1. \A q \in Creation : Making(q)' <=> Making(q)
  BY DEF DirectoryTypes, Making, Forms
<1>2. \A q \in Creation : Making(q) => creation'[q].user = creation[q].user
  BY DEF DirectoryTypes
<1>3. OneMaker'
  BY <1>1, <1>2 DEF OneMaker
<1>4. Dir!NoOrphanUser'
  BY <1>1, <1>2 DEF Dir!NoOrphanUser, Dir!InProgress, Dir!At, Making
<1> QED
  BY <1>3, <1>4 DEF DirectoryTypes

\* One request ends: its user is settled, or gone.
LEMMA FormEnds ==
  ASSUME DirectoryTypes, NEW r \in Creation, Making(r),
         creation' = [creation EXCEPT ![r] = Dir!Idle],
         \/ settled' = settled \cup {creation[r].user} /\ users' = users
         \/ users' = users \ {creation[r].user} /\ settled' = settled,
         OneMaker, Dir!NoOrphanUser
  PROVE  OneMaker' /\ Dir!NoOrphanUser' /\ creation' \in [Creation -> {Dir!Idle} \cup Forms]
<1>1. \A q \in Creation : Making(q)' <=> Making(q) /\ q # r
  BY DEF DirectoryTypes, Making, Dir!Idle
<1>2. \A q \in Creation : q # r => creation'[q] = creation[q]
  BY DEF DirectoryTypes
<1>3. OneMaker'
  BY <1>1, <1>2 DEF OneMaker
<1>4. ASSUME NEW u \in users'
      PROVE  u \in settled' \/ \E q \in Creation : Making(q)' /\ creation'[q].user = u
  <2>1. /\ u \in users
        /\ u \in settled \/ \E q \in Creation : Making(q) /\ creation[q].user = u
    BY DEF Dir!NoOrphanUser, Dir!InProgress, Dir!At, Making
  <2> QED
    BY <2>1, <1>1, <1>2
<1>5. settled' \subseteq users'
  BY DEF OneMaker, Dir!NoOrphanUser
<1> QED
  BY <1>3, <1>4, <1>5 DEF DirectoryTypes, Dir!NoOrphanUser, Dir!InProgress, Dir!At, Making

\* A user that nobody has been is settled at once.
LEMMA UserSettles ==
  ASSUME DirectoryTypes, NEW u, UNCHANGED creation,
         u \notin users, users' = users \cup {u}, settled' = settled \cup {u},
         OneMaker, Dir!NoOrphanUser
  PROVE  OneMaker' /\ Dir!NoOrphanUser'
BY DEF OneMaker, Making, Dir!NoOrphanUser, Dir!InProgress, Dir!At

LEMMA UsersStay ==
  ASSUME UNCHANGED <<creation, users, settled>>, OneMaker, Dir!NoOrphanUser
  PROVE  OneMaker' /\ Dir!NoOrphanUser'
BY DEF OneMaker, Making, Dir!NoOrphanUser, Dir!InProgress, Dir!At

\* A mapping that a form asks for.
LEMMA MappingByHand ==
  ASSUME MappedOnce, runs \in Nat, UNCHANGED <<boot, runs>>,
         NEW m, NEW p, mapping' \subseteq mapping \cup {<<m, p>>},
         byHand \subseteq byHand', mapping' = mapping \/ p[1] \in byHand'
  PROVE  MappedOnce'
<1>1. ASSUME NEW x \in mapping', NEW y \in mapping', x[2][1] = y[2][1], x[2][1] \notin byHand'
      PROVE  x \in mapping /\ y \in mapping
  BY <1>1
<1>2. ASSUME NEW x \in mapping', x[2][1] \notin byHand' PROVE x \in mapping
  BY <1>2
<1> QED
  BY <1>1, <1>2 DEF MappedOnce, NotYetMapped

LEMMA MappingsStay ==
  ASSUME MappedOnce, UNCHANGED <<boot, runs, mapping, byHand>>
  PROVE  MappedOnce'
BY DEF MappedOnce, NotYetMapped

LEMMA CreateUserStep ==
  ASSUME DirectoryInv, NEW r \in Creation, NEW u \in User, NEW t \in mailboxes \cup {"new"},
         NEW p \in Dir!Pattern \cup {"none", "broken"}, NEW s \in Address \cup {"none"},
         Dir!CreateUser(r, u, t, p, s)
  PROVE  DirectoryInv'
<1>1. PICK f \in Forms : f = [at |-> "mailbox", user |-> u, target |-> t, receive |-> p, send |-> s]
  BY DEF DirectoryInv, DirectoryTypes, Forms
<1>2. /\ ~Making(r) /\ u \notin users /\ users' = users \cup {u}
      /\ creation' = [creation EXCEPT ![r] = f]
      /\ UNCHANGED <<mailboxes, mapping, boot, runs, settled, byHand>>
  BY <1>1 DEF Dir!CreateUser, Dir!InsertUser, Dir!Becomes, Dir!At, Dir!history, Making
<1>3. f.user = u /\ f.at # "idle"
  BY <1>1
<1>4. DirectoryTypes'
  BY <1>2 DEF DirectoryInv, DirectoryTypes
<1>5. /\ \A q \in Creation : Making(q)' <=> Making(q) \/ q = r
      /\ \A q \in Creation \ {r} : creation'[q] = creation[q]
      /\ creation'[r] = f
  BY <1>2, <1>3 DEF DirectoryInv, DirectoryTypes, Making
<1>6. OneMaker'
  BY <1>2, <1>3, <1>5 DEF DirectoryInv, OneMaker, Dir!NoOrphanUser
<1>7. Dir!NoOrphanUser'
  BY <1>2, <1>3, <1>5 DEF DirectoryInv, OneMaker, Dir!NoOrphanUser, Dir!InProgress, Dir!At, Making
<1> QED
  BY <1>2, <1>4, <1>6, <1>7, MappingsStay DEF DirectoryInv

LEMMA GiveMailboxStep ==
  ASSUME DirectoryInv, NEW r \in Creation, NEW m \in Mailbox, Dir!GiveMailbox(r, m)
  PROVE  DirectoryInv'
<1>0. Making(r) /\ creation[r] \in Forms
  BY FormFields DEF DirectoryInv, Dir!GiveMailbox, Dir!At, Making
<1>1. PICK f : f = [creation[r] EXCEPT !.at = IF creation[r].target = "new" THEN "receive" ELSE "send",
                                       !.target = m]
  OBVIOUS
<1>2. f \in Forms /\ f.user = creation[r].user
  BY <1>0, <1>1 DEF Forms
<1>3. /\ creation' = [creation EXCEPT ![r] = f]
      /\ UNCHANGED <<users, mapping, boot, runs, settled, byHand>>
      /\ mailboxes' \subseteq mailboxes \cup {m}
  BY <1>1 DEF Dir!GiveMailbox, Dir!Becomes, Dir!history, Dir!InsertMember, Dir!InsertMailbox
<1>4. OneMaker' /\ Dir!NoOrphanUser' /\ creation' \in [Creation -> {Dir!Idle} \cup Forms]
  BY <1>0, <1>2, <1>3, FormMoves DEF DirectoryInv
<1> QED
  BY <1>3, <1>4, MappingsStay DEF DirectoryInv, DirectoryTypes

\* A request goes to another of its places.
LEMMA GotoForm ==
  ASSUME DirectoryInv, NEW r \in Creation, Making(r),
         NEW place \in {"mailbox", "receive", "send", "cleanup"}, Dir!Goto(r, place),
         UNCHANGED <<users, settled>>
  PROVE  OneMaker' /\ Dir!NoOrphanUser' /\ creation' \in [Creation -> {Dir!Idle} \cup Forms]
<1>1. PICK f : f = [creation[r] EXCEPT !.at = place]
  OBVIOUS
<1>2. f \in Forms /\ f.user = creation[r].user
  BY <1>1, FormFields DEF DirectoryInv, Forms
<1>3. creation' = [creation EXCEPT ![r] = f]
  BY <1>1 DEF Dir!Goto
<1> QED
  BY <1>2, <1>3, FormMoves DEF DirectoryInv

LEMMA MapAddressStep ==
  ASSUME DirectoryInv, NEW r \in Creation, Dir!MapAddress(r)
  PROVE  DirectoryInv'
<1>0. Making(r) /\ creation[r] \in Forms
  BY FormFields DEF DirectoryInv, Dir!MapAddress, Dir!At, Making
<1>1. /\ Dir!Goto(r, "send") /\ UNCHANGED <<users, mailboxes, boot, runs, settled>>
      /\ byHand' = byHand \cup
           (IF creation[r].receive = "none" THEN {} ELSE {creation[r].receive[1]})
      /\ \/ mapping' = mapping
         \/ /\ creation[r].receive # "none"
            /\ mapping' = mapping \cup {<<creation[r].target, creation[r].receive>>}
  BY DEF Dir!MapAddress, Dir!Receives
<1>2. OneMaker' /\ Dir!NoOrphanUser' /\ creation' \in [Creation -> {Dir!Idle} \cup Forms]
  BY <1>0, <1>1, GotoForm
<1>3. MappedOnce'
  BY <1>1, MappingByHand DEF DirectoryInv, DirectoryTypes
<1> QED
  BY <1>1, <1>2, <1>3 DEF DirectoryInv, DirectoryTypes

LEMMA CreatingStep ==
  ASSUME DirectoryInv, NEW r \in Creation, Dir!Creating(r)
  PROVE  DirectoryInv'
<1>1. CASE Dir!RefusePattern(r) \/ Dir!GiveMailboxFails(r)
  <2>1. /\ Making(r) /\ Dir!Goto(r, "cleanup")
        /\ UNCHANGED <<users, mailboxes, mapping, boot, runs, settled, byHand>>
    BY <1>1 DEF Dir!RefusePattern, Dir!GiveMailboxFails, Dir!At, Making, Dir!tables, Dir!history
  <2>2. OneMaker' /\ Dir!NoOrphanUser' /\ creation' \in [Creation -> {Dir!Idle} \cup Forms]
    BY <2>1, GotoForm
  <2> QED
    BY <2>1, <2>2, MappingsStay DEF DirectoryInv, DirectoryTypes
<1>2. CASE Dir!Commit(r) \/ Dir!CleanUp(r) \/ Dir!Crash(r)
  <2>1. /\ Making(r) /\ creation' = [creation EXCEPT ![r] = Dir!Idle]
        /\ \/ settled' = settled \cup {creation[r].user} /\ users' = users
           \/ users' = users \ {creation[r].user} /\ settled' = settled
        /\ UNCHANGED <<mailboxes, mapping, boot, runs, byHand>>
    BY <1>2 DEF Dir!Commit, Dir!CleanUp, Dir!Crash, Dir!DropUser, Dir!End, Dir!Becomes, Dir!At,
       Making,
                Dir!tables
  <2>2. OneMaker' /\ Dir!NoOrphanUser' /\ creation' \in [Creation -> {Dir!Idle} \cup Forms]
    BY <2>1, FormEnds DEF DirectoryInv
  <2> QED
    BY <2>1, <2>2, MappingsStay DEF DirectoryInv, DirectoryTypes
<1> QED
  BY <1>1, <1>2, CreateUserStep, GiveMailboxStep, MapAddressStep DEF Dir!Creating

-----------------------------------------------------------------------------
LEMMA BootTypes ==
  ASSUME DirectoryTypes, NEW place \in BootStages
  PROVE  /\ [boot EXCEPT !.at = place] \in [at : BootStages] \cup [at : BootStages, mailbox : Mailbox]
         /\ [boot EXCEPT !.at = place].at = place
BY DEF DirectoryTypes

LEMMA BootstrappingStep ==
  ASSUME DirectoryInv, Dir!Bootstrapping
  PROVE  DirectoryInv'
<1>1. CASE Dir!StartBootstrap
  <2>1. /\ UNCHANGED <<users, mailboxes, mapping, creation, settled, byHand>>
        /\ boot.at = "off" /\ boot' = [at |-> "owner"] /\ runs' = runs + 1
    BY <1>1 DEF Dir!StartBootstrap, Dir!tables, Dir!Off
  <2>2. MappedOnce'
    BY <2>1 DEF DirectoryInv, DirectoryTypes, MappedOnce, NotYetMapped, BootStages
  <2>3. DirectoryTypes'
    BY <2>1 DEF DirectoryInv, DirectoryTypes, BootStages
  <2> QED
    BY <2>1, <2>2, <2>3, UsersStay DEF DirectoryInv
<1>2. CASE Dir!BootstrapUser
  <2>1. PICK u : /\ UNCHANGED <<mailboxes, mapping, creation, runs, byHand>>
                 /\ boot.at \in {"owner", "other"}
                 /\ boot' = [at |-> IF boot.at = "owner" THEN "other" ELSE "mailbox"]
                 /\ \/ UNCHANGED <<users, settled>>
                    \/ u \notin users /\ users' = users \cup {u} /\ settled' = settled \cup {u}
    BY <1>2 DEF Dir!BootstrapUser, Dir!InsertUser
  <2>2. MappedOnce'
    BY <2>1 DEF DirectoryInv, DirectoryTypes, MappedOnce, NotYetMapped, BootStages
  <2>3. DirectoryTypes'
    BY <2>1 DEF DirectoryInv, DirectoryTypes, BootStages
  <2> QED
    BY <2>1, <2>2, <2>3, UsersStay, UserSettles DEF DirectoryInv
<1>3. CASE \E m \in Mailbox : Dir!BootstrapMailbox(m)
  <2>1. PICK m \in Mailbox : Dir!BootstrapMailbox(m)
    BY <1>3
  <2>2. /\ UNCHANGED <<users, mapping, creation, runs, settled, byHand>>
        /\ boot.at = "mailbox" /\ boot' = [at |-> "member", mailbox |-> m]
        /\ mailboxes' = mailboxes \cup {m}
    BY <2>1 DEF Dir!BootstrapMailbox, Dir!InsertMailbox, Dir!history
  <2>3. MappedOnce'
    BY <2>2 DEF DirectoryInv, DirectoryTypes, MappedOnce, NotYetMapped, BootStages
  <2>4. DirectoryTypes'
    BY <2>2 DEF DirectoryInv, DirectoryTypes, BootStages
  <2> QED
    BY <2>2, <2>3, <2>4, UsersStay DEF DirectoryInv
<1>4. CASE Dir!BootstrapMember
  <2>1. /\ UNCHANGED <<users, mailboxes, mapping, creation, runs, settled, byHand>>
        /\ boot.at = "member" /\ boot' = [boot EXCEPT !.at = "mapping"]
    BY <1>4 DEF Dir!BootstrapMember, Dir!history
  <2>2. DirectoryTypes' /\ boot'.at = "mapping"
    BY <2>1, BootTypes DEF DirectoryInv, DirectoryTypes, BootStages
  <2>3. MappedOnce'
    BY <2>1, <2>2 DEF DirectoryInv, DirectoryTypes, MappedOnce, NotYetMapped, BootStages
  <2> QED
    BY <2>1, <2>2, <2>3, UsersStay DEF DirectoryInv
<1>5. CASE Dir!BootstrapMapping
  <2>1. /\ UNCHANGED <<users, mailboxes, creation, runs, settled, byHand>>
        /\ boot.at = "mapping" /\ boot' = [boot EXCEPT !.at = "sending"]
        /\ mapping' = mapping \cup {<<boot.mailbox, <<Configured, "valid">>>>}
    BY <1>5 DEF Dir!BootstrapMapping, Dir!history
  <2>2. DirectoryTypes' /\ boot'.at = "sending"
    BY <2>1, BootTypes DEF DirectoryInv, DirectoryTypes, BootStages
  <2>3. runs > 0 /\ runs \in Nat
    BY <2>1 DEF DirectoryInv, DirectoryTypes, MappedOnce
  <2>4. MappedOnce'
    <3>1. ~NotYetMapped'
      BY <2>1, <2>2, <2>3 DEF NotYetMapped
    <3>2. ASSUME runs <= 1, NEW x \in mapping', NEW y \in mapping', x[2][1] = y[2][1]
          PROVE  x[2][1] \in byHand \/ x[1] = y[1]
      <4>1. \A z \in mapping : z[2][1] \in byHand
        BY <2>1, <2>3, <3>2 DEF DirectoryInv, MappedOnce, NotYetMapped, BootStages
      <4> QED
        BY <2>1, <3>2, <4>1
    <3> QED
      BY <2>1, <2>2, <2>3, <3>1, <3>2 DEF MappedOnce
  <2> QED
    BY <2>1, <2>2, <2>4, UsersStay DEF DirectoryInv
<1>6. CASE Dir!BootstrapSending \/ Dir!BootstrapFails
  <2>1. /\ UNCHANGED <<users, mailboxes, mapping, creation, runs, settled, byHand>>
        /\ boot' = [at |-> "off"]
    BY <1>6 DEF Dir!BootstrapSending, Dir!BootstrapFails, Dir!history, Dir!tables, Dir!Off
  <2>2. DirectoryTypes'
    BY <2>1 DEF DirectoryInv, DirectoryTypes, BootStages
  <2>3. MappedOnce'
    BY <2>1 DEF DirectoryInv, DirectoryTypes, MappedOnce, NotYetMapped, BootStages
  <2> QED
    BY <2>1, <2>2, <2>3, UsersStay DEF DirectoryInv
<1> QED
  BY <1>1, <1>2, <1>3, <1>4, <1>5, <1>6 DEF Dir!Bootstrapping

LEMMA AdministeringStep ==
  ASSUME DirectoryInv, Dir!Administering
  PROVE  DirectoryInv'
<1>1. ASSUME NEW u \in User, Dir!AddUser(u) PROVE DirectoryInv'
  <2>1. /\ UNCHANGED <<mailboxes, mapping, creation, boot, runs, byHand>>
        /\ u \notin users /\ users' = users \cup {u} /\ settled' = settled \cup {u}
    BY <1>1 DEF Dir!AddUser, Dir!InsertUser
  <2> QED
    BY <2>1, UserSettles, MappingsStay DEF DirectoryInv, DirectoryTypes
<1>2. ASSUME NEW m \in Mailbox, NEW u \in User,
             Dir!AddMailbox(m, u) \/ Dir!AddMember(m, u) \/ Dir!RemoveMember(m, u)
      PROVE  DirectoryInv'
  <2>1. /\ UNCHANGED <<users, mapping, creation, boot, runs, settled, byHand>>
        /\ mailboxes' \subseteq mailboxes \cup {m}
    BY <1>2 DEF Dir!AddMailbox, Dir!AddMember, Dir!RemoveMember, Dir!InsertMailbox, Dir!history
  <2> QED
    BY <2>1, UsersStay, MappingsStay DEF DirectoryInv, DirectoryTypes
<1>3. ASSUME NEW m \in Mailbox, NEW a \in Address, Dir!AddMapping(m, a) PROVE DirectoryInv'
  <2>1. /\ UNCHANGED <<users, mailboxes, creation, boot, runs, settled>>
        /\ mapping' = mapping \cup {<<m, <<a, "valid">>>>} /\ byHand' = byHand \cup {a}
    BY <1>3 DEF Dir!AddMapping
  <2>2. MappedOnce'
    BY <2>1, MappingByHand DEF DirectoryInv, DirectoryTypes
  <2> QED
    BY <2>1, <2>2, UsersStay DEF DirectoryInv, DirectoryTypes
<1>4. ASSUME NEW u \in User, NEW a \in Address,
             Dir!AddSending(u, a) \/ \E state \in {"active", "inactive"} : Dir!SetSending(u, a, state)
      PROVE  DirectoryInv'
  <2>1. UNCHANGED <<users, mailboxes, mapping, creation, boot, runs, settled, byHand>>
    BY <1>4 DEF Dir!AddSending, Dir!SetSending, Dir!history
  <2> QED
    BY <2>1, UsersStay, MappingsStay DEF DirectoryInv, DirectoryTypes
<1> QED
  BY <1>1, <1>2, <1>3, <1>4 DEF Dir!Administering

LEMMA DirectoryNext ==
  ASSUME DirectoryInv, [Dir!Next]_Dir!vars
  PROVE  DirectoryInv'
<1>1. CASE UNCHANGED Dir!vars
  BY <1>1, UsersStay, MappingsStay DEF Dir!vars, Dir!tables, Dir!history, DirectoryInv,
     DirectoryTypes
<1> QED
  BY <1>1, CreatingStep, BootstrappingStep, AdministeringStep DEF Dir!Next, Dir!Step

\* The instance counts as its host does.
LEMMA SameCardinality == ASSUME NEW S PROVE Dir!Cardinality(S) = Cardinality(S)
BY DEF Cardinality, Dir!Cardinality

\* All mappings of such an address lead to one mailbox.
LEMMA OneDestination ==
  ASSUME DirectoryInv, NEW a, Cardinality(Dir!Routes(a)) > 1
  PROVE  a \in byHand \/ runs > 1
<1> SUFFICES ASSUME a \notin byHand, runs <= 1 PROVE FALSE
  BY DEF DirectoryInv, DirectoryTypes
<1>1. \A m, n \in Dir!Routes(a) : m = n
  BY DEF DirectoryInv, MappedOnce, Dir!Routes
<1>2. CASE Dir!Routes(a) = {}
  BY <1>2, FS_EmptySet
<1>3. CASE \E m : m \in Dir!Routes(a)
  <2>1. PICK m : Dir!Routes(a) = {m}
    BY <1>1, <1>3
  <2>2. Cardinality({m}) = 1
    BY FS_Singleton
  <2> QED
    BY <2>1, <2>2
<1> QED
  BY <1>2, <1>3

-----------------------------------------------------------------------------
\* Rows refer to rows that are there, and mailboxes in use to mailboxes made.
References ==
  /\ users \subseteq User
  /\ member \subseteq mailboxes \X users
  /\ mapping \subseteq mailboxes \X Dir!Pattern
  /\ sending \in [User \X Address -> {"none", "active", "inactive"}]
  /\ \A k \in User \X Address : sending[k] # "none" => k[1] \in users
  /\ runs \in 0..MaxRuns
  /\ byHand \subseteq Address
  /\ \A r \in Creation : creation[r].at = "receive" => creation[r].target \in mailboxes
  /\ boot.at \in {"member", "mapping"} => boot.mailbox \in mailboxes

LEMMA ReferencesInit == ASSUME MaxRuns \in Nat, Dir!Init PROVE References
BY DEF Dir!Init, Dir!Off, Dir!Idle, References

LEMMA CreateUserRefers ==
  ASSUME DirectoryInv, References, NEW r \in Creation, NEW u \in User, NEW t, NEW s, NEW p,
         Dir!CreateUser(r, u, t, p, s)
  PROVE  References'
<1>1. PICK f : f = [at |-> "mailbox", user |-> u, target |-> t, receive |-> p, send |-> s]
  OBVIOUS
<1>2. f.at = "mailbox" /\ creation' = [creation EXCEPT ![r] = f]
  BY <1>1 DEF Dir!CreateUser, Dir!Becomes
<1>3. \A q \in Creation : creation'[q].at = "receive" => creation'[q] = creation[q]
  BY <1>2 DEF DirectoryInv, DirectoryTypes
<1>4. /\ users' = users \cup {u}
      /\ UNCHANGED <<mailboxes, member, mapping, sending, boot, runs, byHand>>
  BY DEF Dir!CreateUser, Dir!InsertUser, Dir!history
<1> QED
  BY <1>3, <1>4 DEF References

LEMMA GiveMailboxRefers ==
  ASSUME DirectoryInv, References, NEW r \in Creation, NEW m \in Mailbox, Dir!GiveMailbox(r, m)
  PROVE  References'
<1>0. Making(r) /\ creation[r] \in Forms
  BY FormFields DEF DirectoryInv, Dir!GiveMailbox, Dir!At, Making
<1>1. PICK f : f = [creation[r] EXCEPT !.at = IF creation[r].target = "new" THEN "receive" ELSE "send",
                                       !.target = m]
  OBVIOUS
<1>2. f.target = m
  BY <1>0, <1>1 DEF Forms
<1>3. /\ creation' = [creation EXCEPT ![r] = f] /\ m \in mailboxes' /\ mailboxes \subseteq mailboxes'
      /\ UNCHANGED <<users, mapping, sending, boot, runs, byHand>>
      /\ creation[r].user \in users /\ member' = member \cup {<<m, creation[r].user>>}
  BY <1>1 DEF Dir!GiveMailbox, Dir!Becomes, Dir!history, Dir!InsertMember, Dir!InsertMailbox
<1>4. \A q \in Creation :
        creation'[q].at = "receive" => creation'[q].target \in mailboxes'
  BY <1>2, <1>3 DEF DirectoryInv, DirectoryTypes, References
<1> QED
  BY <1>3, <1>4 DEF References

LEMMA MapAddressRefers ==
  ASSUME DirectoryInv, References, NEW r \in Creation, Dir!MapAddress(r)
  PROVE  References'
<1>0. Making(r) /\ creation[r] \in Forms
  BY FormFields DEF DirectoryInv, Dir!MapAddress, Dir!At, Making
<1>1. /\ creation[r].at = "receive" /\ creation[r].receive # "broken"
      /\ UNCHANGED <<users, mailboxes, member, sending, boot, runs>>
      /\ byHand' = byHand \cup
           (IF creation[r].receive = "none" THEN {} ELSE {creation[r].receive[1]})
      /\ \/ mapping' = mapping
         \/ /\ creation[r].receive # "none"
            /\ mapping' = mapping \cup {<<creation[r].target, creation[r].receive>>}
  BY DEF Dir!MapAddress, Dir!Receives, Dir!At
<1>2. creation[r].receive \in Dir!Pattern \cup {"none"}
  BY <1>0, <1>1 DEF Forms
<1>3. byHand' \subseteq Address
  BY <1>1, <1>2 DEF Dir!Pattern, References
<1>4. mapping' \subseteq mailboxes \X Dir!Pattern
  BY <1>1, <1>2 DEF References
<1>5. \A q \in Creation : creation'[q].at = "receive" => creation'[q] = creation[q]
  <2>1. PICK f : f = [creation[r] EXCEPT !.at = "send"]
    OBVIOUS
  <2>2. f.at = "send" /\ creation' = [creation EXCEPT ![r] = f]
    BY <1>0, <2>1 DEF Dir!MapAddress, Dir!Goto, Forms
  <2> QED
    BY <2>2 DEF DirectoryInv, DirectoryTypes
<1> QED
  BY <1>1, <1>3, <1>4, <1>5 DEF References

\* A request that ends, or goes to clean up.
LEMMA LeavingRefers ==
  ASSUME DirectoryInv, References, NEW r \in Creation,
         Dir!RefusePattern(r) \/ Dir!GiveMailboxFails(r) \/ Dir!Commit(r) \/ Dir!CleanUp(r)
           \/ Dir!Crash(r)
  PROVE  References'
<1>0. Making(r) /\ creation[r] \in Forms
  BY FormFields DEF DirectoryInv, Dir!RefusePattern, Dir!GiveMailboxFails, Dir!Commit, Dir!CleanUp,
                    Dir!Crash, Dir!At, Making
<1>1. creation[r].user \in users
  BY <1>0 DEF DirectoryInv, OneMaker
<1>2. PICK f : f = [creation[r] EXCEPT !.at = "cleanup"]
  OBVIOUS
<1>3. f.at = "cleanup"
  BY <1>0, <1>2 DEF Forms
<1>4. creation' = [creation EXCEPT ![r] = f] \/ creation' = [creation EXCEPT ![r] = Dir!Idle]
  BY <1>2 DEF Dir!RefusePattern, Dir!GiveMailboxFails, Dir!Commit, Dir!CleanUp, Dir!Crash,
              Dir!Goto, Dir!End, Dir!Becomes
<1>5. \A q \in Creation : creation'[q].at = "receive" => creation'[q] = creation[q]
  BY <1>3, <1>4 DEF DirectoryInv, DirectoryTypes, Dir!Idle
<1>6. UNCHANGED <<mailboxes, mapping, boot, runs, byHand>>
  BY DEF Dir!RefusePattern, Dir!GiveMailboxFails, Dir!Commit, Dir!CleanUp, Dir!Crash, Dir!tables,
         Dir!history, Dir!DropUser
<1>7. CASE Dir!Commit(r)
  <2>1. UNCHANGED <<users, member>> /\
        sending' \in {sending, [sending EXCEPT ![<<creation[r].user, creation[r].send>>] = "active"]}
    BY <1>7 DEF Dir!Commit
  <2>2. /\ sending' \in [User \X Address -> {"none", "active", "inactive"}]
        /\ \A k \in User \X Address : sending'[k] # "none" => k[1] \in users
    BY <1>1, <2>1 DEF References
  <2> QED
    BY <1>5, <1>6, <2>1, <2>2 DEF References
<1>8. CASE Dir!CleanUp(r)
  <2>1. CASE UNCHANGED <<users, member, sending>>
    BY <1>5, <1>6, <2>1 DEF References
  <2>2. CASE Dir!DropUser(creation[r].user)
    <3>1. /\ sending' \in [User \X Address -> {"none", "active", "inactive"}]
          /\ \A k \in User \X Address : sending'[k] # "none" => k[1] \in users'
      BY <2>2 DEF Dir!DropUser, References
    <3>2. users' \subseteq User /\ member' \subseteq mailboxes \X users'
      BY <2>2 DEF Dir!DropUser, References
    <3> QED
      BY <1>5, <1>6, <3>1, <3>2 DEF References
  <2> QED
    BY <1>8, <2>1, <2>2 DEF Dir!CleanUp
<1>9. CASE Dir!RefusePattern(r) \/ Dir!GiveMailboxFails(r) \/ Dir!Crash(r)
  BY <1>5, <1>6, <1>9 DEF Dir!RefusePattern, Dir!GiveMailboxFails, Dir!Crash, Dir!tables, References
<1> QED
  BY <1>7, <1>8, <1>9

LEMMA BootstrappingRefers ==
  ASSUME DirectoryInv, References, MaxRuns \in Nat, Owner \in User, Other \in User,
         Configured \in Address, Dir!Bootstrapping
  PROVE  References'
<1>1. CASE Dir!StartBootstrap
  <2>1. runs' \in 0..MaxRuns
    BY <1>1 DEF Dir!StartBootstrap, References
  <2>2. boot'.at = "owner"
    BY <1>1 DEF Dir!StartBootstrap
  <2> QED
    BY <1>1, <2>1, <2>2 DEF Dir!StartBootstrap, Dir!tables, References
<1>2. CASE Dir!BootstrapUser
  <2>1. boot'.at \in {"other", "mailbox"}
    BY <1>2 DEF Dir!BootstrapUser
  <2>2. users \subseteq users' /\ users' \subseteq User
    BY <1>2 DEF Dir!BootstrapUser, Dir!InsertUser, References
  <2> QED
    BY <1>2, <2>1, <2>2 DEF Dir!BootstrapUser, References
<1>3. ASSUME NEW m \in Mailbox, Dir!BootstrapMailbox(m) PROVE References'
  <2>1. boot'.at = "member" /\ boot'.mailbox = m
    BY <1>3 DEF Dir!BootstrapMailbox
  <2> QED
    BY <1>3, <2>1 DEF Dir!BootstrapMailbox, Dir!InsertMailbox, Dir!history, References
<1>4. CASE Dir!BootstrapMember
  <2>1. boot'.mailbox = boot.mailbox
    BY <1>4 DEF Dir!BootstrapMember, DirectoryInv, DirectoryTypes
  <2> QED
    BY <1>4, <2>1 DEF Dir!BootstrapMember, Dir!InsertMember, Dir!history, References
<1>5. CASE Dir!BootstrapMapping
  <2>1. boot'.at = "sending"
    BY <1>5 DEF Dir!BootstrapMapping, DirectoryInv, DirectoryTypes
  <2>2. <<Configured, "valid">> \in Dir!Pattern
    BY DEF Dir!Pattern
  <2> QED
    BY <1>5, <2>1, <2>2 DEF Dir!BootstrapMapping, Dir!history, References
<1>6. CASE Dir!BootstrapSending
  <2>1. boot'.at = "off"
    BY <1>6 DEF Dir!BootstrapSending, Dir!Off
  <2> QED
    BY <1>6, <2>1 DEF Dir!BootstrapSending, Dir!history, References
<1>7. CASE Dir!BootstrapFails
  <2>1. boot'.at = "off"
    BY <1>7 DEF Dir!BootstrapFails, Dir!Off
  <2> QED
    BY <1>7, <2>1 DEF Dir!BootstrapFails, Dir!tables, Dir!history, References
<1> QED
  BY <1>1, <1>2, <1>3, <1>4, <1>5, <1>6, <1>7 DEF Dir!Bootstrapping

LEMMA AdministeringRefers ==
  ASSUME References, Dir!Administering
  PROVE  References'
<1>1. ASSUME NEW u \in User, Dir!AddUser(u) PROVE References'
  BY <1>1 DEF Dir!AddUser, Dir!InsertUser, References
<1>2. ASSUME NEW m \in Mailbox, NEW u \in User, Dir!AddMailbox(m, u) PROVE References'
  BY <1>2 DEF Dir!AddMailbox, Dir!InsertMailbox, Dir!history, References
<1>3. ASSUME NEW m \in Mailbox, NEW u \in User, Dir!AddMember(m, u) PROVE References'
  BY <1>3 DEF Dir!AddMember, Dir!InsertMember, Dir!history, References
<1>4. ASSUME NEW m \in Mailbox, NEW u \in User, Dir!RemoveMember(m, u) PROVE References'
  BY <1>4 DEF Dir!RemoveMember, References
<1>5. ASSUME NEW m \in Mailbox, NEW a \in Address, Dir!AddMapping(m, a) PROVE References'
  BY <1>5 DEF Dir!AddMapping, Dir!Pattern, References
<1>6. ASSUME NEW u \in User, NEW a \in Address, Dir!AddSending(u, a) PROVE References'
  BY <1>6 DEF Dir!AddSending, Dir!history, References
<1>7. ASSUME NEW u \in User, NEW a \in Address, NEW state \in {"active", "inactive"},
             Dir!SetSending(u, a, state)
      PROVE  References'
  BY <1>7 DEF Dir!SetSending, Dir!history, References
<1> QED
  BY <1>1, <1>2, <1>3, <1>4, <1>5, <1>6, <1>7 DEF Dir!Administering

LEMMA ReferencesNext ==
  ASSUME DirectoryInv, References, MaxRuns \in Nat, Owner \in User, Other \in User,
         Configured \in Address, [Dir!Next]_Dir!vars
  PROVE  References'
<1>1. CASE UNCHANGED Dir!vars
  BY <1>1 DEF Dir!vars, Dir!tables, Dir!history, References
<1>2. ASSUME NEW r \in Creation, Dir!Creating(r) PROVE References'
  BY <1>2, CreateUserRefers, GiveMailboxRefers, MapAddressRefers, LeavingRefers DEF Dir!Creating
<1> QED
  BY <1>1, <1>2, BootstrappingRefers, AdministeringRefers DEF Dir!Next, Dir!Step

-----------------------------------------------------------------------------
\* handleAdminUserCreate with its deferred DeleteUser, bootstrapFromConfig: a row of a user
\* is one reported as made, in the making, or left by a clean-up that failed, and none
\* that was reported is taken away.
THEOREM NobodyHalfMade == Dir!Spec => []Dir!NoOrphanUser
<1>1. DirectoryInv /\ [Dir!Next]_Dir!vars => DirectoryInv'
  BY DirectoryNext
<1>2. DirectoryInv => Dir!NoOrphanUser
  BY DEF DirectoryInv
<1> QED
  BY <1>1, <1>2, DirectoryInit, PTL DEF Dir!Spec

\* LookupMailboxByAddress has one mailbox at most to choose for an address, unless a form
\* asked for a mapping of it or the file was applied twice (CreateAddressMapping).
THEOREM RoutesStayClear == Dir!Spec => []Dir!RoutesAreClear
<1>1. DirectoryInv /\ [Dir!Next]_Dir!vars => DirectoryInv'
  BY DirectoryNext
<1>2. DirectoryInv => Dir!RoutesAreClear
  BY OneDestination, SameCardinality DEF Dir!RoutesAreClear
<1> QED
  BY <1>1, <1>2, DirectoryInit, PTL DEF Dir!Spec

\* The tables name users, mailboxes and addresses there are (CreateMailbox,
\* AddUserToMailbox, CreateAddressMapping, AddSendingAddress, DeleteUser).
THEOREM DirectoryTypesHold ==
  ASSUME MaxRuns \in Nat, Owner \in User, Other \in User, Configured \in Address
  PROVE  Dir!Spec => []Dir!TypeOK
<1>1. Dir!Init => DirectoryInv /\ References
  BY DirectoryInit, ReferencesInit
<1>2. DirectoryInv /\ References /\ [Dir!Next]_Dir!vars => DirectoryInv' /\ References'
  BY DirectoryNext, ReferencesNext
<1>3. DirectoryInv /\ References => Dir!TypeOK
  BY DEF DirectoryInv, DirectoryTypes, References, Dir!NoOrphanUser, Dir!TypeOK
<1> QED
  BY <1>1, <1>2, <1>3, PTL DEF Dir!Spec
=============================================================================
