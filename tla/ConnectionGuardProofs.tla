----------------------- MODULE ConnectionGuardProofs -----------------------
(***************************************************************************)
(* Proofs about ConnectionGuard, for every number of connections and       *)
(* addresses and every rate, threshold, duration and cleanup interval:     *)
(* its types, that dropping limiters gives no address a connection more    *)
(* than its rate (RateHonoured), and that overlapping connections do not   *)
(* carry a violation counter past the threshold (ThresholdActs).           *)
(***************************************************************************)
EXTENDS ConnectionGuard, FiniteSetTheorems, TLAPS

(* An address that was seen k ticks ago has at least k tokens back, or all. *)
TokenAge ==
  \A a \in Ip :
    \/ tokens[a] = Rate
    \/ lastSeen[a] # Never /\ tokens[a] + lastSeen[a] >= now

(* Between finding a limiter and asking it, its address is seen just now. *)
Asking ==
  \A c \in Conn : pc[c] = "allow" => lastSeen[ip[c]] = now

(* What an address was allowed since the tick t and what its limiter would  *)
(* still allow, together, keep to the rate.                                 *)
Credit ==
  \A a \in Ip : \A t \in 0..now :
    allowed[a][now] + tokens[a] + t <= Rate + now + Before(a, t)

RateInv == TypeOK /\ TokenAge /\ Asking /\ Credit /\ RateHonoured

USE GuardAssumption

-----------------------------------------------------------------------------
(* Types *)

LEMMA InitType == Init => TypeOK
  BY DEF Init, TypeOK, Pc, Tick, Never

(* One step of Next keeps every variable in its type. *)
LEMMA StepType == TypeOK /\ [Next]_vars => TypeOK'
<1> SUFFICES ASSUME TypeOK, [Next]_vars PROVE TypeOK'
  OBVIOUS
<1> USE DEF TypeOK, Pc, Tick, Never, Goto, Fault, limits, history
<1>1. ASSUME NEW c \in Conn, Open(c) PROVE TypeOK'
  BY <1>1 DEF Open
<1>2. ASSUME NEW c \in Conn, OpenFails(c) PROVE TypeOK'
  BY <1>2 DEF OpenFails
<1>3. ASSUME NEW c \in Conn, CheckIPBlock(c) PROVE TypeOK'
  BY <1>3 DEF CheckIPBlock
<1>4. ASSUME NEW c \in Conn, CheckIPBlockFails(c) PROVE TypeOK'
  BY <1>4 DEF CheckIPBlockFails
<1>5. ASSUME NEW c \in Conn, FindLimiter(c) PROVE TypeOK'
  <2> DEFINE a == ip[c]
             seen == [lastSeen EXCEPT ![a] = now]
             due == cleanupTick + 1 >= Interval
             drop == IF due THEN {b \in Ip : Stale(b, seen)} ELSE {}
  <2>1. a \in Ip /\ seen \in [Ip -> Tick \cup {Never}]
    OBVIOUS
  <2>2. lastSeen' = [b \in Ip |-> IF b \in drop THEN Never ELSE seen[b]]
    BY <1>5 DEF FindLimiter
  <2>3. lastSeen' \in [Ip -> Tick \cup {Never}]
    BY <2>1, <2>2
  <2>4. tokens' = [b \in Ip |-> IF b \in drop THEN Rate ELSE tokens[b]]
    BY <1>5 DEF FindLimiter
  <2>5. tokens' \in [Ip -> 0..Rate]
    BY <2>4
  <2>6. violations' = [b \in Ip |-> IF b \in drop THEN 0 ELSE violations[b]]
    BY <1>5 DEF FindLimiter
  <2>7. violations' \in [Ip -> Nat]
    BY <2>6
  <2>8. cleanupTick' \in 0..(Interval - 1)
    BY <1>5 DEF FindLimiter
  <2> QED
    BY <1>5, <2>3, <2>5, <2>7, <2>8 DEF FindLimiter
<1>6. ASSUME NEW c \in Conn, Allow(c) PROVE TypeOK'
  <2>0. ip[c] \in Ip /\ tokens[ip[c]] \in 0..Rate /\ refused[ip[c]] \in Nat
    OBVIOUS
  <2>1. tokens' \in [Ip -> 0..Rate]
    <3>1. CASE tokens[ip[c]] > 0 /\ tokens' = [tokens EXCEPT ![ip[c]] = @ - 1]
      BY <2>0, <3>1
    <3>2. CASE UNCHANGED tokens
      BY <3>2
    <3> QED
      BY <1>6, <3>1, <3>2 DEF Allow
  <2>2. allowed' \in [Ip -> [Tick -> Nat]]
    <3>1. allowed[ip[c]] \in [Tick -> Nat]
      OBVIOUS
    <3>2. [allowed[ip[c]] EXCEPT ![now] = @ + 1] \in [Tick -> Nat]
      BY <3>1
    <3> QED
      BY <1>6, <3>2 DEF Allow
  <2>3. refused' \in [Ip -> Nat]
    <3>1. CASE refused' = [refused EXCEPT ![ip[c]] = @ + 1]
      BY <2>0, <3>1
    <3>2. CASE UNCHANGED refused
      BY <3>2
    <3> QED
      BY <1>6, <3>1, <3>2 DEF Allow
  <2>4. pc' \in [Conn -> Pc]
    BY <1>6 DEF Allow
  <2> QED
    BY <1>6, <2>1, <2>2, <2>3, <2>4 DEF Allow
<1>7. ASSUME NEW c \in Conn, Count(c) PROVE TypeOK'
  <2>1. violations' \in [Ip -> Nat]
    BY <1>7 DEF Count
  <2>2. pc' \in [Conn -> Pc]
    BY <1>7 DEF Count
  <2> QED
    BY <1>7, <2>1, <2>2 DEF Count
<1>8. ASSUME NEW c \in Conn, AddIPBlock(c) PROVE TypeOK'
  <2>1. now + Duration \in 0..(MaxTick + Duration)
    OBVIOUS
  <2>2. block' \in [Ip -> SUBSET (0..(MaxTick + Duration))]
    BY <1>8, <2>1 DEF AddIPBlock
  <2>3. blocks' \in [Ip -> Nat]
    BY <1>8 DEF AddIPBlock
  <2>4. pc' \in [Conn -> Pc]
    BY <1>8 DEF AddIPBlock
  <2> QED
    BY <1>8, <2>2, <2>3, <2>4 DEF AddIPBlock
<1>9. ASSUME NEW c \in Conn, AddIPBlockFails(c) PROVE TypeOK'
  BY <1>9 DEF AddIPBlockFails
<1>10. ASSUME NEW c \in Conn, Clear(c) PROVE TypeOK'
  BY <1>10 DEF Clear
<1>11. ASSUME NEW c \in Conn, ValidateRBL(c) PROVE TypeOK'
  BY <1>11 DEF ValidateRBL
<1>12. ASSUME NEW c \in Conn, Finish(c) PROVE TypeOK'
  <2>1. pc[c] \in {"accept", "reject"}
    BY <1>12 DEF Finish, Verdict
  <2>2. Verdict[pc[c]] \in {"accepted", "rejected"}
    BY <2>1 DEF Verdict
  <2>3. pc' \in [Conn -> Pc]
    BY <1>12, <2>2 DEF Finish
  <2>4. ingestion' \in [Conn -> {"none", "processing", "accepted", "rejected"}]
    BY <1>12, <2>2 DEF Finish
  <2> QED
    BY <1>12, <2>3, <2>4 DEF Finish
<1>13. CASE Elapse
  <2>1. now' \in Tick
    BY <1>13 DEF Elapse
  <2>2. tokens' \in [Ip -> 0..Rate]
    BY <1>13 DEF Elapse, Refill
  <2>3. ASSUME NEW a \in Ip
        PROVE  [allowed[a] EXCEPT ![now'] = allowed[a][now]] \in [Tick -> Nat]
    <3>1. allowed[a] \in [Tick -> Nat] /\ allowed[a][now] \in Nat
      OBVIOUS
    <3> QED
      BY <3>1
  <2>4. allowed' \in [Ip -> [Tick -> Nat]]
    BY <1>13, <2>3 DEF Elapse
  <2> QED
    BY <1>13, <2>1, <2>2, <2>4 DEF Elapse
<1>14. CASE Purge
  BY <1>14 DEF Purge
<1>15. CASE UNCHANGED vars
  BY <1>15 DEF vars
<1> QED
  BY <1>1, <1>2, <1>3, <1>4, <1>5, <1>6, <1>7, <1>8, <1>9, <1>10, <1>11, <1>12,
     <1>13, <1>14, <1>15 DEF Next

(* The variables keep their types: counters stay numbers, limiters stay     *)
(* within their burst, and each connection is at a step of NewSession.      *)
THEOREM TypeCorrect == Spec => []TypeOK
  BY InitType, StepType, PTL DEF Spec

-----------------------------------------------------------------------------
(* The rate *)

LEMMA InitRate == Init => RateInv
<1> SUFFICES ASSUME Init PROVE RateInv
  OBVIOUS
<1>1. TypeOK
  BY InitType
<1>2. TokenAge /\ Asking
  BY DEF Init, TokenAge, Asking
<1>3. Credit /\ RateHonoured
  BY DEF Init, Credit, RateHonoured, Before, Tick
<1> QED
  BY <1>1, <1>2, <1>3 DEF RateInv

(* The limiters that a cleanup drops had all their tokens: an address that   *)
(* was not seen for StaleAge >= Rate ticks has won them back.                *)
LEMMA DroppedIsFull ==
  ASSUME TypeOK, TokenAge, NEW c \in Conn, NEW b \in Ip,
         Stale(b, [lastSeen EXCEPT ![ip[c]] = now])
  PROVE  tokens[b] = Rate /\ b # ip[c] /\ lastSeen[b] # now
<1>1. b # ip[c]
  BY DEF TypeOK, Stale, Tick
<1>2. lastSeen[b] # Never /\ lastSeen[b] + StaleAge < now
  BY <1>1 DEF TypeOK, Stale
<1>3. now \in Nat /\ lastSeen[b] \in Nat /\ tokens[b] \in 0..Rate
  BY DEF TypeOK, Tick, Never
<1> QED
  BY <1>1, <1>2, <1>3 DEF TokenAge

(* Finding a limiter changes no number of tokens. *)
LEMMA FindKeepsTokens ==
  ASSUME TypeOK, TokenAge, NEW c \in Conn, FindLimiter(c)
  PROVE  tokens' = tokens
<1> DEFINE seen == [lastSeen EXCEPT ![ip[c]] = now]
           drop == IF cleanupTick + 1 >= Interval
                   THEN {b \in Ip : Stale(b, seen)} ELSE {}
<1>1. tokens' = [b \in Ip |-> IF b \in drop THEN Rate ELSE tokens[b]]
  BY DEF FindLimiter
<1>2. \A b \in drop : tokens[b] = Rate
  BY DroppedIsFull
<1> HIDE DEF drop
<1>3. tokens \in [Ip -> 0..Rate]
  BY DEF TypeOK
<1> QED
  BY <1>1, <1>2, <1>3

LEMMA BeforeNat ==
  ASSUME TypeOK, NEW a \in Ip, NEW t \in 0..now
  PROVE  Before(a, t) \in Nat
<1>1. now \in Nat /\ now <= MaxTick /\ allowed[a] \in [Tick -> Nat]
  BY DEF TypeOK, Tick
<1>2. t # 0 => t - 1 \in Tick
  BY <1>1 DEF Tick
<1> QED
  BY <1>1, <1>2 DEF Before

(* One step keeps the four parts of RateInv that are about limiters. *)
LEMMA StepRate == RateInv /\ [Next]_vars => RateInv'
<1> SUFFICES ASSUME RateInv, [Next]_vars PROVE RateInv'
  OBVIOUS
<1> USE DEF RateInv
<1>T. TypeOK'
  BY StepType
<1> DEFINE Rest == /\ TokenAge' /\ Asking' /\ Credit' /\ RateHonoured'
<1>1. ASSUME UNCHANGED <<now, ip, tokens, lastSeen, allowed>>,
             \A c \in Conn : pc'[c] = "allow" => pc[c] = "allow"
      PROVE  Rest
  <2>1. TokenAge'
    BY <1>1 DEF TokenAge, Never
  <2>2. Asking'
    BY <1>1 DEF Asking
  <2>3. Credit' /\ RateHonoured'
    BY <1>1 DEF Credit, RateHonoured, Before
  <2> QED
    BY <2>1, <2>2, <2>3
<1>2. ASSUME NEW c \in Conn,
             \/ Open(c) \/ OpenFails(c) \/ CheckIPBlock(c) \/ CheckIPBlockFails(c)
             \/ Count(c) \/ AddIPBlock(c) \/ AddIPBlockFails(c) \/ Clear(c)
             \/ ValidateRBL(c) \/ Finish(c)
      PROVE  Rest
  <2>1. UNCHANGED <<now, ip, tokens, lastSeen, allowed>>
    BY <1>2 DEF Open, OpenFails, CheckIPBlock, CheckIPBlockFails, Count, AddIPBlock,
                AddIPBlockFails, Clear, ValidateRBL, Finish, limits, history
  <2>2. \E p \in Pc \ {"allow"} : Goto(c, p)
    BY <1>2 DEF Open, OpenFails, CheckIPBlock, CheckIPBlockFails, Count, AddIPBlock,
                AddIPBlockFails, Clear, ValidateRBL, Finish, Verdict, Pc
  <2>3. \A d \in Conn : pc'[d] = "allow" => pc[d] = "allow"
    BY <2>2 DEF Goto, TypeOK
  <2> QED
    BY <1>1, <2>1, <2>3
<1>3. ASSUME NEW c \in Conn, FindLimiter(c) PROVE Rest
  <2>1. tokens' = tokens /\ UNCHANGED <<now, ip, allowed>>
    BY <1>3, FindKeepsTokens DEF FindLimiter, history
  <2>2. ASSUME NEW b \in Ip
        PROVE  \/ lastSeen'[b] = Never /\ tokens[b] = Rate /\ lastSeen[b] # now /\ b # ip[c]
               \/ lastSeen'[b] = [lastSeen EXCEPT ![ip[c]] = now][b]
    BY <1>3, DroppedIsFull DEF FindLimiter
  <2>3. TokenAge'
    <3> SUFFICES ASSUME NEW b \in Ip, tokens[b] # Rate
                 PROVE  lastSeen'[b] # Never /\ tokens[b] + lastSeen'[b] >= now
      BY <2>1 DEF TokenAge, Never
    <3>1. lastSeen'[b] = IF b = ip[c] THEN now ELSE lastSeen[b]
      BY <2>2 DEF TypeOK
    <3> QED
      <4>1. now \in Nat /\ now # Never /\ tokens[b] \in Nat
        BY DEF TypeOK, Tick, Never
      <4>2. lastSeen[b] # Never /\ tokens[b] + lastSeen[b] >= now
        BY DEF TokenAge
      <4> QED
        BY <3>1, <4>1, <4>2
  <2>4. Asking'
    <3> SUFFICES ASSUME NEW d \in Conn, pc'[d] = "allow"
                 PROVE  lastSeen'[ip[d]] = now
      BY <2>1 DEF Asking
    <3>1. ip[d] \in Ip /\ ip[c] \in Ip
      BY DEF TypeOK
    <3>2. CASE ip[d] = ip[c]
      BY <2>2, <3>1, <3>2 DEF TypeOK
    <3>3. CASE ip[d] # ip[c]
      <4>1. pc[d] = "allow"
        BY <1>3, <3>3 DEF FindLimiter, Goto, TypeOK
      <4>2. lastSeen[ip[d]] = now
        BY <4>1 DEF Asking
      <4> QED
        BY <2>2, <3>1, <3>3, <4>2 DEF TypeOK
    <3> QED
      BY <3>2, <3>3
  <2>5. Credit' /\ RateHonoured'
    BY <2>1 DEF Credit, RateHonoured, Before
  <2> QED
    BY <2>3, <2>4, <2>5
<1>4. ASSUME NEW c \in Conn, Allow(c) PROVE Rest
  <2> DEFINE a == ip[c]
  <2>1. a \in Ip /\ now \in Nat /\ now \in Tick /\ lastSeen[a] = now /\ now # Never
    BY <1>4 DEF Allow, Asking, TypeOK, Tick, Never
  <2>2. UNCHANGED <<now, ip, lastSeen>>
    BY <1>4 DEF Allow
  <2>3. ASSUME NEW b \in Ip
        PROVE  /\ \A t \in 0..now : Before(b, t)' = Before(b, t)
               /\ \A u \in 0..now : u # now => allowed'[b][u] = allowed[b][u]
               /\ allowed'[b][now] + tokens'[b] = allowed[b][now] + tokens[b]
               /\ tokens'[b] \in Nat
               /\ b # a => tokens'[b] = tokens[b]
    <3>1. tokens \in [Ip -> 0..Rate] /\ tokens[b] \in 0..Rate
      BY DEF TypeOK
    <3>2. allowed[b] \in [Tick -> Nat] /\ allowed[b][now] \in Nat /\ allowed \in [Ip -> [Tick -> Nat]]
      BY <2>1 DEF TypeOK
    <3>3. CASE UNCHANGED <<tokens, allowed>>
      BY <2>2, <3>1, <3>2, <3>3 DEF Before
    <3>4. CASE /\ tokens[a] > 0
               /\ tokens' = [tokens EXCEPT ![a] = @ - 1]
               /\ allowed' = [allowed EXCEPT ![a][now] = @ + 1]
      <4>1. allowed'[b] = IF b = a THEN [allowed[b] EXCEPT ![now] = @ + 1] ELSE allowed[b]
        BY <2>1, <3>2, <3>4
      <4>2. allowed'[b][now] = IF b = a THEN allowed[b][now] + 1 ELSE allowed[b][now]
        BY <2>1, <3>2, <4>1
      <4>3. tokens'[b] = IF b = a THEN tokens[b] - 1 ELSE tokens[b]
        BY <2>1, <3>1, <3>4
      <4>4. \A u \in 0..now : u # now => allowed'[b][u] = allowed[b][u]
        BY <3>2, <4>1
      <4>5. \A t \in 0..now : Before(b, t)' = Before(b, t)
        BY <2>1, <4>4 DEF Before
      <4> QED
        <5>1. allowed'[b][now] + tokens'[b] = allowed[b][now] + tokens[b]
          <6>1. allowed[b][now] \in Nat /\ tokens[b] \in Nat
            BY <3>1, <3>2
          <6>2. CASE b = a
            BY <4>2, <4>3, <6>1, <6>2
          <6>3. CASE b # a
            BY <4>2, <4>3, <6>3
          <6> QED
            BY <6>2, <6>3
        <5>2. tokens'[b] \in Nat
          BY <3>1, <3>4, <4>3
        <5>3. b # a => tokens'[b] = tokens[b]
          BY <4>3
        <5> QED
          BY <4>4, <4>5, <5>1, <5>2, <5>3
    <3> QED
      BY <1>4, <3>3, <3>4 DEF Allow
  <2>4. TokenAge'
    <3> SUFFICES ASSUME NEW b \in Ip, tokens'[b] # Rate
                 PROVE  lastSeen[b] # Never /\ tokens'[b] + lastSeen[b] >= now
      BY <2>2 DEF TokenAge, Never
    <3> QED
      BY <2>1, <2>3 DEF TokenAge
  <2>5. Asking'
    BY <1>4, <2>2 DEF Allow, Goto, Asking, TypeOK
  <2>6. Credit'
    <3> SUFFICES ASSUME NEW b \in Ip, NEW t \in 0..now
                 PROVE  allowed'[b][now] + tokens'[b] + t <= Rate + now + Before(b, t)'
      BY <2>2 DEF Credit
    <3>1. allowed[b][now] + tokens[b] + t <= Rate + now + Before(b, t)
      BY DEF Credit
    <3> QED
      BY <2>3, <3>1
  <2>7. RateHonoured'
    <3> SUFFICES ASSUME NEW b \in Ip, NEW t \in 0..now, NEW u \in 0..now, t <= u
                 PROVE  allowed'[b][u] - Before(b, t)' <= Rate + (u - t)
      BY <2>2 DEF RateHonoured
    <3>1. CASE u = now
      <4>1. allowed'[b][now] + tokens'[b] + t <= Rate + now + Before(b, t)'
        BY <2>2, <2>6 DEF Credit
      <4>2. Before(b, t) \in Nat /\ allowed'[b][now] \in Nat
          <5>1. allowed'[b] \in [Tick -> Nat]
            BY <1>T DEF TypeOK
          <5> QED
            BY <2>1, <5>1, BeforeNat
      <4> QED
        BY <2>1, <2>3, <3>1, <4>1, <4>2
    <3>2. CASE u # now
      BY <2>3, <3>2 DEF RateHonoured
    <3> QED
      BY <3>1, <3>2
  <2> QED
    BY <2>4, <2>5, <2>6, <2>7
<1>5. CASE Elapse
  <2>1. /\ now' = now + 1 /\ now \in Nat /\ now' \in Tick /\ now \in Tick
        /\ UNCHANGED <<pc, ip, lastSeen>>
    BY <1>5 DEF Elapse, TypeOK, Tick
  <2>2. ASSUME NEW b \in Ip
        PROVE  /\ tokens'[b] = IF tokens[b] < Rate THEN tokens[b] + 1 ELSE Rate
               /\ tokens[b] \in 0..Rate
               /\ allowed'[b][now + 1] = allowed[b][now]
               /\ \A u \in 0..now : allowed'[b][u] = allowed[b][u]
               /\ \A t \in 0..now : Before(b, t)' = Before(b, t)
               /\ \A t \in Nat : t = now + 1 => Before(b, t)' = allowed[b][now]
               /\ allowed[b][now] \in Nat
    <3>1. tokens'[b] = IF tokens[b] < Rate THEN tokens[b] + 1 ELSE Rate
      BY <1>5 DEF Elapse, Refill
    <3>2. allowed[b] \in [Tick -> Nat] /\ tokens[b] \in 0..Rate
      BY DEF TypeOK
    <3>3. allowed'[b] = [allowed[b] EXCEPT ![now + 1] = allowed[b][now]]
      BY <1>5, <2>1 DEF Elapse
    <3>4. allowed'[b][now + 1] = allowed[b][now]
      BY <2>1, <3>2, <3>3
    <3>5. \A u \in 0..now : allowed'[b][u] = allowed[b][u]
      BY <2>1, <3>2, <3>3 DEF Tick
    <3>6. \A t \in 0..now : Before(b, t)' = Before(b, t)
      BY <2>1, <3>5 DEF Before
    <3>7. ASSUME NEW t \in Nat, t = now + 1 PROVE Before(b, t)' = allowed[b][now]
      <4>1. t # 0 /\ t - 1 = now /\ now \in 0..now
        BY <2>1, <3>7
      <4>2. allowed'[b][t - 1] = allowed[b][now]
        BY <3>5, <4>1
      <4> QED
        BY <4>1, <4>2 DEF Before
    <3> QED
      BY <2>1, <3>1, <3>2, <3>4, <3>5, <3>6, <3>7
  <2>3. TokenAge'
    <3> SUFFICES ASSUME NEW b \in Ip, tokens'[b] # Rate
                 PROVE  lastSeen[b] # Never /\ tokens'[b] + lastSeen[b] >= now + 1
      BY <2>1 DEF TokenAge, Never
    <3>1. lastSeen[b] \in Nat
      BY DEF TypeOK, Tick, Never
    <3> QED
      BY <2>1, <2>2, <3>1 DEF TokenAge
  <2>4. Asking'
    BY <1>5, <2>1 DEF Elapse, Asking
  <2>5. Credit'
    <3> SUFFICES ASSUME NEW b \in Ip, NEW t \in 0..(now + 1)
                 PROVE  allowed'[b][now + 1] + tokens'[b] + t <= Rate + (now + 1) + Before(b, t)'
      BY <2>1 DEF Credit
    <3>1. CASE t = now + 1
      <4>1. /\ allowed'[b][now + 1] = allowed[b][now] /\ Before(b, t)' = allowed[b][now]
            /\ allowed[b][now] \in Nat
        BY <2>2, <3>1
      <4>2. tokens'[b] \in 0..Rate
        BY <1>T DEF TypeOK
      <4> QED
        BY <2>1, <3>1, <4>1, <4>2
    <3>2. CASE t # now + 1
      <4>1. t \in 0..now
        BY <2>1, <3>2
      <4>2. Before(b, t) \in Nat
        BY <4>1, BeforeNat
      <4>3. allowed[b][now] + tokens[b] + t <= Rate + now + Before(b, t)
        BY <4>1 DEF Credit
      <4> QED
        BY <2>1, <2>2, <4>1, <4>2, <4>3
    <3> QED
      BY <3>1, <3>2
  <2>6. RateHonoured'
    <3> SUFFICES ASSUME NEW b \in Ip, NEW t \in 0..(now + 1), NEW u \in 0..(now + 1), t <= u
                 PROVE  allowed'[b][u] - Before(b, t)' <= Rate + (u - t)
      BY <2>1 DEF RateHonoured
    <3>1. CASE u = now + 1
      <4>1. allowed'[b][now + 1] + tokens'[b] + t <= Rate + (now + 1) + Before(b, t)'
        BY <2>1, <2>5 DEF Credit
      <4>2. tokens'[b] \in Nat /\ Before(b, t)' \in Nat
        BY <1>T, <2>1 DEF Before, TypeOK, Tick
      <4> QED
        BY <2>1, <2>2, <3>1, <4>1, <4>2
    <3>2. CASE u # now + 1
      <4>1. u \in 0..now /\ t \in 0..now
        BY <2>1, <3>2
      <4> QED
        BY <2>2, <4>1 DEF RateHonoured
    <3> QED
      BY <3>1, <3>2
  <2> QED
    BY <1>T, <2>3, <2>4, <2>5, <2>6
<1>6. CASE Purge
  <2>1. UNCHANGED <<now, ip, pc, tokens, lastSeen, allowed>>
    BY <1>6 DEF Purge, limits, history
  <2> QED
    BY <1>T, <1>1, <2>1
<1>7. CASE UNCHANGED vars
  <2>1. UNCHANGED <<now, ip, pc, tokens, lastSeen, allowed>>
    BY <1>7 DEF vars, limits, history
  <2> QED
    BY <1>T, <1>1, <2>1
<1> QED
  <2>1. Rest
    BY <1>2, <1>3, <1>4, <1>5, <1>6, <1>7 DEF Next
  <2> QED
    BY <1>T, <2>1

(* However long an address keeps connecting, and whatever the cleanup drops, *)
(* no stretch of time lets more of its connections past the limiter than the *)
(* burst and what comes back meanwhile.                                      *)
THEOREM RateCorrect == Spec => []RateHonoured
<1>1. RateInv => RateHonoured
  BY DEF RateInv
<1> QED
  BY <1>1, InitRate, StepRate, PTL DEF Spec

-----------------------------------------------------------------------------
(* The threshold *)

(* Steps that leave the counters alone, take no connection out of "block"    *)
(* or "clear" and forget no fault keep ThresholdActs.                        *)
LEMMA QuietKeepsThreshold ==
  ASSUME TypeOK, ThresholdActs, UNCHANGED <<ip>>,
         \A a \in Ip : violations'[a] = violations[a] \/ violations'[a] = 0,
         \A d \in Conn : pc[d] \in {"block", "clear"} => pc'[d] \in {"block", "clear"},
         faults' > 0 \/ faults' = faults
  PROVE  ThresholdActs'
<1> SUFFICES ASSUME NEW a \in Ip, Threshold > 0, violations'[a] >= Threshold,
                    ~(faults' > 0)
             PROVE  \E d \in Conn : ip[d] = a /\ pc'[d] \in {"block", "clear"}
  BY DEF ThresholdActs
<1>1. violations'[a] = violations[a]
  OBVIOUS
<1>2. ~(faults > 0)
  OBVIOUS
<1> QED
  BY <1>1, <1>2 DEF ThresholdActs

LEMMA StepThreshold == TypeOK /\ ThresholdActs /\ [Next]_vars => ThresholdActs'
<1> SUFFICES ASSUME TypeOK, ThresholdActs, [Next]_vars PROVE ThresholdActs'
  OBVIOUS
<1> DEFINE Quiet ==
      /\ UNCHANGED ip
      /\ \A a \in Ip : violations'[a] = violations[a] \/ violations'[a] = 0
      /\ \A d \in Conn : pc[d] \in {"block", "clear"} => pc'[d] \in {"block", "clear"}
      /\ faults' > 0 \/ faults' = faults
<1>Q. Quiet => ThresholdActs'
  BY QuietKeepsThreshold
<1>F. faults \in Nat /\ pc \in [Conn -> Pc] /\ ip \in [Conn -> Ip] /\ violations \in [Ip -> Nat]
  BY DEF TypeOK
<1>1. ASSUME NEW c \in Conn,
             Open(c) \/ OpenFails(c) \/ CheckIPBlock(c) \/ CheckIPBlockFails(c)
             \/ Allow(c) \/ AddIPBlock(c) \/ ValidateRBL(c) \/ Finish(c)
      PROVE  Quiet
  <2>1. UNCHANGED <<ip, violations>> /\ (faults' = faults \/ faults' = faults + 1)
    BY <1>1 DEF Open, OpenFails, CheckIPBlock, CheckIPBlockFails, Allow, AddIPBlock,
                ValidateRBL, Finish, limits, history, Fault
  <2>2. \E p \in Pc : Goto(c, p) /\ (pc[c] \in {"block", "clear"} => p \in {"block", "clear"})
    BY <1>1 DEF Open, OpenFails, CheckIPBlock, CheckIPBlockFails, Allow, AddIPBlock,
                ValidateRBL, Finish, Verdict, Pc
  <2> QED
    BY <1>F, <2>1, <2>2 DEF Goto
<1>2. ASSUME NEW c \in Conn, FindLimiter(c) PROVE Quiet
  <2>1. UNCHANGED <<ip, faults>> /\ Goto(c, "allow") /\ pc[c] = "limit"
    BY <1>2 DEF FindLimiter
  <2>2. \A a \in Ip : violations'[a] = violations[a] \/ violations'[a] = 0
    BY <1>2 DEF FindLimiter
  <2> QED
    BY <1>F, <2>1, <2>2 DEF Goto
<1>3. ASSUME NEW c \in Conn, Count(c) PROVE ThresholdActs'
  <2> SUFFICES ASSUME NEW a \in Ip, Threshold > 0, violations'[a] >= Threshold,
                      ~(faults' > 0)
               PROVE  \E d \in Conn : ip[d] = a /\ pc'[d] \in {"block", "clear"}
    BY <1>3 DEF Count, ThresholdActs
  <2>1. CASE ip[c] = a
    BY <1>3, <1>F, <2>1 DEF Count, Goto, AutoBlocks
  <2>2. CASE ip[c] # a
    <3>1. violations'[a] = violations[a] /\ faults' = faults
      BY <1>3, <1>F, <2>2 DEF Count
    <3>2. PICK d \in Conn : ip[d] = a /\ pc[d] \in {"block", "clear"}
      BY <3>1 DEF ThresholdActs
    <3> QED
      BY <1>3, <1>F, <2>2, <3>2 DEF Count, Goto
  <2> QED
    BY <2>1, <2>2
<1>4. ASSUME NEW c \in Conn, AddIPBlockFails(c) PROVE ThresholdActs'
  BY <1>4, <1>F DEF AddIPBlockFails, Fault, ThresholdActs
<1>5. ASSUME NEW c \in Conn, Clear(c) PROVE ThresholdActs'
  <2> SUFFICES ASSUME NEW a \in Ip, Threshold > 0, violations'[a] >= Threshold,
                      ~(faults' > 0)
               PROVE  \E d \in Conn : ip[d] = a /\ pc'[d] \in {"block", "clear"}
    BY <1>5 DEF Clear, ThresholdActs
  <2>1. ip[c] # a /\ violations'[a] = violations[a] /\ faults' = faults
    BY <1>5, <1>F DEF Clear
  <2>2. PICK d \in Conn : ip[d] = a /\ pc[d] \in {"block", "clear"}
    BY <2>1 DEF ThresholdActs
  <2> QED
    BY <1>5, <1>F, <2>1, <2>2 DEF Clear, Goto
<1>6. CASE Elapse
  BY <1>6, <1>Q, <1>F DEF Elapse
<1>7. CASE Purge
  BY <1>7, <1>Q, <1>F DEF Purge, limits, history
<1>8. CASE UNCHANGED vars
  BY <1>8, <1>Q, <1>F DEF vars, limits, history
<1> QED
  BY <1>Q, <1>1, <1>2, <1>3, <1>4, <1>5, <1>6, <1>7, <1>8 DEF Next

(* However connections of one address overlap, its counter stands at the     *)
(* threshold only while one of them is writing the block, unless writing one *)
(* has failed.                                                               *)
THEOREM ThresholdCorrect == Spec => []ThresholdActs
<1>1. Init => ThresholdActs
  BY DEF Init, ThresholdActs
<1> QED
  BY <1>1, InitType, StepType, StepThreshold, PTL DEF Spec

-----------------------------------------------------------------------------
(* The price of a block *)

(* The connections of an address that stand at p. *)
At(p, a) == {c \in Conn : ip[c] = a /\ pc[c] = p}

(* Every violation counted, and every refusal still to be counted, is one of *)
(* the address's refusals; and once somebody is about to block it, the first *)
(* Threshold - 1 of these have been spent on no block.                       *)
Earned(a) ==
  /\ IsFiniteSet(At("count", a)) /\ IsFiniteSet(At("block", a))
  /\ violations[a] + Cardinality(At("count", a)) <= refused[a]
  /\ blocks[a] + Cardinality(At("block", a)) > 0 =>
       /\ Threshold > 0
       /\ blocks[a] + Cardinality(At("block", a)) + Cardinality(At("count", a)) + Threshold
            <= refused[a] + 1

EarnedInv == \A a \in Ip : Earned(a)

(* What a step of c does to the connections that stand at q. *)
LEMMA AtNext ==
  ASSUME TypeOK, NEW c \in Conn, NEW p \in Pc, NEW q \in Pc, NEW a \in Ip,
         Goto(c, p), UNCHANGED ip
  PROVE  /\ ip[c] = a /\ p = q => At(q, a)' = At(q, a) \cup {c}
         /\ ~(ip[c] = a /\ p = q) => At(q, a)' = At(q, a) \ {c}
         /\ c \in At(q, a) <=> ip[c] = a /\ pc[c] = q
         /\ c \notin At(q, a) => At(q, a) \ {c} = At(q, a)
<1>1. pc' = [pc EXCEPT ![c] = p] /\ pc \in [Conn -> Pc]
  BY DEF Goto, TypeOK
<1> QED
  BY <1>1 DEF At

(* Steps that take no connection to "count" or "block" or from there. *)
LEMMA QuietKeepsEarned ==
  ASSUME TypeOK, EarnedInv, UNCHANGED <<ip, refused, blocks>>,
         \A a \in Ip : violations'[a] = violations[a] \/ violations'[a] = 0,
         \A d \in Conn, q \in {"count", "block"} : pc'[d] = q <=> pc[d] = q
  PROVE  EarnedInv'
<1> SUFFICES ASSUME NEW a \in Ip PROVE Earned(a)'
  BY DEF EarnedInv
<1>1. At("count", a)' = At("count", a) /\ At("block", a)' = At("block", a)
  BY DEF At
<1>2. /\ violations[a] \in Nat /\ violations'[a] \in Nat /\ violations'[a] <= violations[a]
      /\ refused[a] \in Nat
  <2>1. violations[a] \in Nat /\ refused[a] \in Nat
    BY DEF TypeOK
  <2>2. violations'[a] = violations[a] \/ violations'[a] = 0
    OBVIOUS
  <2> QED
    BY <2>1, <2>2
<1>3. Cardinality(At("count", a)) \in Nat
  BY FS_CardinalityType DEF EarnedInv, Earned
<1> QED
  BY <1>1, <1>2, <1>3 DEF EarnedInv, Earned

(* A refusal, and what is made of it. *)
LEMMA RefusalKeepsEarned ==
  ASSUME TypeOK, EarnedInv, NEW c \in Conn,
         Allow(c) \/ Count(c) \/ AddIPBlock(c) \/ AddIPBlockFails(c)
  PROVE  EarnedInv'
<1> SUFFICES ASSUME NEW a \in Ip PROVE Earned(a)'
  BY DEF EarnedInv
<1> DEFINE U == Cardinality(At("count", a))
           P == Cardinality(At("block", a))
<1>1. /\ Earned(a) /\ IsFiniteSet(At("count", a)) /\ IsFiniteSet(At("block", a))
      /\ U \in Nat /\ P \in Nat
      /\ violations[a] \in Nat /\ refused[a] \in Nat /\ blocks[a] \in Nat
  BY FS_CardinalityType DEF EarnedInv, Earned, TypeOK
<1>2. UNCHANGED ip
  BY DEF Allow, Count, AddIPBlock, AddIPBlockFails, history
<1>3. ASSUME NEW p \in Pc, Goto(c, p), p \notin {"count", "block"}
      PROVE  /\ IsFiniteSet(At("count", a)') /\ IsFiniteSet(At("block", a)')
             /\ Cardinality(At("count", a)') = IF ip[c] = a /\ pc[c] = "count" THEN U - 1 ELSE U
             /\ Cardinality(At("block", a)') = IF ip[c] = a /\ pc[c] = "block" THEN P - 1 ELSE P
  <2>1. /\ At("count", a)' = At("count", a) \ {c} /\ At("block", a)' = At("block", a) \ {c}
        /\ c \in At("count", a) <=> ip[c] = a /\ pc[c] = "count"
        /\ c \in At("block", a) <=> ip[c] = a /\ pc[c] = "block"
    BY <1>2, <1>3, AtNext DEF Pc
  <2> QED
    BY <1>1, <2>1, FS_RemoveElement
<1>4. CASE Allow(c)
  <2>1. pc[c] = "allow" /\ UNCHANGED <<violations, blocks>>
    BY <1>4 DEF Allow
  <2>2. CASE Goto(c, "rbl") /\ UNCHANGED refused
    BY <1>1, <1>3, <2>1, <2>2 DEF Earned, Pc
  <2>3. CASE Goto(c, "count") /\ refused' = [refused EXCEPT ![ip[c]] = @ + 1]
    <3>1. /\ At("block", a)' = At("block", a)
          /\ ip[c] = a => At("count", a)' = At("count", a) \cup {c} /\ c \notin At("count", a)
          /\ ip[c] # a => At("count", a)' = At("count", a)
      <4>1. "count" \in Pc /\ "block" \in Pc
        BY DEF Pc
      <4>2. At("block", a)' = At("block", a)
        BY <1>2, <2>1, <2>3, <4>1, AtNext
      <4>3. c \notin At("count", a)
        BY <2>1 DEF At
      <4>4. ip[c] = a => At("count", a)' = At("count", a) \cup {c}
        BY <1>2, <2>3, <4>1, AtNext
      <4>5. ip[c] # a => At("count", a)' = At("count", a) \ {c}
        BY <1>2, <2>3, <4>1, AtNext
      <4> QED
        BY <4>2, <4>3, <4>4, <4>5
    <3>2. CASE ip[c] = a
      <4>1. IsFiniteSet(At("count", a)') /\ Cardinality(At("count", a)') = U + 1
        BY <1>1, <3>1, <3>2, FS_AddElement
      <4>2. refused'[a] = refused[a] + 1
        BY <2>3, <3>2 DEF TypeOK
      <4> QED
        BY <1>1, <2>1, <3>1, <4>1, <4>2 DEF Earned
    <3>3. CASE ip[c] # a
      <4>1. refused'[a] = refused[a]
        BY <2>3, <3>3 DEF TypeOK
      <4> QED
        BY <1>1, <2>1, <3>1, <3>3, <4>1 DEF Earned
    <3> QED
      BY <3>2, <3>3
  <2> QED
    BY <1>4, <2>2, <2>3 DEF Allow
<1>5. CASE Count(c)
  <2>1. /\ pc[c] = "count" /\ UNCHANGED <<refused, blocks>>
        /\ violations' = [violations EXCEPT ![ip[c]] = @ + 1]
        /\ Goto(c, IF AutoBlocks(violations'[ip[c]]) THEN "block" ELSE "reject")
    BY <1>5 DEF Count, history
  <2>2. /\ ip[c] = a => violations'[a] = violations[a] + 1
        /\ ip[c] # a => violations'[a] = violations[a]
    BY <2>1 DEF TypeOK
  <2>3. CASE AutoBlocks(violations'[ip[c]])
    <3>1. /\ At("count", a)' = At("count", a) \ {c}
          /\ ip[c] = a => /\ At("block", a)' = At("block", a) \cup {c}
                          /\ c \notin At("block", a) /\ c \in At("count", a)
          /\ ip[c] # a => At("block", a)' = At("block", a) /\ c \notin At("count", a)
      <4>1. "count" \in Pc /\ "block" \in Pc /\ Goto(c, "block")
        BY <2>1, <2>3 DEF Pc
      <4>2. /\ c \notin At("block", a)
            /\ c \in At("count", a) <=> ip[c] = a
        BY <2>1 DEF At
      <4>3. At("count", a)' = At("count", a) \ {c}
        BY <1>2, <4>1, AtNext
      <4> QED
        BY <1>2, <4>1, <4>2, <4>3, AtNext
    <3>2. CASE ip[c] = a
      <4>1. /\ IsFiniteSet(At("count", a)') /\ Cardinality(At("count", a)') = U - 1
            /\ IsFiniteSet(At("block", a)') /\ Cardinality(At("block", a)') = P + 1
        BY <1>1, <3>1, <3>2, FS_AddElement, FS_RemoveElement
      <4>2. Threshold > 0 /\ violations[a] + 1 >= Threshold
        BY <2>2, <2>3, <3>2 DEF AutoBlocks
      <4> QED
        BY <1>1, <2>1, <2>2, <3>2, <4>1, <4>2 DEF Earned
    <3>3. CASE ip[c] # a
      <4>1. At("count", a)' = At("count", a)
        BY <3>1, <3>3
      <4> QED
        BY <1>1, <2>1, <2>2, <3>1, <3>3, <4>1 DEF Earned
    <3> QED
      BY <3>2, <3>3
  <2>4. CASE ~AutoBlocks(violations'[ip[c]])
    BY <1>1, <1>3, <2>1, <2>2, <2>4 DEF Earned, Pc
  <2> QED
    BY <2>3, <2>4
<1>6. CASE AddIPBlock(c)
  <2>1. /\ pc[c] = "block" /\ Goto(c, "clear") /\ UNCHANGED <<refused, violations>>
        /\ blocks' = [blocks EXCEPT ![ip[c]] = @ + 1]
    BY <1>6 DEF AddIPBlock, limits
  <2>2. /\ ip[c] = a => blocks'[a] = blocks[a] + 1
        /\ ip[c] # a => blocks'[a] = blocks[a]
    BY <2>1 DEF TypeOK
  <2> QED
    BY <1>1, <1>3, <2>1, <2>2 DEF Earned, Pc
<1>7. CASE AddIPBlockFails(c)
  <2>1. pc[c] = "block" /\ Goto(c, "reject") /\ UNCHANGED <<refused, violations, blocks>>
    BY <1>7 DEF AddIPBlockFails, limits, history
  <2> QED
    BY <1>1, <1>3, <2>1 DEF Earned, Pc
<1> QED
  BY <1>4, <1>5, <1>6, <1>7

LEMMA StepEarned == TypeOK /\ EarnedInv /\ [Next]_vars => EarnedInv'
<1> SUFFICES ASSUME TypeOK, EarnedInv, [Next]_vars PROVE EarnedInv'
  OBVIOUS
<1> DEFINE Quiet ==
      /\ UNCHANGED <<ip, refused, blocks>>
      /\ \A a \in Ip : violations'[a] = violations[a] \/ violations'[a] = 0
      /\ \A d \in Conn, q \in {"count", "block"} : pc'[d] = q <=> pc[d] = q
<1>Q. Quiet => EarnedInv'
  BY QuietKeepsEarned
<1>F. pc \in [Conn -> Pc] /\ violations \in [Ip -> Nat]
  BY DEF TypeOK
<1>1. ASSUME NEW c \in Conn,
             Open(c) \/ OpenFails(c) \/ CheckIPBlock(c) \/ CheckIPBlockFails(c)
             \/ ValidateRBL(c) \/ Finish(c)
      PROVE  Quiet
  <2>1. UNCHANGED <<ip, violations, refused, blocks>>
    BY <1>1 DEF Open, OpenFails, CheckIPBlock, CheckIPBlockFails, ValidateRBL, Finish, limits, history
  <2>2. \E p \in Pc : Goto(c, p) /\ {pc[c], p} \cap {"count", "block"} = {}
    BY <1>1 DEF Open, OpenFails, CheckIPBlock, CheckIPBlockFails, ValidateRBL, Finish, Verdict, Pc
  <2> QED
    BY <1>F, <2>1, <2>2 DEF Goto
<1>2. ASSUME NEW c \in Conn, FindLimiter(c) \/ Clear(c) PROVE Quiet
  <2>1. UNCHANGED <<ip, refused, blocks>>
    BY <1>2 DEF FindLimiter, Clear, history
  <2>2. \E p \in Pc : Goto(c, p) /\ {pc[c], p} \cap {"count", "block"} = {}
    BY <1>2 DEF FindLimiter, Clear, Pc
  <2>3. \A a \in Ip : violations'[a] = violations[a] \/ violations'[a] = 0
    BY <1>2, <1>F DEF FindLimiter, Clear
  <2> QED
    BY <1>F, <2>1, <2>2, <2>3 DEF Goto
<1>3. ASSUME NEW c \in Conn, Allow(c) \/ Count(c) \/ AddIPBlock(c) \/ AddIPBlockFails(c)
      PROVE  EarnedInv'
  BY <1>3, RefusalKeepsEarned
<1>4. CASE Elapse \/ Purge \/ UNCHANGED vars
  BY <1>4, <1>Q DEF Elapse, Purge, vars, limits, history
<1> QED
  BY <1>Q, <1>1, <1>2, <1>3, <1>4 DEF Next

(* However the connections of one address overlap, and whatever the cleanup  *)
(* drops, its first Threshold - 1 refusals block nobody, and each later one  *)
(* blocks at most once.                                                      *)
THEOREM BlocksAreEarnedHolds == Spec => []BlocksAreEarned
<1>1. Init => EarnedInv
  <2>1. \A a \in Ip : Init => At("count", a) = {} /\ At("block", a) = {}
    BY DEF Init, At
  <2> QED
    BY <2>1, FS_EmptySet DEF Init, EarnedInv, Earned
<1>2. TypeOK /\ EarnedInv => BlocksAreEarned
  <2> SUFFICES ASSUME TypeOK, EarnedInv, NEW a \in Ip, blocks[a] > 0
               PROVE  Threshold > 0 /\ blocks[a] + Threshold - 1 <= refused[a]
    BY DEF BlocksAreEarned
  <2>1. /\ Cardinality(At("count", a)) \in Nat /\ Cardinality(At("block", a)) \in Nat
        /\ blocks[a] \in Nat /\ refused[a] \in Nat
    BY FS_CardinalityType DEF EarnedInv, Earned, TypeOK
  <2> QED
    BY <2>1 DEF EarnedInv, Earned
<1> QED
  BY <1>1, <1>2, InitType, StepType, StepEarned, PTL DEF Spec
=============================================================================
