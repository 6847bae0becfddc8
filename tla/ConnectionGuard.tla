-------------------------- MODULE ConnectionGuard --------------------------
(***************************************************************************)
(* What a connection meets before its SMTP session begins (NewSession):    *)
(* its ingestion row, then the steps ip_block, ip_rate_limit and rbl of    *)
(* the connect stage.  Connections run concurrently; they share the        *)
(* pipeline's limiters and violation counters, which a mutex guards one    *)
(* access at a time, and the ip_block table, which the hourly cleaner      *)
(* changes too.                                                            *)
(*                                                                         *)
(* A tick is the time in which a limiter regains one token, a minute       *)
(* divided by the rate.  A limiter the cleanup has dropped is one with all *)
(* its tokens, for that is how it is created again.                        *)
(***************************************************************************)
EXTENDS Naturals

CONSTANTS
  Conn,        \* calls of NewSession, one for a connection
  Ip,          \* remote addresses, none of them loopback
  Rate,        \* SMTP_CONNECTIONS_PER_MINUTE, and the ticks in a minute;
               \* 0 turns the step off
  Threshold,   \* SMTP_AUTO_BLOCK_THRESHOLD, 0 for never
  Duration,    \* SMTP_AUTO_BLOCK_DURATION in ticks
  Interval,    \* limiterCleanupInterval (100 calls)
  StaleAge,    \* limiterStaleAge (10 minutes) in ticks
  MaxTick,     \* bound: the last tick
  MaxFaults    \* bound: failing database calls

ASSUME GuardAssumption ==
  /\ Rate \in Nat \ {0}
  /\ Threshold \in Nat /\ Duration \in Nat \ {0}
  /\ Interval \in Nat \ {0}
  /\ StaleAge \in Nat /\ StaleAge >= Rate
  /\ MaxTick \in Nat /\ MaxFaults \in Nat

VARIABLES
  now,         \* the tick
  pc,          \* per connection: where NewSession stands
  ip,          \* per connection: its remote address
  ingestion,   \* ingestion.status of each connection's row, or "none"
  tokens,      \* per address: tokens of its limiter
  lastSeen,    \* limiterLastSeen: the tick, or Never
  violations,  \* violations
  cleanupTick, \* calls of CheckRateLimit since the last cleanup
  block,       \* ip_block: for each address the ends of its blocks
  faults,      \* bound: failed calls so far
  allowed,     \* history: connections let through by the limiter, per tick
  refused,     \* history: connections the limiter has refused
  blocks       \* history: automatic blocks inserted

limits == <<tokens, lastSeen, violations, cleanupTick>>
history == <<allowed, refused, blocks>>
vars == <<now, pc, ip, ingestion, limits, block, faults, history>>

-----------------------------------------------------------------------------

Pc == {"new", "created", "limit", "allow", "count", "block", "clear", "rbl",
       "accept", "accepted", "reject", "rejected"}
Tick == 0..MaxTick
Never == MaxTick + 1

Init ==
  /\ now = 0
  /\ pc = [c \in Conn |-> "new"]
  /\ ip \in [Conn -> Ip]
  /\ ingestion = [c \in Conn |-> "none"]
  /\ tokens = [a \in Ip |-> Rate]
  /\ lastSeen = [a \in Ip |-> Never]
  /\ violations = [a \in Ip |-> 0]
  /\ cleanupTick = 0
  /\ block = [a \in Ip |-> {}]
  /\ faults = 0
  /\ allowed = [a \in Ip |-> [t \in Tick |-> 0]]
  /\ refused = [a \in Ip |-> 0]
  /\ blocks = [a \in Ip |-> 0]

Goto(c, p) == pc' = [pc EXCEPT ![c] = p]

Fault == faults < MaxFaults /\ faults' = faults + 1

\* IsIPBlocked.
Blocked(a) == \E end \in block[a] : end > now

\* Mutant of Stale: the cleanup drops every limiter.
StaleAll(a, seen) == TRUE

\* The limiters that the cleanup drops; seen is limiterLastSeen by then.
Stale(a, seen) == seen[a] # Never /\ seen[a] + StaleAge < now

-----------------------------------------------------------------------------
(* NewSession *)

\* NewIngestion.
Open(c) ==
  /\ pc[c] = "new"
  /\ ingestion' = [ingestion EXCEPT ![c] = "processing"]
  /\ Goto(c, "created")
  /\ UNCHANGED <<now, ip, limits, block, faults, history>>

OpenFails(c) ==
  /\ Fault
  /\ pc[c] = "new"
  /\ Goto(c, "rejected")
  /\ UNCHANGED <<now, ip, ingestion, limits, block, history>>

CheckIPBlock(c) ==
  /\ pc[c] = "created"
  /\ Goto(c, IF Blocked(ip[c]) THEN "reject" ELSE "limit")
  /\ UNCHANGED <<now, ip, ingestion, limits, block, faults, history>>

\* The table cannot be read: the connection is rejected.
CheckIPBlockFails(c) ==
  /\ Fault
  /\ pc[c] = "created"
  /\ Goto(c, "reject")
  /\ UNCHANGED <<now, ip, ingestion, limits, block, history>>

\* CheckRateLimit, first critical section: every Interval calls it drops the
\* limiters and counters of addresses not seen for a while.
FindLimiter(c) ==
  LET a == ip[c]
      seen == [lastSeen EXCEPT ![a] = now]
      due == cleanupTick + 1 >= Interval
      drop == IF due THEN {b \in Ip : Stale(b, seen)} ELSE {}
  IN
  /\ pc[c] = "limit"
  /\ cleanupTick' = IF due THEN 0 ELSE cleanupTick + 1
  /\ lastSeen' = [b \in Ip |-> IF b \in drop THEN Never ELSE seen[b]]
  /\ tokens' = [b \in Ip |-> IF b \in drop THEN Rate ELSE tokens[b]]
  /\ violations' = [b \in Ip |-> IF b \in drop THEN 0 ELSE violations[b]]
  /\ Goto(c, "allow")
  /\ UNCHANGED <<now, ip, ingestion, block, faults, history>>

\* limiter.Allow().
Allow(c) ==
  LET a == ip[c] IN
  /\ pc[c] = "allow"
  /\ \/ /\ tokens[a] > 0
        /\ tokens' = [tokens EXCEPT ![a] = @ - 1]
        /\ allowed' = [allowed EXCEPT ![a][now] = @ + 1]
        /\ Goto(c, "rbl")
        /\ UNCHANGED refused
     \/ /\ tokens[a] = 0
        /\ refused' = [refused EXCEPT ![a] = @ + 1]
        /\ Goto(c, "count")
        /\ UNCHANGED <<tokens, allowed>>
  /\ UNCHANGED <<now, ip, ingestion, lastSeen, violations, cleanupTick, block, faults, blocks>>

\* Mutants of AutoBlocks: the threshold is passed one violation early, or is
\* only noticed when it is met exactly.
AutoBlocksEarly(n) == Threshold > 0 /\ n + 1 >= Threshold
AutoBlocksLate(n) == Threshold > 0 /\ n > Threshold

AutoBlocks(n) == Threshold > 0 /\ n >= Threshold

\* Second critical section; the number is compared after it.
Count(c) ==
  LET a == ip[c] IN
  /\ pc[c] = "count"
  /\ violations' = [violations EXCEPT ![a] = @ + 1]
  /\ Goto(c, IF AutoBlocks(violations'[a]) THEN "block" ELSE "reject")
  /\ UNCHANGED <<now, ip, ingestion, tokens, lastSeen, cleanupTick, block, faults, history>>

\* AddIPBlock, until the duration has passed from now.
AddIPBlock(c) ==
  LET a == ip[c] IN
  /\ pc[c] = "block"
  /\ block' = [block EXCEPT ![a] = @ \cup {now + Duration}]
  /\ blocks' = [blocks EXCEPT ![a] = @ + 1]
  /\ Goto(c, "clear")
  /\ UNCHANGED <<now, ip, ingestion, limits, faults, allowed, refused>>

\* The error is only logged; the counter stays, and the next violation retries.
AddIPBlockFails(c) ==
  /\ Fault
  /\ pc[c] = "block"
  /\ Goto(c, "reject")
  /\ UNCHANGED <<now, ip, ingestion, limits, block, history>>

\* Third critical section.
Clear(c) ==
  /\ pc[c] = "clear"
  /\ violations' = [violations EXCEPT ![ip[c]] = 0]
  /\ Goto(c, "reject")
  /\ UNCHANGED <<now, ip, ingestion, tokens, lastSeen, cleanupTick, block, faults, history>>

\* ValidateRBL: no server lists the address, or one does.
ValidateRBL(c) ==
  /\ pc[c] = "rbl"
  /\ Goto(c, "accept") \/ Goto(c, "reject")
  /\ UNCHANGED <<now, ip, ingestion, limits, block, faults, history>>

\* The end of RunStage; the error of its update is only logged.
Verdict == [accept |-> "accepted", reject |-> "rejected"]

Finish(c) ==
  /\ pc[c] \in DOMAIN Verdict
  /\ Goto(c, Verdict[pc[c]])
  /\ \/ ingestion' = [ingestion EXCEPT ![c] = Verdict[pc[c]]] /\ UNCHANGED faults
     \/ Fault /\ UNCHANGED ingestion
  /\ UNCHANGED <<now, ip, limits, block, history>>

-----------------------------------------------------------------------------
(* The world *)

\* Mutant of Refill: the burst does not bound it.
Unbounded(n) == n + 1

Refill(n) == IF n < Rate THEN n + 1 ELSE Rate

\* A token comes back.  The two statements between finding a limiter and asking
\* it take no time that counts in ticks.
Elapse ==
  /\ now < MaxTick
  /\ \A c \in Conn : pc[c] # "allow"
  /\ now' = now + 1
  /\ tokens' = [a \in Ip |-> Refill(tokens[a])]
  /\ allowed' = [a \in Ip |-> [allowed[a] EXCEPT ![now'] = allowed[a][now]]]
  /\ UNCHANGED <<pc, ip, ingestion, lastSeen, violations, cleanupTick, block, faults, refused, blocks>>

\* PurgeExpiredRateLimitData: rows that have ended are deleted.
Purge ==
  /\ \E a \in Ip : \E end \in block[a] : end < now
  /\ block' = [a \in Ip |-> {end \in block[a] : end >= now}]
  /\ UNCHANGED <<now, pc, ip, ingestion, limits, faults, history>>

Next ==
  \/ \E c \in Conn :
       \/ Open(c) \/ OpenFails(c) \/ CheckIPBlock(c) \/ CheckIPBlockFails(c)
       \/ FindLimiter(c) \/ Allow(c) \/ Count(c)
       \/ AddIPBlock(c) \/ AddIPBlockFails(c) \/ Clear(c) \/ ValidateRBL(c)
       \/ Finish(c)
  \/ Elapse \/ Purge

Spec == Init /\ [][Next]_vars

-----------------------------------------------------------------------------
(* Properties *)

TypeOK ==
  /\ now \in Tick
  /\ pc \in [Conn -> Pc]
  /\ ip \in [Conn -> Ip]
  /\ ingestion \in [Conn -> {"none", "processing", "accepted", "rejected"}]
  /\ tokens \in [Ip -> 0..Rate]
  /\ lastSeen \in [Ip -> Tick \cup {Never}]
  /\ violations \in [Ip -> Nat]
  /\ cleanupTick \in 0..(Interval - 1)
  /\ block \in [Ip -> SUBSET (0..(MaxTick + Duration))]
  /\ faults \in 0..MaxFaults
  /\ allowed \in [Ip -> [Tick -> Nat]]
  /\ refused \in [Ip -> Nat]
  /\ blocks \in [Ip -> Nat]

Before(a, t) == IF t = 0 THEN 0 ELSE allowed[a][t - 1]

\* In no stretch of time does an address get more connections past the limiter
\* than the rate and one for every tick in it, although the limiters of quiet
\* addresses are dropped and made again with all their tokens.
RateHonoured ==
  \A a \in Ip : \A t, u \in 0..now : t <= u =>
    allowed[a][u] - Before(a, t) <= Rate + (u - t)

\* However connections of one address overlap, none of its first Threshold - 1
\* refusals blocks it, and each later one at most once.
BlocksAreEarned ==
  \A a \in Ip : blocks[a] > 0 => Threshold > 0 /\ blocks[a] + Threshold - 1 <= refused[a]

\* As long as no call of the database has failed, a counter at the threshold is being
\* acted on: the violations of concurrent connections do not slip past it.
ThresholdActs ==
  \A a \in Ip : Threshold > 0 /\ violations[a] >= Threshold =>
    \/ \E c \in Conn : ip[c] = a /\ pc[c] \in {"block", "clear"}
    \/ faults > 0
=============================================================================
