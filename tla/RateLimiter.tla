----------------------------- MODULE RateLimiter -----------------------------
(***************************************************************************)
(* security::RateLimiter (src/security/rate_limiter.cpp): a token bucket   *)
(* per client, refilled in whole seconds at a rate that depends on the     *)
(* request at hand, a ban after BanThreshold violations, and a cleanup     *)
(* that forgets the clients that have been idle.                           *)
(*                                                                         *)
(* The clock counts ticks, TicksPerSec to the second.  allowRequest reads  *)
(* it up to three times under one mutex (isBanned, refillTokens, the       *)
(* violation), so a request is three steps here and time may pass between  *)
(* them: at most Stall ticks in all.                                       *)
(***************************************************************************)
EXTENDS Integers

CONSTANTS
  Client,          \* client addresses
  Nobody,          \* no request holds the mutex
  ReadRpm, WriteRpm, Burst, BanThreshold,   \* the settings of init()
  BanDuration,     \* in seconds
  TicksPerSec,     \* resolution of the clock
  Minute,          \* seconds to the minute (60, less in small instances)
  IdleMinutes,     \* the threshold of cleanupOldClients (30)
  Stall,           \* bound: ticks a request may spend inside the mutex
  Horizon          \* bound: the last tick

VARIABLES
  now,      \* steady_clock, never at its epoch
  bucket,   \* [Client -> ClientBucket]; a client not in clients_ has NewBucket
  enabled,  \* enabled_
  inside,   \* the request that holds mutex_: its client, kind and next step
  granted,  \* [Client -> requests allowed so far]  (history)
  first,    \* [Client -> when its first bucket was filled, 0 before] (history)
  asked     \* [Client -> when its last request was decided, 0 before] (history)

vars == <<now, bucket, enabled, inside, granted, first, asked>>
history == <<granted, first, asked>>

ASSUME LimiterAssumption ==
  /\ ReadRpm \in Nat /\ WriteRpm \in Nat
  /\ Burst \in Nat \ {0} /\ BanThreshold \in Nat \ {0} /\ BanDuration \in Nat \ {0}
  /\ TicksPerSec \in Nat \ {0} /\ Minute \in Nat \ {0} /\ IdleMinutes \in Nat
  /\ Stall \in Nat /\ Horizon \in Nat
  /\ Nobody \notin [client : Client, write : BOOLEAN, step : {"refill", "decide"}, since : Nat]

(* duration_cast to seconds and to minutes truncates. *)
Seconds(d) == d \div TicksPerSec
Minutes(d) == Seconds(d) \div Minute

(* A faulty variant: a slow setting rounds down to no tokens at all.       *)
RoundedDown(rpm) == rpm \div Minute

(* init(): tokens per second, rounded down, but never 0.                   *)
RatePerSec(rpm) == IF rpm \div Minute = 0 THEN 1 ELSE rpm \div Minute
ReadRate == RatePerSec(ReadRpm)
WriteRate == RatePerSec(WriteRpm)
TopRate == IF ReadRate > WriteRate THEN ReadRate ELSE WriteRate

NewBucket == [tokens |-> 0, refill |-> 0, violations |-> 0, violated |-> 0]

Bucket == [tokens : Nat, refill : Nat, violations : Nat, violated : Nat]

Held == [client : Client, write : BOOLEAN, step : {"refill", "decide"}, since : Nat]

Init ==
  /\ now = 1
  /\ bucket = [c \in Client |-> NewBucket]
  /\ enabled \in BOOLEAN
  /\ inside = Nobody
  /\ granted = [c \in Client |-> 0]
  /\ first = [c \in Client |-> 0]
  /\ asked = [c \in Client |-> 0]
-----------------------------------------------------------------------------
IsBanned(c) ==
  /\ bucket[c].violations >= BanThreshold
  /\ Seconds(now - bucket[c].violated) < BanDuration

(* A faulty variant: no ban check. *)
EnterUnchecked(c, write) ==
  /\ enabled /\ inside = Nobody
  /\ inside' = [client |-> c, write |-> write, step |-> "refill", since |-> now]
  /\ UNCHANGED <<now, bucket, enabled, history>>

(* allowRequest up to the ban check, which turns a banned client away      *)
(* without touching its bucket.  A disabled limiter allows everything.     *)
Enter(c, write) ==
  /\ enabled /\ inside = Nobody
  /\ ~IsBanned(c)
  /\ inside' = [client |-> c, write |-> write, step |-> "refill", since |-> now]
  /\ UNCHANGED <<now, bucket, enabled, history>>

(* A faulty variant: last_refill is not moved when tokens are added.       *)
RefilledAgain(b, rate) ==
  LET full == b.tokens + Seconds(now - b.refill) * rate
  IN  IF b.refill = 0 THEN [b EXCEPT !.refill = now, !.tokens = Burst]
      ELSE [b EXCEPT !.tokens = IF full < Burst THEN full ELSE Burst]

(* refillTokens on the requesting client's bucket.                         *)
Refilled(b, rate) ==
  LET elapsed == Seconds(now - b.refill)
      full == b.tokens + elapsed * rate
  IN  IF b.refill = 0 THEN [b EXCEPT !.refill = now, !.tokens = Burst]
      ELSE IF elapsed > 0
      THEN [b EXCEPT !.refill = now, !.tokens = IF full < Burst THEN full ELSE Burst]
      ELSE b

Refill ==
  /\ inside # Nobody /\ inside.step = "refill"
  /\ LET c == inside.client IN
       /\ bucket' = [bucket EXCEPT
                       ![c] = Refilled(@, IF inside.write THEN WriteRate ELSE ReadRate)]
       /\ first' = [first EXCEPT ![c] = IF @ = 0 THEN now ELSE @]
  /\ inside' = [inside EXCEPT !.step = "decide"]
  /\ UNCHANGED <<now, enabled, granted, asked>>

(* A faulty variant: a token is taken whether there is one or not.         *)
GrantUnchecked ==
  /\ inside # Nobody /\ inside.step = "decide"
  /\ LET c == inside.client IN
       /\ bucket' = [bucket EXCEPT ![c].tokens = @ - 1]
       /\ granted' = [granted EXCEPT ![c] = @ + 1]
       /\ asked' = [asked EXCEPT ![c] = now]
  /\ inside' = Nobody
  /\ UNCHANGED <<now, enabled, first>>

Grant ==
  /\ inside # Nobody /\ inside.step = "decide"
  /\ LET c == inside.client IN
       /\ bucket[c].tokens > 0
       /\ bucket' = [bucket EXCEPT ![c].tokens = @ - 1]
       /\ granted' = [granted EXCEPT ![c] = @ + 1]
       /\ asked' = [asked EXCEPT ![c] = now]
  /\ inside' = Nobody
  /\ UNCHANGED <<now, enabled, first>>

Deny ==
  /\ inside # Nobody /\ inside.step = "decide"
  /\ LET c == inside.client IN
       /\ bucket[c].tokens = 0
       /\ bucket' = [bucket EXCEPT ![c].violations = @ + 1, ![c].violated = now]
       /\ asked' = [asked EXCEPT ![c] = now]
  /\ inside' = Nobody
  /\ UNCHANGED <<now, enabled, granted, first>>

(* A faulty variant: idle as soon as the threshold is reached.             *)
IdleEarly(c) == Minutes(now - bucket[c].refill) >= IdleMinutes

(* cleanupOldClients, which main calls every five minutes. *)
Idle(c) == Minutes(now - bucket[c].refill) > IdleMinutes

Cleanup ==
  /\ inside = Nobody
  /\ bucket' = [c \in Client |-> IF Idle(c) THEN NewBucket ELSE bucket[c]]
  /\ UNCHANGED <<now, enabled, inside, history>>

(* resetClient and setEnabled, which nothing in the program calls. A reset *)
(* starts the client's history again.                                      *)
ResetClient(c) ==
  /\ inside = Nobody
  /\ bucket' = [bucket EXCEPT ![c] = NewBucket]
  /\ granted' = [granted EXCEPT ![c] = 0]
  /\ first' = [first EXCEPT ![c] = 0]
  /\ asked' = [asked EXCEPT ![c] = 0]
  /\ UNCHANGED <<now, enabled, inside>>

SetEnabled(on) ==
  /\ inside = Nobody
  /\ enabled' = on
  /\ UNCHANGED <<now, bucket, inside, history>>

Tick ==
  /\ now < Horizon
  /\ inside # Nobody => now < inside.since + Stall
  /\ now' = now + 1
  /\ UNCHANGED <<bucket, enabled, inside, history>>

Request == \E c \in Client, write \in BOOLEAN : Enter(c, write)

Next ==
  \/ Request
  \/ Refill \/ Grant \/ Deny
  \/ Cleanup
  \/ \E c \in Client : ResetClient(c)
  \/ \E on \in BOOLEAN : SetEnabled(on)
  \/ Tick

Spec == Init /\ [][Next]_vars

(* The same, when all requests are writes. *)
WritesOnlySpec == Init /\ [][Next /\ (inside' # Nobody => inside'.write)]_vars
-----------------------------------------------------------------------------
TypeOK ==
  /\ now \in Nat \ {0}
  /\ bucket \in [Client -> Bucket]
  /\ enabled \in BOOLEAN
  /\ inside \in Held \cup {Nobody}
  /\ granted \in [Client -> Nat]
  /\ first \in [Client -> Nat]
  /\ asked \in [Client -> Nat]

(* What a cleanup or a short stall may cost is nothing if the settings fit *)
(* together, as the defaults do (15 tokens, bans of 10 minutes, 31 minutes *)
(* of idleness before a bucket is dropped).                                *)
IdleTicks == Minute * (IdleMinutes + 1) * TicksPerSec
BurstFits == Burst <= TopRate * Minute * (IdleMinutes + 1)
BanFits == (BanDuration + 1) * TicksPerSec + Stall <= IdleTicks

(* The bucket's promise: however reads and writes are mixed, however often *)
(* buckets are dropped and made anew, a client is allowed at most the burst*)
(* and then TopRate requests for every second since its first request.     *)
RateBound ==
  BurstFits =>
    \A c \in Client :
      IF first[c] = 0 THEN granted[c] = 0
      ELSE granted[c] <= Burst + TopRate * Seconds(now - first[c])

(* A violation is recorded only against a request that arrived less than a *)
(* second after the client's last one was decided: who sends one request a *)
(* second or fewer, once the last was answered, is never limited, let alone*)
(* banned -- at any setting, and whatever mix of reads and writes.         *)
OnlyHastyClientsViolate ==
  [][\A c \in Client :
       bucket'[c].violations > bucket[c].violations =>
         asked[c] # 0 /\ inside.since - asked[c] < TicksPerSec]_vars

(* A ban ends by the passing of time and by nothing else: the client's own *)
(* requests do not prolong it, those of others do not lift it, and the     *)
(* cleanup does not forget it, whatever it thinks of the client's idleness.*)
BanHonoured ==
  [][BanFits =>
       \A c \in Client :
         IsBanned(c) => bucket'[c] = bucket[c] \/ ResetClient(c)]_vars

(* Nobody is allowed a request while banned. *)
NoGrantWhileBanned ==
  [][\A c \in Client : granted'[c] > granted[c] => ~IsBanned(c)]_vars

(* README.md:84 "RATE_LIMIT_WRITE | Requests per minute for write          *)
(* operations": of a client that only writes, no more requests are allowed *)
(* than the burst and the setting for every minute begun.                  *)
WritesWithinRpm ==
  \A c \in Client :
    first[c] # 0 => granted[c] <= Burst + WriteRpm * (Minutes(now - first[c]) + 1)
=============================================================================
