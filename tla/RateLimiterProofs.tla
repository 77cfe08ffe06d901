-------------------------- MODULE RateLimiterProofs --------------------------
(***************************************************************************)
(* The limiter's bound on what a client is allowed, and what its bans mean,*)
(* for every setting, clock resolution and horizon.                        *)
(***************************************************************************)
EXTENDS RateLimiter, TLAPS

(* Truncating division, as duration_cast does it.                          *)
LEMMA DivNat ==
  ASSUME NEW k \in Nat \ {0}, NEW a \in Nat
  PROVE  a \div k \in Nat /\ k * (a \div k) <= a /\ a < k * (a \div k) + k
OBVIOUS

LEMMA DivMonotonic ==
  ASSUME NEW k \in Nat \ {0}, NEW a \in Nat, NEW b \in Nat, a <= b
  PROVE  a \div k <= b \div k
OBVIOUS

LEMMA DivSum ==
  ASSUME NEW k \in Nat \ {0}, NEW a \in Nat, NEW b \in Nat
  PROVE  a \div k + b \div k <= (a + b) \div k
OBVIOUS

LEMMA TimesMonotonic ==
  ASSUME NEW k \in Nat, NEW m \in Nat, NEW n \in Nat, m <= n
  PROVE  k * m <= k * n
OBVIOUS

LEMMA TimesDistributes ==
  ASSUME NEW k \in Nat, NEW m \in Nat, NEW n \in Nat
  PROVE  k * (m + n) = k * m + k * n
OBVIOUS

(* A second refills at least one token, whatever the settings.             *)
LEMMA Rates ==
  /\ ReadRate \in Nat \ {0} /\ WriteRate \in Nat \ {0} /\ TopRate \in Nat \ {0}
  /\ ReadRate <= TopRate /\ WriteRate <= TopRate
<1>1. \A rpm \in Nat : RatePerSec(rpm) \in Nat \ {0}
  BY LimiterAssumption, DivNat DEF RatePerSec
<1>2. ReadRate \in Nat \ {0} /\ WriteRate \in Nat \ {0}
  BY <1>1, LimiterAssumption DEF ReadRate, WriteRate
<1> QED
  BY <1>2 DEF TopRate

(* Rounding: parts of a span, each truncated to seconds, do not add up to  *)
(* more than the span.                                                     *)
LEMMA SecondsAdd ==
  ASSUME NEW x \in Nat, NEW y \in Nat, NEW z \in Nat, x <= y, y <= z
  PROVE  /\ Seconds(y - x) \in Nat /\ Seconds(z - y) \in Nat /\ Seconds(z - x) \in Nat
         /\ Seconds(y - x) + Seconds(z - y) <= Seconds(z - x)
         /\ Seconds(y - x) <= Seconds(z - x)
<1> DEFINE a == y - x
           b == z - y
<1>1. a \in Nat /\ b \in Nat /\ z - x = a + b /\ a <= a + b
  OBVIOUS
<1> HIDE DEF a, b
<1>2. TicksPerSec \in Nat \ {0}
  BY LimiterAssumption
<1>3. a \div TicksPerSec \in Nat /\ b \div TicksPerSec \in Nat
      /\ (a + b) \div TicksPerSec \in Nat
  BY <1>1, <1>2, DivNat
<1>4. a \div TicksPerSec + b \div TicksPerSec <= (a + b) \div TicksPerSec
  BY <1>1, <1>2, DivSum
<1> QED
  BY <1>1, <1>3, <1>4 DEF Seconds, a, b

LEMMA SecondsNat ==
  ASSUME NEW x \in Nat, NEW y \in Nat, x <= y
  PROVE  Seconds(y - x) \in Nat /\ TopRate * Seconds(y - x) \in Nat
<1>1. y - x \in Nat /\ TicksPerSec \in Nat \ {0}
  BY LimiterAssumption
<1>2. Seconds(y - x) \in Nat
  BY <1>1, DivNat DEF Seconds
<1> QED
  BY <1>2, Rates
-----------------------------------------------------------------------------
(* What is known of a client's bucket at every moment.                     *)
BucketOK(c) ==
  /\ bucket[c].refill <= now /\ bucket[c].violated <= now
  /\ bucket[c].tokens <= Burst
  /\ bucket[c].refill = 0 => bucket[c].tokens = 0 /\ bucket[c].violations = 0
  /\ bucket[c].violations > 0 =>
       bucket[c].violated - bucket[c].refill < TicksPerSec + Stall

(* The request inside the mutex comes from a client that is not banned, and*)
(* has refilled its client's bucket before it decides; if that left no     *)
(* token, the last refill was within a second of the request's arrival.    *)
InsideOK ==
  inside # Nobody =>
    /\ inside.since <= now /\ now <= inside.since + Stall
    /\ ~IsBanned(inside.client)
    /\ inside.step = "decide" =>
         /\ bucket[inside.client].refill # 0
         /\ bucket[inside.client].tokens = 0 =>
              inside.since - bucket[inside.client].refill < TicksPerSec

(* Tokens in the bucket count as spent: since `first`, a client was given  *)
(* the burst and TopRate tokens a second up to its last refill.  A bucket  *)
(* that was dropped has been idle long enough to be full again.            *)
FirstOK(c) ==
  /\ first[c] <= now
  /\ first[c] = 0 => granted[c] = 0 /\ bucket[c].refill = 0
  /\ bucket[c].refill # 0 => first[c] <= bucket[c].refill

Budget(c) ==
  first[c] # 0 =>
    IF bucket[c].refill # 0
    THEN granted[c] + bucket[c].tokens
           <= Burst + TopRate * Seconds(bucket[c].refill - first[c])
    ELSE granted[c] <= TopRate * Seconds(now - first[c])

IInv ==
  /\ TypeOK /\ InsideOK
  /\ \A c \in Client : BucketOK(c) /\ FirstOK(c)
  /\ BurstFits => \A c \in Client : Budget(c)
-----------------------------------------------------------------------------
LEMMA InitIInv == Init => IInv
<1> SUFFICES ASSUME Init PROVE IInv
  OBVIOUS
<1> USE LimiterAssumption DEF Init
<1>1. NewBucket \in Bucket
  BY DEF NewBucket, Bucket
<1>2. TypeOK
  BY <1>1 DEF TypeOK
<1>3. InsideOK
  BY DEF InsideOK
<1>4. ASSUME NEW c \in Client
      PROVE  BucketOK(c) /\ FirstOK(c) /\ Budget(c)
  <2>1. /\ now = 1 /\ first[c] = 0 /\ granted[c] = 0
        /\ bucket[c].tokens = 0 /\ bucket[c].refill = 0
        /\ bucket[c].violations = 0 /\ bucket[c].violated = 0
    BY DEF NewBucket
  <2>2. Burst \in Nat
    OBVIOUS
  <2> QED
    BY ONLY <2>1, <2>2 DEF BucketOK, FirstOK, Budget
<1> QED
  BY ONLY <1>2, <1>3, <1>4 DEF IInv

(* The facts of IInv about one client. *)
LEMMA Typed ==
  ASSUME TypeOK, NEW c \in Client
  PROVE  /\ now \in Nat \ {0}
         /\ bucket[c] \in Bucket
         /\ bucket[c].tokens \in Nat /\ bucket[c].refill \in Nat
         /\ bucket[c].violations \in Nat /\ bucket[c].violated \in Nat
         /\ granted[c] \in Nat /\ first[c] \in Nat /\ asked[c] \in Nat
BY DEF TypeOK, Bucket

(* A step that gives client c a bucket `b` of its own and leaves the other *)
(* clients' buckets, and the clock, alone.                                 *)
LEMMA OneBucket ==
  ASSUME TypeOK, NEW c \in Client, NEW b,
         bucket' = [bucket EXCEPT ![c] = b], now' = now,
         \A d \in Client : d # c => granted'[d] = granted[d] /\ first'[d] = first[d]
  PROVE  /\ bucket'[c] = b
         /\ \A d \in Client : d # c =>
              /\ bucket'[d] = bucket[d]
              /\ BucketOK(d) => BucketOK(d)'
              /\ FirstOK(d) => FirstOK(d)'
              /\ Budget(d) => Budget(d)'
<1>1. bucket'[c] = b /\ \A d \in Client : d # c => bucket'[d] = bucket[d]
  BY DEF TypeOK
<1>2. ASSUME NEW d \in Client, d # c
      PROVE  /\ BucketOK(d) => BucketOK(d)'
             /\ FirstOK(d) => FirstOK(d)'
             /\ Budget(d) => Budget(d)'
  BY <1>1, <1>2 DEF BucketOK, FirstOK, Budget
<1> QED
  BY <1>1, <1>2

(* refillTokens: the bucket is filled to the burst at its first use, and   *)
(* later gains at most TopRate tokens for every whole second; if it gains  *)
(* none, its last refill was less than a second ago.                       *)
LEMMA RefilledFacts ==
  ASSUME TypeOK, NEW c \in Client, BucketOK(c), NEW rate \in Nat \ {0}, rate <= TopRate
  PROVE  LET b == bucket[c]
             r == Refilled(b, rate)
         IN  /\ r \in Bucket
             /\ r.violations = b.violations /\ r.violated = b.violated
             /\ r.tokens <= Burst
             /\ r.refill # 0 /\ b.refill <= r.refill /\ r.refill <= now
             /\ b.refill = 0 => r.tokens = Burst /\ r.refill = now
             /\ b.refill # 0 =>
                  r.tokens <= b.tokens + TopRate * Seconds(r.refill - b.refill)
             /\ r.tokens = 0 => now - r.refill < TicksPerSec /\ r = b /\ b.refill # 0
<1> DEFINE b == bucket[c]
           r == Refilled(b, rate)
           e == Seconds(now - b.refill)
           full == b.tokens + e * rate
<1>0. /\ TicksPerSec \in Nat \ {0} /\ Burst \in Nat \ {0}
  BY LimiterAssumption
<1>1. /\ now \in Nat \ {0} /\ b \in Bucket /\ b.tokens \in Nat /\ b.refill \in Nat
      /\ b.violations \in Nat /\ b.violated \in Nat /\ b.refill <= now
  BY Typed DEF BucketOK
<1>2. e \in Nat /\ (e = 0 => now - b.refill < TicksPerSec)
  <2>1. now - b.refill \in Nat
    BY <1>1
  <2> QED
    BY <2>1, <1>0, DivNat DEF Seconds
<1>3. e * rate \in Nat /\ e * rate <= TopRate * e /\ TopRate * e \in Nat
      /\ (e > 0 => e * rate > 0)
  <2> HIDE DEF e
  <2> QED
    BY <1>2, Rates
<1>4. Seconds(b.refill - b.refill) = 0
  BY <1>0, <1>1 DEF Seconds
<1>5. CASE b.refill = 0
  <2>1. r = [b EXCEPT !.refill = now, !.tokens = Burst]
    BY <1>5 DEF Refilled
  <2>2. /\ r \in Bucket /\ r.violations = b.violations /\ r.violated = b.violated
        /\ r.tokens = Burst /\ r.refill = now
    BY <2>1, <1>0, <1>1 DEF Bucket
  <2> QED
    BY <2>2, <1>0, <1>1, <1>5
<1>6. CASE b.refill # 0 /\ e > 0
  <2>1. r = [b EXCEPT !.refill = now, !.tokens = IF full < Burst THEN full ELSE Burst]
    BY <1>6 DEF Refilled
  <2>2. /\ full \in Nat /\ full > 0 /\ full <= b.tokens + TopRate * e
    <3> HIDE DEF e
    <3> QED
      BY <1>1, <1>2, <1>3, <1>6
  <2> HIDE DEF full
  <2>3. /\ r \in Bucket /\ r.violations = b.violations /\ r.violated = b.violated
        /\ r.tokens = (IF full < Burst THEN full ELSE Burst) /\ r.refill = now
    BY <2>1, <2>2, <1>0, <1>1 DEF Bucket
  <2>4. r.tokens <= full /\ r.tokens <= Burst /\ r.tokens > 0
    BY <2>2, <2>3, <1>0
  <2>5. r.tokens <= b.tokens + TopRate * Seconds(r.refill - b.refill)
    <3>1. Seconds(r.refill - b.refill) = e
      BY <2>3
    <3> HIDE DEF e, r
    <3> QED
      BY <3>1, <2>2, <2>3, <2>4, <1>1, <1>3, <1>0
  <2> QED
    BY <2>3, <2>4, <2>5, <1>1, <1>6
<1>7. CASE b.refill # 0 /\ ~(e > 0)
  <2>1. r = b
    BY <1>7 DEF Refilled
  <2>2. TopRate * Seconds(r.refill - b.refill) = 0
    BY <2>1, <1>4, Rates
  <2> QED
    BY <2>1, <2>2, <1>0, <1>1, <1>2, <1>7 DEF BucketOK
<1> QED
  BY <1>2, <1>5, <1>6, <1>7

(* Time passes, and a client that is not banned stays so.                  *)
LEMMA StillFree ==
  ASSUME TypeOK, NEW c \in Client, BucketOK(c), ~IsBanned(c),
         now' = now + 1, bucket' = bucket
  PROVE  (~IsBanned(c))'
<1>1. /\ now \in Nat /\ bucket[c].violated \in Nat /\ bucket[c].violated <= now
      /\ bucket[c].violations \in Nat
      /\ BanThreshold \in Nat /\ BanDuration \in Nat
  BY Typed, LimiterAssumption DEF BucketOK
<1> PICK n : n = now + 1
  OBVIOUS
<1>2. n \in Nat /\ now <= n /\ now' = n
  BY <1>1
<1>3. /\ Seconds(now - bucket[c].violated) \in Nat /\ Seconds(n - bucket[c].violated) \in Nat
      /\ Seconds(now - bucket[c].violated) <= Seconds(n - bucket[c].violated)
  BY <1>1, <1>2, SecondsAdd
<1> QED
  BY <1>1, <1>2, <1>3 DEF IsBanned

-----------------------------------------------------------------------------
LEMMA StepIInv == IInv /\ [Next]_vars => IInv'
<1> SUFFICES ASSUME IInv, [Next]_vars PROVE IInv'
  OBVIOUS
<1>0. /\ TypeOK /\ InsideOK
      /\ \A c \in Client : BucketOK(c) /\ FirstOK(c)
      /\ BurstFits => \A c \in Client : Budget(c)
  BY DEF IInv
<1>1. CASE UNCHANGED vars
  BY <1>0, <1>1 DEF IInv, TypeOK, InsideOK, IsBanned, BucketOK, FirstOK, Budget, vars
<1>2. ASSUME NEW c \in Client, NEW write \in BOOLEAN, Enter(c, write)
      PROVE  IInv'
  <2>1. UNCHANGED <<now, bucket, enabled, granted, first, asked>>
    BY <1>2 DEF Enter, history
  <2>2. inside' = [client |-> c, write |-> write, step |-> "refill", since |-> now]
    BY <1>2 DEF Enter
  <2>3. now \in Nat /\ inside' \in Held /\ inside'.since = now /\ inside'.step = "refill"
    BY <1>0, <2>2 DEF TypeOK, Held
  <2>4. TypeOK'
    BY <1>0, <2>1, <2>3 DEF TypeOK
  <2>5. inside'.client = c /\ ~IsBanned(c) /\ (~IsBanned(c))'
    BY <1>2, <2>1, <2>2 DEF Enter, IsBanned
  <2>6. InsideOK'
    BY <2>1, <2>3, <2>5, LimiterAssumption DEF InsideOK
  <2> QED
    BY <1>0, <2>1, <2>4, <2>6 DEF IInv, BucketOK, FirstOK, Budget
<1>3. CASE Refill
  <2>0. inside \in Held /\ inside.client \in Client
    BY <1>0, <1>3 DEF Refill, TypeOK, Held
  <2> PICK c \in Client : c = inside.client
    BY <2>0
  <2> PICK rate : rate = IF inside.write THEN WriteRate ELSE ReadRate
    OBVIOUS
  <2> PICK r : r = Refilled(bucket[c], rate)
    OBVIOUS
  <2>1. inside \in Held /\ inside.client = c /\ inside.step = "refill" /\ inside # Nobody
    BY <2>0, <1>3 DEF Refill
  <2>2. rate \in Nat \ {0} /\ rate <= TopRate
    BY Rates
  <2>3. /\ bucket' = [bucket EXCEPT ![c] = r]
        /\ first' = [first EXCEPT ![c] = IF @ = 0 THEN now ELSE @]
        /\ inside' = [inside EXCEPT !.step = "decide"]
        /\ UNCHANGED <<now, enabled, granted, asked>>
    BY <1>3 DEF Refill
  <2>4. /\ r \in Bucket /\ r.tokens \in Nat /\ r.refill \in Nat
        /\ r.violations = bucket[c].violations /\ r.violated = bucket[c].violated
        /\ r.tokens <= Burst
        /\ r.refill # 0 /\ bucket[c].refill <= r.refill /\ r.refill <= now
        /\ bucket[c].refill = 0 => r.tokens = Burst /\ r.refill = now
        /\ bucket[c].refill # 0 =>
             r.tokens <= bucket[c].tokens + TopRate * Seconds(r.refill - bucket[c].refill)
        /\ r.tokens = 0 => now - r.refill < TicksPerSec
    BY <1>0, <2>1, <2>2, RefilledFacts DEF Bucket
  <2>5. /\ bucket'[c] = r
        /\ \A d \in Client : d # c =>
              /\ bucket'[d] = bucket[d]
              /\ BucketOK(d)' /\ FirstOK(d)' /\ (Budget(d) => Budget(d)')
    <3>1. \A d \in Client : d # c => granted'[d] = granted[d] /\ first'[d] = first[d]
      BY <1>0, <2>3 DEF TypeOK
    <3> QED
      BY <1>0, <2>1, <2>3, <3>1, OneBucket
  <2>6. first'[c] = (IF first[c] = 0 THEN now ELSE first[c]) /\ granted'[c] = granted[c]
        /\ now' = now
    BY <1>0, <2>1, <2>3 DEF TypeOK
  <2>7. /\ now \in Nat \ {0} /\ bucket[c].tokens \in Nat /\ bucket[c].refill \in Nat
        /\ bucket[c].violations \in Nat /\ bucket[c].violated \in Nat
        /\ granted[c] \in Nat /\ first[c] \in Nat
        /\ BucketOK(c) /\ FirstOK(c)
    BY <1>0, <2>1, Typed
  <2>8. TypeOK'
    <3>1. bucket' \in [Client -> Bucket]
      BY <1>0, <2>3, <2>4 DEF TypeOK
    <3>2. first' \in [Client -> Nat]
      BY <1>0, <2>3, <2>7 DEF TypeOK
    <3>3. inside' \in Held
      BY <2>1, <2>3 DEF Held
    <3> QED
      BY <1>0, <2>3, <3>1, <3>2, <3>3 DEF TypeOK
  <2>9. BucketOK(c)' /\ FirstOK(c)'
    <3>1. TicksPerSec \in Nat /\ Stall \in Nat /\ Burst \in Nat
      BY LimiterAssumption
    <3>2. BucketOK(c)'
      BY <3>1, <2>4, <2>5, <2>6, <2>7 DEF BucketOK
    <3>3. FirstOK(c)'
      BY <3>1, <2>4, <2>5, <2>6, <2>7 DEF FirstOK
    <3> QED
      BY <3>2, <3>3
  <2>10. InsideOK'
    <3>1. inside'.since = inside.since /\ inside'.client = c
      BY <2>1, <2>3 DEF Held
    <3>2. TicksPerSec \in Nat /\ inside.since \in Nat
      BY <2>1, LimiterAssumption DEF Held
    <3>3. inside.since <= now /\ now <= inside.since + Stall /\ ~IsBanned(c)
      BY <1>0, <2>1 DEF InsideOK
    <3>4. r.tokens = 0 => inside.since - r.refill < TicksPerSec
      BY <3>2, <3>3, <2>4, <2>7
    <3>5. (~IsBanned(c))'
      BY <3>3, <2>4, <2>5, <2>6 DEF IsBanned
    <3> QED
      BY <3>1, <3>3, <3>4, <3>5, <2>4, <2>5, <2>6 DEF InsideOK
  <2>11. Budget(c) => Budget(c)'
    <3> SUFFICES ASSUME Budget(c) PROVE Budget(c)'
      OBVIOUS
    <3>1. TopRate \in Nat /\ Burst \in Nat
      BY Rates, LimiterAssumption
    <3>2. SUFFICES granted[c] + r.tokens <= Burst + TopRate * Seconds(r.refill - first'[c])
      BY <2>4, <2>5, <2>6 DEF Budget
    <3>3. CASE first[c] = 0
      <4>1. granted[c] = 0 /\ bucket[c].refill = 0 /\ r.refill = now /\ first'[c] = now
        BY <3>3, <2>4, <2>6, <2>7 DEF FirstOK
      <4>3. TopRate * Seconds(now - now) \in Nat
        BY <2>7, SecondsNat
      <4> QED
        BY <3>1, <4>1, <4>3, <2>4
    <3>4. CASE first[c] # 0 /\ bucket[c].refill = 0
      <4>1. granted[c] <= TopRate * Seconds(now - first[c])
        BY <3>4 DEF Budget
      <4>2. r.tokens = Burst /\ r.refill = now /\ first'[c] = first[c]
        BY <3>4, <2>4, <2>6
      <4>3. first[c] <= now
        BY <2>7 DEF FirstOK
      <4>4. TopRate * Seconds(now - first[c]) \in Nat
        BY <4>3, <2>7, SecondsNat
      <4> QED
        BY <4>1, <4>2, <4>4, <3>1, <2>7
    <3>5. CASE first[c] # 0 /\ bucket[c].refill # 0
      <4> DEFINE x == Seconds(bucket[c].refill - first[c])
                 y == Seconds(r.refill - bucket[c].refill)
                 z == Seconds(r.refill - first[c])
      <4>1. granted[c] + bucket[c].tokens <= Burst + TopRate * x
        BY <3>5 DEF Budget
      <4>2. r.tokens <= bucket[c].tokens + TopRate * y
        BY <3>5, <2>4
      <4>3. first'[c] = first[c]
        BY <3>5, <2>6
      <4>4. first[c] <= bucket[c].refill
        BY <3>5, <2>7 DEF FirstOK
      <4>5. x \in Nat /\ y \in Nat /\ z \in Nat /\ x + y <= z
        BY <4>4, <2>4, <2>7, SecondsAdd
      <4> HIDE DEF x, y, z
      <4>6. /\ TopRate * x \in Nat /\ TopRate * y \in Nat /\ TopRate * z \in Nat
            /\ TopRate * x + TopRate * y <= TopRate * z
        BY <3>1, <4>5, TimesMonotonic, TimesDistributes
      <4>7. granted[c] + r.tokens <= Burst + TopRate * z
        BY <4>1, <4>2, <4>6, <3>1, <2>4, <2>7
      <4> QED
        BY <4>3, <4>7 DEF z
    <3> QED
      BY <3>3, <3>4, <3>5
  <2> QED
    BY <1>0, <2>5, <2>8, <2>9, <2>10, <2>11 DEF IInv
<1>4. ASSUME Grant \/ Deny
      PROVE  IInv'
  <2>0. inside \in Held /\ inside.client \in Client
    BY <1>0, <1>4 DEF Grant, Deny, TypeOK, Held
  <2> PICK c \in Client : c = inside.client
    BY <2>0
  <2>1. inside # Nobody /\ inside.step = "decide"
    BY <1>4 DEF Grant, Deny
  <2>2. /\ now \in Nat \ {0} /\ bucket[c] \in Bucket
        /\ bucket[c].tokens \in Nat /\ bucket[c].refill \in Nat
        /\ bucket[c].violations \in Nat /\ bucket[c].violated \in Nat
        /\ granted[c] \in Nat /\ first[c] \in Nat
        /\ BucketOK(c) /\ FirstOK(c) /\ (BurstFits => Budget(c))
        /\ bucket[c].refill # 0
    BY <1>0, <2>1, Typed DEF InsideOK
  <2>3. TicksPerSec \in Nat /\ Stall \in Nat /\ Burst \in Nat
    BY LimiterAssumption
  <2>4. inside' = Nobody /\ UNCHANGED <<now, enabled, first>>
    BY <1>4 DEF Grant, Deny, history
  <2>7. bucket[c].tokens = 0 => now - bucket[c].refill < TicksPerSec + Stall
    <3>1. inside.since \in Nat /\ now <= inside.since + Stall
          /\ (bucket[c].tokens = 0 => inside.since - bucket[c].refill < TicksPerSec)
      BY <1>0, <2>0, <2>1 DEF InsideOK, Held
    <3> QED
      BY <2>2, <2>3, <3>1
  <2>5. CASE Grant
    <3> PICK b : b = [bucket[c] EXCEPT !.tokens = @ - 1]
      OBVIOUS
    <3>1. /\ bucket[c].tokens > 0
          /\ bucket' = [bucket EXCEPT ![c] = b]
          /\ granted' = [granted EXCEPT ![c] = @ + 1]
          /\ asked' = [asked EXCEPT ![c] = now]
      BY <2>5 DEF Grant
    <3>2. /\ b \in Bucket /\ b.tokens = bucket[c].tokens - 1 /\ b.refill = bucket[c].refill
          /\ b.violations = bucket[c].violations /\ b.violated = bucket[c].violated
      BY <2>2, <3>1 DEF Bucket
    <3>3. granted'[c] = granted[c] + 1 /\ first'[c] = first[c]
      BY <1>0, <2>4, <3>1 DEF TypeOK
    <3>4. TypeOK'
      <4>1. granted' \in [Client -> Nat] /\ asked' \in [Client -> Nat]
        BY <1>0, <2>2, <3>1 DEF TypeOK
      <4>2. bucket' \in [Client -> Bucket]
        BY <1>0, <3>1, <3>2 DEF TypeOK
      <4> QED
        BY <1>0, <2>4, <4>1, <4>2 DEF TypeOK
    <3>5. InsideOK'
      BY <2>4 DEF InsideOK
    <3>6. /\ bucket'[c] = b
          /\ \A d \in Client : d # c =>
                BucketOK(d)' /\ FirstOK(d)' /\ (Budget(d) => Budget(d)')
      <4>1. \A d \in Client : d # c => granted'[d] = granted[d] /\ first'[d] = first[d]
        BY <1>0, <2>4, <3>1 DEF TypeOK
      <4>2. TypeOK /\ bucket' = [bucket EXCEPT ![c] = b] /\ now' = now
        BY <1>0, <2>4, <3>1
      <4>3. /\ bucket'[c] = b
            /\ \A d \in Client : d # c =>
                 /\ BucketOK(d) => BucketOK(d)'
                 /\ FirstOK(d) => FirstOK(d)'
                 /\ Budget(d) => Budget(d)'
        BY ONLY <4>1, <4>2, OneBucket
      <4> QED
        BY <1>0, <4>3
    <3>7. BucketOK(c)' /\ FirstOK(c)'
      BY <2>2, <2>3, <2>4, <3>1, <3>2, <3>3, <3>6 DEF BucketOK, FirstOK
    <3>8. Budget(c) => Budget(c)'
      <4>1. granted'[c] + b.tokens = granted[c] + bucket[c].tokens
        BY <2>2, <3>2, <3>3
      <4> QED
        BY <2>2, <3>2, <3>3, <3>6, <4>1 DEF Budget
    <3> QED
      BY <1>0, <3>4, <3>5, <3>6, <3>7, <3>8 DEF IInv
  <2>6. CASE Deny
    <3> PICK b : b = [bucket[c] EXCEPT !.violations = @ + 1, !.violated = now]
      OBVIOUS
    <3>1. /\ bucket[c].tokens = 0
          /\ bucket' = [bucket EXCEPT ![c] = b]
          /\ UNCHANGED granted /\ asked' = [asked EXCEPT ![c] = now]
      BY <2>6 DEF Deny, history
    <3>2. /\ b \in Bucket /\ b.tokens = bucket[c].tokens /\ b.refill = bucket[c].refill
          /\ b.violations = bucket[c].violations + 1 /\ b.violated = now
      <4>1. bucket[c].violations + 1 \in Nat /\ now \in Nat
        BY <2>2
      <4> QED
        BY <2>2, <4>1 DEF Bucket
    <3>3. TypeOK'
      BY <1>0, <2>2, <2>4, <3>1, <3>2 DEF TypeOK
    <3>4. InsideOK'
      BY <2>4 DEF InsideOK
    <3>5. /\ bucket'[c] = b
          /\ \A d \in Client : d # c =>
                BucketOK(d)' /\ FirstOK(d)' /\ (Budget(d) => Budget(d)')
      BY <1>0, <2>4, <3>1, OneBucket
    <3>6. BucketOK(c)' /\ FirstOK(c)'
      BY <2>2, <2>3, <2>4, <2>7, <3>1, <3>2, <3>5 DEF BucketOK, FirstOK
    <3>7. Budget(c) => Budget(c)'
      BY <2>2, <2>3, <2>4, <3>1, <3>2, <3>5 DEF Budget
    <3> QED
      BY <1>0, <3>3, <3>4, <3>5, <3>6, <3>7 DEF IInv
  <2> QED
    BY <1>4, <2>5, <2>6
<1>5. CASE Cleanup
  <2>1. /\ bucket' = [c \in Client |-> IF Idle(c) THEN NewBucket ELSE bucket[c]]
        /\ inside = Nobody /\ UNCHANGED <<now, enabled, inside, granted, first, asked>>
    BY <1>5 DEF Cleanup, history
  <2>2. NewBucket \in Bucket /\ NewBucket.refill = 0 /\ NewBucket.tokens = 0
        /\ NewBucket.violations = 0 /\ NewBucket.violated = 0
    BY DEF NewBucket, Bucket
  <2>3. TypeOK' /\ InsideOK'
    BY <1>0, <2>1, <2>2 DEF TypeOK, InsideOK
  <2>4. ASSUME NEW c \in Client
        PROVE  BucketOK(c)' /\ FirstOK(c)' /\ (BurstFits => Budget(c)')
    <3>1. /\ now \in Nat \ {0}
          /\ bucket[c].tokens \in Nat /\ bucket[c].refill \in Nat
          /\ granted[c] \in Nat /\ first[c] \in Nat
          /\ BucketOK(c) /\ FirstOK(c) /\ (BurstFits => Budget(c))
      BY <1>0, Typed
    <3>2. CASE ~Idle(c)
      <4>1. bucket'[c] = bucket[c]
        BY <2>1, <3>2
      <4> QED
        BY <2>1, <3>1, <4>1 DEF BucketOK, FirstOK, Budget
    <3>3. CASE Idle(c)
      <4>1. bucket'[c] = NewBucket
        BY <2>1, <3>3
      <4>2. BucketOK(c)' /\ FirstOK(c)'
        BY <2>1, <2>2, <3>1, <4>1, LimiterAssumption DEF BucketOK, FirstOK
      <4>3. ASSUME BurstFits, first[c] # 0, bucket[c].refill # 0
            PROVE  granted[c] <= TopRate * Seconds(now - first[c])
        <5> DEFINE x == Seconds(bucket[c].refill - first[c])
                   y == Seconds(now - bucket[c].refill)
                   z == Seconds(now - first[c])
                   m == Minute * (IdleMinutes + 1)
        <5>1. x \in Nat /\ y \in Nat /\ z \in Nat /\ x + y <= z
          BY <3>1, <4>3, SecondsAdd DEF FirstOK, BucketOK
        <5>2. m \in Nat /\ m <= y
          <6>1. Minute \in Nat \ {0} /\ IdleMinutes \in Nat
            BY LimiterAssumption
          <6>2. y \div Minute > IdleMinutes
            BY <3>3 DEF Idle, Minutes
          <6> HIDE DEF y
          <6>3. y \div Minute \in Nat /\ Minute * (y \div Minute) <= y
            BY <5>1, <6>1, DivNat
          <6>4. m <= Minute * (y \div Minute)
            BY <6>1, <6>2, <6>3, TimesMonotonic
          <6> QED
            BY <5>1, <6>1, <6>3, <6>4
        <5>3. granted[c] + bucket[c].tokens <= Burst + TopRate * x
          BY <3>1, <4>3 DEF Budget
        <5>4. Burst <= TopRate * m
          <6>1. TopRate * Minute * (IdleMinutes + 1) = TopRate * m
            BY LimiterAssumption, Rates
          <6> QED
            BY <4>3, <6>1 DEF BurstFits
        <5> HIDE DEF x, y, z, m
        <5>5. TopRate \in Nat /\ Burst \in Nat
          BY Rates, LimiterAssumption
        <5>6. /\ TopRate * x \in Nat /\ TopRate * m \in Nat /\ TopRate * z \in Nat
              /\ TopRate * x + TopRate * m <= TopRate * z
          <6>1. m + x <= z /\ m + x \in Nat
            BY <5>1, <5>2
          <6> QED
            BY <5>1, <5>2, <5>5, <6>1, TimesMonotonic, TimesDistributes
        <5>7. granted[c] <= TopRate * z
          BY <5>3, <5>4, <5>5, <5>6, <3>1
        <5> QED
          BY <5>7 DEF z
      <4>4. BurstFits => Budget(c)'
        BY <2>1, <2>2, <3>1, <4>1, <4>3 DEF Budget
      <4> QED
        BY <4>2, <4>4
    <3> QED
      BY <3>2, <3>3
  <2> QED
    BY <2>3, <2>4 DEF IInv, BurstFits
<1>6. ASSUME NEW c \in Client, ResetClient(c)
      PROVE  IInv'
  <2>1. /\ bucket' = [bucket EXCEPT ![c] = NewBucket]
        /\ granted' = [granted EXCEPT ![c] = 0] /\ first' = [first EXCEPT ![c] = 0]
        /\ asked' = [asked EXCEPT ![c] = 0]
        /\ inside = Nobody /\ UNCHANGED <<now, enabled, inside>>
    BY <1>6 DEF ResetClient
  <2>2. NewBucket \in Bucket /\ NewBucket.refill = 0 /\ NewBucket.tokens = 0
        /\ NewBucket.violations = 0 /\ NewBucket.violated = 0
    BY DEF NewBucket, Bucket
  <2>3. TypeOK' /\ InsideOK'
    BY <1>0, <2>1, <2>2 DEF TypeOK, InsideOK
  <2>4. /\ bucket'[c] = NewBucket
        /\ \A d \in Client : d # c =>
              BucketOK(d)' /\ FirstOK(d)' /\ (Budget(d) => Budget(d)')
    <3>1. \A d \in Client : d # c => granted'[d] = granted[d] /\ first'[d] = first[d]
      BY <1>0, <2>1 DEF TypeOK
    <3> QED
      BY <1>0, <2>1, <3>1, OneBucket
  <2>5. granted'[c] = 0 /\ first'[c] = 0
    BY <1>0, <2>1 DEF TypeOK
  <2>6. BucketOK(c)' /\ FirstOK(c)' /\ Budget(c)'
    <3>1. now \in Nat /\ now' = now /\ Burst \in Nat
      BY <1>0, <2>1, LimiterAssumption DEF TypeOK
    <3> QED
      BY <2>2, <2>4, <2>5, <3>1 DEF BucketOK, FirstOK, Budget
  <2> QED
    BY <1>0, <2>3, <2>4, <2>6 DEF IInv
<1>7. ASSUME NEW on \in BOOLEAN, SetEnabled(on)
      PROVE  IInv'
  BY <1>0, <1>7 DEF IInv, SetEnabled, history, TypeOK, InsideOK, BucketOK, FirstOK, Budget
<1>8. CASE Tick
  <2>1. /\ now' = now + 1 /\ UNCHANGED <<bucket, enabled, inside, granted, first, asked>>
        /\ inside # Nobody => now < inside.since + Stall
    BY <1>8 DEF Tick, history
  <2>2. TypeOK'
    BY <1>0, <2>1 DEF TypeOK
  <2>3. InsideOK'
    <3> SUFFICES ASSUME inside # Nobody PROVE InsideOK'
      BY <2>1 DEF InsideOK
    <3>1. inside \in Held /\ inside.client \in Client /\ inside.since \in Nat
      BY <1>0 DEF TypeOK, Held
    <3>2. now \in Nat /\ bucket[inside.client].refill \in Nat
      BY <1>0, <3>1, Typed
    <3>3. inside.since <= now /\ now + 1 <= inside.since + Stall
      BY <1>0, <2>1, <3>1, <3>2, LimiterAssumption DEF InsideOK
    <3>4. (~IsBanned(inside.client))'
      BY <1>0, <2>1, <3>1, StillFree DEF InsideOK
    <3> QED
      BY <1>0, <2>1, <3>1, <3>2, <3>3, <3>4 DEF InsideOK
  <2>4. ASSUME NEW c \in Client
        PROVE  BucketOK(c)' /\ FirstOK(c)' /\ (BurstFits => Budget(c)')
    <3>1. /\ now \in Nat \ {0}
          /\ bucket[c].refill \in Nat /\ bucket[c].violated \in Nat
          /\ granted[c] \in Nat /\ first[c] \in Nat
          /\ BucketOK(c) /\ FirstOK(c) /\ (BurstFits => Budget(c))
      BY <1>0, Typed
    <3>2. BucketOK(c)' /\ FirstOK(c)'
      BY <2>1, <3>1 DEF BucketOK, FirstOK
    <3> PICK n : n = now + 1
      OBVIOUS
    <3>3. n \in Nat /\ now <= n /\ first[c] <= now /\ now' = n
      BY <2>1, <3>1 DEF FirstOK
    <3>4. /\ Seconds(now - first[c]) \in Nat /\ Seconds(n - first[c]) \in Nat
          /\ Seconds(now - first[c]) <= Seconds(n - first[c])
      BY <3>1, <3>3, SecondsAdd
    <3>5. /\ TopRate * Seconds(now - first[c]) \in Nat
          /\ TopRate * Seconds(n - first[c]) \in Nat
          /\ TopRate * Seconds(now - first[c]) <= TopRate * Seconds(n - first[c])
      <4> HIDE DEF Seconds
      <4> QED
        BY <3>4, Rates, TimesMonotonic
    <3>6. BurstFits => Budget(c)'
      BY <2>1, <3>1, <3>3, <3>5 DEF Budget
    <3> QED
      BY <3>2, <3>6
  <2> QED
    BY <2>2, <2>3, <2>4 DEF IInv, BurstFits
<1> QED
  BY <1>1, <1>2, <1>3, <1>4, <1>5, <1>6, <1>7, <1>8 DEF Next, Request

THEOREM Invariance == Spec => []IInv
BY InitIInv, StepIInv, PTL DEF Spec
-----------------------------------------------------------------------------
(* The types, for every setting. *)
THEOREM Types == Spec => []TypeOK
BY Invariance, PTL DEF IInv

(* The bucket's promise: reads and writes mixed, buckets dropped by the    *)
(* cleanup and made anew, no client gets more than the burst and TopRate   *)
(* requests a second.                                                      *)
THEOREM RateIsBounded == Spec => []RateBound
<1>1. ASSUME IInv, BurstFits, NEW c \in Client
      PROVE  IF first[c] = 0 THEN granted[c] = 0
             ELSE granted[c] <= Burst + TopRate * Seconds(now - first[c])
  <2>1. /\ TypeOK /\ BucketOK(c) /\ FirstOK(c) /\ Budget(c)
        /\ TopRate \in Nat /\ Burst \in Nat
    BY <1>1, Rates, LimiterAssumption DEF IInv
  <2>2. /\ now \in Nat /\ bucket[c].refill \in Nat /\ bucket[c].tokens \in Nat
        /\ granted[c] \in Nat /\ first[c] \in Nat
    BY <2>1, Typed
  <2>3. CASE first[c] = 0
    BY <2>1, <2>3 DEF FirstOK
  <2>4. CASE first[c] # 0 /\ bucket[c].refill = 0
    <3>1. granted[c] <= TopRate * Seconds(now - first[c])
      BY <2>1, <2>4 DEF Budget
    <3>2. TopRate * Seconds(now - first[c]) \in Nat
      BY <2>1, <2>2, SecondsNat DEF FirstOK
    <3> QED
      BY <2>1, <2>2, <2>4, <3>1, <3>2
  <2>5. CASE first[c] # 0 /\ bucket[c].refill # 0
    <3> DEFINE x == Seconds(bucket[c].refill - first[c])
               z == Seconds(now - first[c])
    <3>1. granted[c] + bucket[c].tokens <= Burst + TopRate * x
      BY <2>1, <2>5 DEF Budget
    <3>2. x \in Nat /\ z \in Nat /\ x <= z
      BY <2>1, <2>2, <2>5, SecondsAdd DEF FirstOK, BucketOK
    <3>3. granted[c] <= Burst + TopRate * z
      <4> HIDE DEF x, z
      <4>1. TopRate * x <= TopRate * z /\ TopRate * x \in Nat /\ TopRate * z \in Nat
        BY <2>1, <3>2, TimesMonotonic
      <4> QED
        BY <2>1, <2>2, <3>1, <4>1
    <3> QED
      BY <2>5, <3>3
  <2> QED
    BY <2>3, <2>4, <2>5
<1>2. IInv => RateBound
  BY <1>1 DEF RateBound
<1> QED
  BY <1>2, Invariance, PTL

(* A client's bucket was last filled by a request that was then decided: by*)
(* the one before, unless the one inside has filled it, and so holds a     *)
(* token.                                                                  *)
AskedOK ==
  /\ \A c \in Client :
       /\ bucket[c].refill # 0
       /\ inside = Nobody \/ inside.step = "refill" \/ inside.client # c
       => bucket[c].refill <= asked[c]
  /\ inside # Nobody /\ inside.step = "decide" /\ bucket[inside.client].tokens = 0 =>
       bucket[inside.client].refill <= asked[inside.client]

LEMMA StepAskedOK == IInv /\ AskedOK /\ [Next]_vars => AskedOK'
<1> SUFFICES ASSUME IInv, AskedOK, [Next]_vars PROVE AskedOK'
  OBVIOUS
<1>0. /\ TypeOK /\ InsideOK
      /\ \A c \in Client : BucketOK(c) /\ FirstOK(c)
  BY DEF IInv
<1>1. ASSUME UNCHANGED <<bucket, inside, asked>>
      PROVE  AskedOK'
  BY <1>1 DEF AskedOK
<1>2. ASSUME NEW c \in Client, NEW write \in BOOLEAN, Enter(c, write)
      PROVE  AskedOK'
  <2>1. inside = Nobody /\ inside'.step = "refill" /\ UNCHANGED <<bucket, asked>>
    BY <1>2 DEF Enter, history
  <2> QED
    BY <2>1 DEF AskedOK
<1>3. CASE Refill
  <2>0. inside \in Held /\ inside.client \in Client
    BY <1>0, <1>3 DEF Refill, TypeOK, Held
  <2> PICK c \in Client : c = inside.client
    BY <2>0
  <2> PICK rate : rate = IF inside.write THEN WriteRate ELSE ReadRate
    OBVIOUS
  <2> PICK r : r = Refilled(bucket[c], rate)
    OBVIOUS
  <2>1. /\ inside # Nobody /\ inside.step = "refill" /\ asked' = asked
        /\ bucket' = [bucket EXCEPT ![c] = r]
        /\ inside' = [inside EXCEPT !.step = "decide"]
    BY <1>3 DEF Refill
  <2>2. inside'.client = c /\ inside'.step = "decide" /\ inside' # Nobody
    <3>1. inside' \in Held
      BY <2>0, <2>1 DEF Held
    <3> QED
      BY <2>0, <2>1, <3>1, LimiterAssumption DEF Held
  <2>3. rate \in Nat \ {0} /\ rate <= TopRate
    BY Rates
  <2>4. r.tokens = 0 => r = bucket[c] /\ bucket[c].refill # 0
    BY <1>0, <2>3, RefilledFacts
  <2>5. bucket'[c] = r /\ \A d \in Client : d # c => bucket'[d] = bucket[d]
    BY <1>0, <2>1 DEF TypeOK
  <2>6. \A d \in Client : bucket[d].refill # 0 => bucket[d].refill <= asked[d]
    BY <2>1 DEF AskedOK
  <2> QED
    BY <2>1, <2>2, <2>4, <2>5, <2>6 DEF AskedOK
<1>4. CASE Grant \/ Deny
  <2>0. inside \in Held /\ inside.client \in Client /\ inside # Nobody
    BY <1>0, <1>4 DEF Grant, Deny, TypeOK, Held
  <2> PICK c \in Client : c = inside.client
    BY <2>0
  <2>1. inside' = Nobody /\ asked' = [asked EXCEPT ![c] = now]
    BY <1>4 DEF Grant, Deny
  <2>2. bucket'[c].refill = bucket[c].refill
        /\ \A d \in Client : d # c => bucket'[d] = bucket[d]
    <3>1. bucket[c] \in Bucket
      BY <1>0 DEF TypeOK
    <3> QED
      BY <1>0, <1>4, <3>1 DEF Grant, Deny, TypeOK, Bucket
  <2>3. asked'[c] = now /\ \A d \in Client : d # c => asked'[d] = asked[d]
    BY <1>0, <2>1 DEF TypeOK
  <2>4. bucket[c].refill <= now
    BY <1>0 DEF BucketOK
  <2>5. \A d \in Client : d # c /\ bucket[d].refill # 0 => bucket[d].refill <= asked[d]
    BY DEF AskedOK
  <2> QED
    BY <2>1, <2>2, <2>3, <2>4, <2>5 DEF AskedOK
<1>5. CASE Cleanup
  <2>1. /\ bucket' = [c \in Client |-> IF Idle(c) THEN NewBucket ELSE bucket[c]]
        /\ inside = Nobody /\ inside' = inside /\ asked' = asked /\ NewBucket.refill = 0
    BY <1>5 DEF Cleanup, history, NewBucket
  <2>2. \A c \in Client : bucket'[c].refill = 0 \/ bucket'[c] = bucket[c]
    BY <2>1
  <2> QED
    BY <2>1, <2>2 DEF AskedOK
<1>6. ASSUME NEW c \in Client, ResetClient(c)
      PROVE  AskedOK'
  <2>1. inside = Nobody /\ inside' = inside
    BY <1>6 DEF ResetClient
  <2>2. bucket'[c].refill = 0
        /\ \A d \in Client : d # c => bucket'[d] = bucket[d] /\ asked'[d] = asked[d]
    BY <1>0, <1>6 DEF ResetClient, NewBucket, TypeOK
  <2> QED
    BY <2>1, <2>2 DEF AskedOK
<1> QED
  BY <1>1, <1>2, <1>3, <1>4, <1>5, <1>6 DEF Next, Request, SetEnabled, Tick, history, vars

LEMMA AskedInvariance == Spec => [](IInv /\ AskedOK)
<1>1. Init => AskedOK
  BY DEF Init, AskedOK, NewBucket
<1> QED
  BY <1>1, Invariance, StepAskedOK, PTL DEF Spec

(* A violation is recorded only against a request that arrived less than a *)
(* second after the client's last one was decided.                         *)
THEOREM OnlyHastyClientsAreLimited == Spec => OnlyHastyClientsViolate
<1>1. ASSUME IInv, AskedOK, Next, NEW c \in Client,
             bucket'[c].violations > bucket[c].violations
      PROVE  asked[c] # 0 /\ inside.since - asked[c] < TicksPerSec
  <2>0. TypeOK /\ InsideOK /\ bucket[c].violations \in Nat /\ bucket[c].refill \in Nat
        /\ asked[c] \in Nat /\ bucket[c] \in Bucket
    BY <1>1, Typed DEF IInv
  <2>1. CASE Deny
    <3>1. inside # Nobody /\ inside.step = "decide" /\ inside \in Held
          /\ inside.client \in Client /\ bucket[inside.client].tokens = 0
      BY <2>0, <2>1 DEF Deny, TypeOK, Held
    <3>2. c = inside.client
      BY <1>1, <2>0, <2>1, <3>1 DEF Deny, TypeOK
    <3>3. bucket[c].refill # 0 /\ inside.since - bucket[c].refill < TicksPerSec
          /\ bucket[c].refill <= asked[c]
      BY <1>1, <2>0, <3>1, <3>2 DEF InsideOK, AskedOK
    <3>4. inside.since \in Nat /\ TicksPerSec \in Nat
      BY <3>1, LimiterAssumption DEF Held
    <3> QED
      BY <2>0, <3>3, <3>4
  <2>2. ASSUME \A d \in Client :
                 bucket'[d].violations = bucket[d].violations \/ bucket'[d].violations = 0
        PROVE  FALSE
    BY <1>1, <2>0, <2>2
  <2>3. CASE Refill
    <3>1. inside.client \in Client /\ bucket[inside.client] \in Bucket
      BY <2>0, <2>3 DEF Refill, TypeOK, Held
    <3>2. \A rate : Refilled(bucket[inside.client], rate).violations
                      = bucket[inside.client].violations
      BY <3>1 DEF Refilled, Bucket
    <3>3. \A d \in Client : bucket'[d].violations = bucket[d].violations
      BY <2>0, <2>3, <3>1, <3>2 DEF Refill, TypeOK
    <3> QED
      BY <2>2, <3>3
  <2>4. CASE Grant
    <3>1. \A d \in Client : bucket'[d].violations = bucket[d].violations
      BY <2>0, <2>4 DEF Grant, TypeOK, Bucket
    <3> QED
      BY <2>2, <3>1
  <2>5. CASE Cleanup
    <3>1. \A d \in Client :
            bucket'[d].violations = bucket[d].violations \/ bucket'[d].violations = 0
      BY <2>5 DEF Cleanup, NewBucket
    <3> QED
      BY <2>2, <3>1
  <2>6. ASSUME NEW d \in Client, ResetClient(d)
        PROVE  FALSE
    <3>1. \A e \in Client :
            bucket'[e].violations = bucket[e].violations \/ bucket'[e].violations = 0
      BY <2>0, <2>6 DEF ResetClient, NewBucket, TypeOK
    <3> QED
      BY <2>2, <3>1
  <2>7. CASE UNCHANGED bucket
    BY <2>2, <2>7
  <2> QED
    BY <1>1, <2>1, <2>3, <2>4, <2>5, <2>6, <2>7
       DEF Next, Request, Enter, SetEnabled, Tick, history
<1>2. IInv /\ AskedOK /\ [Next]_vars =>
        [\A c \in Client :
           bucket'[c].violations > bucket[c].violations =>
             asked[c] # 0 /\ inside.since - asked[c] < TicksPerSec]_vars
  BY <1>1
<1> QED
  BY <1>2, AskedInvariance, PTL DEF Spec, OnlyHastyClientsViolate

(* Nobody is allowed a request while banned: the ban check made on arrival *)
(* still holds when the token is taken.                                    *)
THEOREM NoGrantToTheBanned == Spec => NoGrantWhileBanned
<1>1. ASSUME IInv, Next, NEW c \in Client, granted'[c] > granted[c]
      PROVE  ~IsBanned(c)
  <2>0. TypeOK /\ InsideOK
    BY <1>1 DEF IInv
  <2>1. granted[c] \in Nat
    BY <2>0, Typed
  <2>2. CASE Grant
    <3>1. inside # Nobody /\ inside.client \in Client
      BY <2>0, <2>2 DEF Grant, TypeOK, Held
    <3>2. c = inside.client
      BY <2>0, <2>1, <2>2, <1>1, <3>1 DEF Grant, TypeOK
    <3> QED
      BY <2>0, <3>1, <3>2 DEF InsideOK
  <2>3. ASSUME NEW d \in Client, ResetClient(d)
        PROVE  FALSE
    <3>1. granted'[c] = granted[c] \/ granted'[c] = 0
      BY <2>0, <2>3 DEF ResetClient, TypeOK
    <3> QED
      BY <1>1, <2>1, <3>1
  <2>4. CASE granted' = granted
    BY <1>1, <2>1, <2>4
  <2> QED
    BY <1>1, <2>2, <2>3, <2>4
       DEF Next, Request, Enter, Refill, Deny, Cleanup, SetEnabled, Tick, history
<1>2. IInv /\ [Next]_vars =>
        [\A c \in Client : granted'[c] > granted[c] => ~IsBanned(c)]_vars
  BY <1>1
<1> QED
  BY <1>2, Invariance, PTL DEF Spec, NoGrantWhileBanned

(* A client is not dropped for idleness before its ban is over.            *)
LEMMA BannedIsNotIdle ==
  ASSUME TypeOK, BanFits, NEW c \in Client, BucketOK(c), IsBanned(c)
  PROVE  ~Idle(c)
<1> DEFINE quiet == Seconds(now - bucket[c].refill)
           ban == Seconds(now - bucket[c].violated)
           m == Minute * (IdleMinutes + 1)
<1>1. /\ now \in Nat /\ bucket[c].refill \in Nat /\ bucket[c].violated \in Nat
      /\ bucket[c].violations \in Nat
  BY Typed
<1>2. /\ TicksPerSec \in Nat \ {0} /\ Minute \in Nat \ {0} /\ IdleMinutes \in Nat
      /\ BanThreshold \in Nat \ {0} /\ BanDuration \in Nat \ {0} /\ Stall \in Nat
  BY LimiterAssumption
<1>3. bucket[c].refill <= now /\ bucket[c].violated <= now
      /\ bucket[c].violated - bucket[c].refill < TicksPerSec + Stall
  BY <1>1, <1>2 DEF BucketOK, IsBanned
<1>4. now - bucket[c].violated < TicksPerSec * ban + TicksPerSec /\ ban \in Nat
      /\ ban < BanDuration
  <2>1. now - bucket[c].violated \in Nat
    BY <1>1, <1>3
  <2> QED
    BY <1>2, <2>1, DivNat DEF Seconds, IsBanned
<1>5. TicksPerSec * quiet <= now - bucket[c].refill /\ quiet \in Nat
  <2>1. now - bucket[c].refill \in Nat
    BY <1>1, <1>3
  <2> QED
    BY <1>2, <2>1, DivNat DEF Seconds
<1>6. m \in Nat /\ (BanDuration + 1) * TicksPerSec + Stall <= m * TicksPerSec
  BY <1>2 DEF BanFits, IdleTicks
<1> SUFFICES ASSUME Idle(c) PROVE FALSE
  OBVIOUS
<1>7. m <= quiet
  <2>1. quiet \div Minute > IdleMinutes
    BY DEF Idle, Minutes
  <2> HIDE DEF quiet
  <2>2. quiet \div Minute \in Nat /\ Minute * (quiet \div Minute) <= quiet
    BY <1>2, <1>5, DivNat
  <2>3. m <= Minute * (quiet \div Minute)
    BY <1>2, <2>1, <2>2, TimesMonotonic
  <2> QED
    BY <1>2, <1>5, <2>2, <2>3
<1> HIDE DEF quiet, ban, m
<1>8. TicksPerSec * m <= TicksPerSec * quiet /\ TicksPerSec * m = m * TicksPerSec
  BY <1>2, <1>5, <1>6, <1>7, TimesMonotonic
<1>9. TicksPerSec * ban + TicksPerSec <= BanDuration * TicksPerSec
  <2>1. ban + 1 <= BanDuration /\ ban + 1 \in Nat /\ BanDuration \in Nat /\ TicksPerSec \in Nat
    BY <1>2, <1>4
  <2>2. TicksPerSec * (ban + 1) <= TicksPerSec * BanDuration
    BY <2>1, TimesMonotonic
  <2> QED
    BY <1>4, <2>1, <2>2
<1>10. (BanDuration + 1) * TicksPerSec = BanDuration * TicksPerSec + TicksPerSec
       /\ BanDuration * TicksPerSec \in Nat /\ m * TicksPerSec \in Nat
       /\ TicksPerSec * ban \in Nat /\ TicksPerSec * quiet \in Nat
  BY <1>2, <1>4, <1>5, <1>6
<1> QED
  BY <1>1, <1>2, <1>3, <1>4, <1>5, <1>6, <1>8, <1>9, <1>10

(* A banned client's bucket is left alone, by its own requests, by those of*)
(* others and, since a ban is over before its client counts as idle, by    *)
(* the cleanup.                                                            *)
THEOREM BansAreHonoured == Spec => BanHonoured
<1>1. ASSUME IInv, Next, BanFits, NEW c \in Client, IsBanned(c), ~ResetClient(c)
      PROVE  bucket'[c] = bucket[c]
  <2>0. TypeOK /\ InsideOK /\ BucketOK(c)
    BY <1>1 DEF IInv
  <2>1. CASE Refill \/ Grant \/ Deny
    <3>1. inside # Nobody /\ inside.client \in Client /\ ~IsBanned(inside.client)
      BY <2>0, <2>1 DEF Refill, Grant, Deny, TypeOK, InsideOK, Held
    <3>2. c # inside.client
      BY <1>1, <3>1
    <3> QED
      BY <2>0, <2>1, <3>2 DEF Refill, Grant, Deny, TypeOK
  <2>2. CASE Cleanup
    <3>1. SUFFICES ~Idle(c)
      BY <2>2, <3>1 DEF Cleanup
    <3> QED
      BY <1>1, <2>0, BannedIsNotIdle
  <2>3. ASSUME NEW d \in Client, ResetClient(d)
        PROVE  bucket'[c] = bucket[c]
    BY <1>1, <2>0, <2>3 DEF ResetClient, TypeOK
  <2>4. CASE UNCHANGED bucket
    BY <2>4
  <2> QED
    BY <1>1, <2>1, <2>2, <2>3, <2>4
       DEF Next, Request, Enter, SetEnabled, Tick, history
<1>2. IInv /\ [Next]_vars =>
        [BanFits => \A c \in Client :
            IsBanned(c) => bucket'[c] = bucket[c] \/ ResetClient(c)]_vars
  BY <1>1
<1> QED
  BY <1>2, Invariance, PTL DEF Spec, BanHonoured
=============================================================================
