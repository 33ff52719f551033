---------------------------- MODULE RateLimiter ----------------------------
(***************************************************************************)
(* The token bucket of one client address (rate_limiter.rs).  A call holds *)
(* the map's entry from the look-up to its return, so it is one action;    *)
(* buckets of different addresses share nothing.  Time is in ticks of the  *)
(* code's millisecond, and the refill, which the code computes in floating *)
(* point and truncates, is an exact fraction, truncated.                   *)
(***************************************************************************)
EXTENDS Integers

CONSTANTS
    MaxRequests, Window,  \* the rate: tokens per ticks
    Burst,                \* burst_size, the capacity
    Costs,                \* costs a request may have
    MaxAge,               \* age at which cleanup drops a bucket
    LimiterEnd,           \* bound: the clock stops here
    NoBucket              \* no entry for the address

ASSUME RateType == MaxRequests \in Nat \ {0} /\ Window \in Nat \ {0}
ASSUME BurstType == Burst \in Nat
ASSUME CostsType == Costs \subseteq Nat
\* A bucket that cleanup drops would be full by then: whoever starts the
\* cleanup has to choose max_age so, the code does not.
ASSUME CleanupIsLate == MaxAge \in Nat /\ MaxAge * MaxRequests >= Burst * Window
ASSUME LimiterEndType == LimiterEnd \in Nat
ASSUME NoBucketIsNone == NoBucket \notin [tokens : 0..Burst, last : 0..LimiterEnd]

VARIABLES
    limClock,   \* now_ms()
    bucket,     \* ClientState: tokens, and last_refill_ms
    \* history, not read by the code
    from,       \* a tick, any one, from which on
    spent       \* the cost of the allowed requests is added up

limVars == <<limClock, bucket, from, spent>>

LimiterTypeOK ==
    /\ limClock \in 0..LimiterEnd
    /\ bucket \in [tokens : 0..Burst, last : 0..limClock] \cup {NoBucket}
    /\ from \in 0..LimiterEnd
    /\ spent \in Nat

LimiterInit ==
    /\ limClock = 0
    /\ bucket = NoBucket
    /\ from \in 0..LimiterEnd
    /\ spent = 0

NewBucket == [tokens |-> Burst, last |-> limClock]

\* Slip: the tokens are not capped at the burst.
SlipUncapped(b) ==
    LET add == ((limClock - b.last) * MaxRequests) \div Window
    IN  IF add = 0 THEN b ELSE [tokens |-> b.tokens + add, last |-> limClock]

\* Slip: the time of the refill is not stored.
SlipRefilled(b) ==
    LET add == ((limClock - b.last) * MaxRequests) \div Window
    IN  IF add = 0 THEN b
        ELSE [tokens |-> IF b.tokens + add > Burst THEN Burst ELSE b.tokens + add,
              last |-> b.last]

\* Whole tokens only; the time is noted only when there is one to add.
Refilled(b) ==
    LET add == ((limClock - b.last) * MaxRequests) \div Window
    IN  IF add = 0 THEN b
        ELSE [tokens |-> IF b.tokens + add > Burst THEN Burst ELSE b.tokens + add,
              last |-> limClock]

\* The bucket a call works on.
Current == IF bucket = NoBucket THEN NewBucket ELSE Refilled(bucket)

CheckAllowed(cost) ==
    /\ Current.tokens >= cost
    /\ bucket' = [Current EXCEPT !.tokens = @ - cost]
    /\ spent' = IF limClock >= from THEN spent + cost ELSE spent
    /\ UNCHANGED <<limClock, from>>

CheckLimited(cost) ==
    /\ Current.tokens < cost
    /\ bucket' = Current
    /\ UNCHANGED <<limClock, from, spent>>

\* The periodic cleanup goes by the last refill.
CleanupBucket ==
    /\ bucket # NoBucket
    /\ limClock - bucket.last >= MaxAge
    /\ bucket' = NoBucket
    /\ UNCHANGED <<limClock, from, spent>>

\* clear and clear_all: the client starts over, and so does the sum.
ClearBucket ==
    /\ bucket # NoBucket
    /\ bucket' = NoBucket
    /\ spent' = 0
    /\ UNCHANGED <<limClock, from>>

LimiterTick ==
    /\ limClock < LimiterEnd
    /\ limClock' = limClock + 1
    /\ UNCHANGED <<bucket, from, spent>>

LimiterNext ==
    \/ \E cost \in Costs : CheckAllowed(cost) \/ CheckLimited(cost)
    \/ CleanupBucket \/ ClearBucket \/ LimiterTick

LimiterSpec == LimiterInit /\ [][LimiterNext]_limVars

----------------------------------------------------------------------------
\* From any tick to now, less is let through than the burst, what the rate
\* yields in that time, and one token: the limit holds over every interval,
\* whatever was truncated, dropped by the cleanup or found full in between
\* (rate_limiter.rs:85-122).  The one token comes from a bucket that is full:
\* its refill time stays behind while there is no whole token to add.
RateBounded ==
    limClock >= from =>
       spent * Window < (Burst + 1) * Window + (limClock - from) * MaxRequests
============================================================================
