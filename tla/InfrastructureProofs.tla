----------------------- MODULE InfrastructureProofs -------------------------
(***************************************************************************)
(* Proofs about the building blocks under infrastructure/, the registry of *)
(* the API and the start of the program: the health checker, the rate      *)
(* limiter, the configuration watcher, the circuit breaker, the graceful   *)
(* shutdown, the registry and main, for every threshold, rate, capacity    *)
(* and number of callers. They share no state, so each part has an         *)
(* invariant of its own and stands alone; at the end their composition is  *)
(* shown to behave as each of them.                                        *)
(***************************************************************************)
EXTENDS Infrastructure, FiniteSetTheorems, SequenceTheorems, TLAPS

----------------------------------------------------------------------------
(***************************************************************************)
(* The health checker. Its counters count the last probes: with that and   *)
(* the callback told of every change, a change of the status has a full    *)
(* run of equal probes behind it.                                          *)
(***************************************************************************)

\* The last k results are all r.
LastAre(s, k, r) == k <= Len(s) /\ \A i \in (Len(s) - k + 1)..Len(s) : s[i] = r

\* What the counters count is in the results, and the callback knows the status.
HealthInv ==
    /\ HealthTypeOK
    /\ told = status.healthy
    /\ Len(results) <= Most
    /\ LastAre(results, status.successes, TRUE)
    /\ LastAre(results, status.failures, FALSE)

\* The counters saturate above both thresholds.
LEMMA MostType ==
    Most \in Nat \ {0} /\ HealthyThreshold < Most /\ UnhealthyThreshold < Most
BY HealthThresholds DEF Most

\* Counting keeps a counter in its range, and above zero.
LEMMA CountType == ASSUME NEW n \in 0..Most PROVE Count(n) \in 0..Most /\ Count(n) # 0
BY MostType DEF Count

\* One more result: it is kept, and a run of equal ones grows by it.
LEMMA RunGrows ==
    ASSUME NEW s \in Seq(BOOLEAN), NEW r \in BOOLEAN, Len(s) <= Most,
           NEW k \in 0..Most, LastAre(s, k, r)
    PROVE  /\ Recent(Append(s, r)) \in Seq(BOOLEAN)
           /\ Len(Recent(Append(s, r))) <= Most
           /\ LastAre(Recent(Append(s, r)), Count(k), r)
<1> DEFINE a == Append(s, r)
<1>1. /\ a \in Seq(BOOLEAN) /\ Len(a) = Len(s) + 1 /\ Len(s) \in Nat
      /\ \A i \in 1..Len(s) : a[i] = s[i]
      /\ a[Len(s) + 1] = r
  OBVIOUS
<1>2. CASE Len(a) > Most
  <2> DEFINE t == Tail(a)
  <2>1. /\ t \in Seq(BOOLEAN) /\ Len(t) = Len(s)
        /\ \A i \in 1..Len(t) : t[i] = a[i + 1]
    BY <1>1
  <2>2. Recent(a) = t
    BY <1>2 DEF Recent
  <2>3. Len(s) = Most
    BY <1>1, <1>2, MostType
  <2> HIDE DEF t, a
  <2>4. Count(k) <= Len(t) /\ Count(k) <= k + 1 /\ Count(k) \in Nat
    BY <2>1, <2>3, MostType DEF Count
  <2>5. \A i \in (Len(t) - Count(k) + 1)..Len(t) : t[i] = r
    <3> SUFFICES ASSUME NEW i \in (Len(t) - Count(k) + 1)..Len(t) PROVE t[i] = r
      OBVIOUS
    <3>1. i \in 1..Len(t) /\ i + 1 >= Len(s) - k + 1 /\ i \in Int
      BY <2>1, <2>4, <1>1, MostType
    <3>2. CASE i = Len(s)
      BY <3>1, <3>2, <2>1, <1>1
    <3>3. CASE i < Len(s)
      <4>1. i + 1 \in 1..Len(s) /\ i + 1 \in (Len(s) - k + 1)..Len(s)
        BY <3>1, <3>3, <1>1, MostType
      <4> QED BY <3>1, <4>1, <2>1, <1>1 DEF LastAre
    <3> QED BY <3>1, <3>2, <3>3, <2>1, <1>1
  <2> QED BY <2>1, <2>2, <2>3, <2>4, <2>5 DEF LastAre, a
<1>3. CASE ~(Len(a) > Most)
  <2>1. Recent(a) = a
    BY <1>3 DEF Recent
  <2> HIDE DEF a
  <2>2. Count(k) <= Len(a) /\ Count(k) <= k + 1 /\ Count(k) \in Nat
    BY <1>1, <1>3, MostType DEF Count, LastAre
  <2>3. \A i \in (Len(a) - Count(k) + 1)..Len(a) : a[i] = r
    <3> SUFFICES ASSUME NEW i \in (Len(a) - Count(k) + 1)..Len(a) PROVE a[i] = r
      OBVIOUS
    <3>1. CASE i = Len(a)
      BY <3>1, <1>1
    <3>2. CASE i < Len(a)
      <4>1. i \in 1..Len(s) /\ i \in (Len(s) - k + 1)..Len(s)
        BY <3>2, <2>2, <1>1, MostType
      <4> QED BY <4>1, <1>1 DEF LastAre
    <3> QED BY <3>1, <3>2, <1>1
  <2> QED BY <1>1, <1>3, <2>1, <2>2, <2>3, MostType DEF LastAre, a
<1> QED BY <1>2, <1>3

\* Any results end in a run of length zero.
LEMMA EmptyRun == ASSUME NEW s \in Seq(BOOLEAN), NEW r PROVE LastAre(s, 0, r)
BY DEF LastAre

\* A status changes only with a full run behind it.
LEMMA StepKeepsHealth ==
    ASSUME HealthInv, [HealthNext]_healthVars
    PROVE  /\ HealthInv'
           /\ told' # told =>
                LastAre(results', IF told' THEN HealthyThreshold ELSE UnhealthyThreshold, told')
<1> USE DEF HealthInv
<1>1. CASE UpdateStatus
  <2> DEFINE s == results
             t == Recent(Append(results, probe))
  <2>0. /\ probe \in BOOLEAN /\ s \in Seq(BOOLEAN) /\ Len(s) <= Most
        /\ status.successes \in 0..Most /\ status.failures \in 0..Most
        /\ status.healthy \in BOOLEAN /\ told = status.healthy
        /\ LastAre(s, 0, probe)
    BY EmptyRun DEF HealthTypeOK
  <2>1. t \in Seq(BOOLEAN) /\ Len(t) <= Most
    BY <2>0, RunGrows, MostType
  <2>2. results' = t /\ status' = Transition(status, probe)
        /\ told' = (IF status'.healthy # status.healthy THEN status'.healthy ELSE told)
        /\ UNCHANGED <<listed, reachable, probe>> /\ loop' = "tick"
    BY <1>1 DEF UpdateStatus
  <2>3. CASE probe = TRUE
    <3>1. LastAre(t, Count(status.successes), TRUE)
      BY <2>0, <2>3, RunGrows
    <3>2. /\ status' = [healthy |-> status.healthy \/ Count(status.successes) >= HealthyThreshold,
                        successes |-> Count(status.successes), failures |-> 0]
      BY <2>0, <2>2, <2>3 DEF Transition
    <3>3. Count(status.successes) \in 0..Most
      BY <2>0, CountType
    <3>4. /\ status'.healthy \in BOOLEAN /\ told' = status'.healthy
          /\ status'.successes = Count(status.successes) /\ status'.failures = 0
      BY <2>0, <2>2, <3>2, <3>3
    <3>5. HealthTypeOK'
      <4>1. status' \in [healthy : BOOLEAN, successes : 0..Most, failures : 0..Most]
        BY <3>2, <3>3, <3>4, MostType
      <4>2. /\ listed' \in BOOLEAN /\ reachable' \in BOOLEAN /\ loop' = "tick"
            /\ probe' \in BOOLEAN /\ told' \in BOOLEAN /\ results' \in Seq(BOOLEAN)
        BY <2>1, <2>2, <3>4 DEF HealthTypeOK
      <4> QED BY <4>1, <4>2 DEF HealthTypeOK
    <3>6. told' # told => told' = TRUE /\ Count(status.successes) >= HealthyThreshold
      <4>1. status'.healthy = (status.healthy \/ Count(status.successes) >= HealthyThreshold)
        BY <3>2
      <4> QED BY <2>0, <3>4, <4>1
    <3>7. told' # told => LastAre(t, HealthyThreshold, TRUE)
      BY <3>1, <3>3, <3>6, <2>1, HealthThresholds DEF LastAre
    <3> HIDE DEF t
    <3> QED BY <2>1, <2>2, <3>1, <3>4, <3>5, <3>6, <3>7, EmptyRun
  <2>4. CASE probe = FALSE
    <3>1. LastAre(t, Count(status.failures), FALSE)
      BY <2>0, <2>4, RunGrows
    <3>2. /\ status' = [healthy |-> status.healthy /\ Count(status.failures) < UnhealthyThreshold,
                        successes |-> 0, failures |-> Count(status.failures)]
      BY <2>0, <2>2, <2>4 DEF Transition
    <3>3. Count(status.failures) \in 0..Most
      BY <2>0, CountType
    <3>4. /\ status'.healthy \in BOOLEAN /\ told' = status'.healthy
          /\ status'.failures = Count(status.failures) /\ status'.successes = 0
      BY <2>0, <2>2, <3>2, <3>3
    <3>5. HealthTypeOK'
      <4>1. status' \in [healthy : BOOLEAN, successes : 0..Most, failures : 0..Most]
        BY <3>2, <3>3, <3>4, MostType
      <4>2. /\ listed' \in BOOLEAN /\ reachable' \in BOOLEAN /\ loop' = "tick"
            /\ probe' \in BOOLEAN /\ told' \in BOOLEAN /\ results' \in Seq(BOOLEAN)
        BY <2>1, <2>2, <3>4 DEF HealthTypeOK
      <4> QED BY <4>1, <4>2 DEF HealthTypeOK
    <3>6. told' # told => told' = FALSE /\ Count(status.failures) >= UnhealthyThreshold
      <4>1. status'.healthy = (status.healthy /\ Count(status.failures) < UnhealthyThreshold)
        BY <3>2
      <4>2. Count(status.failures) < UnhealthyThreshold \/ Count(status.failures) >= UnhealthyThreshold
        BY <3>3, MostType, HealthThresholds
      <4> QED BY <2>0, <3>4, <4>1, <4>2
    <3>7. told' # told => LastAre(t, UnhealthyThreshold, FALSE)
      BY <3>1, <3>3, <3>6, <2>1, HealthThresholds DEF LastAre
    <3> HIDE DEF t
    <3> QED BY <2>1, <2>2, <3>1, <3>4, <3>5, <3>6, <3>7, EmptyRun
  <2> QED BY <2>0, <2>3, <2>4
<1>2. CASE UNCHANGED <<status, told, results>> /\ HealthTypeOK'
  BY <1>2
<1>3. CASE Round
  BY <1>2, <1>3 DEF Round, HealthTypeOK
<1>4. CASE CheckBackend
  BY <1>2, <1>4 DEF CheckBackend, HealthTypeOK
<1>5. CASE Flip
  BY <1>2, <1>5 DEF Flip, HealthTypeOK
<1>6. CASE Relist
  BY <1>2, <1>6 DEF Relist, HealthTypeOK
<1>7. CASE UNCHANGED healthVars
  BY <1>2, <1>7 DEF healthVars, HealthTypeOK
<1> QED BY <1>1, <1>3, <1>4, <1>5, <1>6, <1>7 DEF HealthNext

\* At first nothing has been probed.
LEMMA HealthInitInv == HealthInit => HealthInv
BY MostType DEF HealthInit, HealthInv, HealthTypeOK, LastAre

\* No fairness is needed for it.
LEMMA HealthSafe == HealthInit /\ [][HealthNext]_healthVars => ChangeHasCause
<1>1. HealthInv /\ [HealthNext]_healthVars => HealthInv'
  BY StepKeepsHealth
<1>2. HealthInv /\ [HealthNext]_healthVars =>
        [told' # told =>
         LET n == Len(results')
             k == IF told' THEN HealthyThreshold ELSE UnhealthyThreshold
         IN  n >= k /\ \A i \in (n - k + 1)..n : results'[i] = told']_healthVars
  <2> SUFFICES ASSUME HealthInv, [HealthNext]_healthVars, told' # told
               PROVE  LET n == Len(results')
                          k == IF told' THEN HealthyThreshold ELSE UnhealthyThreshold
                      IN  n >= k /\ \A i \in (n - k + 1)..n : results'[i] = told'
    OBVIOUS
  <2>1. results' \in Seq(BOOLEAN)
    BY StepKeepsHealth DEF HealthInv, HealthTypeOK
  <2> QED BY <2>1, StepKeepsHealth, HealthThresholds DEF LastAre
<1> QED BY <1>1, <1>2, HealthInitInv, PTL DEF ChangeHasCause

\* The callback hears of a change only after as many equal probes in a row as
\* the threshold asks for, with the last one just made
\* (health_checker.rs:205-253, 299-342).
THEOREM HealthChangeHasCause == HealthSpec => ChangeHasCause
BY HealthSafe, PTL DEF HealthSpec

----------------------------------------------------------------------------
(***************************************************************************)
(* The rate limiter. The invariant is the account of one client since an   *)
(* arbitrary moment: what was spent, and what the bucket still holds,      *)
(* against the burst and the time that has passed up to the last refill. A *)
(* bucket that was refilled before that moment is behind by less than one  *)
(* token.                                                                  *)
(***************************************************************************)

\* Products, for steps in which the multipliers are constants of the model.
LEMMA MulInt ==
    ASSUME NEW a \in Int, NEW b \in Int
    PROVE  a * b \in Int /\ (a >= 0 /\ b >= 0 => a * b >= 0)
OBVIOUS

\* A larger factor gives a larger product.
LEMMA MulMono ==
    ASSUME NEW a \in Int, NEW b \in Int, NEW c \in Nat, a <= b PROVE a * c <= b * c
OBVIOUS

\* Products of sums and differences.
LEMMA MulPlus ==
    ASSUME NEW a \in Int, NEW b \in Int, NEW c \in Int
    PROVE  (a + b) * c = a * c + b * c /\ (a - b) * c = a * c - b * c
OBVIOUS

\* Integer division rounds down (the refill, rate_limiter.rs:96-99).
LEMMA DivDown ==
    ASSUME NEW a \in Nat, NEW w \in Nat \ {0}
    PROVE  /\ a \div w \in Nat
           /\ (a \div w) * w <= a
           /\ a \div w = 0 => a < w
OBVIOUS

\* A bucket, last refilled at some time up to now.
Buckets == [tokens : 0..Burst, last : 0..limClock]

\* What has been spent since `from`, and what is left in bucket b.
Credit(b, s) ==
    /\ b.last >= from =>
         (s + b.tokens) * Window < (Burst + 1) * Window + (b.last - from) * MaxRequests
    /\ b.last < from => s + b.tokens <= Burst /\ (s > 0 => (from - b.last) * MaxRequests < Window)

\* Without a bucket all has been dropped, and with it what was left.
NoCredit(s) == s * Window < Window + (limClock - from) * MaxRequests

\* Before `from' nothing counts; after it the bucket, if there is one, holds
\* no more than what has not been spent yet.
LimiterInv ==
    /\ LimiterTypeOK
    /\ limClock < from => spent = 0
    /\ limClock >= from =>
         IF bucket = NoBucket THEN NoCredit(spent) ELSE Credit(bucket, spent)

\* A bucket is not the absence of one.
LEMMA BucketsType == ASSUME LimiterTypeOK, NEW b \in Buckets PROVE b # NoBucket
<1>1. b \in [tokens : 0..Burst, last : 0..LimiterEnd]
  BY LimiterEndType DEF Buckets, LimiterTypeOK
<1> QED BY <1>1, NoBucketIsNone

\* The bucket a call works on.
LEMMA CurrentCredit ==
    ASSUME LimiterInv
    PROVE  /\ Current \in Buckets
           /\ limClock >= from => Credit(Current, spent)
           /\ limClock >= from /\ Current.last < from => (from - Current.last) * MaxRequests < Window
<1> USE DEF LimiterInv
<1>0. /\ limClock \in Nat /\ from \in Nat /\ spent \in Nat /\ Burst \in Nat
      /\ MaxRequests \in Nat \ {0} /\ Window \in Nat \ {0}
  BY RateType, BurstType, LimiterEndType DEF LimiterTypeOK
<1>1. CASE bucket = NoBucket
  <2>1. Current = NewBucket
    BY <1>1 DEF Current
  <2>2. NewBucket \in Buckets /\ NewBucket.last = limClock /\ NewBucket.tokens = Burst
    BY <1>0 DEF NewBucket, Buckets
  <2>3. limClock >= from => Credit(NewBucket, spent)
    <3>1. (spent + Burst) * Window = spent * Window + Burst * Window
          /\ (Burst + 1) * Window = Burst * Window + Window
      BY <1>0
    <3> QED BY <1>0, <1>1, <2>2, <3>1, MulInt DEF Credit, NoCredit
  <2> QED BY <1>0, <2>1, <2>2, <2>3
<1>2. CASE bucket # NoBucket
  <2>1. bucket \in Buckets
    BY <1>2 DEF LimiterTypeOK, Buckets
  <2> DEFINE last == bucket.last
             tokens == bucket.tokens
             add == ((limClock - last) * MaxRequests) \div Window
             more == IF tokens + add > Burst THEN Burst ELSE tokens + add
  <2>2. last \in 0..limClock /\ tokens \in 0..Burst
    BY <2>1 DEF Buckets
  <2>3. /\ (limClock - last) * MaxRequests \in Nat
        /\ add \in Nat
        /\ add * Window <= (limClock - last) * MaxRequests
        /\ add = 0 => (limClock - last) * MaxRequests < Window
    <3>1. (limClock - last) * MaxRequests \in Nat
      BY <1>0, <2>2
    <3> QED BY <1>0, <3>1, DivDown
  <2>4. Current = IF add = 0 THEN bucket ELSE [tokens |-> more, last |-> limClock]
    BY <1>2 DEF Current, Refilled
  <2>5. more \in 0..Burst /\ more <= tokens + add
    BY <1>0, <2>2, <2>3
  <2> HIDE DEF last, tokens, add, more
  <2>6. CASE add = 0
    <3>1. Current = bucket
      BY <2>4, <2>6
    <3>2. limClock >= from => Credit(bucket, spent)
      BY <1>2
    <3>3. limClock >= from => (from - last) * MaxRequests < Window
      <4> SUFFICES ASSUME limClock >= from PROVE (from - last) * MaxRequests < Window
        OBVIOUS
      <4>1. (from - last) * MaxRequests <= (limClock - last) * MaxRequests
        BY <1>0, <2>2, MulMono
      <4> QED BY <1>0, <2>2, <2>3, <2>6, <4>1, MulInt
    <3> QED BY <2>1, <3>1, <3>2, <3>3 DEF last
  <2>7. CASE add # 0
    <3> DEFINE c == [tokens |-> more, last |-> limClock]
    <3>1. Current = c
      BY <2>4, <2>7
    <3>2. c \in Buckets /\ c.last = limClock /\ c.tokens = more
      BY <1>0, <2>5 DEF Buckets
    <3>3. ASSUME limClock >= from
          PROVE  (spent + more) * Window < (Burst + 1) * Window + (limClock - from) * MaxRequests
      <4>1. (spent + more) * Window <= spent * Window + tokens * Window + add * Window
        BY <1>0, <2>2, <2>3, <2>5
      <4>2. /\ (Burst + 1) * Window = Burst * Window + Window
            /\ (limClock - last) * MaxRequests = (limClock - from) * MaxRequests + (from - last) * MaxRequests
            /\ (last - from) * MaxRequests = 0 - (from - last) * MaxRequests
        BY <1>0, <2>2
      <4>3. Credit(bucket, spent)
        BY <1>2, <3>3
      <4>4. /\ spent * Window \in Nat /\ tokens * Window \in Nat /\ add * Window \in Nat
            /\ Burst * Window \in Nat /\ more * Window \in Nat
            /\ (limClock - from) * MaxRequests \in Nat /\ (from - last) * MaxRequests \in Int
            /\ (spent + more) * Window \in Nat
        BY <1>0, <2>2, <2>3, <2>5, <3>3, MulInt
      <4>5. CASE last >= from
        <5>1. (spent + tokens) * Window < (Burst + 1) * Window + (last - from) * MaxRequests
          BY <4>3, <4>5 DEF Credit, last, tokens
        <5>2. (spent + tokens) * Window = spent * Window + tokens * Window
          BY <1>0, <2>2
        <5> QED BY <1>0, <2>3, <4>1, <4>2, <4>4, <5>1, <5>2
      <4>6. CASE last < from /\ spent > 0
        <5>1. spent + tokens <= Burst /\ (from - last) * MaxRequests < Window
          BY <4>3, <4>6 DEF Credit, last, tokens
        <5>2. spent * Window + tokens * Window <= Burst * Window
          BY <1>0, <2>2, <5>1
        <5> QED BY <1>0, <2>3, <4>1, <4>2, <4>4, <5>1, <5>2
      <4>7. CASE spent = 0
        <5>1. (spent + more) * Window <= Burst * Window
          BY <1>0, <2>5, <4>7
        <5> QED BY <1>0, <4>2, <4>4, <5>1
      <4> QED BY <1>0, <2>2, <4>5, <4>6, <4>7
    <3> HIDE DEF c
    <3>4. limClock >= from => Credit(c, spent)
      BY <1>0, <3>2, <3>3 DEF Credit
    <3> QED BY <1>0, <3>1, <3>2, <3>4
  <2> QED BY <2>3, <2>6, <2>7
<1> QED BY <1>1, <1>2

\* A check spends what it takes from the bucket, or nothing
\* (rate_limiter.rs:79-122).
LEMMA CheckInv ==
    ASSUME LimiterInv, NEW cost \in Costs, CheckAllowed(cost) \/ CheckLimited(cost)
    PROVE  LimiterInv'
<1>0. /\ limClock \in Nat /\ from \in Nat /\ spent \in Nat /\ Burst \in Nat /\ cost \in Nat
      /\ MaxRequests \in Nat \ {0} /\ Window \in Nat \ {0}
  BY RateType, BurstType, LimiterEndType, CostsType DEF LimiterInv, LimiterTypeOK
<1>1. PICK c : c = Current OBVIOUS
<1>2. /\ c \in Buckets /\ c.tokens \in 0..Burst /\ c.last \in 0..limClock
      /\ limClock >= from => Credit(c, spent)
      /\ limClock >= from /\ c.last < from => (from - c.last) * MaxRequests < Window
  BY <1>1, CurrentCredit DEF Buckets
<1>3. CASE CheckLimited(cost)
  <2>1. bucket' = c /\ UNCHANGED <<limClock, from, spent>>
    BY <1>1, <1>3 DEF CheckLimited
  <2>2. LimiterTypeOK'
    BY <1>2, <2>1 DEF LimiterInv, LimiterTypeOK, Buckets
  <2>3. Credit(c, spent)' <=> Credit(c, spent)
    BY <2>1 DEF Credit
  <2>4. bucket' # NoBucket
    BY <1>2, <2>1, BucketsType DEF LimiterInv
  <2>5. limClock' >= from' => Credit(bucket', spent')
    BY <1>2, <2>1
  <2>6. Credit(bucket', spent') <=> Credit(bucket, spent)'
    BY <2>1 DEF Credit
  <2> QED BY <2>1, <2>2, <2>4, <2>5, <2>6 DEF LimiterInv
<1>4. CASE CheckAllowed(cost)
  <2> DEFINE b == [c EXCEPT !.tokens = @ - cost]
  <2>1. /\ c.tokens >= cost /\ bucket' = b /\ UNCHANGED <<limClock, from>>
        /\ spent' = IF limClock >= from THEN spent + cost ELSE spent
    BY <1>1, <1>4 DEF CheckAllowed
  <2>2. b \in Buckets /\ b.last = c.last /\ b.tokens = c.tokens - cost
    BY <1>0, <1>2, <2>1 DEF Buckets
  <2> HIDE DEF b
  <2>3. LimiterTypeOK'
    BY <1>0, <2>1, <2>2 DEF LimiterInv, LimiterTypeOK, Buckets
  <2>4. bucket' # NoBucket
    BY <2>1, <2>2, BucketsType DEF LimiterInv
  <2>5. limClock' < from' => spent' = 0
    BY <1>0, <2>1 DEF LimiterInv
  <2>6. ASSUME limClock >= from PROVE Credit(bucket, spent)'
    <3>1. bucket'.last = c.last /\ spent' + bucket'.tokens = spent + c.tokens
      BY <1>0, <1>2, <2>1, <2>2, <2>6
    <3>2. Credit(c, spent)
      BY <1>2, <2>6
    <3> QED BY <1>0, <1>2, <2>1, <2>6, <3>1, <3>2 DEF Credit
  <2> QED BY <2>1, <2>3, <2>4, <2>5, <2>6 DEF LimiterInv
<1> QED BY <1>3, <1>4

\* A bucket is dropped only when it is full again, by the cleanup, or by
\* clear, which starts a new account (rate_limiter.rs:132-184).
LEMMA DropInv ==
    ASSUME LimiterInv, CleanupBucket \/ ClearBucket
    PROVE  LimiterInv'
<1>0. /\ limClock \in Nat /\ from \in Nat /\ spent \in Nat /\ Burst \in Nat
      /\ MaxRequests \in Nat \ {0} /\ Window \in Nat \ {0} /\ MaxAge \in Nat
      /\ MaxAge * MaxRequests >= Burst * Window
      /\ Burst * Window \in Nat /\ MaxAge * MaxRequests \in Nat
  BY RateType, BurstType, LimiterEndType, CleanupIsLate DEF LimiterInv, LimiterTypeOK
<1>1. /\ bucket \in Buckets /\ bucket.tokens \in 0..Burst /\ bucket.last \in 0..limClock
      /\ bucket # NoBucket
  BY DEF LimiterInv, LimiterTypeOK, CleanupBucket, ClearBucket, Buckets
<1>2. /\ bucket' = NoBucket /\ UNCHANGED <<limClock, from>>
      /\ spent' \in Nat /\ (spent' = spent \/ spent' = 0)
  BY <1>0 DEF CleanupBucket, ClearBucket
<1>3. LimiterTypeOK'
  BY <1>2 DEF LimiterInv, LimiterTypeOK
<1>4. limClock' < from' => spent' = 0
  BY <1>2 DEF LimiterInv
<1>5. ASSUME limClock >= from PROVE NoCredit(spent)'
  <2>1. (limClock - from) * MaxRequests \in Nat
    BY <1>0, <1>5
  <2>2. CASE spent' = 0
    BY <1>0, <1>2, <2>1, <2>2 DEF NoCredit
  <2>3. CASE spent' # 0
    <3> DEFINE last == bucket.last
               tokens == bucket.tokens
    <3>1. spent' = spent /\ limClock - last >= MaxAge
      BY <1>2, <2>3 DEF CleanupBucket, ClearBucket
    <3>2. Credit(bucket, spent)
      BY <1>1, <1>5 DEF LimiterInv
    <3>3. (limClock - last) * MaxRequests >= Burst * Window
      <4>1. (limClock - last) * MaxRequests >= MaxAge * MaxRequests
        BY <1>0, <1>1, <3>1, MulMono
      <4> QED BY <1>0, <1>1, <4>1, MulInt
    <3>4. spent * Window < Window + (limClock - from) * MaxRequests
      <4> HIDE DEF last, tokens
      <4>0. last \in 0..limClock /\ tokens \in 0..Burst /\ spent > 0
        BY <1>0, <1>1, <2>3, <3>1 DEF last, tokens
      <4>1. /\ (Burst + 1) * Window = Burst * Window + Window
            /\ (limClock - last) * MaxRequests = (limClock - from) * MaxRequests + (from - last) * MaxRequests
            /\ (last - from) * MaxRequests = 0 - (from - last) * MaxRequests
            /\ (spent + tokens) * Window = spent * Window + tokens * Window
        BY <1>0, <4>0
      <4>2. /\ spent * Window \in Nat /\ tokens * Window \in Nat
            /\ (from - last) * MaxRequests \in Int
        BY <1>0, <4>0, MulInt
      <4>3. CASE last >= from
        <5>1. (spent + tokens) * Window < (Burst + 1) * Window + (last - from) * MaxRequests
          BY <3>2, <4>3 DEF Credit, last, tokens
        <5> QED BY <1>0, <2>1, <3>3, <4>1, <4>2, <5>1
      <4>4. CASE last < from
        <5>1. spent + tokens <= Burst /\ (from - last) * MaxRequests < Window
          BY <3>2, <4>0, <4>4 DEF Credit, last, tokens
        <5>2. spent * Window <= Burst * Window
          BY <1>0, <4>0, <5>1, MulMono
        <5> QED BY <1>0, <2>1, <3>3, <4>1, <4>2, <5>1, <5>2
      <4> QED BY <1>0, <4>0, <4>3, <4>4
    <3> QED BY <1>2, <3>1, <3>4 DEF NoCredit
  <2> QED BY <2>2, <2>3
<1> QED BY <1>2, <1>3, <1>4, <1>5 DEF LimiterInv

\* Time passes: the account grows by what a refill may add.
LEMMA TickInv ==
    ASSUME LimiterInv, LimiterTick
    PROVE  LimiterInv'
<1>0. /\ limClock \in Nat /\ from \in Nat /\ spent \in Nat /\ Burst \in Nat
      /\ MaxRequests \in Nat \ {0} /\ Window \in Nat \ {0} /\ LimiterEnd \in Nat
  BY RateType, BurstType, LimiterEndType DEF LimiterInv, LimiterTypeOK
<1>1. limClock' = limClock + 1 /\ limClock < LimiterEnd /\ UNCHANGED <<bucket, from, spent>>
  BY DEF LimiterTick
<1>2. bucket \in Buckets \/ bucket = NoBucket
  BY DEF LimiterInv, LimiterTypeOK, Buckets
<1>3. bucket \in Buckets => bucket.last \in 0..limClock /\ bucket.tokens \in 0..Burst
      /\ bucket \in [tokens : 0..Burst, last : 0..(limClock + 1)]
  BY <1>0 DEF Buckets
<1>4. LimiterTypeOK'
  BY <1>0, <1>1, <1>2, <1>3 DEF LimiterInv, LimiterTypeOK
<1>5. limClock' < from' => spent' = 0
  BY <1>0, <1>1 DEF LimiterInv
<1>6. ASSUME limClock' >= from', bucket' = NoBucket PROVE NoCredit(spent)'
  <2>1. CASE limClock >= from
    <3>1. NoCredit(spent)
      BY <1>1, <1>6, <2>1 DEF LimiterInv
    <3>2. (limClock + 1 - from) * MaxRequests = (limClock - from) * MaxRequests + MaxRequests
          /\ (limClock - from) * MaxRequests \in Nat /\ spent * Window \in Nat
      BY <1>0, <2>1
    <3> QED BY <1>0, <1>1, <3>1, <3>2 DEF NoCredit
  <2>2. CASE limClock < from
    <3>1. spent = 0 /\ limClock + 1 - from = 0
      BY <1>0, <1>1, <1>6, <2>2 DEF LimiterInv
    <3> QED BY <1>0, <1>1, <3>1 DEF NoCredit
  <2> QED BY <1>0, <2>1, <2>2
<1>7. ASSUME limClock' >= from', bucket' # NoBucket PROVE Credit(bucket, spent)'
  <2>1. CASE limClock >= from
    BY <1>1, <1>7, <2>1 DEF LimiterInv, Credit
  <2>2. CASE limClock < from
    <3>1. spent = 0 /\ bucket.last < from /\ bucket.tokens <= Burst /\ bucket.tokens \in Nat
      BY <1>0, <1>1, <1>2, <1>3, <1>7, <2>2 DEF LimiterInv
    <3> QED BY <1>0, <1>1, <1>2, <1>3, <1>7, <3>1 DEF Credit
  <2> QED BY <1>0, <2>1, <2>2
<1> QED BY <1>4, <1>5, <1>6, <1>7 DEF LimiterInv

\* A bucket holds no negative number of tokens, so what has been spent is
\* bounded.
LEMMA CreditBounds == LimiterInv => RateBounded
<1> SUFFICES ASSUME LimiterInv, limClock >= from
             PROVE  spent * Window < (Burst + 1) * Window + (limClock - from) * MaxRequests
  BY DEF RateBounded
<1>0. /\ limClock \in Nat /\ from \in Nat /\ spent \in Nat /\ Burst \in Nat
      /\ MaxRequests \in Nat \ {0} /\ Window \in Nat \ {0}
      /\ Burst * Window \in Nat /\ spent * Window \in Nat
      /\ (limClock - from) * MaxRequests \in Nat
      /\ (Burst + 1) * Window = Burst * Window + Window
  BY RateType, BurstType, LimiterEndType DEF LimiterInv, LimiterTypeOK
<1>1. CASE bucket = NoBucket
  BY <1>0, <1>1 DEF LimiterInv, NoCredit
<1>2. CASE bucket # NoBucket
  <2> DEFINE last == bucket.last
             tokens == bucket.tokens
  <2>1. last \in 0..limClock /\ tokens \in 0..Burst
    BY <1>2 DEF LimiterInv, LimiterTypeOK
  <2>2. Credit(bucket, spent)
    BY <1>2 DEF LimiterInv
  <2> HIDE DEF last, tokens
  <2>3. CASE last >= from
    <3>1. (spent + tokens) * Window < (Burst + 1) * Window + (last - from) * MaxRequests
      BY <2>2, <2>3 DEF Credit, last, tokens
    <3>2. (spent + tokens) * Window = spent * Window + tokens * Window /\ tokens * Window \in Nat
      BY <1>0, <2>1
    <3>3. (last - from) * MaxRequests <= (limClock - from) * MaxRequests
          /\ (last - from) * MaxRequests \in Int
      BY <1>0, <2>1, MulMono
    <3> QED BY <1>0, <3>1, <3>2, <3>3
  <2>4. CASE last < from
    <3>1. spent + tokens <= Burst
      BY <2>2, <2>4 DEF Credit, last, tokens
    <3>2. spent * Window <= Burst * Window
      BY <1>0, <2>1, <3>1, MulMono
    <3> QED BY <1>0, <3>2
  <2> QED BY <1>0, <2>1, <2>3, <2>4
<1> QED BY <1>1, <1>2

\* At first there is no bucket and nothing is spent.
LEMMA LimiterInitInv == LimiterInit => LimiterInv
<1> SUFFICES ASSUME LimiterInit PROVE LimiterInv OBVIOUS
<1>1. LimiterTypeOK
  BY LimiterEndType DEF LimiterInit, LimiterTypeOK
<1>2. limClock >= from => from = 0
  BY LimiterEndType DEF LimiterInit
<1> QED BY <1>1, <1>2, RateType DEF LimiterInit, LimiterInv, NoCredit

\* Every check, drop and tick keeps the account.
LEMMA LimiterStepInv == LimiterInv /\ [LimiterNext]_limVars => LimiterInv'
<1>1. LimiterInv /\ UNCHANGED limVars => LimiterInv'
  BY DEF limVars, LimiterInv, LimiterTypeOK, NoCredit, Credit
<1> QED BY <1>1, CheckInv, DropInv, TickInv DEF LimiterNext

\* From any moment on, a client is let in for less than the burst, one token
\* and what the rate yields since, however checks, refills, the cleanup and
\* clear interleave (rate_limiter.rs:79-184): for every rate, window, burst
\* and cost, if a bucket is full again by the age at which it is dropped.
THEOREM LimiterBoundsRate == LimiterSpec => []RateBounded
<1> QED BY LimiterInitInv, LimiterStepInv, CreditBounds, PTL DEF LimiterSpec

----------------------------------------------------------------------------
(***************************************************************************)
(* The configuration watcher. Every announcement takes one value out and   *)
(* puts one in, so that the sum over what was received, is in the channel  *)
(* and is still to be sent tells the value that is set.                    *)
(***************************************************************************)

\* Announcements that a value came in, or went out.
Into(v) == {e \in ValueChanged : e.new = v}
OutOf(v) == {e \in ValueChanged : e.old = v}

\* Announcements of E that are in the channel, and those still to be sent.
Queued(ch, E) == {i \in 1..Len(ch) : ch[i] \in E}

\* What a set that has stored its value is going to announce.
EventOf(s) == [kind |-> "value", old |-> setter[s].old, new |-> setter[s].new]
Pending(E) == {s \in Setters : setter[s].pc = "send" /\ EventOf(s) \in E}

\* One if p holds.
OneIf(p) == IF p THEN 1 ELSE 0

\* What came in so far and is under way, less what went out.
Net(v) == balance[v] + Cardinality(Queued(channel, Into(v))) - Cardinality(Queued(channel, OutOf(v)))
            + Cardinality(Pending(Into(v))) - Cardinality(Pending(OutOf(v)))

\* The part of the state that values are announced by.
ValueTypeOK ==
    /\ setting \in Settings
    /\ setter \in [Setters -> [pc : {"rest", "send"}, old : Settings, new : Settings]]
    /\ channel \in Seq(Events)
    /\ balance \in [Values -> Int]
    /\ missed \in BOOLEAN

\* As long as nothing was lost: what the subscriber has added up, what is in
\* the channel and what is still to be sent make up the one value that is
\* set.
WatcherInv ==
    /\ ValueTypeOK
    /\ \A s \in Setters : setter[s].pc = "send" => setter[s].new \in Values
    /\ IsFiniteSet(Pending(ValueChanged))
    /\ ~missed => \A v \in Values : Net(v) = OneIf(setting = v)

\* The channel holds finitely many announcements,
LEMMA QueuedFinite ==
    ASSUME NEW ch \in Seq(Events), NEW E
    PROVE  IsFiniteSet(Queued(ch, E)) /\ Cardinality(Queued(ch, E)) \in Nat
<1>1. IsFiniteSet(1..Len(ch))
  BY FS_Interval
<1>2. IsFiniteSet(Queued(ch, E))
  BY <1>1, FS_Subset DEF Queued
<1> QED BY <1>2, FS_CardinalityType

\* sending one adds it,
LEMMA QueuedAppend ==
    ASSUME NEW ch \in Seq(Events), NEW e \in Events, NEW E
    PROVE  Cardinality(Queued(Append(ch, e), E)) = Cardinality(Queued(ch, E)) + OneIf(e \in E)
<1> DEFINE n == Len(ch) + 1
           a == Append(ch, e)
<1>1. Len(a) = n /\ a[n] = e /\ \A i \in 1..Len(ch) : a[i] = ch[i]
  OBVIOUS
<1> HIDE DEF a
<1>2. n \notin Queued(ch, E) /\ 1..n = (1..Len(ch)) \cup {n}
  BY DEF Queued
<1>3. Queued(a, E) = IF e \in E THEN Queued(ch, E) \cup {n} ELSE Queued(ch, E)
  BY <1>1, <1>2 DEF Queued
<1>4. Cardinality(Queued(ch, E) \cup {n}) = Cardinality(Queued(ch, E)) + 1
  BY <1>2, QueuedFinite, FS_AddElement
<1> QED BY <1>3, <1>4, QueuedFinite DEF OneIf, a

\* and receiving one takes it away.
LEMMA QueuedTail ==
    ASSUME NEW ch \in Seq(Events), ch # <<>>, NEW E
    PROVE  Cardinality(Queued(ch, E)) = Cardinality(Queued(Tail(ch), E)) + OneIf(Head(ch) \in E)
<1> DEFINE t == Tail(ch)
           S == Queued(t, E)
           T == Queued(ch, E) \ {1}
           f == [i \in S |-> i + 1]
<1>1. /\ t \in Seq(Events) /\ Len(ch) \in Nat \ {0} /\ Len(t) = Len(ch) - 1
      /\ Head(ch) = ch[1] /\ \A i \in 1..Len(t) : t[i] = ch[i + 1]
  OBVIOUS
<1> HIDE DEF t
<1>2. f \in Bijection(S, T)
  <2>1. \A i \in S : i \in Nat /\ i + 1 \in T
    BY <1>1 DEF Queued
  <2>2. \A j \in T : j - 1 \in S /\ (j - 1) + 1 = j
    BY <1>1 DEF Queued
  <2>3. f \in [S -> T]
    BY <2>1
  <2>4. \A x, y \in S : x # y => f[x] # f[y]
    BY <2>1
  <2>5. \A j \in T : \E i \in S : f[i] = j
    BY <2>2
  <2> QED BY <2>3, <2>4, <2>5 DEF Bijection, Injection, Surjection, IsInjective
<1>3. IsFiniteSet(S) /\ Cardinality(S) \in Nat
  BY <1>1, QueuedFinite
<1>4. IsFiniteSet(T) /\ Cardinality(T) = Cardinality(S)
  <2> HIDE DEF S, T, f
  <2>1. ExistsBijection(S, T)
    BY <1>2 DEF ExistsBijection
  <2> QED BY <1>3, <2>1, FS_Bijection
<1>5. CASE Head(ch) \in E
  <2>1. 1 \in Queued(ch, E)
    BY <1>1, <1>5 DEF Queued
  <2>2. Cardinality(T) = Cardinality(Queued(ch, E)) - 1
    BY <2>1, QueuedFinite, FS_RemoveElement
  <2> QED BY <1>3, <1>4, <1>5, <2>2, QueuedFinite DEF OneIf, t
<1>6. CASE Head(ch) \notin E
  <2>1. T = Queued(ch, E)
    BY <1>1, <1>6 DEF Queued
  <2>2. Cardinality(Queued(ch, E)) = Cardinality(S)
    BY <1>4, <2>1
  <2> QED BY <1>3, <1>6, <2>2 DEF OneIf, t
<1> QED BY <1>5, <1>6

\* Finitely many calls of set are about to send.
LEMMA PendingFinite ==
    ASSUME IsFiniteSet(Pending(ValueChanged)), NEW E \in SUBSET ValueChanged
    PROVE  IsFiniteSet(Pending(E)) /\ Cardinality(Pending(E)) \in Nat
<1>1. Pending(E) \subseteq Pending(ValueChanged)
  BY DEF Pending
<1>2. IsFiniteSet(Pending(E))
  BY <1>1, FS_Subset
<1> QED BY <1>2, FS_CardinalityType

\* Both are announcements of values.
LEMMA IntoOutOf ==
    \A v : Into(v) \in SUBSET ValueChanged /\ OutOf(v) \in SUBSET ValueChanged
BY DEF Into, OutOf

\* A call of set that has stored its value has one to announce,
LEMMA PendingGains ==
    ASSUME WatcherInv, NEW s \in Setters, setter[s].pc = "rest",
           NEW o \in Settings, NEW n \in Values, NEW E \in SUBSET ValueChanged,
           setter' = [setter EXCEPT ![s] = [pc |-> "send", old |-> o, new |-> n]]
    PROVE  /\ IsFiniteSet(Pending(E)')
           /\ Cardinality(Pending(E)')
                = Cardinality(Pending(E)) + OneIf([kind |-> "value", old |-> o, new |-> n] \in E)
<1> DEFINE e == [kind |-> "value", old |-> o, new |-> n]
<1>0. setter \in [Setters -> [pc : {"rest", "send"}, old : Settings, new : Settings]]
  BY DEF WatcherInv, ValueTypeOK
<1>1. setter'[s] = [pc |-> "send", old |-> o, new |-> n]
      /\ \A r \in Setters : r # s => setter'[r] = setter[r]
  BY <1>0
<1>2. EventOf(s)' = e /\ setter'[s].pc = "send" /\ \A r \in Setters : r # s => EventOf(r)' = EventOf(r)
  BY <1>1 DEF EventOf
<1>3. s \notin Pending(E)
  BY DEF Pending
<1> HIDE DEF e
<1>4. Pending(E)' = IF e \in E THEN Pending(E) \cup {s} ELSE Pending(E)
  BY <1>1, <1>2 DEF Pending
<1>5. IsFiniteSet(Pending(E)) /\ Cardinality(Pending(E)) \in Nat
  BY PendingFinite DEF WatcherInv
<1>6. IsFiniteSet(Pending(E) \cup {s}) /\ Cardinality(Pending(E) \cup {s}) = Cardinality(Pending(E)) + 1
  BY <1>3, <1>5, FS_AddElement
<1> QED BY <1>4, <1>5, <1>6 DEF OneIf, e

\* and none when it has sent it.
LEMMA PendingLoses ==
    ASSUME WatcherInv, NEW s \in Setters, setter[s].pc = "send",
           NEW E \in SUBSET ValueChanged, setter' = [setter EXCEPT ![s] = Resting]
    PROVE  /\ IsFiniteSet(Pending(E)')
           /\ Cardinality(Pending(E)') = Cardinality(Pending(E)) - OneIf(EventOf(s) \in E)
<1>0. setter \in [Setters -> [pc : {"rest", "send"}, old : Settings, new : Settings]]
  BY DEF WatcherInv, ValueTypeOK
<1>1. setter'[s].pc = "rest" /\ \A r \in Setters : r # s => setter'[r] = setter[r]
  BY <1>0 DEF Resting
<1>2. \A r \in Setters : r # s => EventOf(r)' = EventOf(r)
  BY <1>1 DEF EventOf
<1>3. s \in Pending(E) <=> EventOf(s) \in E
  BY DEF Pending
<1>4. Pending(E)' = Pending(E) \ {s}
  BY <1>1, <1>2 DEF Pending
<1>5. IsFiniteSet(Pending(E)) /\ Cardinality(Pending(E)) \in Nat
  BY PendingFinite DEF WatcherInv
<1>6. /\ IsFiniteSet(Pending(E) \ {s})
      /\ Cardinality(Pending(E) \ {s})
           = IF s \in Pending(E) THEN Cardinality(Pending(E)) - 1 ELSE Cardinality(Pending(E))
  BY <1>5, FS_RemoveElement
<1> QED BY <1>3, <1>4, <1>5, <1>6 DEF OneIf

\* Nobody else changes that.
LEMMA PendingStays ==
    ASSUME WatcherInv, setter' = setter, NEW E
    PROVE  Pending(E)' = Pending(E)
BY DEF Pending, EventOf

\* Numbers of which Net is the sum.
LEMMA NetType ==
    ASSUME WatcherInv, NEW v \in Values
    PROVE  /\ balance[v] \in Int
           /\ Cardinality(Queued(channel, Into(v))) \in Nat
           /\ Cardinality(Queued(channel, OutOf(v))) \in Nat
           /\ Cardinality(Pending(Into(v))) \in Nat
           /\ Cardinality(Pending(OutOf(v))) \in Nat
BY QueuedFinite, PendingFinite, IntoOutOf DEF WatcherInv, ValueTypeOK

\* set stores the new value and keeps the old one for the announcement, under
\* one lock (config_watcher.rs:69-78).
LEMMA SetInv ==
    ASSUME WatcherInv, NEW s \in Setters, NEW v \in Values, Set(s, v)
    PROVE  WatcherInv'
<1>0. /\ setter[s].pc = "rest" /\ setting' = v /\ UNCHANGED <<channel, missed, balance>>
      /\ setter' = [setter EXCEPT ![s] = IF setting = v THEN Resting
                                         ELSE [pc |-> "send", old |-> setting, new |-> v]]
      /\ setting \in Settings /\ v \in Settings /\ NoValue \in Settings
      /\ setter \in [Setters -> [pc : {"rest", "send"}, old : Settings, new : Settings]]
  BY DEF Set, WatcherInv, ValueTypeOK, Settings
<1>1. ValueTypeOK'
  <2>1. setter' \in [Setters -> [pc : {"rest", "send"}, old : Settings, new : Settings]]
    BY <1>0 DEF Resting
  <2> QED BY <1>0, <2>1 DEF WatcherInv, ValueTypeOK
<1>2. \A r \in Setters : setter'[r].pc = "send" => setter'[r].new \in Values
  BY <1>0 DEF WatcherInv, Resting
<1>3. CASE setting = v
  <2>1. \A r \in Setters : (setter'[r].pc = "send" <=> setter[r].pc = "send")
                           /\ (setter[r].pc = "send" => EventOf(r)' = EventOf(r))
    BY <1>0, <1>3 DEF EventOf, Resting
  <2>2. \A E : Pending(E)' = Pending(E)
    BY <2>1 DEF Pending
  <2>3. \A w \in Values : Net(w)' = Net(w)
    BY <1>0, <2>2 DEF Net
  <2>4. IsFiniteSet(Pending(ValueChanged))'
    BY <2>2 DEF WatcherInv
  <2> QED BY <1>0, <1>1, <1>2, <1>3, <2>3, <2>4 DEF WatcherInv
<1>4. CASE setting # v
  <2> DEFINE e == [kind |-> "value", old |-> setting, new |-> v]
  <2>0. setter' = [setter EXCEPT ![s] = [pc |-> "send", old |-> setting, new |-> v]]
    BY <1>0, <1>4
  <2>1. \A E \in SUBSET ValueChanged :
           /\ IsFiniteSet(Pending(E)')
           /\ Cardinality(Pending(E)') = Cardinality(Pending(E)) + OneIf(e \in E)
    <3> SUFFICES ASSUME NEW E \in SUBSET ValueChanged
                 PROVE  /\ IsFiniteSet(Pending(E)')
                        /\ Cardinality(Pending(E)') = Cardinality(Pending(E)) + OneIf(e \in E)
      OBVIOUS
    <3>1. PICK o \in Settings : o = setting
      BY <1>0
    <3>2. setter' = [setter EXCEPT ![s] = [pc |-> "send", old |-> o, new |-> v]] /\ setter[s].pc = "rest"
      BY <1>0, <2>0, <3>1
    <3>3. e = [kind |-> "value", old |-> o, new |-> v]
      BY <3>1
    <3> HIDE DEF e
    <3>4. /\ IsFiniteSet(Pending(E)')
          /\ Cardinality(Pending(E)')
               = Cardinality(Pending(E)) + OneIf([kind |-> "value", old |-> o, new |-> v] \in E)
      BY <3>2, PendingGains
    <3> QED BY <3>3, <3>4
  <2>2. \A w \in Values : (e \in Into(w) <=> v = w) /\ (e \in OutOf(w) <=> setting = w)
    BY <1>0 DEF Into, OutOf, ValueChanged
  <2> HIDE DEF e
  <2>3. ASSUME ~missed', NEW w \in Values PROVE Net(w)' = OneIf(setting' = w)
    <3>1. Net(w) = OneIf(setting = w)
      BY <1>0, <2>3 DEF WatcherInv
    <3>2. /\ Cardinality(Pending(Into(w))') = Cardinality(Pending(Into(w))) + OneIf(v = w)
          /\ Cardinality(Pending(OutOf(w))') = Cardinality(Pending(OutOf(w))) + OneIf(setting = w)
      BY <2>1, <2>2, IntoOutOf
    <3>3. Net(w)' = Net(w) + OneIf(v = w) - OneIf(setting = w)
      BY <1>0, <3>2, NetType DEF Net, OneIf
    <3> QED BY <1>0, <1>4, <3>1, <3>3 DEF OneIf
  <2> QED BY <1>1, <1>2, <2>1, <2>3, IntoOutOf DEF WatcherInv
<1> QED BY <1>3, <1>4

\* An announcement that is not of a value changes nothing of it.
LEMMA OtherEvents ==
    /\ [kind |-> "file"] \in Events /\ [kind |-> "reload"] \in Events
    /\ \A v : \A k \in {"file", "reload"} : [kind |-> k] \notin Into(v) \cup OutOf(v)
BY DEF Events, Into, OutOf, ValueChanged

\* The broadcast channel takes an event, or drops the oldest one and the
\* subscriber has missed it.
LEMMA Announced ==
    ASSUME WatcherInv, NEW e \in Events, Announce(e)
    PROVE  /\ channel' \in Seq(Events) /\ missed' \in BOOLEAN
           /\ ~missed' => ~missed /\ channel' = Append(channel, e)
<1>0. channel \in Seq(Events) /\ missed \in BOOLEAN
  BY DEF WatcherInv, ValueTypeOK
<1>1. CASE Len(channel) < ChannelSize
  BY <1>0, <1>1 DEF Announce
<1>2. CASE ~(Len(channel) < ChannelSize)
  <2>1. channel # <<>>
    BY <1>2, ChannelHolds
  <2>2. Tail(channel) \in Seq(Events)
    BY <1>0, <2>1
  <2> QED BY <1>2, <2>2 DEF Announce
<1> QED BY <1>1, <1>2

\* Events of files and reloads count for no value.
LEMMA AnnounceOtherInv ==
    ASSUME WatcherInv, NEW k \in {"file", "reload"}, Announce([kind |-> k]),
           UNCHANGED <<setting, setter, balance>>
    PROVE  WatcherInv'
<1> DEFINE e == [kind |-> k]
<1>1. e \in Events
  BY OtherEvents
<1>2. /\ channel' \in Seq(Events) /\ missed' \in BOOLEAN
      /\ ~missed' => ~missed /\ channel' = Append(channel, e)
  BY <1>1, Announced
<1>3. \A v \in Values : e \notin Into(v) /\ e \notin OutOf(v)
  BY OtherEvents
<1>4. channel \in Seq(Events)
  BY DEF WatcherInv, ValueTypeOK
<1> HIDE DEF e
<1>5. ASSUME ~missed', NEW v \in Values PROVE Net(v)' = OneIf(setting' = v)
  <2>1. Net(v) = OneIf(setting = v)
    BY <1>2, <1>5 DEF WatcherInv
  <2>2. /\ Cardinality(Queued(channel', Into(v))) = Cardinality(Queued(channel, Into(v)))
        /\ Cardinality(Queued(channel', OutOf(v))) = Cardinality(Queued(channel, OutOf(v)))
    <3>1. \A E : Cardinality(Queued(channel', E)) = Cardinality(Queued(channel, E)) + OneIf(e \in E)
      BY <1>1, <1>2, <1>4, <1>5, QueuedAppend
    <3>2. OneIf(e \in Into(v)) = 0 /\ OneIf(e \in OutOf(v)) = 0
      BY <1>3 DEF OneIf
    <3> QED BY <3>1, <3>2, NetType
  <2>3. Net(v)' = Net(v)
    BY <2>2, PendingStays DEF Net
  <2> QED BY <2>1, <2>3
<1> QED BY <1>2, <1>5, PendingStays DEF WatcherInv, ValueTypeOK

\* set announces what it replaced (config_watcher.rs:78-86).
LEMMA SendInv ==
    ASSUME WatcherInv, NEW s \in Setters, SendValueChanged(s)
    PROVE  WatcherInv'
<1> DEFINE e == EventOf(s)
<1>0. /\ setter[s].pc = "send" /\ Announce(e)
      /\ setter' = [setter EXCEPT ![s] = Resting] /\ UNCHANGED <<setting, balance>>
      /\ setter \in [Setters -> [pc : {"rest", "send"}, old : Settings, new : Settings]]
      /\ setter[s].new \in Values /\ setter[s].old \in Settings
      /\ channel \in Seq(Events)
  BY DEF SendValueChanged, EventOf, WatcherInv, ValueTypeOK
<1>1. e \in ValueChanged /\ e \in Events
  BY <1>0 DEF EventOf, ValueChanged, Events
<1> HIDE DEF e
<1>2. /\ channel' \in Seq(Events) /\ missed' \in BOOLEAN
      /\ ~missed' => ~missed /\ channel' = Append(channel, e)
  BY <1>0, <1>1, Announced
<1>3. ValueTypeOK'
  <2>1. setter' \in [Setters -> [pc : {"rest", "send"}, old : Settings, new : Settings]]
    BY <1>0 DEF Resting, Settings
  <2> QED BY <1>0, <1>2, <2>1 DEF WatcherInv, ValueTypeOK
<1>4. \A r \in Setters : setter'[r].pc = "send" => setter'[r].new \in Values
  BY <1>0 DEF WatcherInv, Resting
<1>5. \A E \in SUBSET ValueChanged :
        /\ IsFiniteSet(Pending(E)')
        /\ Cardinality(Pending(E)') = Cardinality(Pending(E)) - OneIf(e \in E)
  BY <1>0, PendingLoses DEF e
<1>6. ASSUME ~missed', NEW v \in Values PROVE Net(v)' = OneIf(setting' = v)
  <2>1. Net(v) = OneIf(setting = v)
    BY <1>2, <1>6 DEF WatcherInv
  <2>2. /\ Cardinality(Queued(channel', Into(v)))
             = Cardinality(Queued(channel, Into(v))) + OneIf(e \in Into(v))
        /\ Cardinality(Queued(channel', OutOf(v)))
             = Cardinality(Queued(channel, OutOf(v))) + OneIf(e \in OutOf(v))
    <3>1. channel \in Seq(Events) /\ e \in Events /\ channel' = Append(channel, e)
      BY <1>1, <1>2, <1>6 DEF WatcherInv, ValueTypeOK
    <3> QED BY <3>1, QueuedAppend
  <2>3. /\ Cardinality(Pending(Into(v))') = Cardinality(Pending(Into(v))) - OneIf(e \in Into(v))
        /\ Cardinality(Pending(OutOf(v))') = Cardinality(Pending(OutOf(v))) - OneIf(e \in OutOf(v))
    BY <1>5, IntoOutOf
  <2>4. OneIf(e \in Into(v)) \in Int /\ OneIf(e \in OutOf(v)) \in Int
    BY DEF OneIf
  <2>5. balance'[v] = balance[v]
    BY <1>0
  <2>6. Net(v)' = Net(v)
    BY <2>2, <2>3, <2>4, <2>5, NetType DEF Net
  <2> QED BY <1>0, <2>1, <2>6
<1> QED BY <1>3, <1>4, <1>5, <1>6 DEF WatcherInv

\* The subscriber adds up what it receives (config_watcher.rs:108-111).
LEMMA ReceiveInv ==
    ASSUME WatcherInv, Receive
    PROVE  WatcherInv'
<1>0. /\ channel # <<>> /\ channel' = Tail(channel)
      /\ UNCHANGED <<setting, setter, missed>>
      /\ channel \in Seq(Events) /\ balance \in [Values -> Int]
      /\ balance' = IF Head(channel).kind = "value" /\ ~missed
                    THEN [v \in Values |-> balance[v] + Counted(Head(channel), v)]
                    ELSE balance
  BY DEF Receive, WatcherInv, ValueTypeOK
<1>1. PICK e : e = Head(channel) OBVIOUS
<1>2. e \in Events
  BY <1>0, <1>1
<1>3. \A v : Counted(e, v) \in Int
  BY DEF Counted
<1>4. ValueTypeOK'
  BY <1>0, <1>1, <1>3 DEF WatcherInv, ValueTypeOK
<1>5. ASSUME ~missed', NEW v \in Values PROVE Net(v)' = OneIf(setting' = v)
  <2>1. Net(v) = OneIf(setting = v)
    BY <1>0, <1>5 DEF WatcherInv
  <2>2. balance'[v] = balance[v] + OneIf(e \in Into(v)) - OneIf(e \in OutOf(v))
    <3>0. balance[v] \in Int
      BY <1>0
    <3>1. CASE e.kind = "value"
      <4>1. e \in ValueChanged
        BY <1>2, <3>1 DEF Events
      <4>2. Counted(e, v) = OneIf(e \in Into(v)) - OneIf(e \in OutOf(v))
        BY <4>1 DEF Counted, OneIf, Into, OutOf
      <4>3. balance'[v] = balance[v] + Counted(e, v)
        BY <1>0, <1>1, <1>5, <3>1
      <4> QED BY <3>0, <4>2, <4>3 DEF OneIf
    <3>2. CASE e.kind # "value"
      <4>1. e \notin Into(v) /\ e \notin OutOf(v)
        BY <3>2 DEF Into, OutOf, ValueChanged
      <4> QED BY <1>0, <1>1, <3>0, <3>2, <4>1 DEF OneIf
    <3> QED BY <3>1, <3>2
  <2>3. /\ Cardinality(Queued(channel, Into(v)))
             = Cardinality(Queued(channel', Into(v))) + OneIf(e \in Into(v))
        /\ Cardinality(Queued(channel, OutOf(v)))
             = Cardinality(Queued(channel', OutOf(v))) + OneIf(e \in OutOf(v))
        /\ Cardinality(Queued(channel', Into(v))) \in Nat
        /\ Cardinality(Queued(channel', OutOf(v))) \in Nat
    <3>1. channel' \in Seq(Events)
      BY <1>0
    <3>2. \A E : Cardinality(Queued(channel, E))
                  = Cardinality(Queued(channel', E)) + OneIf(e \in E)
      BY <1>0, <1>1, QueuedTail
    <3> QED BY <3>1, <3>2, QueuedFinite
  <2>4. Pending(Into(v))' = Pending(Into(v)) /\ Pending(OutOf(v))' = Pending(OutOf(v))
    BY <1>0, PendingStays
  <2>5. Net(v)' = Net(v)
    BY <2>2, <2>3, <2>4, NetType DEF Net, OneIf
  <2> QED BY <1>0, <2>1, <2>5
<1> QED BY <1>0, <1>4, <1>5, PendingStays DEF WatcherInv

\* Nothing else touches values or the channel.
LEMMA WatcherRest ==
    ASSUME WatcherInv, UNCHANGED <<setting, setter, channel, missed, balance>>
    PROVE  WatcherInv'
BY DEF WatcherInv, ValueTypeOK, Net, Pending, EventOf

\* At first there is no value and nothing announced.
LEMMA WatcherInitInv == WatcherInit => WatcherInv
<1> SUFFICES ASSUME WatcherInit PROVE WatcherInv OBVIOUS
<1>1. ValueTypeOK /\ \A s \in Setters : setter[s].pc = "rest"
  <2>1. Resting \in [pc : {"rest", "send"}, old : Settings, new : Settings] /\ Resting.pc = "rest"
    BY DEF Resting, Settings
  <2>2. setter \in [Setters -> [pc : {"rest", "send"}, old : Settings, new : Settings]]
        /\ \A s \in Setters : setter[s].pc = "rest"
    BY <2>1 DEF WatcherInit
  <2>3. setting \in Settings /\ missed \in BOOLEAN
    BY DEF WatcherInit, Settings
  <2>4. balance \in [Values -> Int]
    BY DEF WatcherInit
  <2>5. channel \in Seq(Events)
    BY DEF WatcherInit
  <2> QED BY <2>2, <2>3, <2>4, <2>5 DEF ValueTypeOK
<1>2. \A E : Pending(E) = {} /\ Queued(channel, E) = {}
  BY <1>1 DEF WatcherInit, Pending, Queued
<1>3. \A v \in Values : Net(v) = 0 /\ setting # v
  <2>1. \A v \in Values : balance[v] = 0 /\ setting # v
    BY NoneApart DEF WatcherInit
  <2> QED BY <1>2, <2>1, FS_EmptySet DEF Net
<1> QED BY <1>1, <1>2, <1>3, FS_EmptySet DEF WatcherInv, OneIf

\* Every step keeps the sums.
LEMMA WatcherStepInv == WatcherInv /\ [WatcherNext]_watcherVars => WatcherInv'
<1> SUFFICES ASSUME WatcherInv, [WatcherNext]_watcherVars PROVE WatcherInv'
  OBVIOUS
<1>1. CASE \E s \in Setters : (\E v \in Values : Set(s, v)) \/ SendValueChanged(s)
  BY <1>1, SetInv, SendInv
<1>2. CASE NotifyReload
  BY <1>2, AnnounceOtherInv DEF NotifyReload
<1>3. CASE SendFileModified
  BY <1>3, AnnounceOtherInv DEF SendFileModified
<1>4. CASE Receive
  BY <1>4, ReceiveInv
<1>5. CASE ReadMtime \/ WatchFile \/ UnwatchFile \/ CheckFiles
             \/ (\E t \in Mtimes : Write(t)) \/ MoveAway \/ UNCHANGED watcherVars
  <2>1. UNCHANGED <<setting, setter, channel, missed, balance>>
    BY <1>5 DEF ReadMtime, WatchFile, UnwatchFile, CheckFiles, Write, MoveAway, watcherVars
  <2> QED BY <2>1, WatcherRest
<1> QED BY <1>1, <1>2, <1>3, <1>4, <1>5 DEF WatcherNext, WatcherLoop

\* No fairness is needed for the sum.
LEMMA WatcherSafe == WatcherInit /\ [][WatcherNext]_watcherVars => []EventsAddUp
<1>1. WatcherInv => EventsAddUp
  <2> SUFFICES ASSUME WatcherInv, ~missed, channel = <<>>, \A s \in Setters : setter[s].pc = "rest",
                      NEW v \in Values
               PROVE  balance[v] = IF setting = v THEN 1 ELSE 0
    BY DEF EventsAddUp
  <2>1. \A E : Pending(E) = {} /\ Queued(channel, E) = {}
    BY DEF Pending, Queued
  <2>2. Net(v) = balance[v]
    <3>1. balance[v] \in Int
      BY DEF WatcherInv, ValueTypeOK
    <3>2. /\ Cardinality(Pending(Into(v))) = 0 /\ Cardinality(Pending(OutOf(v))) = 0
          /\ Cardinality(Queued(channel, Into(v))) = 0 /\ Cardinality(Queued(channel, OutOf(v))) = 0
      BY <2>1, FS_EmptySet
    <3> QED BY <3>1, <3>2 DEF Net
  <2> QED BY <2>2 DEF WatcherInv, OneIf
<1> QED BY <1>1, WatcherInitInv, WatcherStepInv, PTL

\* A subscriber that has received everything and missed nothing finds, adding
\* up the changes in whatever order concurrent calls of set have sent them,
\* exactly the value that is set (config_watcher.rs:69-86): for any number of
\* callers, values and channel capacity.
THEOREM SubscriberAddsUp == WatcherSpec => []EventsAddUp
BY WatcherSafe, PTL DEF WatcherSpec

----------------------------------------------------------------------------
(***************************************************************************)
(* The circuit breaker. A full count is one that some call has seen, and   *)
(* that call still has a store to make that opens the circuit or resets    *)
(* the count; a call that closes the circuit resets the count right after. *)
(***************************************************************************)

\* A circuit, with its times as ages.
Circuits == [state : States, failures : Nat, successes : Nat,
             openedAt : 0..Oldest, lastFailure : 0..Oldest]

\* Where a call may be.
Places == {"", "look", "insert", "get", "state", "timeout", "count", "window", "store"}

\* The stores a call may have decided on.
Entries == ({"state"} \X States) \cup ({"failures", "successes"} \X {0, 1}) \cup (Times \X (0..Oldest))

\* Whoever closes the circuit forgets the failures next.
Forgets(q) ==
    \A i \in 1..Len(q) : q[i] = <<"state", "Closed">> => i < Len(q) /\ q[i + 1] = <<"failures", 0>>

\* The store of one who opens the circuit, or sets the count, is still to come.
Mends(q) == \E i \in 1..Len(q) : q[i] = <<"state", "Open">> \/ q[i][1] = "failures"

\* A count that has reached the threshold in a closed circuit is one that
\* somebody is about to act on, unless the threshold is one.
FullCountIsSeen ==
    FailureThreshold > 1 /\ circuit.state = "Closed" /\ circuit.failures >= FailureThreshold
      => \E u \in Users : at[u] = "store" /\ Mends(todo[u])

\* The inductive invariant: types, what each call has decided to store, and
\* FullCountIsSeen.
BreakerInv ==
    /\ circuit \in Circuits /\ known \in BOOLEAN /\ uptime \in 0..Oldest /\ serving \in BOOLEAN
    /\ op \in [Users -> {"none", "request"} \cup Calls] /\ at \in [Users -> Places]
    /\ \A u \in Users : at[u] # "" => op[u] \in Calls
    /\ todo \in [Users -> Seq(Entries)]
    /\ \A u \in Users : Forgets(todo[u]) /\ (at[u] = "store" => todo[u] # <<>>)
    /\ FullCountIsSeen

\* Naturals are in order.
LEMMA NatOrder == \A m, n \in Nat : n < m \/ n >= m
OBVIOUS

\* Ages saturate.
LEMMA OldestType == Oldest \in Nat /\ \A n \in 0..Oldest : Older(n) \in 0..Oldest
BY TimeoutsType DEF Oldest, Older

\* What the circuit still has to be told outlives whatever leaves it alone.
LEMMA CalmInv ==
    ASSUME BreakerInv, UNCHANGED <<circuit, todo>>,
           known' \in BOOLEAN, uptime' \in 0..Oldest, serving' \in BOOLEAN,
           op' \in [Users -> {"none", "request"} \cup Calls], at' \in [Users -> Places],
           \A u \in Users : at'[u] # "" => op'[u] \in Calls,
           \A u \in Users : at'[u] = "store" <=> at[u] = "store"
    PROVE  BreakerInv'
<1>1. FullCountIsSeen'
  BY DEF BreakerInv, FullCountIsSeen
<1> QED BY <1>1 DEF BreakerInv

\* A call that goes on without storing anything.
LEMMA MovesInv ==
    ASSUME BreakerInv, NEW u \in Users, NEW c \in {"none", "request"} \cup Calls,
           NEW p \in Places \ {"store"}, p # "" => c \in Calls, at[u] # "store",
           op' = [op EXCEPT ![u] = c], at' = [at EXCEPT ![u] = p],
           UNCHANGED <<circuit, known, uptime, serving, todo>>
    PROVE  BreakerInv'
<1>1. /\ op' \in [Users -> {"none", "request"} \cup Calls] /\ at' \in [Users -> Places]
      /\ \A v \in Users : at'[v] # "" => op'[v] \in Calls
      /\ \A v \in Users : at'[v] = "store" <=> at[v] = "store"
  BY DEF BreakerInv
<1>2. known' \in BOOLEAN /\ uptime' \in 0..Oldest /\ serving' \in BOOLEAN
  BY DEF BreakerInv
<1> QED BY <1>1, <1>2, CalmInv

\* A call that decides what it will store.
LEMMA DecidesInv ==
    ASSUME BreakerInv, NEW u \in Users, NEW q \in Seq(Entries), q # <<>>, Forgets(q),
           at[u] \notin {"", "store"},
           at' = [at EXCEPT ![u] = "store"], todo' = [todo EXCEPT ![u] = q],
           UNCHANGED <<op, known, uptime, serving>>,
           circuit' \in Circuits, circuit'.state = circuit.state,
           \/ circuit'.failures = circuit.failures
           \/ ~(circuit'.failures >= FailureThreshold)
           \/ Mends(q)
    PROVE  BreakerInv'
<1>1. /\ at' \in [Users -> Places] /\ at'[u] = "store" /\ todo'[u] = q
      /\ \A v \in Users : v # u => at'[v] = at[v] /\ todo'[v] = todo[v]
      /\ todo' \in [Users -> Seq(Entries)]
  BY DEF BreakerInv, Places
<1>2. FullCountIsSeen'
  <2> SUFFICES ASSUME FailureThreshold > 1, circuit'.state = "Closed",
                      circuit'.failures >= FailureThreshold
               PROVE  \E v \in Users : at'[v] = "store" /\ Mends(todo'[v])
    BY DEF FullCountIsSeen, Mends
  <2>1. CASE Mends(q)
    BY <1>1, <2>1
  <2>2. CASE circuit'.failures = circuit.failures
    <3>1. PICK v \in Users : at[v] = "store" /\ Mends(todo[v])
      BY <2>2 DEF BreakerInv, FullCountIsSeen
    <3> QED BY <1>1, <3>1
  <2>3. CASE ~(circuit'.failures >= FailureThreshold)
    BY <2>3
  <2> QED BY <2>1, <2>2, <2>3
<1>3. \A v \in Users : Forgets(todo'[v]) /\ (at'[v] = "store" => todo'[v] # <<>>)
  BY <1>1 DEF BreakerInv
<1>4. \A v \in Users : Forgets(todo[v])' <=> Forgets(todo'[v])
  BY DEF Forgets
<1>5. \A v \in Users : at'[v] # "" => op'[v] \in Calls
  BY <1>1 DEF BreakerInv
<1> QED BY <1>1, <1>2, <1>3, <1>4, <1>5 DEF BreakerInv

\* The sequences the code decides on.
LEMMA EntriesHas ==
    /\ \A s \in States : <<"state", s>> \in Entries
    /\ \A n \in {0, 1} : <<"failures", n>> \in Entries /\ <<"successes", n>> \in Entries
    /\ <<"openedAt", 0>> \in Entries /\ <<"lastFailure", 0>> \in Entries
<1>1. 0 \in 0..Oldest
  BY OldestType
<1> QED BY <1>1 DEF Entries, Times

\* A list of one store, of two,
LEMMA OneStore ==
    ASSUME NEW x \in Entries, x # <<"state", "Closed">>
    PROVE  <<x>> \in Seq(Entries) /\ <<x>> # <<>> /\ Forgets(<<x>>)
BY DEF Forgets

LEMMA TwoStores ==
    ASSUME NEW x \in Entries, NEW y \in Entries, x # <<"state", "Closed">>, y # <<"state", "Closed">>
    PROVE  <<x, y>> \in Seq(Entries) /\ <<x, y>> # <<>> /\ Forgets(<<x, y>>)
<1> DEFINE q == <<x, y>>
<1>1. q \in Seq(Entries) /\ Len(q) = 2 /\ q[1] = x /\ q[2] = y
  OBVIOUS
<1> HIDE DEF q
<1>2. Forgets(q)
  BY <1>1 DEF Forgets
<1> QED BY <1>1, <1>2 DEF q

\* and of three.
LEMMA ThreeStores ==
    ASSUME NEW x \in Entries, NEW y \in Entries, NEW z \in Entries,
           x = <<"state", "Closed">> => y = <<"failures", 0>>,
           y # <<"state", "Closed">>, z # <<"state", "Closed">>
    PROVE  /\ <<x, y, z>> \in Seq(Entries) /\ <<x, y, z>> # <<>> /\ Forgets(<<x, y, z>>)
           /\ x = <<"state", "Open">> => Mends(<<x, y, z>>)
<1> DEFINE q == <<x, y, z>>
<1>1. q \in Seq(Entries) /\ Len(q) = 3 /\ q[1] = x /\ q[2] = y /\ q[3] = z
  OBVIOUS
<1> HIDE DEF q
<1>2. Forgets(q)
  <2> SUFFICES ASSUME NEW i \in 1..3, q[i] = <<"state", "Closed">>
               PROVE  i < 3 /\ q[i + 1] = <<"failures", 0>>
    BY <1>1 DEF Forgets
  <2>1. i = 1 \/ i = 2 \/ i = 3
    OBVIOUS
  <2>2. q[2] # <<"state", "Closed">> /\ q[3] # <<"state", "Closed">>
    BY <1>1
  <2>3. i = 1
    BY <2>1, <2>2
  <2>4. i + 1 = 2 /\ i < 3
    BY <2>3
  <2>5. q[2] = <<"failures", 0>>
    BY <1>1, <2>3
  <2> QED BY <2>4, <2>5
<1>3. x = <<"state", "Open">> => Mends(q)
  BY <1>1 DEF Mends
<1> QED BY <1>1, <1>2, <1>3 DEF q

\* What a call decides after it has read the state (circuit_breaker.rs:80-86,
\* 134-140, 161-229).
LEMMA StateRead ==
    ASSUME BreakerInv, NEW u \in Users, ReadState(u)
    PROVE  BreakerInv'
<1>0. /\ at[u] = "state" /\ op[u] \in Calls /\ UNCHANGED <<known, uptime, serving>>
      /\ circuit \in Circuits /\ circuit.state \in States
      /\ op \in [Users -> {"none", "request"} \cup Calls] /\ at \in [Users -> Places]
      /\ op = [op EXCEPT ![u] = op[u]]
  BY DEF ReadState, BreakerInv, Circuits
<1>1. ASSUME NEW p \in {"timeout", "count", "window"},
             at' = [at EXCEPT ![u] = p], UNCHANGED <<circuit, op, todo>>
      PROVE  BreakerInv'
  BY <1>0, <1>1, MovesInv DEF Places
<1>2. ASSUME NEW c \in {"none", "request"}, Return(u, c) PROVE BreakerInv'
  BY <1>0, <1>2, MovesInv DEF Return, Leave, Places
<1>3. ASSUME NEW q \in Seq(Entries), q # <<>>, Forgets(q), Decide(u, q) PROVE BreakerInv'
  <2>1. /\ at' = [at EXCEPT ![u] = "store"] /\ todo' = [todo EXCEPT ![u] = q]
        /\ UNCHANGED <<circuit, op, known, uptime, serving>>
    BY <1>0, <1>3 DEF Decide
  <2> QED BY <1>0, <1>3, <2>1, DecidesInv
<1>4. CASE op[u] = "allow"
  <2>1. AllowState(u)
    BY <1>0, <1>4 DEF ReadState
  <2> QED BY <1>1, <1>2, <2>1 DEF AllowState
<1>5. CASE op[u] = "success"
  <2>1. SuccessState(u)
    BY <1>0, <1>5 DEF ReadState
  <2>2. CASE circuit.state = "Closed"
    <3>1. Decide(u, <<<<"failures", 0>>>>)
      BY <2>1, <2>2 DEF SuccessState
    <3> QED BY <1>3, <3>1, OneStore, EntriesHas
  <2>3. CASE circuit.state = "HalfOpen"
    BY <1>1, <2>1, <2>3 DEF SuccessState
  <2>4. CASE circuit.state = "Open"
    BY <1>2, <2>1, <2>4 DEF SuccessState
  <2> QED BY <1>0, <2>2, <2>3, <2>4 DEF States
<1>6. CASE op[u] = "failure"
  <2>1. FailureState(u)
    BY <1>0, <1>6 DEF ReadState
  <2>2. CASE circuit.state = "Closed"
    BY <1>1, <2>1, <2>2 DEF FailureState
  <2>3. CASE circuit.state = "HalfOpen"
    <3>1. Decide(u, <<<<"state", "Open">>, <<"openedAt", 0>>, <<"successes", 0>>>>)
      BY <2>1, <2>3 DEF FailureState
    <3> QED BY <1>3, <3>1, ThreeStores, EntriesHas DEF States
  <2>4. CASE circuit.state = "Open"
    <3>1. Decide(u, <<<<"openedAt", 0>>>>)
      BY <2>1, <2>4 DEF FailureState
    <3> QED BY <1>3, <3>1, OneStore, EntriesHas
  <2> QED BY <1>0, <2>2, <2>3, <2>4 DEF States
<1>7. CASE op[u] = "reset"
  <2>1. Decide(u, <<<<"state", "Closed">>, <<"failures", 0>>, <<"successes", 0>>>>)
    BY <1>0, <1>7 DEF ReadState, ResetState
  <2> QED BY <1>3, <2>1, ThreeStores, EntriesHas DEF States
<1> QED BY <1>0, <1>4, <1>5, <1>6, <1>7 DEF Calls

\* allow_request lets a probe through after the timeout
\* (circuit_breaker.rs:140-157).
LEMMA OpenedAtRead ==
    ASSUME BreakerInv, NEW u \in Users, ReadOpenedAt(u)
    PROVE  BreakerInv'
<1>0. /\ at[u] = "timeout" /\ op[u] \in Calls /\ UNCHANGED <<known, uptime, serving>>
      /\ circuit \in Circuits
  BY DEF ReadOpenedAt, BreakerInv
<1>1. CASE circuit.openedAt >= ResetTimeout
  <2>1. Decide(u, <<<<"state", "HalfOpen">>, <<"successes", 0>>>>)
    BY <1>1 DEF ReadOpenedAt
  <2> DEFINE q == <<<<"state", "HalfOpen">>, <<"successes", 0>>>>
  <2>2. q \in Seq(Entries) /\ q # <<>> /\ Forgets(q)
    BY TwoStores, EntriesHas DEF States
  <2>3. /\ at' = [at EXCEPT ![u] = "store"] /\ todo' = [todo EXCEPT ![u] = q]
        /\ UNCHANGED <<circuit, op, known, uptime, serving>>
    BY <1>0, <2>1 DEF Decide
  <2> HIDE DEF q
  <2> QED BY <1>0, <2>2, <2>3, DecidesInv
<1>2. CASE ~(circuit.openedAt >= ResetTimeout)
  BY <1>0, <1>2, MovesInv DEF ReadOpenedAt, Return, Leave, Places
<1> QED BY <1>1, <1>2

\* record_success closes the circuit at the threshold
\* (circuit_breaker.rs:166-173).
LEMMA SuccessCounted ==
    ASSUME BreakerInv, NEW u \in Users, CountSuccess(u)
    PROVE  BreakerInv'
<1>0. /\ at[u] = "count" /\ op[u] \in Calls /\ UNCHANGED <<known, uptime, serving>>
      /\ circuit \in Circuits /\ circuit' = [circuit EXCEPT !.successes = @ + 1]
      /\ op \in [Users -> {"none", "request"} \cup Calls] /\ at \in [Users -> Places]
  BY DEF CountSuccess, BreakerInv
<1>1. circuit' \in Circuits /\ circuit'.state = circuit.state /\ circuit'.failures = circuit.failures
  BY <1>0 DEF Circuits
<1>2. CASE circuit'.successes >= SuccessThreshold
  <2>1. at' = [at EXCEPT ![u] = "store"] /\ todo' = [todo EXCEPT ![u] = Closes] /\ UNCHANGED op
    BY <1>2 DEF CountSuccess
  <2>2. Closes \in Seq(Entries) /\ Closes # <<>> /\ Forgets(Closes)
    BY ThreeStores, EntriesHas DEF Closes, States
  <2> QED BY <1>0, <1>1, <2>1, <2>2, DecidesInv
<1>3. CASE ~(circuit'.successes >= SuccessThreshold)
  <2>1. op' = [op EXCEPT ![u] = "none"] /\ at' = [at EXCEPT ![u] = ""] /\ UNCHANGED todo
    BY <1>3 DEF CountSuccess, Leave
  <2>2. /\ op' \in [Users -> {"none", "request"} \cup Calls] /\ at' \in [Users -> Places]
        /\ \A v \in Users : at'[v] # "" => op'[v] \in Calls
        /\ \A v \in Users : at'[v] = "store" <=> at[v] = "store"
    BY <1>0, <2>1 DEF BreakerInv, Places
  <2>3. FullCountIsSeen'
    BY <1>1, <2>1, <2>2 DEF BreakerInv, FullCountIsSeen
  <2> QED BY <1>0, <1>1, <2>1, <2>2, <2>3 DEF BreakerInv
<1> QED BY <1>2, <1>3

\* record_failure starts a new count after the window
\* (circuit_breaker.rs:193-200).
LEMMA LastFailureRead ==
    ASSUME BreakerInv, NEW u \in Users, ReadLastFailure(u)
    PROVE  BreakerInv'
<1>0. /\ at[u] = "window" /\ op[u] \in Calls /\ UNCHANGED <<known, uptime, serving>>
      /\ circuit \in Circuits /\ op = [op EXCEPT ![u] = op[u]]
  BY DEF ReadLastFailure, BreakerInv
<1>1. CASE circuit.lastFailure > FailureWindow
  <2> DEFINE q == <<<<"failures", 1>>, <<"lastFailure", 0>>>>
  <2>1. Decide(u, q)
    BY <1>1 DEF ReadLastFailure
  <2>2. q \in Seq(Entries) /\ q # <<>> /\ Forgets(q)
    BY TwoStores, EntriesHas
  <2>3. /\ at' = [at EXCEPT ![u] = "store"] /\ todo' = [todo EXCEPT ![u] = q]
        /\ UNCHANGED <<circuit, op, known, uptime, serving>>
    BY <1>0, <2>1 DEF Decide
  <2> HIDE DEF q
  <2> QED BY <1>0, <2>2, <2>3, DecidesInv
<1>2. CASE ~(circuit.lastFailure > FailureWindow)
  BY <1>0, <1>2, MovesInv DEF ReadLastFailure, Places
<1> QED BY <1>1, <1>2

\* The failure that makes the count full opens the circuit.
LEMMA FailureCounted ==
    ASSUME BreakerInv, NEW u \in Users, CountFailure(u)
    PROVE  BreakerInv'
<1>0. /\ at[u] = "count" /\ op[u] \in Calls /\ UNCHANGED <<known, uptime, serving, op>>
      /\ circuit \in Circuits /\ circuit' = [circuit EXCEPT !.failures = @ + 1]
      /\ at' = [at EXCEPT ![u] = "store"]
  BY DEF CountFailure, BreakerInv
<1>1. circuit' \in Circuits /\ circuit'.state = circuit.state /\ circuit'.failures \in Nat
  BY <1>0 DEF Circuits
<1>2. CASE circuit'.failures >= FailureThreshold
  <2> DEFINE q == <<<<"state", "Open">>, <<"openedAt", 0>>, <<"lastFailure", 0>>>>
  <2>1. todo' = [todo EXCEPT ![u] = q]
    BY <1>2 DEF CountFailure
  <2>2. q \in Seq(Entries) /\ q # <<>> /\ Forgets(q) /\ Mends(q)
    BY ThreeStores, EntriesHas DEF States
  <2> HIDE DEF q
  <2> QED BY <1>0, <1>1, <2>1, <2>2, DecidesInv
<1>3. CASE ~(circuit'.failures >= FailureThreshold)
  <2> DEFINE q == <<<<"lastFailure", 0>>>>
  <2>1. todo' = [todo EXCEPT ![u] = q]
    BY <1>3 DEF CountFailure
  <2>2. q \in Seq(Entries) /\ q # <<>> /\ Forgets(q)
    BY OneStore, EntriesHas
  <2> HIDE DEF q
  <2> QED BY <1>0, <1>1, <1>3, <2>1, <2>2, DecidesInv
<1> QED BY <1>2, <1>3

\* What is left of a call's stores.
LEMMA RestOfStores ==
    ASSUME NEW q \in Seq(Entries), q # <<>>, Forgets(q)
    PROVE  /\ Head(q) \in Entries /\ Tail(q) \in Seq(Entries) /\ Forgets(Tail(q))
           /\ Len(q) # 1 => Tail(q) # <<>>
           /\ Head(q) = <<"state", "Closed">> => Len(q) # 1 /\ Mends(Tail(q))
           /\ Mends(q) => \/ Head(q) = <<"state", "Open">> \/ Head(q)[1] = "failures"
                          \/ Len(q) # 1 /\ Mends(Tail(q))
<1> DEFINE t == Tail(q)
<1>1. /\ t \in Seq(Entries) /\ Len(q) \in Nat \ {0} /\ Len(t) = Len(q) - 1
      /\ Head(q) = q[1] /\ \A i \in 1..Len(t) : t[i] = q[i + 1]
  OBVIOUS
<1> HIDE DEF t
<1>2. Head(q) \in Entries
  OBVIOUS
<1>3. Forgets(t)
  <2> SUFFICES ASSUME NEW i \in 1..Len(t), t[i] = <<"state", "Closed">>
               PROVE  i < Len(t) /\ t[i + 1] = <<"failures", 0>>
    BY DEF Forgets
  <2>1. i + 1 \in 1..Len(q) /\ q[i + 1] = <<"state", "Closed">>
    BY <1>1
  <2>2. i + 1 < Len(q) /\ q[i + 1 + 1] = <<"failures", 0>>
    BY <2>1 DEF Forgets
  <2>3. i + 1 \in 1..Len(t)
    BY <1>1, <2>2
  <2> QED BY <1>1, <2>2, <2>3
<1>4. Len(q) # 1 => t # <<>>
  BY <1>1
<1>5. ASSUME Head(q) = <<"state", "Closed">> PROVE Len(q) # 1 /\ Mends(t)
  <2>1. 1 < Len(q) /\ q[1 + 1] = <<"failures", 0>>
    BY <1>1, <1>5 DEF Forgets
  <2>2. 1 \in 1..Len(t) /\ t[1] = <<"failures", 0>>
    BY <1>1, <2>1
  <2>3. t[1][1] = "failures"
    BY <2>2
  <2> QED BY <1>1, <2>1, <2>2, <2>3 DEF Mends
<1>6. ASSUME Mends(q), Head(q) # <<"state", "Open">>, Head(q)[1] # "failures"
      PROVE  Len(q) # 1 /\ Mends(t)
  <2>1. PICK i \in 1..Len(q) : q[i] = <<"state", "Open">> \/ q[i][1] = "failures"
    BY <1>6 DEF Mends
  <2>2. i # 1
    BY <1>1, <1>6, <2>1
  <2>3. i - 1 \in 1..Len(t) /\ t[i - 1] = q[i]
    BY <1>1, <2>1, <2>2
  <2>4. Mends(t)
    <3>1. PICK j \in 1..Len(t) : t[j] = q[i]
      BY <2>3
    <3>2. t[j] = <<"state", "Open">> \/ t[j][1] = "failures"
      BY <2>1, <3>1
    <3> QED BY <3>2 DEF Mends
  <2>5. Len(q) # 1
    BY <1>1, <2>1, <2>2
  <2> QED BY <2>4, <2>5
<1> QED BY <1>1, <1>2, <1>3, <1>4, <1>5, <1>6 DEF t

\* One field of the circuit is stored.
LEMMA CircuitStored ==
    ASSUME NEW c \in Circuits, NEW x \in Entries
    PROVE  LET d == [c EXCEPT ![x[1]] = x[2]] IN
           /\ d \in Circuits
           /\ d.state = IF x[1] = "state" THEN x[2] ELSE c.state
           /\ d.failures = IF x[1] = "failures" THEN x[2] ELSE c.failures
           /\ x[1] = "failures" => x[2] \in {0, 1}
           /\ x[1] = "state" => x = <<"state", x[2]>>
<1>1. CASE x \in {"state"} \X States
  BY <1>1 DEF Circuits
<1>2. CASE x \in {"failures", "successes"} \X {0, 1}
  BY <1>2 DEF Circuits
<1>3. CASE x \in Times \X (0..Oldest)
  BY <1>3 DEF Circuits, Times
<1> QED BY <1>1, <1>2, <1>3 DEF Entries

\* One of the stores a call has decided on. Whoever closes the circuit
\* forgets the failures next, and one failure does not fill the count
\* (circuit_breaker.rs:88-95, 169-172, 193-213).
LEMMA Stored ==
    ASSUME BreakerInv, NEW u \in Users, Store(u)
    PROVE  BreakerInv'
<1>1. PICK q \in Seq(Entries) : q = todo[u]
  BY DEF BreakerInv
<1>2. PICK x : x = Head(q) OBVIOUS
<1>3. PICK t : t = Tail(q) OBVIOUS
<1>4. /\ at[u] = "store" /\ op[u] \in Calls /\ UNCHANGED <<known, uptime, serving>>
      /\ q # <<>> /\ Forgets(q) /\ circuit \in Circuits
      /\ op \in [Users -> {"none", "request"} \cup Calls] /\ at \in [Users -> Places]
      /\ todo \in [Users -> Seq(Entries)]
  BY <1>1 DEF Store, BreakerInv
<1>5. /\ circuit' = [circuit EXCEPT ![x[1]] = x[2]]
      /\ todo' = [todo EXCEPT ![u] = t]
      /\ IF Len(q) = 1 THEN Leave(u, IF op[u] = "allow" THEN "request" ELSE "none")
         ELSE UNCHANGED <<op, at>>
  BY <1>1, <1>2, <1>3, <1>4 DEF Store
<1>6. /\ x \in Entries /\ t \in Seq(Entries) /\ Forgets(t)
      /\ Len(q) # 1 => t # <<>>
      /\ x = <<"state", "Closed">> => Len(q) # 1 /\ Mends(t)
      /\ Mends(q) => x = <<"state", "Open">> \/ x[1] = "failures" \/ (Len(q) # 1 /\ Mends(t))
  BY <1>2, <1>3, <1>4, RestOfStores
<1>7. /\ circuit' \in Circuits
      /\ circuit'.state = IF x[1] = "state" THEN x[2] ELSE circuit.state
      /\ circuit'.failures = IF x[1] = "failures" THEN x[2] ELSE circuit.failures
      /\ x[1] = "failures" => x[2] \in {0, 1}
      /\ x[1] = "state" => x = <<"state", x[2]>>
  BY <1>4, <1>5, <1>6, CircuitStored
<1>8. /\ todo' \in [Users -> Seq(Entries)] /\ todo'[u] = t
      /\ \A v \in Users : v # u => todo'[v] = todo[v]
  BY <1>4, <1>5, <1>6
<1>9. /\ op' \in [Users -> {"none", "request"} \cup Calls] /\ at' \in [Users -> Places]
      /\ \A v \in Users : v # u => at'[v] = at[v] /\ op'[v] = op[v]
      /\ at'[u] = IF Len(q) = 1 THEN "" ELSE "store"
      /\ at'[u] # "" => op'[u] \in Calls
  BY <1>4, <1>5 DEF Leave, Places
<1>10. FullCountIsSeen'
  <2> SUFFICES ASSUME FailureThreshold > 1, circuit'.state = "Closed",
                      circuit'.failures >= FailureThreshold
               PROVE  \E v \in Users : at'[v] = "store" /\ Mends(todo'[v])
    BY DEF FullCountIsSeen, Mends
  <2>1. x[1] # "failures"
    BY <1>7, ThresholdsType
  <2>2. CASE x[1] = "state"
    <3>1. x = <<"state", "Closed">>
      BY <1>7, <2>2
    <3> QED BY <1>6, <1>8, <1>9, <3>1
  <2>3. CASE x[1] # "state"
    <3>1. PICK v \in Users : at[v] = "store" /\ Mends(todo[v])
      BY <1>7, <2>1, <2>3 DEF BreakerInv, FullCountIsSeen
    <3>2. CASE v # u
      BY <1>8, <1>9, <3>1, <3>2
    <3>3. CASE v = u
      <4>1. x # <<"state", "Open">>
        BY <2>3
      <4> QED BY <1>1, <1>6, <1>8, <1>9, <2>1, <3>1, <3>3, <4>1
    <3> QED BY <3>2, <3>3
  <2> QED BY <2>2, <2>3
<1>11. \A v \in Users : at'[v] # "" => op'[v] \in Calls
  BY <1>9 DEF BreakerInv
<1>12. \A v \in Users : Forgets(todo'[v]) /\ (at'[v] = "store" => todo'[v] # <<>>)
  BY <1>6, <1>8, <1>9 DEF BreakerInv
<1>13. \A v \in Users : Forgets(todo[v])' <=> Forgets(todo'[v])
  BY DEF Forgets
<1> QED BY <1>4, <1>7, <1>8, <1>9, <1>10, <1>11, <1>12, <1>13 DEF BreakerInv

\* Time only ages the times.
LEMMA StoresAge ==
    ASSUME NEW q \in Seq(Entries), Forgets(q)
    PROVE  LET a == [i \in DOMAIN q |-> IF q[i][1] \in Times THEN <<q[i][1], Older(q[i][2])>> ELSE q[i]]
           IN  /\ a \in Seq(Entries) /\ Forgets(a) /\ (q # <<>> => a # <<>>)
               /\ Mends(q) => Mends(a)
<1> DEFINE a == [i \in DOMAIN q |-> IF q[i][1] \in Times THEN <<q[i][1], Older(q[i][2])>> ELSE q[i]]
<1>1. DOMAIN q = 1..Len(q) /\ Len(q) \in Nat
  OBVIOUS
<1>2. \A i \in 1..Len(q) : q[i] \in Entries
  OBVIOUS
<1>3. \A x \in Entries : x[1] \in Times => x[2] \in 0..Oldest
  BY DEF Entries, Times
<1>4. \A i \in 1..Len(q) : a[i] \in Entries
  <2> SUFFICES ASSUME NEW i \in 1..Len(q) PROVE a[i] \in Entries OBVIOUS
  <2>1. CASE q[i][1] \in Times
    <3>1. a[i] = <<q[i][1], Older(q[i][2])>>
      BY <1>1, <2>1
    <3>2. Older(q[i][2]) \in 0..Oldest
      BY <1>2, <1>3, <2>1, OldestType
    <3> QED BY <2>1, <3>1, <3>2 DEF Entries
  <2>2. CASE q[i][1] \notin Times
    BY <1>1, <1>2, <2>2
  <2> QED BY <2>1, <2>2
<1>5. a \in Seq(Entries) /\ Len(a) = Len(q)
  BY <1>1, <1>4
<1>6. \A i \in 1..Len(q) : /\ q[i][1] \notin Times => a[i] = q[i]
                           /\ q[i][1] \in Times => a[i] = <<q[i][1], Older(q[i][2])>>
  BY <1>1
<1> HIDE DEF a
<1>7. \A i \in 1..Len(q) : a[i] = <<"state", "Closed">> => q[i] = <<"state", "Closed">>
  BY <1>6 DEF Times
<1>8. \A i \in 1..Len(q) : q[i] = <<"failures", 0>> => a[i] = <<"failures", 0>>
  BY <1>6 DEF Times
<1>9. Forgets(a)
  BY <1>5, <1>7, <1>8 DEF Forgets
<1>10. Mends(q) => Mends(a)
  BY <1>5, <1>6 DEF Mends, Times
<1>11. q # <<>> => a # <<>>
  BY <1>5
<1> QED BY <1>5, <1>9, <1>10, <1>11 DEF a

\* Time passes for the circuit and for the times still to be stored.
LEMMA Ticked ==
    ASSUME BreakerInv, BreakerTick
    PROVE  BreakerInv'
<1>0. /\ uptime' = Older(uptime) /\ UNCHANGED <<known, serving, op, at>>
      /\ circuit \in Circuits /\ uptime \in 0..Oldest
      /\ circuit' = [f \in DOMAIN circuit |-> IF f \in Times THEN Older(circuit[f]) ELSE circuit[f]]
  BY DEF BreakerTick, BreakerInv
<1>1. uptime' \in 0..Oldest
  BY <1>0, OldestType
<1>2. /\ circuit' \in Circuits
      /\ circuit'.state = circuit.state /\ circuit'.failures = circuit.failures
  <2>1. Older(circuit.openedAt) \in 0..Oldest /\ Older(circuit.lastFailure) \in 0..Oldest
    BY <1>0, OldestType DEF Circuits
  <2> QED BY <1>0, <2>1 DEF Circuits, Times
<1>3. \A u \in Users : /\ todo'[u] \in Seq(Entries) /\ Forgets(todo'[u])
                       /\ todo[u] # <<>> => todo'[u] # <<>>
                       /\ Mends(todo[u]) => Mends(todo'[u])
  <2> SUFFICES ASSUME NEW u \in Users
               PROVE  /\ todo'[u] \in Seq(Entries) /\ Forgets(todo'[u])
                      /\ todo[u] # <<>> => todo'[u] # <<>>
                      /\ Mends(todo[u]) => Mends(todo'[u])
    OBVIOUS
  <2>1. PICK q \in Seq(Entries) : q = todo[u]
    BY DEF BreakerInv
  <2>2. Forgets(q)
    BY <2>1 DEF BreakerInv
  <2>3. todo'[u] = [i \in DOMAIN q |-> IF q[i][1] \in Times THEN <<q[i][1], Older(q[i][2])>> ELSE q[i]]
    BY <2>1 DEF BreakerTick
  <2> QED BY <2>1, <2>2, <2>3, StoresAge
<1>4. todo' \in [Users -> Seq(Entries)]
  BY <1>3 DEF BreakerTick
<1>5. FullCountIsSeen'
  <2> SUFFICES ASSUME FailureThreshold > 1, circuit'.state = "Closed",
                      circuit'.failures >= FailureThreshold
               PROVE  \E v \in Users : at'[v] = "store" /\ Mends(todo'[v])
    BY DEF FullCountIsSeen, Mends
  <2>1. PICK v \in Users : at[v] = "store" /\ Mends(todo[v])
    BY <1>2 DEF BreakerInv, FullCountIsSeen
  <2> QED BY <1>0, <1>3, <2>1
<1>6. \A v \in Users : Forgets(todo[v])' <=> Forgets(todo'[v])
  BY DEF Forgets
<1> QED BY <1>0, <1>1, <1>2, <1>3, <1>4, <1>5, <1>6 DEF BreakerInv

\* A new circuit counts no failures (circuit_breaker.rs:54-78).
LEMMA NewCircuitType ==
    ASSUME BreakerInv \/ uptime = 0
    PROVE  NewCircuit \in Circuits /\ NewCircuit.failures = 0
<1>0. 0 \in 0..Oldest
  BY OldestType
<1>1. uptime \in 0..Oldest
  BY <1>0 DEF BreakerInv
<1> QED BY <1>1 DEF NewCircuit, Circuits, States

\* A circuit that is inserted or cleared is a new one
\* (circuit_breaker.rs:125-127, 259-272).
LEMMA ReplacedInv ==
    ASSUME BreakerInv, circuit' = NewCircuit, known' \in BOOLEAN,
           UNCHANGED <<uptime, serving, op, todo>>, at' \in [Users -> Places],
           \A v \in Users : at'[v] = at[v] \/ (at'[v] = "get" /\ at[v] = "insert")
    PROVE  BreakerInv'
<1>1. circuit' \in Circuits /\ circuit'.failures = 0
  BY NewCircuitType
<1>2. FullCountIsSeen'
  BY <1>1, ThresholdsType DEF FullCountIsSeen
<1>3. \A v \in Users : /\ at'[v] # "" => op'[v] \in Calls
                       /\ at'[v] = "store" => todo'[v] # <<>>
                       /\ Forgets(todo[v])'
  BY DEF BreakerInv
<1> QED BY <1>1, <1>2, <1>3 DEF BreakerInv

\* Every step keeps the invariant.
LEMMA BreakerStep ==
    ASSUME BreakerInv, [BreakerNext]_breakerVars
    PROVE  BreakerInv'
<1>0. op \in [Users -> {"none", "request"} \cup Calls] /\ at \in [Users -> Places]
      /\ known \in BOOLEAN /\ uptime \in 0..Oldest /\ serving \in BOOLEAN
      /\ \A u \in Users : at[u] # "" => op[u] \in Calls
  BY DEF BreakerInv
<1>1. ASSUME NEW u \in Users, Step(u) \/ Reset(u) PROVE BreakerInv'
  <2>0. op = [op EXCEPT ![u] = op[u]]
    BY <1>0
  <2>1. CASE Ask(u)
    BY <1>0, <2>1, MovesInv DEF Ask, Enter, Places, Calls
  <2>2. CASE Request(u)
    BY <1>0, <2>2, MovesInv DEF Request, Enter, Places, Calls
  <2>3. CASE Look(u)
    BY <1>0, <2>0, <2>3, MovesInv DEF Look, Places
  <2>4. CASE Insert(u)
    <3>1. at' = [at EXCEPT ![u] = "get"] /\ at[u] = "insert" /\ circuit' = NewCircuit
          /\ known' = TRUE /\ UNCHANGED <<uptime, serving, op, todo>>
      BY <2>4 DEF Insert
    <3>2. /\ at' \in [Users -> Places]
          /\ \A v \in Users : at'[v] = at[v] \/ (at'[v] = "get" /\ at[v] = "insert")
      BY <1>0, <3>1 DEF Places
    <3> QED BY <3>1, <3>2, ReplacedInv
  <2>5. CASE Get(u)
    <3>1. CASE known
      BY <1>0, <2>0, <2>5, <3>1, MovesInv DEF Get, Places
    <3>2. CASE ~known
      BY <1>0, <2>5, <3>2, MovesInv DEF Get, Leave, Places
    <3> QED BY <3>1, <3>2
  <2>6. CASE Reset(u)
    BY <1>0, <2>6, MovesInv DEF Reset, Enter, Places, Calls
  <2>7. CASE ReadState(u)
    BY <2>7, StateRead
  <2>8. CASE ReadOpenedAt(u)
    BY <2>8, OpenedAtRead
  <2>9. CASE CountSuccess(u)
    BY <2>9, SuccessCounted
  <2>10. CASE ReadLastFailure(u)
    BY <2>10, LastFailureRead
  <2>11. CASE CountFailure(u)
    BY <2>11, FailureCounted
  <2>12. CASE Store(u)
    BY <2>12, Stored
  <2> QED BY <1>1, <2>1, <2>2, <2>3, <2>4, <2>5, <2>6, <2>7, <2>8, <2>9, <2>10, <2>11, <2>12 DEF Step
<1>2. CASE ClearAll
  BY <1>0, <1>2, ReplacedInv DEF ClearAll
<1>3. CASE Turn
  BY <1>0, <1>3, CalmInv DEF Turn
<1>4. CASE BreakerTick
  BY <1>4, Ticked
<1>5. CASE UNCHANGED breakerVars
  BY <1>0, <1>5, CalmInv DEF breakerVars
<1> QED BY <1>1, <1>2, <1>3, <1>4, <1>5 DEF BreakerNext

\* At first the circuit is closed and nobody is in a call.
LEMMA BreakerInitInv == BreakerInit => BreakerInv
<1> SUFFICES ASSUME BreakerInit PROVE BreakerInv OBVIOUS
<1>0. 0 \in 0..Oldest
  BY OldestType
<1>1. circuit \in Circuits /\ circuit.failures = 0 /\ uptime \in 0..Oldest
  BY <1>0, NewCircuitType DEF BreakerInit
<1>2. FullCountIsSeen
  BY <1>1, ThresholdsType DEF FullCountIsSeen
<1>3. todo \in [Users -> Seq(Entries)] /\ \A u \in Users : todo[u] = <<>>
  <2>1. <<>> \in Seq(Entries)
    OBVIOUS
  <2> QED BY <2>1 DEF BreakerInit
<1>4. \A u \in Users : Forgets(todo[u])
  BY <1>3 DEF Forgets
<1> QED BY <1>1, <1>2, <1>3, <1>4 DEF BreakerInit, BreakerInv, Places

\* No fairness is needed for the count.
LEMMA BreakerSafe ==
    ASSUME FailureThreshold > 1
    PROVE  BreakerInit /\ [][BreakerNext]_breakerVars => []FullCountTrips
<1>1. BreakerInv /\ [BreakerNext]_breakerVars => BreakerInv'
  BY BreakerStep
<1>2. BreakerInv => FullCountTrips
  <2> SUFFICES ASSUME BreakerInv, \A u \in Users : at[u] = "", circuit.state = "Closed"
               PROVE  circuit.failures < FailureThreshold
    BY DEF FullCountTrips
  <2>1. ~(circuit.failures >= FailureThreshold)
    BY DEF BreakerInv, FullCountIsSeen
  <2>2. PICK n \in Nat : n = circuit.failures
    BY DEF BreakerInv, Circuits
  <2>3. n < FailureThreshold \/ n >= FailureThreshold
    BY NatOrder, ThresholdsType
  <2> QED BY <2>1, <2>2, <2>3
<1> QED BY <1>1, <1>2, BreakerInitInv, PTL

\* With nobody in a call, a closed circuit has counted fewer failures than
\* the threshold: no interleaving of callers loses the opening, or closes the
\* circuit and keeps the count (circuit_breaker.rs:161-213). For any number
\* of callers and any threshold above one; with a threshold of one a failure
\* after the window stores the full count and opens nothing.
THEOREM BreakerTrips ==
    ASSUME FailureThreshold > 1
    PROVE  BreakerSpec => []FullCountTrips
BY BreakerSafe, PTL DEF BreakerSpec

----------------------------------------------------------------------------
(***************************************************************************)
(* The graceful shutdown. The report of wait_for_drain is true for any     *)
(* number of connections, callers and subscribers. The strengthening says  *)
(* where a notification can be on its way: as long as no connection has    *)
(* begun behind one that is still in connection_ended, an ending           *)
(* connection means that none is open, and a waiter that has not seen that *)
(* moment knows of no ending one.                                          *)
(***************************************************************************)

\* active_connections counts the open connections.
CountIsOpen == active = Cardinality(Open)

\* Between the last decrement and its notification nothing is open.
EndingIsLast == ~revived /\ Ending # {} => Open = {}

\* A waiter that has seen no idle moment can still be told only the truth.
WaitersKnow ==
    \A d \in Drainers :
      /\ drainer[d] \in {"loaded", "listening"} /\ ~idleSeen[d] /\ ~revived => Ending = {}
      /\ drainer[d] = "woken" => idleSeen[d] \/ revived

ShutInv == ShutTypeOK /\ CountIsOpen /\ EndingIsLast /\ WaitersKnow /\ DrainIsReal

\* The number of open connections, for any state of the guards: it is finite,
\* and zero only if there are none (active_connections, shutdown.rs:57-59).
LEMMA OpenIsFinite ==
    IsFiniteSet(Open) /\ Cardinality(Open) \in Nat /\ (Cardinality(Open) = 0 <=> Open = {})
<1>1. IsFiniteSet(Open)
  BY GuardsFinite, FS_Subset DEF Open
<1> QED BY <1>1, FS_CardinalityType, FS_EmptySet

\* A finite set without one of its elements (the decrement of
\* connection_ended, shutdown.rs:68).
LEMMA RemoveOne ==
    ASSUME NEW S, IsFiniteSet(S), NEW x \in S
    PROVE  /\ Cardinality(S) \in Nat \ {0}
           /\ Cardinality(S \ {x}) = Cardinality(S) - 1
           /\ Cardinality(S) = 1 => S = {x}
<1>1. Cardinality(S) \in Nat BY FS_CardinalityType
<1>2. IsFiniteSet(S \ {x}) /\ Cardinality(S \ {x}) = Cardinality(S) - 1
  BY FS_RemoveElement
<1>3. Cardinality(S \ {x}) \in Nat BY <1>2, FS_CardinalityType
<1>4. Cardinality(S) = 1 => S \ {x} = {} BY <1>2, FS_EmptySet
<1> QED BY <1>1, <1>2, <1>3, <1>4

\* The controller starts with nothing open and nobody waiting
\* (ShutdownController::new).
LEMMA ShutInitInv == ShutInit => ShutInv
<1> SUFFICES ASSUME ShutInit PROVE ShutInv OBVIOUS
<1>1. Open = {} /\ Ending = {} BY DEF ShutInit, Open, Ending
<1>2. Cardinality(Open) = 0 BY <1>1, FS_EmptySet
<1> QED BY <1>1, <1>2 DEF ShutInit, ShutInv, ShutTypeOK, CountIsOpen, EndingIsLast, WaitersKnow, DrainIsReal

\* connection_started keeps the strengthening: it counts itself, and marks the
\* case in which somebody is still ending.
LEMMA StartedInv ==
    ASSUME ShutInv, NEW c \in Guards, ConnectionStarted(c) PROVE ShutInv'
<1> USE DEF ShutInv, ConnectionStarted
<1>1. ShutTypeOK' BY DEF ShutTypeOK
<1>2. Open' = Open \cup {c} /\ c \notin Open /\ Ending' = Ending
  BY DEF ShutTypeOK, Open, Ending
<1>3. CountIsOpen'
  <2>1. Cardinality(Open \cup {c}) = Cardinality(Open) + 1
    BY <1>2, OpenIsFinite, FS_AddElement
  <2> QED BY <1>2, <2>1 DEF CountIsOpen
<1>4. EndingIsLast' BY <1>2 DEF EndingIsLast, ShutTypeOK
<1>5. WaitersKnow' BY <1>2 DEF WaitersKnow, ShutTypeOK
<1>6. DrainIsReal' BY DEF DrainIsReal, ShutTypeOK
<1> QED BY <1>1, <1>3, <1>4, <1>5, <1>6

\* connection_ended: only the decrement from one leads to a notification, and
\* at that moment every waiter sees that nothing is open.
LEMMA EndedInv ==
    ASSUME ShutInv, NEW c \in Guards, ConnectionEnded(c) PROVE ShutInv'
<1> USE DEF ShutInv, ConnectionEnded
<1>1. c \in Open /\ Open' = Open \ {c}
  BY DEF ShutTypeOK, Open
<1>2. /\ Cardinality(Open) \in Nat \ {0}
      /\ Cardinality(Open \ {c}) = Cardinality(Open) - 1
      /\ Cardinality(Open) = 1 => Open = {c}
  BY <1>1, OpenIsFinite, RemoveOne
<1>3. ShutTypeOK'
  <2>1. active' \in Nat BY <1>2, OpenIsFinite DEF CountIsOpen, ShutTypeOK
  <2> QED BY <2>1 DEF ShutTypeOK
<1>4. CountIsOpen' BY <1>1, <1>2 DEF CountIsOpen
<1>5. CASE active = 1
  <2>1. Open = {c} BY <1>2, <1>5 DEF CountIsOpen
  <2>2. Open \ {c} = {} BY <2>1
  <2>3. \A d \in Drainers : idleSeen'[d] BY <2>1
  <2>4. EndingIsLast' BY <1>1, <2>2 DEF EndingIsLast
  <2>5. WaitersKnow' BY <2>3 DEF WaitersKnow
  <2>6. DrainIsReal' BY <2>3 DEF DrainIsReal
  <2> QED BY <1>3, <1>4, <2>4, <2>5, <2>6
<1>6. CASE active # 1
  <2>1. Ending' = Ending BY <1>6 DEF Ending, ShutTypeOK
  <2>2. \A d \in Drainers : idleSeen[d] => idleSeen'[d] BY DEF ShutTypeOK
  <2>3. EndingIsLast' BY <1>1, <2>1 DEF EndingIsLast
  <2>4. WaitersKnow' BY <2>1, <2>2 DEF WaitersKnow
  <2>5. DrainIsReal' BY <2>2 DEF DrainIsReal
  <2> QED BY <1>3, <1>4, <2>3, <2>4, <2>5
<1> QED BY <1>5, <1>6

\* The rest of connection_ended: the flag, and the notification, which reaches
\* only waiters for whom it is true.
LEMMA NotifyInv ==
    ASSUME ShutInv, NEW c \in Guards, IsShutdown(c) \/ NotifyWaiters(c) PROVE ShutInv'
<1> USE DEF ShutInv
<1>1. Open' = Open /\ Ending' \subseteq Ending
  BY DEF IsShutdown, NotifyWaiters, ShutTypeOK, Open, Ending
<1>2. ShutTypeOK' BY DEF IsShutdown, NotifyWaiters, ShutTypeOK
<1>3. CountIsOpen' BY <1>1 DEF CountIsOpen, IsShutdown, NotifyWaiters
<1>4. EndingIsLast' BY <1>1 DEF EndingIsLast, IsShutdown, NotifyWaiters
<1>5. CASE IsShutdown(c)
  <2>1. WaitersKnow' BY <1>1, <1>5 DEF WaitersKnow, IsShutdown
  <2>2. DrainIsReal' BY <1>5 DEF DrainIsReal, IsShutdown
  <2> QED BY <1>2, <1>3, <1>4, <2>1, <2>2
<1>6. CASE NotifyWaiters(c)
  <2>1. c \in Ending BY <1>6 DEF NotifyWaiters, Ending
  <2>2. \A d \in Drainers : drainer[d] = "listening" => idleSeen[d] \/ revived
    BY <2>1 DEF WaitersKnow
  <2>3. \A d \in Drainers : drainer'[d] = IF drainer[d] = "listening" THEN "woken" ELSE drainer[d]
    BY <1>6 DEF NotifyWaiters
  <2>4. WaitersKnow' BY <1>1, <1>6, <2>2, <2>3 DEF WaitersKnow, NotifyWaiters
  <2>5. DrainIsReal' BY <1>6, <2>3 DEF DrainIsReal, NotifyWaiters
  <2> QED BY <1>2, <1>3, <1>4, <2>4, <2>5
<1> QED BY <1>5, <1>6

\* wait_for_drain: the count it reads is that of the open connections, and
\* what it reports later was settled by then.
LEMMA DrainInv ==
    ASSUME ShutInv, NEW d \in Drainers, DrainStep(d) PROVE ShutInv'
<1> USE DEF ShutInv
<1>1. Open' = Open /\ Ending' = Ending /\ active' = active /\ revived' = revived
  BY DEF DrainStep, WaitForDrain, Notified, Woken, DrainTimeout, Open, Ending
<1>2. ShutTypeOK'
  BY DEF DrainStep, WaitForDrain, Notified, Woken, DrainTimeout, ShutTypeOK
<1>3. CountIsOpen' /\ EndingIsLast' BY <1>1 DEF CountIsOpen, EndingIsLast
<1>4. WaitersKnow' /\ DrainIsReal'
  <2>1. CASE WaitForDrain(d)
    <3>1. active = 0 <=> Open = {} BY OpenIsFinite DEF CountIsOpen
    <3>2. \A e \in Drainers \ {d} : drainer'[e] = drainer[e] /\ idleSeen'[e] = idleSeen[e]
      BY <2>1 DEF WaitForDrain, ShutTypeOK
    <3>3. idleSeen'[d] = (Open = {})
      BY <2>1 DEF WaitForDrain, ShutTypeOK
    <3>4. drainer'[d] = IF active = 0 THEN "drained" ELSE "loaded"
      BY <2>1 DEF WaitForDrain, ShutTypeOK
    <3>5. WaitersKnow'
      BY <1>1, <3>1, <3>2, <3>3, <3>4 DEF WaitersKnow, EndingIsLast
    <3>6. DrainIsReal'
      BY <1>1, <3>1, <3>2, <3>3, <3>4 DEF DrainIsReal
    <3> QED BY <3>5, <3>6
  <2>2. CASE Notified(d)
    BY <1>1, <2>2 DEF Notified, WaitersKnow, DrainIsReal, ShutTypeOK
  <2>3. CASE Woken(d)
    BY <1>1, <2>3 DEF Woken, WaitersKnow, DrainIsReal, ShutTypeOK
  <2>4. CASE DrainTimeout(d)
    BY <1>1, <2>4 DEF DrainTimeout, WaitersKnow, DrainIsReal, ShutTypeOK
  <2> QED BY <2>1, <2>2, <2>3, <2>4 DEF DrainStep
<1> QED BY <1>2, <1>3, <1>4

\* The signal and its subscribers touch neither count nor waiters.
LEMMA SignalInv ==
    ASSUME ShutInv,
           \/ \E s \in Stoppers : StopStep(s)
           \/ \E r \in Subscribers : Subscribe(r) \/ Recv(r)
           \/ UNCHANGED shutVars
    PROVE  ShutInv'
<1> USE DEF ShutInv
<1>1. UNCHANGED <<active, guard, drainer, idleSeen, revived>>
  BY DEF StopStep, Swap, SendSignal, Subscribe, Recv, shutVars
<1>2. ShutTypeOK'
  <2>1. CASE \E s \in Stoppers : StopStep(s)
    <3>1. PICK s \in Stoppers : Swap(s) \/ SendSignal(s) BY <2>1 DEF StopStep
    <3>2. CASE Swap(s) BY <3>2 DEF Swap, ShutTypeOK
    <3>3. CASE SendSignal(s) BY <3>3 DEF SendSignal, ShutTypeOK
    <3> QED BY <3>1, <3>2, <3>3
  <2>2. CASE \E r \in Subscribers : Subscribe(r) \/ Recv(r)
    BY <2>2 DEF Subscribe, Recv, ShutTypeOK
  <2>3. CASE UNCHANGED shutVars
    BY <2>3 DEF shutVars, ShutTypeOK
  <2> QED BY <2>1, <2>2, <2>3
<1>3. Open' = Open /\ Ending' = Ending BY <1>1 DEF Open, Ending
<1> QED BY <1>1, <1>2, <1>3 DEF CountIsOpen, EndingIsLast, WaitersKnow, DrainIsReal

\* Every step keeps the invariant.
LEMMA ShutStepInv == ShutInv /\ [ShutNext]_shutVars => ShutInv'
<1> SUFFICES ASSUME ShutInv, [ShutNext]_shutVars PROVE ShutInv' OBVIOUS
<1>1. CASE \E c \in Guards : ConnectionStarted(c) \/ GuardStep(c)
  BY <1>1, StartedInv, EndedInv, NotifyInv DEF GuardStep
<1>2. CASE \E d \in Drainers : DrainStep(d)
  BY <1>2, DrainInv
<1>3. CASE \/ \E s \in Stoppers : StopStep(s)
           \/ \E r \in Subscribers : Subscribe(r) \/ Recv(r)
           \/ UNCHANGED shutVars
  BY <1>3, SignalInv
<1> QED BY <1>1, <1>2, <1>3 DEF ShutNext

\* wait_for_drain reports a drain only if there was a moment without an open
\* connection during the call, however many connections, callers and
\* subscribers there are (shutdown.rs:66-91).
THEOREM DrainsAreReal == ShutSpec => []DrainIsReal
<1>1. ShutInv => DrainIsReal BY DEF ShutInv
<1> QED BY <1>1, ShutInitInv, ShutStepInv, PTL DEF ShutSpec

----------------------------------------------------------------------------
(***************************************************************************)
(* The types of the watcher, with the capacity of its channel.             *)
(***************************************************************************)

\* Announcements are events.
LEMMA EventTypes ==
    ASSUME WatcherInv
    PROVE  /\ \A s \in Setters : setter[s].pc = "send" =>
                [kind |-> "value", old |-> setter[s].old, new |-> setter[s].new] \in Events
           /\ [kind |-> "reload"] \in Events /\ [kind |-> "file"] \in Events
  <1>1. \A s \in Setters : setter[s].pc = "send" =>
          [kind |-> "value", old |-> setter[s].old, new |-> setter[s].new] \in ValueChanged
    BY DEF WatcherInv, ValueTypeOK, ValueChanged
  <1> QED BY <1>1 DEF Events

\* A full channel drops its oldest message, so that it never holds more than
\* its capacity (broadcast::send, config_watcher.rs:80-86).
LEMMA AnnounceTypes ==
    ASSUME channel \in Seq(Events), Len(channel) <= ChannelSize, missed \in BOOLEAN,
           NEW e \in Events, Announce(e)
    PROVE  channel' \in Seq(Events) /\ Len(channel') <= ChannelSize /\ missed' \in BOOLEAN
  <1>1. Len(channel) \in Nat
    OBVIOUS
  <1>2. CASE Len(channel) < ChannelSize
    <2>1. channel' = Append(channel, e) /\ missed' = missed
      BY <1>2 DEF Announce
    <2>2. channel' \in Seq(Events) /\ Len(channel') = Len(channel) + 1
      BY <2>1
    <2> QED BY <1>1, <1>2, <2>1, <2>2, ChannelHolds
  <1>3. CASE ~(Len(channel) < ChannelSize)
    <2>1. channel' = Append(Tail(channel), e) /\ missed' = TRUE
      BY <1>3 DEF Announce
    <2>2. Len(channel) = ChannelSize /\ channel # <<>>
      BY <1>1, <1>3, ChannelHolds
    <2>3. channel' \in Seq(Events) /\ Len(channel') = Len(channel)
      BY <2>1, <2>2
    <2>4. missed' \in BOOLEAN
      BY <2>1
    <2> QED BY <2>2, <2>3, <2>4
  <1> QED BY <1>2, <1>3

\* The part of the types that is about the file.
FileTypeOK ==
    /\ present \in BOOLEAN /\ modified \in BOOLEAN /\ owed \in BOOLEAN
    /\ mtime \in Mtimes /\ newest \in Mtimes
    /\ watched \in Mtimes \cup {Unwatched}
    /\ watchCall \in Mtimes \cup {Unwatched}

\* The types are those of the values, of the file and of the channel.
LEMMA WatcherTypeParts ==
    WatcherTypeOK <=> ValueTypeOK /\ FileTypeOK /\ Len(channel) <= ChannelSize
BY DEF WatcherTypeOK, ValueTypeOK, FileTypeOK

\* The same, after a step.
LEMMA WatcherTypePartsNext ==
    ValueTypeOK' /\ FileTypeOK' /\ (Len(channel) <= ChannelSize)' => WatcherTypeOK'
BY WatcherTypeParts, PTL

\* watch_file, unwatch_file, the check of the loop and what others do to the
\* file (config_watcher.rs:95-157).
LEMMA FileTypes ==
    ASSUME FileTypeOK, \/ ReadMtime \/ WatchFile \/ UnwatchFile \/ CheckFiles \/ SendFileModified
                       \/ (\E t \in Mtimes : Write(t)) \/ MoveAway \/ UNCHANGED fileVars
    PROVE  FileTypeOK'
  <1>1. CASE ReadMtime
    BY <1>1 DEF ReadMtime, FileTypeOK
  <1>2. CASE WatchFile
    <2>1. owed' \in BOOLEAN
      BY <1>2 DEF WatchFile
    <2> QED BY <1>2, <2>1 DEF WatchFile, FileTypeOK
  <1>3. CASE UnwatchFile
    <2>1. owed' \in BOOLEAN
      BY <1>3 DEF UnwatchFile
    <2> QED BY <1>3, <2>1 DEF UnwatchFile, FileTypeOK
  <1>4. CASE CheckFiles
    <2>1. modified' \in BOOLEAN
      BY <1>4 DEF CheckFiles
    <2> QED BY <1>4, <2>1 DEF CheckFiles, FileTypeOK
  <1>5. CASE SendFileModified
    <2>1. modified' \in BOOLEAN /\ owed' \in BOOLEAN
      BY <1>5 DEF SendFileModified
    <2> QED BY <1>5, <2>1 DEF SendFileModified, FileTypeOK
  <1>6. ASSUME NEW t \in Mtimes, Write(t) PROVE FileTypeOK'
    <2>1. owed' \in BOOLEAN /\ present' \in BOOLEAN
      BY <1>6 DEF Write, FileTypeOK
    <2>2. mtime' \in Mtimes /\ newest' \in Mtimes
      BY <1>6 DEF Write, FileTypeOK
    <2> QED BY <1>6, <2>1, <2>2 DEF Write, FileTypeOK
  <1>7. CASE MoveAway
    <2>1. present' \in BOOLEAN
      BY <1>7 DEF MoveAway
    <2> QED BY <1>7, <2>1 DEF MoveAway, FileTypeOK
  <1>8. CASE UNCHANGED fileVars
    BY <1>8 DEF fileVars, FileTypeOK
  <1> QED BY <1>1, <1>2, <1>3, <1>4, <1>5, <1>6, <1>7, <1>8

\* The channel stays within its capacity.
LEMMA ChannelFits ==
    ASSUME WatcherInv, Len(channel) <= ChannelSize, [WatcherNext]_watcherVars
    PROVE  (Len(channel) <= ChannelSize)'
  <1>0. channel \in Seq(Events) /\ missed \in BOOLEAN
    BY DEF WatcherInv, ValueTypeOK
  <1>1. ASSUME NEW s \in Setters, SendValueChanged(s) PROVE Len(channel') <= ChannelSize
    BY <1>0, <1>1, EventTypes, AnnounceTypes DEF SendValueChanged
  <1>2. CASE NotifyReload
    BY <1>0, <1>2, EventTypes, AnnounceTypes DEF NotifyReload
  <1>3. CASE SendFileModified
    BY <1>0, <1>3, EventTypes, AnnounceTypes DEF SendFileModified
  <1>4. CASE Receive
    BY <1>0, <1>4, ChannelHolds DEF Receive
  <1>5. CASE UNCHANGED channel
    BY <1>5
  <1> QED BY <1>1, <1>2, <1>3, <1>4, <1>5
          DEF WatcherNext, WatcherLoop, watcherVars, Set, ReadMtime, WatchFile, UnwatchFile,
              CheckFiles, Write, MoveAway

\* The watcher keeps its types.
LEMMA WatcherTyped ==
    WatcherInit /\ [][WatcherNext]_watcherVars => [](WatcherInv /\ WatcherTypeOK)
  <1>1. WatcherInit => FileTypeOK /\ Len(channel) <= ChannelSize
    <2> SUFFICES ASSUME WatcherInit PROVE FileTypeOK /\ Len(channel) <= ChannelSize
      OBVIOUS
    <2>1. mtime \in Mtimes /\ newest \in Mtimes
      BY LastMtimeType DEF WatcherInit, Mtimes
    <2>2. present \in BOOLEAN /\ modified \in BOOLEAN /\ owed \in BOOLEAN
      BY DEF WatcherInit
    <2>3. Len(channel) <= ChannelSize
      BY ChannelHolds DEF WatcherInit
    <2> QED BY <2>1, <2>2, <2>3 DEF WatcherInit, FileTypeOK
  <1>2. FileTypeOK /\ [WatcherNext]_watcherVars => FileTypeOK'
    <2> SUFFICES ASSUME FileTypeOK, [WatcherNext]_watcherVars PROVE FileTypeOK'
      OBVIOUS
    <2>1. \/ ReadMtime \/ WatchFile \/ UnwatchFile \/ CheckFiles \/ SendFileModified
          \/ (\E t \in Mtimes : Write(t)) \/ MoveAway \/ UNCHANGED fileVars
      BY DEF WatcherNext, WatcherLoop, watcherVars, fileVars, Set, SendValueChanged, NotifyReload, Receive
    <2> QED BY <2>1, FileTypes
  <1>3. WatcherInv => ValueTypeOK
    BY DEF WatcherInv
  <1>4. WatcherInv /\ Len(channel) <= ChannelSize /\ [WatcherNext]_watcherVars
          => (Len(channel) <= ChannelSize)'
    BY ChannelFits
  <1> QED BY <1>1, <1>2, <1>3, <1>4, WatcherInitInv, WatcherStepInv, WatcherTypeParts, PTL

----------------------------------------------------------------------------
(***************************************************************************)
(* The registry of the API.                                                *)
(***************************************************************************)

\* The types; and an entry is made of its three parts, none of its ages below
\* zero.
RegistryInv ==
    /\ RegistryTypeOK
    /\ \A a \in DOMAIN registry :
         registry[a] \in [backend : {from_request(Registration(a))},
                          registered_at : 0..HeartbeatTtl, last_heartbeat : 0..HeartbeatTtl]

\* The registry consists of such entries.
EntriesOf(f) ==
    /\ DOMAIN f \subseteq Agents
    /\ \A a \in DOMAIN f :
         /\ f[a] \in [backend : {from_request(Registration(a))},
                      registered_at : 0..HeartbeatTtl, last_heartbeat : 0..HeartbeatTtl]
         /\ f[a].last_heartbeat <= f[a].registered_at

\* This says the same.
LEMMA RegistryParts ==
    RegistryInv <=> EntriesOf(registry) /\ running \in SUBSET Agents /\ expired \in SUBSET Agents
  <1> DEFINE E(a) == [backend : {from_request(Registration(a))},
                      registered_at : 0..HeartbeatTtl, last_heartbeat : 0..HeartbeatTtl]
  <1>1. \A a : \A e \in E(a) : e.backend = from_request(Registration(a))
                               /\ e.registered_at \in 0..HeartbeatTtl
    OBVIOUS
  <1> QED BY <1>1 DEF RegistryInv, RegistryTypeOK, EntriesOf

\* An entry is replaced or made: an agent asks to be registered (api_server.rs:129-156).
LEMMA RegisterTypes ==
    ASSUME EntriesOf(registry), NEW a \in Agents
    PROVE  EntriesOf(register(registry, Registration(a)))
  <1> DEFINE b == from_request(Registration(a))
             e == [backend |-> b, registered_at |-> 0, last_heartbeat |-> 0]
             f == register(registry, Registration(a))
  <1>1. Registration(a).id = a
    BY DEF Registration
  <1>2. Entry(Registration(a)) = e
    BY DEF Entry
  <1>3. f = [id \in DOMAIN registry \cup {a} |-> IF id = a THEN e ELSE registry[id]]
    BY <1>1, <1>2 DEF register
  <1>4. e \in [backend : {b}, registered_at : 0..HeartbeatTtl, last_heartbeat : 0..HeartbeatTtl]
        /\ e.last_heartbeat <= e.registered_at
    BY TtlType
  <1> HIDE DEF e, f
  <1>5. DOMAIN f = DOMAIN registry \cup {a} /\ DOMAIN registry \subseteq Agents
    BY <1>3 DEF EntriesOf
  <1>6. ASSUME NEW i \in DOMAIN f
        PROVE  /\ f[i] \in [backend : {from_request(Registration(i))},
                            registered_at : 0..HeartbeatTtl, last_heartbeat : 0..HeartbeatTtl]
               /\ f[i].last_heartbeat <= f[i].registered_at
    <2>1. CASE i = a
      <3>1. f[i] = e
        BY <1>3, <1>5, <2>1
      <3> QED BY <1>4, <2>1, <3>1
    <2>2. CASE i # a
      <3>1. i \in DOMAIN registry /\ f[i] = registry[i]
        BY <1>3, <1>5, <2>2
      <3> QED BY <3>1 DEF EntriesOf
    <2> QED BY <2>1, <2>2
  <1>7. EntriesOf(f)
    BY <1>5, <1>6 DEF EntriesOf
  <1> QED BY <1>7 DEF f

\* A heartbeat makes the entry young again (api_server.rs:158-168).
LEMMA HeartbeatTypes ==
    ASSUME EntriesOf(registry), NEW a \in Agents
    PROVE  EntriesOf(heartbeat(registry, a).backends)
  <1> DEFINE f == heartbeat(registry, a).backends
  <1>1. f = [i \in DOMAIN registry |->
               IF i = a THEN [registry[i] EXCEPT !.last_heartbeat = 0] ELSE registry[i]]
    BY DEF heartbeat
  <1> HIDE DEF f
  <1>2. DOMAIN f = DOMAIN registry
    BY <1>1
  <1>3. ASSUME NEW i \in DOMAIN registry
        PROVE  /\ f[i] \in [backend : {from_request(Registration(i))},
                            registered_at : 0..HeartbeatTtl, last_heartbeat : 0..HeartbeatTtl]
               /\ f[i].last_heartbeat <= f[i].registered_at
    <2>1. /\ registry[i] \in [backend : {from_request(Registration(i))},
                              registered_at : 0..HeartbeatTtl, last_heartbeat : 0..HeartbeatTtl]
          /\ registry[i].last_heartbeat <= registry[i].registered_at
      BY DEF EntriesOf
    <2>2. f[i] = registry[i] \/ f[i] = [registry[i] EXCEPT !.last_heartbeat = 0]
      BY <1>1
    <2> QED BY <2>1, <2>2, TtlType
  <1> QED BY <1>2, <1>3 DEF EntriesOf, f

\* Entries are taken out (api_server.rs:170-208).
LEMMA WithoutTypes ==
    ASSUME EntriesOf(registry), NEW S
    PROVE  EntriesOf(Without(registry, S))
BY DEF EntriesOf, Without

\* Time passes: both ages grow, up to the limit, and keep their order.
LEMMA AgedTypes ==
    ASSUME EntriesOf(registry)
    PROVE  EntriesOf(Aged(registry, HeartbeatTtl))
  <1> DEFINE f == Aged(registry, HeartbeatTtl)
             Old(i) == [registry[i] EXCEPT !.registered_at = OneMore(@, HeartbeatTtl),
                                           !.last_heartbeat = OneMore(@, HeartbeatTtl)]
  <1>1. DOMAIN f = DOMAIN registry /\ \A i \in DOMAIN registry : f[i] = Old(i)
    BY DEF Aged
  <1> HIDE DEF f
  <1>2. ASSUME NEW i \in DOMAIN registry
        PROVE  /\ f[i] \in [backend : {from_request(Registration(i))},
                            registered_at : 0..HeartbeatTtl, last_heartbeat : 0..HeartbeatTtl]
               /\ f[i].last_heartbeat <= f[i].registered_at
    <2>1. /\ registry[i] \in [backend : {from_request(Registration(i))},
                              registered_at : 0..HeartbeatTtl, last_heartbeat : 0..HeartbeatTtl]
          /\ registry[i].last_heartbeat <= registry[i].registered_at
      BY DEF EntriesOf
    <2>2. \A n \in 0..HeartbeatTtl : OneMore(n, HeartbeatTtl) \in 0..HeartbeatTtl
      BY TtlType DEF OneMore
    <2>3. \A m, n \in 0..HeartbeatTtl : m <= n => OneMore(m, HeartbeatTtl) <= OneMore(n, HeartbeatTtl)
      BY TtlType DEF OneMore
    <2>4. f[i] = Old(i)
      BY <1>1
    <2>5. /\ Old(i) \in [backend : {from_request(Registration(i))},
                         registered_at : 0..HeartbeatTtl, last_heartbeat : 0..HeartbeatTtl]
          /\ Old(i).last_heartbeat = OneMore(registry[i].last_heartbeat, HeartbeatTtl)
          /\ Old(i).registered_at = OneMore(registry[i].registered_at, HeartbeatTtl)
      BY <2>1, <2>2
    <2>6. registry[i].last_heartbeat \in 0..HeartbeatTtl /\ registry[i].registered_at \in 0..HeartbeatTtl
      BY <2>1
    <2> HIDE DEF Old
    <2> QED BY <2>1, <2>3, <2>4, <2>5, <2>6
  <1> QED BY <1>1, <1>2 DEF EntriesOf, f

\* Every handler and every step of the cleanup keeps the types.
LEMMA RegistryStepInv == RegistryInv /\ [RegistryNext]_registryVars => RegistryInv'
  <1> SUFFICES ASSUME RegistryInv, [RegistryNext]_registryVars PROVE RegistryInv'
    OBVIOUS
  <1>0. EntriesOf(registry) /\ running \in SUBSET Agents /\ expired \in SUBSET Agents
    BY RegistryParts
  <1>1. SUFFICES EntriesOf(registry') /\ running' \in SUBSET Agents /\ expired' \in SUBSET Agents
    <2>1. (EntriesOf(registry) /\ running \in SUBSET Agents /\ expired \in SUBSET Agents)' => RegistryInv'
      BY RegistryParts, PTL
    <2> QED BY <2>1
  <1>2. ASSUME NEW a \in Agents, Register(a)
        PROVE  EntriesOf(registry') /\ running' \in SUBSET Agents /\ expired' \in SUBSET Agents
    <2>1. registry' = register(registry, Registration(a))
      BY <1>2 DEF Register, register_handler, Reply
    <2> QED BY <1>0, <1>2, <2>1, RegisterTypes DEF Register
  <1>3. ASSUME NEW a \in Agents, Heartbeat(a)
        PROVE  EntriesOf(registry') /\ running' \in SUBSET Agents /\ expired' \in SUBSET Agents
    <2>1. registry' = heartbeat(registry, a).backends
      BY <1>3 DEF Heartbeat, heartbeat_handler, Reply
    <2> QED BY <1>0, <1>3, <2>1, HeartbeatTypes DEF Heartbeat
  <1>4. ASSUME NEW a \in Agents, Deregister(a)
        PROVE  EntriesOf(registry') /\ running' \in SUBSET Agents /\ expired' \in SUBSET Agents
    <2>1. registry' = Without(registry, {a})
      BY <1>4 DEF Deregister, deregister_handler, deregister, Reply
    <2> QED BY <1>0, <1>4, <2>1, WithoutTypes DEF Deregister
  <1>5. ASSUME NEW a \in Agents, Remove(a)
        PROVE  EntriesOf(registry') /\ running' \in SUBSET Agents /\ expired' \in SUBSET Agents
    BY <1>0, <1>5, WithoutTypes DEF Remove
  <1>6. ASSUME NEW a \in Agents, Come(a) \/ Go(a)
        PROVE  EntriesOf(registry') /\ running' \in SUBSET Agents /\ expired' \in SUBSET Agents
    BY <1>0, <1>6 DEF Come, Go
  <1>7. CASE Scan
    BY <1>0, <1>7 DEF Scan, Expired, EntriesOf
  <1>8. CASE RegistryTick
    BY <1>0, <1>8, AgedTypes DEF RegistryTick
  <1>9. CASE UNCHANGED registryVars
    BY <1>0, <1>9 DEF registryVars
  <1> QED BY <1>2, <1>3, <1>4, <1>5, <1>6, <1>7, <1>8, <1>9 DEF RegistryNext

\* At first the registry is empty.
LEMMA RegistryInitInv == RegistryInit => RegistryInv
  <1> SUFFICES ASSUME RegistryInit PROVE RegistryInv
    OBVIOUS
  <1>1. DOMAIN registry = {}
    BY DEF RegistryInit, EmptyRegistry
  <1> QED BY <1>1, RegistryParts DEF RegistryInit, EntriesOf

----------------------------------------------------------------------------
(***************************************************************************)
(* The start of the program.  Besides the types the invariant says why     *)
(* main has returned.                                                      *)
(***************************************************************************)

\* main returns for one of three reasons, each of its own making: replication
\* settings that are no addresses or names, the certificate of TLS, the listener
\* of the proxy itself (main.rs:67-205).
MainHasCause ==
    stage = "over" =>
      \/ why = "config" /\ cfg.replication /\ ~(cfg.addresses /\ Validate(cfg))
      \/ why = "certificate" /\ cfg.tls
      \/ why = "listener"

\* The way to the agent is taken only with replication enabled.
StartInv ==
    /\ StartTypeOK /\ MainHasCause
    /\ stage = "replication" => cfg.replication

\* What the environment says stays, so that a step which leaves main where it
\* is leaves it its cause.
LEMMA StartElsewhere ==
    ASSUME StartInv, UNCHANGED <<env, stage, why>>, StartTypeOK'
    PROVE  StartInv'
BY DEF StartInv, MainHasCause, cfg, Config, Validate

\* The same for a step of main that does not end it.
LEMMA MainGoesOn ==
    ASSUME StartInv, UNCHANGED env, StartTypeOK', stage' # "over",
           stage' = "replication" => cfg.replication
    PROVE  StartInv'
BY DEF StartInv, MainHasCause, cfg, Config, Validate

\* The steps of main (main.rs:67-205).
LEMMA MainInv ==
    ASSUME StartInv, MainStep \/ BadCertificate \/ ListenerFails
    PROVE  StartInv'
  <1>1. CASE Storage
    <2>1. StartTypeOK'
      BY <1>1 DEF Storage, StartInv, StartTypeOK
    <2>2. stage' = (IF cfg.replication THEN "replication" ELSE "geo") /\ env' = env
      BY <1>1 DEF Storage
    <2> QED BY <2>1, <2>2, MainGoesOn
  <1>2. CASE MakeAgent
    <2>1. StartTypeOK' /\ UNCHANGED env /\ cfg.replication
      BY <1>2 DEF MakeAgent, MainReturns, StartInv, StartTypeOK
    <2>2. CASE cfg.addresses /\ Validate(cfg)
      <3>1. stage' = "agent"
        BY <1>2, <2>2 DEF MakeAgent
      <3> QED BY <2>1, <3>1, MainGoesOn
    <2>3. CASE ~(cfg.addresses /\ Validate(cfg))
      <3>1. stage' = "over" /\ why' = "config"
        BY <1>2, <2>3 DEF MakeAgent, MainReturns
      <3>2. cfg' = cfg
        BY <2>1 DEF cfg
      <3>3. MainHasCause'
        BY <2>1, <2>3, <3>1, <3>2 DEF MainHasCause, Validate
      <3> QED BY <2>1, <3>1, <3>3 DEF StartInv
    <2> QED BY <2>2, <2>3
  <1>3. CASE AgentReturned \/ LoadGeo \/ Listen
    <2>1. StartTypeOK' /\ UNCHANGED env /\ stage' \in {"geo", "api", "serving"}
      BY <1>3 DEF AgentReturned, LoadGeo, Listen, StartInv, StartTypeOK
    <2> QED BY <2>1, MainGoesOn
  <1>4. ASSUME NEW o \in Optional, Spawn(o) PROVE StartInv'
    <2>1. stage' \in {"dns", "tls", "tcp"}
      BY <1>4 DEF Spawn, Optional, Follows
    <2>2. listener' \in [Optional -> {"none", "binding", "serving", "over"}]
      BY <1>4 DEF Spawn, StartInv, StartTypeOK
    <2>3. StartTypeOK' /\ UNCHANGED env
      BY <1>4, <2>1, <2>2 DEF Spawn, StartInv, StartTypeOK
    <2> QED BY <2>1, <2>3, MainGoesOn
  <1>5. CASE BadCertificate
    <2>1. StartTypeOK' /\ UNCHANGED env /\ stage' = "over" /\ why' = "certificate" /\ cfg.tls
      BY <1>5 DEF BadCertificate, MainReturns, StartInv, StartTypeOK
    <2>2. cfg' = cfg
      BY <2>1 DEF cfg
    <2>3. MainHasCause'
      BY <2>1, <2>2 DEF MainHasCause
    <2> QED BY <2>1, <2>3 DEF StartInv
  <1>6. CASE ListenerFails
    <2>1. StartTypeOK' /\ stage' = "over" /\ why' = "listener"
      BY <1>6 DEF ListenerFails, MainReturns, StartInv, StartTypeOK
    <2> QED BY <2>1 DEF StartInv, MainHasCause
  <1> QED BY <1>1, <1>2, <1>3, <1>4, <1>5, <1>6 DEF MainStep

\* The other tasks: the optional servers and the agent (agent.rs:91-220).
LEMMA TasksInv ==
    ASSUME StartInv,
           \/ \E o \in Optional : Bind(o) \/ ServerFails(o)
           \/ StartStep \/ StartFails
           \/ Build \/ CallStart \/ CallStop \/ StopGossip \/ StopTransport
           \/ \E l \in AgentLoops : LoopStep(l)
           \/ EndTurn("accept") \/ Emits
    PROVE  StartInv'
  <1> SUFFICES StartTypeOK' /\ UNCHANGED <<env, stage, why>>
    BY StartElsewhere
  <1>1. ASSUME NEW o \in Optional, Bind(o) \/ ServerFails(o)
        PROVE  StartTypeOK' /\ UNCHANGED <<env, stage, why>>
    <2>1. listener' \in [Optional -> {"none", "binding", "serving", "over"}]
      BY <1>1 DEF Bind, ServerFails, StartInv, StartTypeOK
    <2>2. UNCHANGED <<env, stage, agentAt, bound, loopAt, stopAt, emitted, why>>
      BY <1>1 DEF Bind, ServerFails
    <2> QED BY <2>1, <2>2 DEF StartInv, StartTypeOK
  <1>2. CASE InitDb \/ StartFails \/ Build \/ CallStart
    BY <1>2 DEF InitDb, StartFails, Build, CallStart, StartInv, StartTypeOK
  <1>3. CASE StartTransport \/ StartGossip
    <2>1. loopAt' \in [AgentLoops -> {"none", "head", "turn", "stuck", "over"}]
      BY <1>3 DEF StartTransport, StartGossip, StartInv, StartTypeOK
    <2> QED BY <1>3, <2>1 DEF StartTransport, StartGossip, StartInv, StartTypeOK
  <1>4. CASE StartLoops
    <2>1. loopAt' \in [AgentLoops -> {"none", "head", "turn", "stuck", "over"}]
      BY <1>4 DEF StartLoops, StartInv, StartTypeOK
    <2> QED BY <1>4, <2>1 DEF StartLoops, StartInv, StartTypeOK
  <1>5. CASE CallStop \/ StopGossip \/ StopTransport
    BY <1>5 DEF CallStop, StopGossip, StopTransport, StartInv, StartTypeOK
  <1>6. ASSUME NEW l \in AgentLoops, LoopHead(l) \/ EndTurn(l)
        PROVE  StartTypeOK' /\ UNCHANGED <<env, stage, why>>
    <2>1. loopAt' \in [AgentLoops -> {"none", "head", "turn", "stuck", "over"}]
      BY <1>6 DEF LoopHead, EndTurn, StartInv, StartTypeOK
    <2>2. UNCHANGED <<env, stage, listener, agentAt, bound, stopAt, emitted, why>>
      BY <1>6 DEF LoopHead, EndTurn
    <2> QED BY <2>1, <2>2 DEF StartInv, StartTypeOK
  <1>7. CASE Emits
    <2>1. loopAt' \in [AgentLoops -> {"none", "head", "turn", "stuck", "over"}]
      BY <1>7 DEF Emits, StartInv, StartTypeOK
    <2>2. emitted' \in 0..GossipRoom
      <3>1. emitted \in 0..GossipRoom
        BY DEF StartInv, StartTypeOK
      <3>2. emitted' = emitted \/ (emitted < GossipRoom /\ emitted' = emitted + 1)
        BY <1>7 DEF Emits
      <3> QED BY <3>1, <3>2, StartupConstants
    <2> QED BY <1>7, <2>1, <2>2 DEF Emits, StartInv, StartTypeOK
  <1>8. "accept" \in AgentLoops
    BY DEF AgentLoops
  <1> QED BY <1>1, <1>2, <1>3, <1>4, <1>5, <1>6, <1>7, <1>8 DEF StartStep, LoopStep

\* Every step keeps the invariant, and so does a restart.
LEMMA StartStepInv == StartInv /\ [StartNext]_startVars => StartInv'
  <1> SUFFICES ASSUME StartInv, [StartNext]_startVars PROVE StartInv'
    OBVIOUS
  <1>1. CASE StartAgain
    <2>1. listener' \in [Optional -> {"none", "binding", "serving", "over"}]
      BY <1>1 DEF StartAgain
    <2>2. loopAt' \in [AgentLoops -> {"none", "head", "turn", "stuck", "over"}]
      BY <1>1 DEF StartAgain
    <2>3. emitted' \in 0..GossipRoom
      <3>1. emitted' = 0
        BY <1>1 DEF StartAgain
      <3>2. 0 \in 0..GossipRoom
        BY StartupConstants
      <3> QED BY <3>1, <3>2
    <2>4. StartTypeOK' /\ stage' = "storage"
      BY <1>1, <2>1, <2>2, <2>3 DEF StartAgain, StartInv, StartTypeOK
    <2> QED BY <2>4 DEF StartInv, MainHasCause
  <1>2. CASE UNCHANGED startVars
    <2>1. UNCHANGED <<env, stage, listener, agentAt, bound, loopAt, stopAt, emitted, why>>
      BY <1>2 DEF startVars
    <2>2. StartTypeOK'
      BY <2>1 DEF StartInv, StartTypeOK
    <2> QED BY <2>1, <2>2, StartElsewhere
  <1> QED BY <1>1, <1>2, MainInv, TasksInv DEF StartNext

\* At first nothing has been started.
LEMMA StartInitInv == StartInit => StartInv
  <1> SUFFICES ASSUME StartInit PROVE StartInv
    OBVIOUS
  <1>1. StartTypeOK
    <2>1. listener \in [Optional -> {"none", "binding", "serving", "over"}]
      BY DEF StartInit
    <2>2. loopAt \in [AgentLoops -> {"none", "head", "turn", "stuck", "over"}]
      BY DEF StartInit
    <2>3. emitted \in 0..GossipRoom
      <3>1. emitted = 0
        BY DEF StartInit
      <3>2. 0 \in 0..GossipRoom
        BY StartupConstants
      <3> QED BY <3>1, <3>2
    <2> QED BY <2>1, <2>2, <2>3 DEF StartInit, StartTypeOK
  <1>2. stage \in {"storage", "caller"}
    BY DEF StartInit
  <1> QED BY <1>1, <1>2 DEF StartInv, MainHasCause

\* main never returns because of the replication agent, the resolver or an
\* optional server, in whatever order their tasks fail (main.rs:67-205): the
\* part of OptionalPartsAreOptional that is a matter of safety.
THEOREM MainReturnsForCause == StartSpec => []MainHasCause
  <1>1. StartInv => MainHasCause
    BY DEF StartInv
  <1> QED BY <1>1, StartInitInv, StartStepInv, PTL DEF StartSpec

----------------------------------------------------------------------------
(***************************************************************************)
(* The composition of Infrastructure.  One part runs and the others rest,  *)
(* so that a step is one of a part, or leaves the part alone; what is      *)
(* proved of the parts then holds of the whole.                            *)
(***************************************************************************)

\* Every behaviour of the composition is one of each part, but for fairness,
\* which the part that runs has.
THEOREM InfraAreParts ==
    InfraSpec => /\ LimiterInit /\ [][LimiterNext]_limVars
                 /\ BreakerInit /\ [][BreakerNext]_breakerVars
                 /\ HealthInit /\ [][HealthNext]_healthVars
                 /\ RegistryInit /\ [][RegistryNext]_registryVars
                 /\ ShutInit /\ [][ShutNext]_shutVars
                 /\ WatcherInit /\ [][WatcherNext]_watcherVars
                 /\ StartInit /\ [][StartNext]_startVars
  <1> USE DEF InfraNext, infraVars, LimiterRuns, BreakerRuns, HealthRuns, RegistryRuns,
              ShutdownRuns, WatcherRuns, StartupRuns
  <1>1. InfraInit => /\ LimiterInit /\ BreakerInit /\ HealthInit /\ RegistryInit
                     /\ ShutInit /\ WatcherInit /\ StartInit
    BY DEF InfraInit
  <1>2. [InfraNext]_infraVars => [LimiterNext]_limVars
    OBVIOUS
  <1>3. [InfraNext]_infraVars => [BreakerNext]_breakerVars
    OBVIOUS
  <1>4. [InfraNext]_infraVars => [HealthNext]_healthVars
    OBVIOUS
  <1>5. [InfraNext]_infraVars => [RegistryNext]_registryVars
    OBVIOUS
  <1>6. [InfraNext]_infraVars => [ShutNext]_shutVars
    OBVIOUS
  <1>7. [InfraNext]_infraVars => [WatcherNext]_watcherVars
    OBVIOUS
  <1>8. [InfraNext]_infraVars => [StartNext]_startVars
    OBVIOUS
  <1> HIDE DEF InfraNext, infraVars
  <1> QED BY <1>1, <1>2, <1>3, <1>4, <1>5, <1>6, <1>7, <1>8, PTL DEF InfraSpec

\* What a breaker's call has to store is among what may be stored.
LEMMA BreakerTypes == BreakerInv => BreakerTypeOK
  <1>1. Entries \subseteq Stores
    <2>1. 0..Oldest \subseteq Nat
      BY OldestType
    <2> QED BY <2>1 DEF Entries, Stores, Times
  <1>2. \A q \in Seq(Entries) : q \in Seq(Stores)
    <2> HIDE DEF Entries, Stores
    <2> QED BY <1>1
  <1> QED BY <1>2 DEF BreakerInv, BreakerTypeOK, Circuits, Places

\* The types of all parts, with the capacity of the watcher's channel, the
\* ages of the registry and the room for gossip events, for every value of the
\* constants (rate_limiter.rs, circuit_breaker.rs, health_checker.rs,
\* api_server.rs, shutdown.rs, config_watcher.rs, main.rs, agent.rs).
THEOREM InfraTyped == InfraSpec => []InfraTypeOK
  <1>1. BreakerInv /\ [BreakerNext]_breakerVars => BreakerInv'
    BY BreakerStep
  <1>2. HealthInv /\ [HealthNext]_healthVars => HealthInv'
    BY StepKeepsHealth
  <1>3. /\ LimiterInv => LimiterTypeOK
        /\ HealthInv => HealthTypeOK
        /\ RegistryInv => RegistryTypeOK
        /\ ShutInv => ShutTypeOK
        /\ StartInv => StartTypeOK
    BY DEF LimiterInv, HealthInv, RegistryInv, ShutInv, StartInv
  <1>4. LimiterTypeOK /\ BreakerTypeOK /\ HealthTypeOK /\ RegistryTypeOK
          /\ ShutTypeOK /\ WatcherTypeOK /\ StartTypeOK => InfraTypeOK
    BY DEF InfraTypeOK
  <1> QED BY <1>1, <1>2, <1>3, <1>4, InfraAreParts, LimiterInitInv, LimiterStepInv, BreakerInitInv,
             BreakerTypes, HealthInitInv, RegistryInitInv, RegistryStepInv, ShutInitInv, ShutStepInv,
             WatcherTyped, StartInitInv, StartStepInv, PTL

\* What the run checks of the composition, but for liveness, holds for every
\* value of the constants: the rate of the limiter, the counting of the breaker
\* with a threshold above one, the cause of a change of health, the report of
\* a drain and the sum of a subscriber.
THEOREM InfraSafe ==
    InfraSpec => /\ []RateBounded
                 /\ FailureThreshold > 1 => []FullCountTrips
                 /\ ChangeHasCause
                 /\ []DrainIsReal
                 /\ []EventsAddUp
  <1>1. FailureThreshold > 1 => (BreakerInit /\ [][BreakerNext]_breakerVars => []FullCountTrips)
    BY BreakerSafe
  <1>2. LimiterInit /\ [][LimiterNext]_limVars => []RateBounded
    BY LimiterInitInv, LimiterStepInv, CreditBounds, PTL
  <1>3. ShutInit /\ [][ShutNext]_shutVars => []DrainIsReal
    BY DrainsAreReal, PTL DEF ShutSpec
  <1> QED BY <1>1, <1>2, <1>3, InfraAreParts, HealthSafe, WatcherSafe, PTL
=============================================================================
