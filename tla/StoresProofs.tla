--------------------------- MODULE StoresProofs -----------------------------
(***************************************************************************)
(* Proofs about the parts that serve the proxy and the replication from    *)
(* the side: the load balancer, the connection pool, the backend           *)
(* repositories and the transport between nodes, for every list of         *)
(* backends, limit, number of borrowers and network. They share no state,  *)
(* so each part has an invariant of its own and stands alone; at the end   *)
(* their composition is shown to behave as each of them.                   *)
(***************************************************************************)
EXTENDS Stores, MetricsProofs, SequenceTheorems

----------------------------------------------------------------------------
(***************************************************************************)
(* Lists. What retain leaves of a list, by the smallest place at which it  *)
(* would not hold.                                                         *)
(***************************************************************************)

\* Numbers below a bound have a least one.
LEMMA Least ==
    ASSUME NEW n \in Nat, NEW B \in SUBSET (0..n), B # {}
    PROVE  \E m \in B : \A k \in B : m <= k
  <1> DEFINE I == {0..m : m \in B}
             R == 0..n
  <1>1. I \in SUBSET (SUBSET R)
    <2>1. \A m \in B : 0..m \in SUBSET R
      OBVIOUS
    <2> HIDE DEF R
    <2> QED BY <2>1
  <1>2. I # {}
    <2>1. PICK m \in B : TRUE
      OBVIOUS
    <2>2. 0..m \in I
      OBVIOUS
    <2> QED BY <2>2
  <1>3. PICK T \in I : \A U \in I : U \subseteq T => U = T
    <2>1. IsFiniteSet(R)
      BY FS_Interval
    <2> HIDE DEF I, R
    <2> QED BY <1>1, <1>2, <2>1, Smallest
  <1>4. PICK m \in B : T = 0..m
    OBVIOUS
  <1>5. \A k \in B : m <= k
    <2> SUFFICES ASSUME NEW k \in B, k < m PROVE FALSE
      OBVIOUS
    <2>1. 0..k \in I /\ 0..k \subseteq T
      BY <1>4
    <2>2. 0..k = 0..m
      BY <1>3, <1>4, <2>1
    <2>3. m \in 0..m
      OBVIOUS
    <2> QED BY <2>2, <2>3
  <1> QED BY <1>5

\* The function that Retained is defined by, up to place m.
Keeps(f, s, T, m) ==
    f = [i \in 0..m |-> IF i = 0 THEN <<>>
                        ELSE IF s[i] \in T THEN Append(f[i - 1], s[i]) ELSE f[i - 1]]

\* Its value at a place.
LEMMA KeepsAt ==
    ASSUME NEW f, NEW s, NEW T, NEW m, Keeps(f, s, T, m), NEW i \in 0..m
    PROVE  f[i] = IF i = 0 THEN <<>>
                  ELSE IF s[i] \in T THEN Append(f[i - 1], s[i]) ELSE f[i - 1]
BY DEF Keeps

\* There is such a function.
LEMMA KeepsExists ==
    ASSUME NEW S, NEW s \in Seq(S), NEW T
    PROVE  \E f : Keeps(f, s, T, Len(s))
  <1> DEFINE n == Len(s)
             B == {m \in 0..n : ~ \E f : Keeps(f, s, T, m)}
  <1>1. n \in Nat
    OBVIOUS
  <1> SUFFICES ASSUME B # {} PROVE FALSE
    <2>1. n \in 0..n
      BY <1>1
    <2> HIDE DEF n
    <2>2. n \notin B => \E f : Keeps(f, s, T, n)
      BY <2>1
    <2> QED BY <2>2 DEF n
  <1>2. PICK m \in B : \A k \in B : m <= k
    <2> HIDE DEF n
    <2>1. B \in SUBSET (0..n)
      OBVIOUS
    <2> HIDE DEF B
    <2> QED BY <1>1, <2>1, Least
  <1>3. m # 0
    <2> SUFFICES ASSUME m = 0 PROVE FALSE
      OBVIOUS
    <2> DEFINE z == [i \in 0..0 |-> <<>>]
    <2>1. Keeps(z, s, T, 0)
      BY DEF Keeps
    <2> QED BY <2>1
  <1>4. m \in 1..n /\ m - 1 \in 0..n /\ ~ (m - 1 \in B)
    BY <1>1, <1>2, <1>3
  <1>5. PICK f : Keeps(f, s, T, m - 1)
    BY <1>4
  <1> DEFINE g == [i \in 0..m |-> IF i = 0 THEN <<>>
                                  ELSE IF s[i] \in T THEN Append(f[i - 1], s[i]) ELSE f[i - 1]]
  <1>6. \A i \in 0..(m - 1) : g[i] = f[i]
    <2> SUFFICES ASSUME NEW i \in 0..(m - 1) PROVE g[i] = f[i]
      OBVIOUS
    <2>1. f[i] = IF i = 0 THEN <<>> ELSE IF s[i] \in T THEN Append(f[i - 1], s[i]) ELSE f[i - 1]
      BY <1>5, KeepsAt
    <2>2. i \in 0..m
      BY <1>4
    <2> QED BY <2>1, <2>2
  <1>7. Keeps(g, s, T, m)
    <2>1. \A i \in 0..m : i # 0 => i - 1 \in 0..(m - 1)
      BY <1>4
    <2>2. \A i \in 0..m : i # 0 => g[i - 1] = f[i - 1]
      BY <1>6, <2>1
    <2>3. g = [i \in 0..m |-> IF i = 0 THEN <<>>
                              ELSE IF s[i] \in T THEN Append(g[i - 1], s[i]) ELSE g[i - 1]]
      BY <2>2
    <2> QED BY <2>3 DEF Keeps
  <1> QED BY <1>7

\* What is retained is a list of elements of s, no longer than s, and all in T.
LEMMA RetainedType ==
    ASSUME NEW S, NEW s \in Seq(S), NEW T
    PROVE  /\ Retained(s, T) \in Seq(S) /\ Len(Retained(s, T)) <= Len(s)
           /\ \A i \in 1..Len(Retained(s, T)) : Retained(s, T)[i] \in T
  <1> DEFINE n == Len(s)
             kept == CHOOSE f : Keeps(f, s, T, n)
             Good(q, m) == q \in Seq(S) /\ Len(q) <= m /\ \A i \in 1..Len(q) : q[i] \in T
             B == {m \in 0..n : ~ Good(kept[m], m)}
  <1>1. Keeps(kept, s, T, n)
    BY KeepsExists
  <1>2. Retained(s, T) = kept[n]
    BY DEF Retained, Keeps
  <1> HIDE DEF kept
  <1>3. n \in Nat /\ \A i \in 1..n : s[i] \in S
    OBVIOUS
  <1>4. B = {}
    <2> SUFFICES ASSUME B # {} PROVE FALSE
      OBVIOUS
    <2>1. PICK m \in B : \A k \in B : m <= k
      <3> HIDE DEF n
      <3>1. B \in SUBSET (0..n)
        OBVIOUS
      <3> HIDE DEF B
      <3> QED BY <1>3, <3>1, Least
    <2> HIDE DEF n
    <2>2. m # 0
      BY <1>1, <1>3, <2>1 DEF Keeps
    <2>3. m \in 1..n /\ m - 1 \in 0..n /\ ~ (m - 1 \in B)
      BY <1>3, <2>1, <2>2
    <2> DEFINE q == kept[m - 1]
    <2>4. Good(q, m - 1)
      BY <2>3
    <2>5. kept[m] = IF s[m] \in T THEN Append(q, s[m]) ELSE q
      BY <1>1, <2>3, KeepsAt
    <2>6. s[m] \in S
      BY <1>3, <2>3
    <2> HIDE DEF q
    <2>7. Good(kept[m], m)
      BY <2>3, <2>4, <2>5, <2>6
    <2> QED BY <2>7
  <1>5. Good(kept[n], n)
    BY <1>3, <1>4
  <1> QED BY <1>2, <1>5

----------------------------------------------------------------------------
(***************************************************************************)
(* The load balancer. The loop of pick_backend keeps the first minimum of  *)
(* the backends it has passed; that it stays the first minimum needs the   *)
(* order of scores, which are fractions compared by cross-multiplication,  *)
(* to be transitive.                                                       *)
(***************************************************************************)

\* a/b < c/d <= e/f and a/b <= c/d < e/f give a/b < e/f; a/b >= c/d >= e/f
\* gives a/b >= e/f.
LEMMA FractionsOrdered ==
    ASSUME NEW a \in Nat, NEW b \in Nat \ {0}, NEW c \in Nat, NEW d \in Nat \ {0},
           NEW e \in Nat, NEW f \in Nat \ {0}
    PROVE  /\ a * d < c * b /\ ~(e * d < c * f) => a * f < e * b
           /\ ~(c * b < a * d) /\ c * f < e * d => a * f < e * b
           /\ ~(a * d < c * b) /\ ~(c * f < e * d) => ~(a * f < e * b)
OBVIOUS

\* A limit or weight of zero is read as one, so a score never divides by zero
\* (load_balancer.rs:73-81).
LEMMA ScoreTypes ==
    ASSUME NEW b \in Profiles, NEW cur \in Nat, NEW g
    PROVE  /\ ScoreDen(b) \in Nat \ {0}
           /\ GeoScore(b, g) \in 0..3
           /\ ScoreNum(b, cur, g) \in Nat
  <1>1. Soft(b) \in Nat \ {0} /\ Weight(b) \in Nat \ {0}
    BY ProfilesType DEF Soft, Weight
  <1>2. ScoreDen(b) \in Nat \ {0}
    BY <1>1 DEF ScoreDen
  <1>3. GeoScore(b, g) \in 0..3
    BY DEF GeoScore
  <1>4. ScoreNum(b, cur, g) \in Nat
    BY <1>2, <1>3 DEF ScoreNum
  <1> QED BY <1>2, <1>3, <1>4

\* The comparison of scores is a strict weak order.
LEMMA ScoresOrdered ==
    ASSUME NEW b1 \in Profiles, NEW b2 \in Profiles, NEW b3 \in Profiles,
           NEW c1 \in Nat, NEW c2 \in Nat, NEW c3 \in Nat, NEW g
    PROVE  /\ ScoreLess(b1, c1, b2, c2, g) /\ ~ScoreLess(b3, c3, b2, c2, g)
                => ScoreLess(b1, c1, b3, c3, g)
           /\ ScoreLess(b1, c1, b2, c2, g) => ~ScoreLess(b2, c2, b1, c1, g)
           /\ ~ScoreLess(b1, c1, b1, c1, g)
  <1> DEFINE N1 == ScoreNum(b1, c1, g)
             N2 == ScoreNum(b2, c2, g)
             N3 == ScoreNum(b3, c3, g)
             D1 == ScoreDen(b1)
             D2 == ScoreDen(b2)
             D3 == ScoreDen(b3)
  <1>1. /\ N1 \in Nat /\ N2 \in Nat /\ N3 \in Nat
        /\ D1 \in Nat \ {0} /\ D2 \in Nat \ {0} /\ D3 \in Nat \ {0}
    BY ScoreTypes
  <1> HIDE DEF N1, N2, N3, D1, D2, D3
  <1>2. N1 * D2 < N2 * D1 /\ ~(N3 * D2 < N2 * D3) => N1 * D3 < N3 * D1
    BY <1>1, FractionsOrdered
  <1>3. N1 * D2 < N2 * D1 => ~(N2 * D1 < N1 * D2)
    BY <1>1
  <1>4. ~(N1 * D1 < N1 * D1)
    BY <1>1
  <1> QED BY <1>2, <1>3, <1>4 DEF ScoreLess, N1, N2, N3, D1, D2, D3

\* A higher count never makes a backend score lower.
LEMMA LoadRaisesScore ==
    ASSUME NEW b \in Profiles, NEW o \in Profiles, NEW cur \in Nat, NEW c \in Nat, NEW g
    PROVE  /\ ScoreLess(b, cur + 1, o, c, g) => ScoreLess(b, cur, o, c, g)
           /\ ScoreLess(o, c, b, cur, g) => ScoreLess(o, c, b, cur + 1, g)
  <1> DEFINE N == ScoreNum(b, cur, g)
             M == ScoreNum(b, cur + 1, g)
             O == ScoreNum(o, c, g)
             D == ScoreDen(b)
             E == ScoreDen(o)
  <1>1. D \in Nat \ {0} /\ E \in Nat \ {0} /\ N \in Nat /\ M \in Nat /\ O \in Nat
    BY ScoreTypes
  <1>2. M = N + 1
    BY ScoreTypes DEF ScoreNum
  <1> HIDE DEF N, M, O, D, E
  <1>3. N * E <= M * E /\ N * E \in Nat /\ M * E \in Nat /\ O * D \in Nat
    BY <1>1, <1>2
  <1> QED BY <1>3 DEF ScoreLess, N, M, O, D, E

----------------------------------------------------------------------------
(* The loop *)

\* What is kept after `turn - 1' turns of the loop (load_balancer.rs:63-98).
BalancerInv ==
    /\ BalancerTypeOK
    /\ turn > 0 => FirstMinimum(count, turn - 1)

\* The types of the arguments, place by place.
LEMMA ArgumentTypes ==
    ASSUME BalancerInv
    PROVE  /\ info \in [Ids -> Profiles] /\ count \in [Ids -> Nat]
           /\ list \in Seq(Ids) /\ Len(list) \in Nat
           /\ turn \in 0..(Len(list) + 1) /\ turn \in Nat
           /\ \A n \in 1..Len(list) : /\ list[n] \in Ids /\ info[list[n]] \in Profiles
                                      /\ count[list[n]] \in Nat
  <1>1. /\ info \in [Ids -> Profiles] /\ count \in [Ids -> Counts] /\ list \in Lists
        /\ turn \in 0..(Len(list) + 1)
    BY DEF BalancerInv, BalancerTypeOK
  <1>2. list \in Seq(Ids)
    BY <1>1, ListsType
  <1>3. Len(list) \in Nat /\ \A n \in 1..Len(list) : list[n] \in Ids
    BY <1>2
  <1>4. \A i \in Ids : count[i] \in Nat
    BY <1>1, CountsType
  <1>5. count \in [Ids -> Nat]
    BY <1>1, <1>4
  <1>6. turn \in Nat
    BY <1>1, <1>3
  <1> QED BY <1>1, <1>2, <1>3, <1>4, <1>5, <1>6

\* One turn: a backend that is not eligible changes nothing, the first
\* eligible one is kept, and a later one replaces it only if it beats it.
LEMMA TurnKeepsMinimum ==
    ASSUME BalancerInv, PickTurn
    PROVE  FirstMinimum(count, turn - 1)'
  <1> DEFINE id == list[turn]
             Kept(n) == [id |-> list[n], cur |-> count[list[n]]]
             NoneBeats(n, k) == \A m \in 1..k : Eligible(count, m) =>
                                  /\ ~Less(count, list[m], list[n])
                                  /\ m < n => Less(count, list[n], list[m])
  <1>1. /\ info \in [Ids -> Profiles] /\ count \in [Ids -> Nat] /\ list \in Seq(Ids)
        /\ turn \in 1..Len(list) /\ turn \in Nat /\ Len(list) \in Nat
    BY ArgumentTypes DEF PickTurn
  <1>2. \A n \in 1..Len(list) : /\ list[n] \in Ids /\ info[list[n]] \in Profiles
                                /\ count[list[n]] \in Nat
    BY ArgumentTypes
  <1>3. \/ best = NoBest /\ \A n \in 1..(turn - 1) : ~Eligible(count, n)
        \/ \E n \in 1..(turn - 1) : Eligible(count, n) /\ best = Kept(n) /\ NoneBeats(n, turn - 1)
    BY <1>1 DEF BalancerInv, FirstMinimum
  <1>4. UNCHANGED <<info, list, count, geo>> /\ turn' - 1 = turn
    BY <1>1 DEF PickTurn
  <1>5. SUFFICES \/ best' = NoBest /\ \A n \in 1..turn : ~Eligible(count, n)
                 \/ \E n \in 1..turn : Eligible(count, n) /\ best' = Kept(n) /\ NoneBeats(n, turn)
    BY <1>4 DEF FirstMinimum, Eligible, Less
  <1>6. best' = IF info[id].healthy
                THEN Consider(info, best, id, count[id], geo) ELSE best
    BY DEF PickTurn
  <1>7. \A n \in 1..turn : n = turn \/ n \in 1..(turn - 1)
    BY <1>1
  <1>8. CASE ~Eligible(count, turn)
    <2>1. best' = best
      BY <1>1, <1>6, <1>8 DEF Eligible, Consider
    <2> QED BY <1>1, <1>3, <1>7, <1>8, <2>1
  <1>9. CASE Eligible(count, turn) /\ best = NoBest
    <2>1. best' = Kept(turn)
      BY <1>6, <1>9 DEF Eligible, Consider
    <2>2. \A n \in 1..Len(list) : Kept(n) # NoBest
      BY <1>2, NoBestIsNone
    <2>3. \A n \in 1..(turn - 1) : ~Eligible(count, n)
      BY <1>1, <1>3, <1>9, <2>2
    <2>4. ~Less(count, list[turn], list[turn])
      BY <1>1, <1>2, ScoresOrdered DEF Less
    <2>5. NoneBeats(turn, turn)
      BY <1>1, <1>7, <2>3, <2>4
    <2> QED BY <1>1, <1>9, <2>1, <2>5
  <1>10. CASE Eligible(count, turn) /\ best # NoBest
    <2>1. PICK n \in 1..(turn - 1) : Eligible(count, n) /\ best = Kept(n) /\ NoneBeats(n, turn - 1)
      BY <1>3, <1>10
    <2>2. n \in 1..Len(list) /\ n \in 1..turn /\ n < turn
      BY <1>1
    <2>3. best.id = list[n] /\ best.cur = count[list[n]]
      BY <2>1
    <2>4. CASE Less(count, list[turn], list[n])
      <3>1. best' = Kept(turn)
        BY <1>6, <1>10, <2>3, <2>4 DEF Eligible, Consider, Less
      <3>2. ASSUME NEW m \in 1..(turn - 1), Eligible(count, m)
            PROVE  Less(count, list[turn], list[m]) /\ ~Less(count, list[m], list[turn])
        <4>1. m \in 1..Len(list) /\ ~Less(count, list[m], list[n])
          BY <1>1, <2>1, <3>2
        <4>2. /\ info[list[turn]] \in Profiles /\ info[list[n]] \in Profiles /\ info[list[m]] \in Profiles
              /\ count[list[turn]] \in Nat /\ count[list[n]] \in Nat /\ count[list[m]] \in Nat
          BY <1>1, <1>2, <2>2, <4>1
        <4>3. Less(count, list[turn], list[m])
          BY <2>4, <4>1, <4>2, ScoresOrdered DEF Less
        <4> QED BY <4>2, <4>3, ScoresOrdered DEF Less
      <3>3. ~Less(count, list[turn], list[turn])
        BY <1>1, <1>2, ScoresOrdered DEF Less
      <3>4. NoneBeats(turn, turn)
        BY <1>1, <1>7, <3>2, <3>3
      <3> QED BY <1>1, <1>10, <3>1, <3>4
    <2>5. CASE ~Less(count, list[turn], list[n])
      <3>1. best' = best
        BY <1>6, <1>10, <2>3, <2>5 DEF Eligible, Consider, Less
      <3>2. NoneBeats(n, turn)
        BY <1>1, <1>7, <2>1, <2>2, <2>5
      <3> QED BY <2>1, <2>2, <3>1, <3>2
    <2> QED BY <2>4, <2>5
  <1> QED BY <1>8, <1>9, <1>10

\* The loop keeps what it says it keeps, and its variables their types.
LEMMA BalancerInvariant == BalancerSpec => []BalancerInv
  <1>1. BalancerInit => BalancerInv
    <2> SUFFICES ASSUME BalancerInit PROVE BalancerInv
      OBVIOUS
    <2>1. Len(list) \in Nat
      BY ListsType DEF BalancerInit
    <2> QED BY <2>1 DEF BalancerInit, BalancerInv, BalancerTypeOK
  <1>2. BalancerInv /\ [BalancerNext]_balancerVars => BalancerInv'
    <2> SUFFICES ASSUME BalancerInv, [BalancerNext]_balancerVars PROVE BalancerInv'
      OBVIOUS
    <2>1. /\ list \in Lists /\ Len(list) \in Nat /\ turn \in 0..(Len(list) + 1)
      BY ListsType DEF BalancerInv, BalancerTypeOK
    <2>2. CASE Call
      <3>1. BalancerTypeOK'
        BY <2>1, <2>2 DEF BalancerInv, BalancerTypeOK, Call
      <3>2. (turn > 0 => FirstMinimum(count, turn - 1))'
        BY <2>2 DEF Call, FirstMinimum
      <3> QED BY <3>1, <3>2 DEF BalancerInv
    <2>3. CASE PickTurn
      <3>1. best' \in [id : Ids, cur : Nat] \cup {NoBest}
        <4>1. list[turn] \in Ids /\ count[list[turn]] \in Nat
          BY <2>3, ArgumentTypes DEF PickTurn
        <4>2. best \in [id : Ids, cur : Nat] \cup {NoBest}
          BY DEF BalancerInv, BalancerTypeOK
        <4> QED BY <2>3, <4>1, <4>2 DEF PickTurn, Consider
      <3>2. BalancerTypeOK'
        BY <2>1, <2>3, <3>1 DEF BalancerInv, BalancerTypeOK, PickTurn
      <3> QED BY <2>3, <3>2, TurnKeepsMinimum DEF BalancerInv
    <2>4. CASE Answered
      BY <2>1, <2>4 DEF BalancerInv, BalancerTypeOK, Answered
    <2>5. CASE UNCHANGED balancerVars
      BY <2>5 DEF BalancerInv, BalancerTypeOK, balancerVars, FirstMinimum, Eligible, Less
    <2> QED BY <2>2, <2>3, <2>4, <2>5 DEF BalancerNext
  <1> QED BY <1>1, <1>2, PTL DEF BalancerSpec

\* When the loop is done, the first minimum of the whole list is kept.
LEMMA PickedMinimum ==
    ASSUME BalancerInv, Picked
    PROVE  FirstMinimum(count, Len(list))
  <1>1. Len(list) \in Nat /\ turn = Len(list) + 1
    BY ListsType DEF BalancerInv, BalancerTypeOK, Picked
  <1>2. turn > 0 /\ turn - 1 = Len(list)
    BY <1>1
  <1> QED BY <1>2 DEF BalancerInv

----------------------------------------------------------------------------
(* The theorems *)

\* pick_backend answers the earliest backend that no other eligible one
\* beats, and none only if each is unhealthy or at its hard limit
\* (load_balancer.rs:51-101).
THEOREM PicksFirstMinimum == BalancerSpec => []PickIsFirstMinimum
  <1>1. BalancerInv => PickIsFirstMinimum
    BY PickedMinimum DEF PickIsFirstMinimum
  <1> QED BY <1>1, BalancerInvariant, PTL

\* The place in the list of the backend that was picked.
LEMMA PickedPlace ==
    ASSUME BalancerInv, Picked, best # NoBest
    PROVE  \E n \in 1..Len(list) :
             /\ Eligible(count, n) /\ best = [id |-> list[n], cur |-> count[list[n]]]
             /\ \A m \in 1..Len(list) : Eligible(count, m) =>
                  /\ ~Less(count, list[m], list[n])
                  /\ m < n => Less(count, list[n], list[m])
  BY PickedMinimum DEF FirstMinimum

\* Scores of different tiers, in whole tiers of a hundred.
LEMMA TiersApart ==
    ASSUME NEW g \in 0..3, NEW h \in 0..3, h < g, NEW d \in Nat \ {0}, NEW e \in Nat \ {0},
           NEW c \in Nat, NEW u \in Nat, u < 100 * e
    PROVE  (100 * h * e + u) * d < (100 * g * d + c) * e
  <1>1. 100 * h * e + u < 100 * (h + 1) * e
    OBVIOUS
  <1>2. (100 * h * e + u) * d < (100 * (h + 1) * e) * d
    BY <1>1
  <1>3. 100 * (h + 1) * d <= 100 * g * d + c
    OBVIOUS
  <1>4. (100 * (h + 1) * d) * e <= (100 * g * d + c) * e
    BY <1>3
  <1> QED BY <1>2, <1>4

\* Distance decides: as long as no eligible backend carries a hundred times
\* its weighted soft limit, none of a closer tier is passed over for load
\* (the "* 100" of load_balancer.rs:82-85).
THEOREM GeoDominates == BalancerSpec => []GeoDominatesBelowHundred
  <1>1. BalancerInv => GeoDominatesBelowHundred
    <2> SUFFICES ASSUME BalancerInv, Picked, best # NoBest,
                        \A k \in 1..Len(list) : Eligible(count, k) => ~LoadAtLeast(list[k], 100),
                        NEW m \in 1..Len(list), Eligible(count, m)
                 PROVE  GeoScore(info[best.id], geo) <= GeoScore(info[list[m]], geo)
      BY DEF GeoDominatesBelowHundred
    <2>1. PICK n \in 1..Len(list) :
             /\ best = [id |-> list[n], cur |-> count[list[n]]]
             /\ ~Less(count, list[m], list[n])
      BY PickedPlace
    <2>2. \A k \in 1..Len(list) : info[list[k]] \in Profiles /\ count[list[k]] \in Nat
      BY ArgumentTypes
    <2>3. ~LoadAtLeast(list[m], 100)
      OBVIOUS
    <2> DEFINE g == GeoScore(info[list[n]], geo)
               h == GeoScore(info[list[m]], geo)
               d == ScoreDen(info[list[n]])
               e == ScoreDen(info[list[m]])
               c == count[list[n]]
               u == count[list[m]]
    <2>4. /\ g \in 0..3 /\ h \in 0..3 /\ d \in Nat \ {0} /\ e \in Nat \ {0}
          /\ c \in Nat /\ u \in Nat
      BY <2>2, ScoreTypes
    <2>5. ~(u >= 100 * e)
      BY <2>3 DEF LoadAtLeast
    <2>6. ~((100 * h * e + u) * d < (100 * g * d + c) * e)
      BY <2>1 DEF Less, ScoreLess, ScoreNum
    <2>7. best.id = list[n]
      BY <2>1
    <2> HIDE DEF g, h, d, e, c, u
    <2>8. u < 100 * e
      BY <2>4, <2>5
    <2>9. ~(h < g)
      BY <2>4, <2>6, <2>8, TiersApart
    <2>10. g <= h
      BY <2>4, <2>9
    <2> QED BY <2>7, <2>10 DEF g, h
  <1> QED BY <1>1, BalancerInvariant, PTL

\* More load on a backend that was not picked never gets it picked, also when
\* the load takes it to its hard limit (load_balancer.rs:66-68, 73-85).
THEOREM MoreLoadRepels == BalancerSpec => []LoadRepels
  <1>1. BalancerInv => LoadRepels
    <2> SUFFICES ASSUME BalancerInv, Picked, best # NoBest, NEW id \in Ids \ {best.id}
                 PROVE  FirstMinimum([count EXCEPT ![id] = @ + 1], Len(list))
      BY DEF LoadRepels
    <2>1. PICK n \in 1..Len(list) :
             /\ Eligible(count, n) /\ best = [id |-> list[n], cur |-> count[list[n]]]
             /\ \A m \in 1..Len(list) : Eligible(count, m) =>
                  /\ ~Less(count, list[m], list[n])
                  /\ m < n => Less(count, list[n], list[m])
      BY PickedPlace
    <2>2. PICK more : more = [count EXCEPT ![id] = @ + 1]
      OBVIOUS
    <2>3. /\ info \in [Ids -> Profiles] /\ count \in [Ids -> Nat]
          /\ \A k \in 1..Len(list) : /\ list[k] \in Ids /\ info[list[k]] \in Profiles
                                     /\ count[list[k]] \in Nat
      BY ArgumentTypes
    <2>4. /\ \A i \in Ids \ {id} : more[i] = count[i]
          /\ more[id] = count[id] + 1 /\ count[id] \in Nat /\ info[id] \in Profiles
      BY <2>2, <2>3
    <2>5. list[n] # id /\ more[list[n]] = count[list[n]]
      BY <2>1, <2>3, <2>4
    <2>6. Eligible(more, n)
      BY <2>1, <2>5 DEF Eligible
    <2>7. ASSUME NEW m \in 1..Len(list), Eligible(more, m)
          PROVE  /\ ~Less(more, list[m], list[n])
                 /\ m < n => Less(more, list[n], list[m])
      <3>1. CASE list[m] # id
        <4>1. more[list[m]] = count[list[m]]
          BY <2>3, <2>4, <3>1
        <4> QED BY <2>1, <2>5, <2>7, <4>1 DEF Eligible, Less
      <3>2. CASE list[m] = id
        <4>1. Eligible(count, m)
          BY <2>3, <2>4, <2>7, <3>2, ProfilesType DEF Eligible, AtHardLimit
        <4>2. /\ ~Less(count, id, list[n])
              /\ m < n => Less(count, list[n], id)
          BY <2>1, <3>2, <4>1
        <4> QED BY <2>3, <2>4, <2>5, <3>2, <4>2, LoadRaisesScore DEF Less
      <3> QED BY <3>1, <3>2
    <2>8. best = [id |-> list[n], cur |-> more[list[n]]]
      BY <2>1, <2>5
    <2> QED BY <2>2, <2>6, <2>7, <2>8 DEF FirstMinimum
  <1> QED BY <1>1, BalancerInvariant, PTL

----------------------------------------------------------------------------
(***************************************************************************)
(* The connection pool. in_use is exact, for any number of borrowers and   *)
(* any limits, as long as the pools are not cleared: then there is one     *)
(* pool, every borrower in a call works on it, and each path out of `held' *)
(* counts exactly once.                                                    *)
(***************************************************************************)

\* The borrowers that have a connection.
Held == {b \in Borrowers : task[b] = "held"}

\* The only pool there is, with in_use as it should be.
OnlyPool(idle) == <<[inUse |-> Cardinality(Held), idle |-> idle]>>

BorrowerTypes ==
    /\ task \in [Borrowers -> {"none", "idle", "check", "connect", "held", "push"}]
    /\ mine \in [Borrowers -> Nat]

OnePool ==
    /\ ~draining
    /\ current \in {0, 1} /\ cleaning.pool \in {0, current}
    /\ current = 0 => pools = <<>> /\ \A b \in Borrowers : task[b] = "none"
    /\ current = 1 => pools = OnlyPool(pools[1].idle)
    /\ \A b \in Borrowers : mine[b] = IF task[b] = "none" THEN 0 ELSE 1

PoolInv == clears \in Nat /\ (clears = 0 => BorrowerTypes /\ OnePool)

\* Connections are lent to borrowers, so their number stays below the size of
\* the counter (in_use, connection_pool.rs:80-97).
LEMMA HeldIsSmall ==
    ASSUME NEW S \in SUBSET Borrowers
    PROVE  IsFiniteSet(S) /\ Cardinality(S) \in Nat /\ Cardinality(S) < CounterSize
<1>1. IsFiniteSet(Borrowers) BY BorrowersType
<1>2. IsFiniteSet(S) /\ Cardinality(S) <= Cardinality(Borrowers) BY <1>1, FS_Subset
<1>3. Cardinality(S) \in Nat /\ Cardinality(Borrowers) \in Nat
  BY <1>1, <1>2, FS_CardinalityType
<1> QED BY <1>2, <1>3, CounterType, PoolType

\* fetch_add and fetch_sub do not wrap (connection_pool.rs:150, :178, :187).
LEMMA NoWrap ==
    ASSUME NEW n \in Nat, n < CounterSize PROVE n % CounterSize = n
BY CounterType, PoolType

\* An element more, an element less.
LEMMA OneMoreHeld ==
    ASSUME NEW b \in Borrowers, b \notin Held
    PROVE  (Cardinality(Held) + 1) % CounterSize = Cardinality(Held \cup {b})
<1>1. Held \cup {b} \in SUBSET Borrowers /\ Held \in SUBSET Borrowers BY DEF Held
<1>2. IsFiniteSet(Held) /\ Cardinality(Held) \in Nat BY <1>1, HeldIsSmall
<1>3. Cardinality(Held \cup {b}) = Cardinality(Held) + 1 BY <1>2, FS_AddElement
<1>4. Cardinality(Held \cup {b}) \in Nat /\ Cardinality(Held \cup {b}) < CounterSize
  BY <1>1, HeldIsSmall
<1> QED BY <1>3, <1>4, NoWrap

LEMMA OneLessHeld ==
    ASSUME NEW b \in Held
    PROVE  (Cardinality(Held) - 1) % CounterSize = Cardinality(Held \ {b})
<1>1. Held \ {b} \in SUBSET Borrowers /\ Held \in SUBSET Borrowers BY DEF Held
<1>2. IsFiniteSet(Held) BY <1>1, HeldIsSmall
<1>3. Cardinality(Held \ {b}) = Cardinality(Held) - 1 BY <1>2, FS_RemoveElement
<1>4. Cardinality(Held \ {b}) \in Nat /\ Cardinality(Held \ {b}) < CounterSize
  BY <1>1, HeldIsSmall
<1> QED BY <1>3, <1>4, NoWrap

\* The pool map is empty at first (ConnectionPool::new).
LEMMA PoolInitInv == PoolInit => PoolInv
BY DEF PoolInit, PoolInv, BorrowerTypes, OnePool

\* Where a borrower goes, and who then has a connection.
LEMMA Moves ==
    ASSUME BorrowerTypes, NEW b \in Borrowers,
           NEW where \in {"none", "idle", "check", "connect", "held", "push"}, Goes(b, where)
    PROVE  /\ task' \in [Borrowers -> {"none", "idle", "check", "connect", "held", "push"}]
           /\ \A c \in Borrowers : task'[c] = IF c = b THEN where ELSE task[c]
           /\ Held' = IF where = "held" THEN Held \cup {b} ELSE Held \ {b}
BY DEF BorrowerTypes, Goes, Held

\* A borrower moves on: the pool stays the only one if its count is that of the
\* borrowers that now have a connection.
LEMMA MoveInv ==
    ASSUME BorrowerTypes, OnePool, NEW b \in Borrowers,
           NEW where \in {"none", "idle", "check", "connect", "held", "push"},
           Goes(b, where), NEW q,
           mine' = [mine EXCEPT ![b] = IF where = "none" THEN 0 ELSE 1],
           pools' = <<[inUse |-> Cardinality(Held'), idle |-> q]>>,
           current' = 1, UNCHANGED <<cleaning, draining>>
    PROVE  BorrowerTypes' /\ OnePool'
<1>1. BorrowerTypes' BY Moves DEF BorrowerTypes
<1>2. (pools = OnlyPool(pools[1].idle))' BY DEF OnlyPool
<1>3. \A c \in Borrowers : mine'[c] = IF task'[c] = "none" THEN 0 ELSE 1
  BY Moves DEF OnePool, BorrowerTypes
<1>4. ~draining' /\ cleaning'.pool \in {0, current'} BY DEF OnePool
<1> QED BY <1>1, <1>2, <1>3, <1>4 DEF OnePool

\* Nobody moves: the pool stays the only one if its count stays.
LEMMA StayInv ==
    ASSUME BorrowerTypes, OnePool, UNCHANGED <<current, task, mine, draining>>,
           cleaning'.pool \in {0, current},
           \/ UNCHANGED pools
           \/ current = 1 /\ \E q : pools' = <<[inUse |-> Cardinality(Held), idle |-> q]>>
    PROVE  BorrowerTypes' /\ OnePool'
<1>1. BorrowerTypes' /\ Held' = Held BY DEF BorrowerTypes, Held
<1>2. CASE UNCHANGED pools BY <1>1, <1>2 DEF OnePool, OnlyPool
<1>3. CASE current = 1 /\ \E q : pools' = <<[inUse |-> Cardinality(Held), idle |-> q]>>
  <2>1. (pools = OnlyPool(pools[1].idle))' BY <1>1, <1>3 DEF OnlyPool
  <2> QED BY <1>1, <1>3, <2>1 DEF OnePool
<1> QED BY <1>2, <1>3

\* A borrower in a call has the only pool, and the map has it.
LEMMA InACall ==
    ASSUME BorrowerTypes, OnePool, NEW b \in Borrowers, task[b] # "none"
    PROVE  /\ mine[b] = 1 /\ current = 1
           /\ \E q : pools = <<[inUse |-> Cardinality(Held), idle |-> q]>>
BY DEF OnePool, OnlyPool

\* acquire: the pool is found, or made (connection_pool.rs:124-133).
LEMMA GetPoolInv ==
    ASSUME BorrowerTypes, OnePool, NEW b \in Borrowers, GetPool(b)
    PROVE  BorrowerTypes' /\ OnePool'
<1>1. task[b] = "none" /\ Goes(b, "idle") BY DEF GetPool
<1>2. b \notin Held BY <1>1 DEF Held
<1>3. Held' = Held \ {b} BY <1>1, Moves
<1>4. Held' = Held BY <1>2, <1>3
<1>5. current' = 1 /\ mine' = [mine EXCEPT ![b] = 1]
  <2>1. CASE current = 0
    <3>1. Len(pools) = 0 BY <2>1 DEF OnePool
    <3> QED BY <2>1, <3>1 DEF GetPool
  <2>2. CASE current = 1 BY <2>2 DEF GetPool
  <2> QED BY <2>1, <2>2 DEF OnePool
<1>6. \E q : pools' = <<[inUse |-> Cardinality(Held'), idle |-> q]>>
  <2>1. CASE current = 0
    <3>1. Held = {} BY <2>1 DEF OnePool, Held
    <3>2. pools' = <<[inUse |-> 0, idle |-> <<>>]>> BY <2>1 DEF GetPool, OnePool
    <3> QED BY <3>1, <3>2, <1>4, FS_EmptySet
  <2>2. CASE current = 1
    BY <2>2, <1>4 DEF GetPool, OnePool, OnlyPool
  <2> QED BY <2>1, <2>2 DEF OnePool
<1>7. UNCHANGED <<cleaning, draining>> BY DEF GetPool
<1> QED BY <1>1, <1>5, <1>6, <1>7, MoveInv

\* acquire: an idle connection is lent, or all were old
\* (connection_pool.rs:136-152).
LEMMA TryIdleInv ==
    ASSUME BorrowerTypes, OnePool, NEW b \in Borrowers, TryIdle(b)
    PROVE  BorrowerTypes' /\ OnePool'
<1>1. task[b] = "idle" /\ b \notin Held BY DEF TryIdle, Held
<1>2. mine[b] = 1 /\ current = 1 BY <1>1, InACall
<1>3. PICK q : pools = <<[inUse |-> Cardinality(Held), idle |-> q]>> BY <1>1, InACall
<1>4. UNCHANGED <<current, mine, cleaning, draining>> BY DEF TryIdle
<1>5. mine' = [mine EXCEPT ![b] = 1] BY <1>2, <1>4 DEF BorrowerTypes
<1>6. \/ Goes(b, "check") /\ pools' = [pools EXCEPT ![1].idle = <<>>]
      \/ /\ Goes(b, "held")
         /\ \E rest : pools' = [pools EXCEPT ![1] =
                         [inUse |-> (pools[1].inUse + 1) % CounterSize, idle |-> rest]]
  BY <1>2 DEF TryIdle
<1>7. CASE Goes(b, "check") /\ pools' = [pools EXCEPT ![1].idle = <<>>]
  <2>1. Held' = Held \ {b} BY <1>7, Moves
  <2>2. Held' = Held BY <1>1, <2>1
  <2>3. pools' = <<[inUse |-> Cardinality(Held), idle |-> <<>>]>> BY <1>3, <1>7
  <2> QED BY <1>2, <1>4, <1>5, <1>7, <2>2, <2>3, MoveInv
<1>8. CASE /\ Goes(b, "held")
           /\ \E rest : pools' = [pools EXCEPT ![1] =
                         [inUse |-> (pools[1].inUse + 1) % CounterSize, idle |-> rest]]
  <2>1. PICK rest : pools' = [pools EXCEPT ![1] =
                         [inUse |-> (pools[1].inUse + 1) % CounterSize, idle |-> rest]]
    BY <1>8
  <2>2. Held' = Held \cup {b} BY <1>8, Moves
  <2>3. (Cardinality(Held) + 1) % CounterSize = Cardinality(Held')
    BY <1>1, <2>2, OneMoreHeld
  <2>4. pools[1].inUse = Cardinality(Held) BY <1>3
  <2>5. pools' = [pools EXCEPT ![1] = [inUse |-> Cardinality(Held'), idle |-> rest]]
    BY <2>1, <2>3, <2>4
  <2>6. pools' = <<[inUse |-> Cardinality(Held'), idle |-> rest]>> BY <1>3, <2>5
  <2> QED BY <1>2, <1>4, <1>5, <1>8, <2>6, MoveInv
<1> QED BY <1>6, <1>7, <1>8

\* acquire: refused at the limit, connecting, cancelled or failed
\* (connection_pool.rs:154-174).
LEMMA NothingCountedInv ==
    ASSUME BorrowerTypes, OnePool, NEW b \in Borrowers, CheckLimit(b) \/ GiveUp(b)
    PROVE  BorrowerTypes' /\ OnePool'
<1>1. /\ task[b] # "none" /\ task[b] # "held"
      /\ UNCHANGED <<pools, current, cleaning, draining>>
  BY DEF CheckLimit, GiveUp
<1>2. mine[b] = 1 /\ current = 1 /\ b \notin Held BY <1>1, InACall DEF Held
<1>3. PICK q : pools = <<[inUse |-> Cardinality(Held), idle |-> q]>> BY <1>1, InACall
<1>4. \/ Goes(b, "none") /\ mine' = [mine EXCEPT ![b] = 0]
      \/ Goes(b, "connect") /\ mine' = [mine EXCEPT ![b] = 1]
  BY <1>2 DEF CheckLimit, GiveUp, Ends, BorrowerTypes
<1>5. Held' = Held \ {b} BY <1>4, Moves
<1>6. Held' = Held BY <1>2, <1>5
<1>7. pools' = <<[inUse |-> Cardinality(Held'), idle |-> q]>> BY <1>1, <1>3, <1>6
<1>8. current' = 1 /\ UNCHANGED <<cleaning, draining>> BY <1>1, <1>2
<1> QED BY <1>4, <1>7, <1>8, MoveInv

\* acquire: the new connection is counted (connection_pool.rs:176-179).
LEMMA ConnectInv ==
    ASSUME BorrowerTypes, OnePool, NEW b \in Borrowers, Connect(b)
    PROVE  BorrowerTypes' /\ OnePool'
<1>1. task[b] = "connect" /\ b \notin Held /\ Goes(b, "held") BY DEF Connect, Held
<1>2. mine[b] = 1 /\ current = 1 BY <1>1, InACall
<1>3. PICK q : pools = <<[inUse |-> Cardinality(Held), idle |-> q]>> BY <1>1, InACall
<1>4. UNCHANGED <<current, mine, cleaning, draining>> BY DEF Connect
<1>5. mine' = [mine EXCEPT ![b] = 1] BY <1>2, <1>4 DEF BorrowerTypes
<1>6. pools' = [pools EXCEPT ![1].inUse = (@ + 1) % CounterSize]
  BY <1>2 DEF Connect, Lent
<1>7. pools' = <<[inUse |-> (Cardinality(Held) + 1) % CounterSize, idle |-> q]>>
  BY <1>3, <1>6
<1>8. Held' = Held \cup {b} BY <1>1, Moves
<1>9. pools' = <<[inUse |-> Cardinality(Held'), idle |-> q]>>
  BY <1>1, <1>7, <1>8, OneMoreHeld
<1> QED BY <1>1, <1>2, <1>4, <1>5, <1>9, MoveInv

\* release and discard count a connection back exactly once, kept or not
\* (connection_pool.rs:183-216).
LEMMA GiveBackInv ==
    ASSUME BorrowerTypes, OnePool, NEW b \in Borrowers, Release(b) \/ Discard(b)
    PROVE  BorrowerTypes' /\ OnePool'
<1>1. task[b] = "held" /\ b \in Held BY DEF Release, Discard, Held
<1>2. mine[b] = 1 /\ current = 1 BY <1>1, InACall
<1>3. PICK q : pools = <<[inUse |-> Cardinality(Held), idle |-> q]>> BY <1>1, InACall
<1>4. UNCHANGED <<current, cleaning, draining>> BY DEF Release, Discard
<1>5. \/ Goes(b, "none") /\ mine' = [mine EXCEPT ![b] = 0]
      \/ Goes(b, "push") /\ mine' = [mine EXCEPT ![b] = 1]
  BY <1>2 DEF Release, Discard, Ends
<1>6. pools' = [pools EXCEPT ![1].inUse = (@ - 1) % CounterSize]
  BY <1>2 DEF Release, Discard, GivenBack
<1>7. pools' = <<[inUse |-> (Cardinality(Held) - 1) % CounterSize, idle |-> q]>>
  BY <1>3, <1>6
<1>8. Held' = Held \ {b} BY <1>5, Moves
<1>9. pools' = <<[inUse |-> Cardinality(Held'), idle |-> q]>>
  BY <1>1, <1>7, <1>8, OneLessHeld
<1>10. current' = 1 BY <1>2, <1>4
<1> QED BY <1>4, <1>5, <1>9, <1>10, MoveInv

\* release: the queue takes the connection, if there is room
\* (connection_pool.rs:199-207).
LEMMA PushInv ==
    ASSUME BorrowerTypes, OnePool, NEW b \in Borrowers, Push(b)
    PROVE  BorrowerTypes' /\ OnePool'
<1>1. task[b] = "push" /\ b \notin Held BY DEF Push, Held
<1>2. mine[b] = 1 /\ current = 1 BY <1>1, InACall
<1>3. PICK q : pools = <<[inUse |-> Cardinality(Held), idle |-> q]>> BY <1>1, InACall
<1>4. UNCHANGED <<current, cleaning, draining>> BY DEF Push
<1>5. Goes(b, "none") /\ mine' = [mine EXCEPT ![b] = 0] BY DEF Push, Ends
<1>6. Held' = Held \ {b} BY <1>5, Moves
<1>7. Held' = Held BY <1>1, <1>6
<1>8. PICK v : pools' = [pools EXCEPT ![1].idle = v] BY <1>2 DEF Push
<1>9. pools' = <<[inUse |-> Cardinality(Held), idle |-> v]>> BY <1>3, <1>8
<1>10. current' = 1 BY <1>2, <1>4
<1> QED BY <1>4, <1>5, <1>7, <1>9, <1>10, MoveInv

\* Connections grow old, and the cleanup task closes idle ones: no count changes
\* (connection_pool.rs:258-285).
LEMMA BackgroundInv ==
    ASSUME BorrowerTypes, OnePool, GrowOld \/ StartCleanup \/ Cleanup
    PROVE  BorrowerTypes' /\ OnePool'
<1>1. UNCHANGED <<current, task, mine, draining>> BY DEF GrowOld, StartCleanup, Cleanup
<1>2. cleaning'.pool \in {0, current}
  BY DEF GrowOld, StartCleanup, Cleanup, OnePool
<1>3. UNCHANGED pools \/ (current = 1 /\ \E v : pools' = [pools EXCEPT ![1].idle = v])
  <2>1. CASE GrowOld
    <3>1. CASE UNCHANGED pools BY <3>1
    <3>2. CASE \E g \in 1..Len(pools) : \E i \in DOMAIN pools[g].idle :
                  pools' = [pools EXCEPT ![g].idle[i] = "old"]
      <4>1. PICK g \in 1..Len(pools) : \E i \in DOMAIN pools[g].idle :
                  pools' = [pools EXCEPT ![g].idle[i] = "old"]
        BY <3>2
      <4>2. current = 1 /\ g = 1 BY <4>1 DEF OnePool, OnlyPool
      <4> QED BY <4>1, <4>2
    <3> QED BY <2>1, <3>1, <3>2 DEF GrowOld
  <2>2. CASE StartCleanup BY <2>2 DEF StartCleanup
  <2>3. CASE Cleanup
    <3>1. cleaning.pool = 1 /\ current = 1 BY <2>3 DEF Cleanup, OnePool
    <3> QED BY <2>3, <3>1 DEF Cleanup
  <2> QED BY <2>1, <2>2, <2>3
<1>4. ASSUME current = 1, NEW v, pools' = [pools EXCEPT ![1].idle = v]
      PROVE  pools' = <<[inUse |-> Cardinality(Held), idle |-> v]>>
  <2>1. PICK q : pools = <<[inUse |-> Cardinality(Held), idle |-> q]>>
    BY <1>4 DEF OnePool, OnlyPool
  <2> QED BY <1>4, <2>1
<1>5. UNCHANGED pools \/ (current = 1 /\ \E q : pools' = <<[inUse |-> Cardinality(Held), idle |-> q]>>)
  BY <1>3, <1>4
<1> QED BY <1>1, <1>2, <1>5, StayInv

\* Every step keeps the invariant; from the first clear on it says nothing.
LEMMA PoolStepInv == PoolInv /\ [PoolNext]_poolVars => PoolInv'
<1> SUFFICES ASSUME PoolInv, [PoolNext]_poolVars PROVE PoolInv'
  OBVIOUS
<1>1. clears' \in Nat /\ (clears' = 0 => clears = 0)
  <2>1. clears \in Nat BY DEF PoolInv
  <2>2. clears' = clears \/ clears' = clears + 1
    <3>1. ASSUME NEW b \in Borrowers,
                 \/ GetPool(b) \/ TryIdle(b) \/ CheckLimit(b) \/ Connect(b) \/ GiveUp(b)
                 \/ Release(b) \/ Push(b) \/ Discard(b)
          PROVE  clears' = clears
      BY <3>1 DEF GetPool, TryIdle, CheckLimit, Connect, GiveUp, Release, Push, Discard
    <3>2. CASE GrowOld \/ StartCleanup \/ Cleanup \/ ClearDrains \/ ClearDrops
      BY <3>2 DEF GrowOld, StartCleanup, Cleanup, ClearDrains, ClearDrops
    <3>3. CASE UNCHANGED poolVars BY <3>3 DEF poolVars
    <3> QED BY <3>1, <3>2, <3>3 DEF PoolNext
  <2> QED BY <2>1, <2>2
<1>2. SUFFICES ASSUME clears = 0, clears' = 0 PROVE BorrowerTypes' /\ OnePool'
  BY <1>1 DEF PoolInv
<1>3. BorrowerTypes /\ OnePool BY <1>2 DEF PoolInv
<1>4. ASSUME NEW b \in Borrowers,
             \/ GetPool(b) \/ TryIdle(b) \/ CheckLimit(b) \/ Connect(b) \/ GiveUp(b)
             \/ Release(b) \/ Push(b) \/ Discard(b)
      PROVE  BorrowerTypes' /\ OnePool'
  BY <1>3, <1>4, GetPoolInv, TryIdleInv, NothingCountedInv, ConnectInv, GiveBackInv, PushInv
<1>5. CASE GrowOld \/ StartCleanup \/ Cleanup BY <1>3, <1>5, BackgroundInv
<1>6. CASE ClearDrains BY <1>2, <1>6 DEF ClearDrains
<1>7. CASE ClearDrops BY <1>3, <1>7 DEF ClearDrops, OnePool
<1>8. CASE UNCHANGED poolVars
  <2>1. /\ UNCHANGED <<current, task, mine, draining>> /\ UNCHANGED pools
        /\ cleaning'.pool \in {0, current}
    BY <1>3, <1>8 DEF poolVars, OnePool
  <2> QED BY <1>3, <2>1, StayInv
<1> QED BY <1>4, <1>5, <1>6, <1>7, <1>8 DEF PoolNext

\* The invariant says what the property says: all who hold are of the one pool.
LEMMA ExactFromInv == PoolInv => InUseIsExact
<1> SUFFICES ASSUME PoolInv, clears = 0, NEW g \in 1..Len(pools)
             PROVE  pools[g].inUse = Cardinality({b \in Borrowers : task[b] = "held" /\ mine[b] = g})
  BY DEF InUseIsExact
<1>1. BorrowerTypes /\ OnePool BY DEF PoolInv
<1>2. current = 1 BY <1>1 DEF OnePool
<1>3. PICK q : pools = <<[inUse |-> Cardinality(Held), idle |-> q]>>
  BY <1>1, <1>2 DEF OnePool, OnlyPool
<1>4. g = 1 /\ pools[g].inUse = Cardinality(Held) BY <1>3
<1>5. {b \in Borrowers : task[b] = "held" /\ mine[b] = g} = Held
  BY <1>1, <1>4 DEF OnePool, Held
<1> QED BY <1>4, <1>5

\* For any number of borrowers and any limit, in_use is the number of lent
\* connections for as long as the pools have not been cleared: every path of
\* acquire, release, discard and cancellation counts exactly once
\* (connection_pool.rs:150-216).
THEOREM InUseCorrect == PoolSpec => []InUseIsExact
<1>1. PoolInit => PoolInv BY PoolInitInv
<1>2. PoolInv /\ [PoolNext]_poolVars => PoolInv' BY PoolStepInv
<1>3. PoolInv => InUseIsExact BY ExactFromInv
<1> QED BY <1>1, <1>2, <1>3, PTL DEF PoolSpec

----------------------------------------------------------------------------
(***************************************************************************)
(* The types of the pool, with the capacity of its queue, whether or not   *)
(* it is cleared: a step that replaces a queue puts back no more than was  *)
(* there, but for release, which looks first.                              *)
(***************************************************************************)

\* Where a borrower may be in a call.
InCalls == {"idle", "check", "connect", "push"}
\* The types; and somebody in a call works on a pool that has been made
\* (get_or_create_pool, connection_pool.rs:124-133).
PoolTypes == PoolTypeOK /\ \A b \in Borrowers : task[b] \in InCalls => mine[b] # 0

\* At first there is no pool.
LEMMA PoolInitTypes == PoolInit => PoolTypes
  <1> SUFFICES ASSUME PoolInit PROVE PoolTypes
    OBVIOUS
  <1>1. pools \in Seq(Pool) /\ Len(pools) = 0
    BY DEF PoolInit
  <1>2. cleaning \in [on : BOOLEAN, pool : 0..Len(pools)]
    BY <1>1 DEF PoolInit
  <1>3. task \in [Borrowers -> {"none", "idle", "check", "connect", "held", "push"}]
        /\ \A b \in Borrowers : task[b] \notin InCalls
    BY DEF PoolInit, InCalls
  <1>4. mine \in [Borrowers -> 0..Len(pools)]
    BY <1>1 DEF PoolInit
  <1>5. current \in 0..Len(pools) /\ \A g \in 1..Len(pools) : Len(pools[g].idle) <= MaxConnections
    BY <1>1 DEF PoolInit
  <1>6. stale \in SUBSET Borrowers /\ clears \in 0..MaxClears
    BY PoolType DEF PoolInit
  <1>7. draining \in BOOLEAN
    BY DEF PoolInit
  <1> QED BY <1>1, <1>2, <1>3, <1>4, <1>5, <1>6, <1>7 DEF PoolTypes, PoolTypeOK

\* What a pool consists of, and a pool with one part replaced.
LEMMA PoolParts ==
    ASSUME NEW p \in Pool
    PROVE  /\ p.inUse \in 0..(CounterSize - 1) /\ p.idle \in Seq(Ages)
           /\ \A v : [p EXCEPT !.inUse = v] = [inUse |-> v, idle |-> p.idle]
           /\ \A v : [p EXCEPT !.idle = v] = [inUse |-> p.inUse, idle |-> v]
  <1>1. p.inUse \in 0..(CounterSize - 1) /\ p.idle \in Seq(Ages)
    BY DEF Pool
  <1>2. \A v : [p EXCEPT !.inUse = v] = [inUse |-> v, idle |-> p.idle]
    BY DEF Pool
  <1>3. \A v : [p EXCEPT !.idle = v] = [inUse |-> p.inUse, idle |-> v]
    BY DEF Pool
  <1> QED BY <1>1, <1>2, <1>3

\* The same, for the pools there are.
LEMMA PoolAt ==
    ASSUME PoolTypes, NEW g \in 1..Len(pools)
    PROVE  /\ pools[g] \in Pool /\ pools[g].inUse \in 0..(CounterSize - 1) /\ pools[g].idle \in Seq(Ages)
           /\ Len(pools[g].idle) <= MaxConnections /\ Len(pools[g].idle) \in Nat
  <1>1. pools[g] \in Pool /\ Len(pools[g].idle) <= MaxConnections
    BY DEF PoolTypes, PoolTypeOK
  <1>2. pools[g].inUse \in 0..(CounterSize - 1) /\ pools[g].idle \in Seq(Ages)
    BY <1>1, PoolParts
  <1> QED BY <1>1, <1>2

\* The queues fit, and there are as many pools as there were.
PoolsType == /\ pools' \in Seq(Pool) /\ Len(pools') = Len(pools)
             /\ \A i \in 1..Len(pools') : Len(pools'[i].idle) <= MaxConnections

\* A pool is replaced by another.
LEMMA OnePoolType ==
    ASSUME PoolTypes, NEW g \in 1..Len(pools), NEW n \in 0..(CounterSize - 1),
           NEW q \in Seq(Ages), Len(q) <= MaxConnections,
           pools' = [pools EXCEPT ![g] = [inUse |-> n, idle |-> q]]
    PROVE  PoolsType
  <1> DEFINE p == [inUse |-> n, idle |-> q]
  <1>1. p \in Pool /\ Len(p.idle) <= MaxConnections
    BY DEF Pool
  <1> HIDE DEF p
  <1>2. pools' = [pools EXCEPT ![g] = p]
    BY DEF p
  <1> QED BY <1>1, <1>2 DEF PoolTypes, PoolTypeOK, PoolsType

\* The counter wraps.
LEMMA CountTypes ==
    ASSUME NEW n \in 0..(CounterSize - 1)
    PROVE  (n + 1) % CounterSize \in 0..(CounterSize - 1) /\ (n - 1) % CounterSize \in 0..(CounterSize - 1)
  <1>1. CounterSize \in Nat \ {0}
    <2>1. Cardinality(Borrowers) \in Nat
      BY BorrowersType, FS_CardinalityType
    <2> QED BY <2>1, CounterType, PoolType
  <1> QED BY <1>1

\* in_use goes up or down by one (connection_pool.rs:160-183).
LEMMA LentType ==
    ASSUME PoolTypes, NEW g \in 1..Len(pools), Lent(g) \/ GivenBack(g)
    PROVE  PoolsType
  <1>1. pools[g] \in Pool /\ pools[g].inUse \in 0..(CounterSize - 1) /\ pools[g].idle \in Seq(Ages)
        /\ Len(pools[g].idle) <= MaxConnections
    BY PoolAt
  <1>2. CASE Lent(g)
    <2> DEFINE v == (pools[g].inUse + 1) % CounterSize
    <2>1. pools' = [pools EXCEPT ![g] = [pools[g] EXCEPT !.inUse = v]]
      BY <1>2 DEF Lent
    <2>2. [pools[g] EXCEPT !.inUse = v] = [inUse |-> v, idle |-> pools[g].idle]
      BY <1>1, PoolParts
    <2>3. v \in 0..(CounterSize - 1)
      BY <1>1, CountTypes
    <2> HIDE DEF v
    <2> QED BY <1>1, <2>1, <2>2, <2>3, OnePoolType
  <1>3. CASE GivenBack(g)
    <2> DEFINE v == (pools[g].inUse - 1) % CounterSize
    <2>1. pools' = [pools EXCEPT ![g] = [pools[g] EXCEPT !.inUse = v]]
      BY <1>3 DEF GivenBack
    <2>2. [pools[g] EXCEPT !.inUse = v] = [inUse |-> v, idle |-> pools[g].idle]
      BY <1>1, PoolParts
    <2>3. v \in 0..(CounterSize - 1)
      BY <1>1, CountTypes
    <2> HIDE DEF v
    <2> QED BY <1>1, <2>1, <2>2, <2>3, OnePoolType
  <1> QED BY <1>2, <1>3

\* The queue of a pool is replaced.
LEMMA QueueType ==
    ASSUME PoolTypes, NEW g \in 1..Len(pools), NEW q \in Seq(Ages), Len(q) <= MaxConnections,
           pools' = [pools EXCEPT ![g].idle = q]
    PROVE  PoolsType
  <1>1. pools[g] \in Pool /\ pools[g].inUse \in 0..(CounterSize - 1)
    BY PoolAt
  <1>2. pools' = [pools EXCEPT ![g] = [pools[g] EXCEPT !.idle = q]]
    OBVIOUS
  <1>3. [pools[g] EXCEPT !.idle = q] = [inUse |-> pools[g].inUse, idle |-> q]
    BY <1>1, PoolParts
  <1>4. pools' = [pools EXCEPT ![g] = [inUse |-> pools[g].inUse, idle |-> q]]
    BY <1>2, <1>3
  <1> QED BY <1>1, <1>4, OnePoolType

\* Nothing happens to the pools.
LEMMA SamePools ==
    ASSUME PoolTypes, UNCHANGED pools
    PROVE  PoolsType
BY DEF PoolTypes, PoolTypeOK, PoolsType

\* A borrower has no connection any more.
LEMMA EndsTypes ==
    ASSUME PoolTypes, NEW b \in Borrowers, Ends(b), PoolsType,
           UNCHANGED <<current, cleaning, clears, draining>>
    PROVE  PoolTypes'
  <1>1. PoolTypeOK'
    BY DEF PoolTypes, PoolTypeOK, Ends, Goes, PoolsType
  <1>2. (\A c \in Borrowers : task[c] \in InCalls => mine[c] # 0)'
    BY DEF PoolTypes, PoolTypeOK, Ends, Goes, InCalls
  <1> QED BY <1>1, <1>2 DEF PoolTypes

\* A borrower goes on with a pool.
LEMMA GoesTypes ==
    ASSUME PoolTypes, NEW b \in Borrowers, NEW w \in InCalls \cup {"held"}, Goes(b, w),
           NEW g \in 0..Len(pools), g # 0 \/ w = "held", mine' = [mine EXCEPT ![b] = g], PoolsType,
           UNCHANGED <<current, stale, cleaning, clears, draining>>
    PROVE  PoolTypes'
  <1>1. PoolTypeOK'
    BY DEF PoolTypes, PoolTypeOK, Goes, PoolsType, InCalls
  <1>2. (\A c \in Borrowers : task[c] \in InCalls => mine[c] # 0)'
    BY DEF PoolTypes, PoolTypeOK, Goes, InCalls
  <1> QED BY <1>1, <1>2 DEF PoolTypes
\* A borrower in a call works on one of the pools.
LEMMA InCallType ==
    ASSUME PoolTypes, NEW b \in Borrowers, task[b] \in InCalls
    PROVE  mine[b] \in 1..Len(pools)
BY DEF PoolTypes, PoolTypeOK

\* acquire finds the pool or makes one.
LEMMA GetPoolTypes ==
    ASSUME PoolTypes, NEW b \in Borrowers, GetPool(b)
    PROVE  PoolTypes'
  <1>1. CASE current # 0
    <2>1. PoolsType
      BY <1>1, SamePools DEF GetPool
    <2>2. current \in 0..Len(pools) /\ current' = current
      BY <1>1 DEF GetPool, PoolTypes, PoolTypeOK
    <2> QED BY <1>1, <2>1, <2>2, GoesTypes DEF GetPool, InCalls
  <1>2. CASE current = 0
    <2> DEFINE p == [inUse |-> 0, idle |-> <<>>]
               n == Len(pools) + 1
    <2>1. p \in Pool /\ Len(p.idle) = 0
      <3>1. CounterSize - 1 \in Nat
        <4>1. Cardinality(Borrowers) \in Nat
          BY BorrowersType, FS_CardinalityType
        <4> QED BY <4>1, CounterType, PoolType
      <3> QED BY <3>1 DEF Pool
    <2> HIDE DEF p
    <2>2. pools \in Seq(Pool) /\ pools' = Append(pools, p)
      BY <1>2 DEF GetPool, p, PoolTypes, PoolTypeOK
    <2>3. pools' \in Seq(Pool) /\ Len(pools') = n /\ pools'[n] = p
          /\ \A g \in 1..Len(pools) : pools'[g] = pools[g]
      BY <2>1, <2>2
    <2>4. \A g \in 1..Len(pools') : Len(pools'[g].idle) <= MaxConnections
      <3> SUFFICES ASSUME NEW g \in 1..n PROVE Len(pools'[g].idle) <= MaxConnections
        BY <2>3
      <3>1. CASE g = n
        BY <2>1, <2>3, <3>1, PoolType
      <3>2. CASE g \in 1..Len(pools)
        BY <2>3, <3>2 DEF PoolTypes, PoolTypeOK
      <3> QED BY <2>2, <3>1, <3>2
    <2>5. current' = n /\ mine' = [mine EXCEPT ![b] = n] /\ Goes(b, "idle")
          /\ UNCHANGED <<stale, cleaning, clears, draining>>
      BY <1>2 DEF GetPool
    <2>6. Len(pools) \in Nat /\ n \in 0..n /\ 0..Len(pools) \subseteq 0..n /\ n # 0
      BY <2>2
    <2> HIDE DEF n
    <2>7. mine' \in [Borrowers -> 0..n] /\ cleaning' \in [on : BOOLEAN, pool : 0..n]
      BY <2>5, <2>6 DEF PoolTypes, PoolTypeOK
    <2>8. PoolTypeOK'
      BY <2>3, <2>4, <2>5, <2>6, <2>7 DEF PoolTypes, PoolTypeOK, Goes
    <2>9. (\A c \in Borrowers : task[c] \in InCalls => mine[c] # 0)'
      BY <2>5, <2>6 DEF PoolTypes, PoolTypeOK, Goes, InCalls
    <2> QED BY <2>8, <2>9 DEF PoolTypes
  <1> QED BY <1>1, <1>2

\* acquire takes the first fresh connection from the queue.
LEMMA TryIdleTypes ==
    ASSUME PoolTypes, NEW b \in Borrowers, TryIdle(b)
    PROVE  PoolTypes'
  <1> DEFINE g == mine[b]
             q == pools[g].idle
             fresh == {i \in DOMAIN q : q[i] = "fresh"}
             first == CHOOSE i \in fresh : \A j \in fresh : i <= j
  <1>1. g \in 1..Len(pools) /\ g \in 0..Len(pools) /\ g # 0
    BY InCallType DEF TryIdle, InCalls, PoolTypes, PoolTypeOK
  <1>2. mine' = [mine EXCEPT ![b] = g]
    BY DEF TryIdle, PoolTypes, PoolTypeOK
  <1>3. pools[g].inUse \in 0..(CounterSize - 1) /\ q \in Seq(Ages) /\ Len(q) <= MaxConnections
        /\ Len(q) \in Nat
    BY <1>1, PoolAt
  <1>4. CASE fresh # {}
    <2> DEFINE v == (pools[g].inUse + 1) % CounterSize
               rest == SubSeq(q, first + 1, Len(q))
    <2>1. first \in 1..Len(q)
      <3>1. fresh \in SUBSET (0..Len(q))
        BY <1>3
      <3>2. \E i \in fresh : \A j \in fresh : i <= j
        <4> HIDE DEF fresh
        <4> QED BY <1>3, <1>4, <3>1, Least
      <3>3. first \in fresh
        BY <3>2
      <3>4. DOMAIN q = 1..Len(q)
        BY <1>3
      <3> HIDE DEF first, q
      <3> QED BY <3>3, <3>4
    <2>2. pools' = [pools EXCEPT ![g] = [inUse |-> v, idle |-> rest]] /\ Goes(b, "held")
      BY <1>4 DEF TryIdle
    <2> HIDE DEF first
    <2>3. rest \in Seq(Ages) /\ Len(rest) <= Len(q)
      BY <1>3, <2>1
    <2>4. v \in 0..(CounterSize - 1)
      BY <1>3, CountTypes
    <2> HIDE DEF v, rest
    <2>5. Len(rest) <= MaxConnections
      BY <1>3, <2>3, PoolType
    <2>6. PoolsType
      <3> HIDE DEF g
      <3> QED BY <1>1, <2>2, <2>3, <2>4, <2>5, OnePoolType
    <2> HIDE DEF g
    <2> QED BY <1>1, <1>2, <2>2, <2>6, GoesTypes DEF TryIdle
  <1>5. CASE fresh = {}
    <2>1. pools' = [pools EXCEPT ![g].idle = <<>>] /\ Goes(b, "check")
      BY <1>5 DEF TryIdle
    <2>2. PoolsType
      <3>1. <<>> \in Seq(Ages) /\ Len(<<>>) <= MaxConnections
        BY PoolType
      <3> QED BY <1>1, <2>1, <3>1, QueueType
    <2> HIDE DEF g
    <2> QED BY <1>1, <1>2, <2>1, <2>2, GoesTypes DEF TryIdle, InCalls
  <1> QED BY <1>4, <1>5

\* The other steps of acquire.
LEMMA CallTypes ==
    ASSUME PoolTypes, NEW b \in Borrowers, CheckLimit(b) \/ Connect(b) \/ GiveUp(b)
    PROVE  PoolTypes'
  <1>1. CASE CheckLimit(b)
    <2>1. PoolsType
      BY <1>1, SamePools DEF CheckLimit
    <2>2. CASE Ends(b)
      BY <1>1, <2>1, <2>2, EndsTypes DEF CheckLimit
    <2>3. CASE Goes(b, "connect") /\ UNCHANGED <<mine, stale>>
      <3>1. mine[b] \in 0..Len(pools) /\ mine[b] # 0 /\ mine' = [mine EXCEPT ![b] = mine[b]]
        BY <1>1, <2>3 DEF CheckLimit, InCalls, PoolTypes, PoolTypeOK
      <3> QED BY <1>1, <2>1, <2>3, <3>1, GoesTypes DEF CheckLimit, InCalls
    <2> QED BY <1>1, <2>2, <2>3 DEF CheckLimit
  <1>2. CASE Connect(b)
    <2>1. mine[b] \in 1..Len(pools)
      BY <1>2, InCallType DEF Connect, InCalls
    <2>2. PoolsType
      BY <1>2, <2>1, LentType DEF Connect
    <2>3. mine[b] \in 0..Len(pools) /\ mine' = [mine EXCEPT ![b] = mine[b]]
      BY <1>2 DEF Connect, PoolTypes, PoolTypeOK
    <2> QED BY <1>2, <2>2, <2>3, GoesTypes DEF Connect
  <1>3. CASE GiveUp(b)
    <2>1. PoolsType
      BY <1>3, SamePools DEF GiveUp
    <2> QED BY <1>3, <2>1, EndsTypes DEF GiveUp
  <1> QED BY <1>1, <1>2, <1>3

\* release, which keeps the queue within its capacity, and discard.
LEMMA ReturnTypes ==
    ASSUME PoolTypes, NEW b \in Borrowers, Release(b) \/ Push(b) \/ Discard(b)
    PROVE  PoolTypes'
  <1>0. current \in 0..Len(pools) /\ (current # 0 => current \in 1..Len(pools))
    BY DEF PoolTypes, PoolTypeOK
  <1>1. CASE Release(b)
    <2>1. PoolsType
      BY <1>0, <1>1, SamePools, LentType DEF Release
    <2>2. CASE Ends(b)
      BY <1>1, <2>1, <2>2, EndsTypes DEF Release
    <2>3. CASE current # 0 /\ Goes(b, "push") /\ mine' = [mine EXCEPT ![b] = current] /\ UNCHANGED stale
      BY <1>0, <1>1, <2>1, <2>3, GoesTypes DEF Release, InCalls
    <2> QED BY <1>1, <2>2, <2>3 DEF Release
  <1>2. CASE Push(b)
    <2> DEFINE g == mine[b]
               q == pools[g].idle
               r == IF Len(q) < MaxConnections THEN Append(q, "fresh") ELSE q
    <2>1. g \in 1..Len(pools)
      BY <1>2, InCallType DEF Push, InCalls
    <2>2. q \in Seq(Ages) /\ Len(q) <= MaxConnections /\ Len(q) \in Nat
      BY <2>1, PoolAt
    <2>3. r \in Seq(Ages) /\ Len(r) <= MaxConnections
      BY <2>2, PoolType DEF Ages
    <2>4. pools' = [pools EXCEPT ![g].idle = r]
      BY <1>2 DEF Push
    <2>5. PoolsType
      <3> HIDE DEF r, g
      <3> QED BY <2>1, <2>3, <2>4, QueueType
    <2> QED BY <1>2, <2>5, EndsTypes DEF Push
  <1>3. CASE Discard(b)
    <2>1. PoolsType
      BY <1>0, <1>3, SamePools, LentType DEF Discard
    <2> QED BY <1>3, <2>1, EndsTypes DEF Discard
  <1> QED BY <1>1, <1>2, <1>3

\* Time, the cleanup task and clear, which only shorten queues.
LEMMA BackgroundTypes ==
    ASSUME PoolTypes, GrowOld \/ StartCleanup \/ Cleanup \/ ClearDrains \/ ClearDrops
    PROVE  PoolTypes'
  <1>0. current \in 0..Len(pools) /\ (current # 0 => current \in 1..Len(pools))
        /\ cleaning.pool \in 0..Len(pools) /\ (cleaning.pool # 0 => cleaning.pool \in 1..Len(pools))
    BY DEF PoolTypes, PoolTypeOK
  <1>1. CASE GrowOld
    <2>1. PoolsType
      <3>1. CASE UNCHANGED pools
        BY <3>1, SamePools
      <3>2. ASSUME NEW g \in 1..Len(pools), NEW i \in DOMAIN pools[g].idle,
                   pools' = [pools EXCEPT ![g].idle[i] = "old"]
            PROVE  PoolsType
        <4> DEFINE q == pools[g].idle
                   r == [q EXCEPT ![i] = "old"]
        <4>1. q \in Seq(Ages) /\ Len(q) <= MaxConnections
          BY PoolAt
        <4>2. r \in Seq(Ages) /\ Len(r) = Len(q)
          BY <4>1 DEF Ages
        <4>3. pools' = [pools EXCEPT ![g].idle = r]
          BY <3>2
        <4> HIDE DEF r
        <4> QED BY <4>1, <4>2, <4>3, QueueType
      <3> QED BY <1>1, <3>1, <3>2 DEF GrowOld
    <2>2. stale' \in SUBSET Borrowers /\ UNCHANGED <<current, task, mine, cleaning, clears, draining>>
      BY <1>1 DEF GrowOld, PoolTypes, PoolTypeOK
    <2> QED BY <2>1, <2>2 DEF PoolTypes, PoolTypeOK, PoolsType
  <1>2. CASE StartCleanup
    BY <1>0, <1>2 DEF StartCleanup, PoolTypes, PoolTypeOK
  <1>3. CASE Cleanup
    <2> DEFINE g == cleaning.pool
               q == pools[g].idle
               r == Retained(q, {"fresh"})
    <2>1. g \in 1..Len(pools)
      BY <1>0, <1>3 DEF Cleanup
    <2>2. q \in Seq(Ages) /\ Len(q) <= MaxConnections /\ Len(q) \in Nat
      BY <2>1, PoolAt
    <2>3. r \in Seq(Ages) /\ Len(r) <= Len(q)
      BY <2>2, RetainedType
    <2>4. pools' = [pools EXCEPT ![g].idle = r]
      BY <1>3 DEF Cleanup
    <2> HIDE DEF r
    <2>5. Len(r) <= MaxConnections
      BY <2>2, <2>3, PoolType
    <2>6. PoolsType
      <3> HIDE DEF g
      <3> QED BY <2>1, <2>3, <2>4, <2>5, QueueType
    <2> QED BY <1>3, <2>6 DEF Cleanup, PoolTypes, PoolTypeOK, PoolsType
  <1>4. CASE ClearDrains
    <2>1. PoolsType
      <3>1. CASE current = 0
        BY <1>4, <3>1, SamePools DEF ClearDrains
      <3>2. CASE current # 0
        <4>1. <<>> \in Seq(Ages) /\ Len(<<>>) <= MaxConnections
          BY PoolType
        <4>2. pools' = [pools EXCEPT ![current].idle = <<>>]
          BY <1>4, <3>2 DEF ClearDrains
        <4> QED BY <1>0, <3>2, <4>1, <4>2, QueueType
      <3> QED BY <3>1, <3>2
    <2> QED BY <1>4, <2>1, PoolType DEF ClearDrains, PoolTypes, PoolTypeOK, PoolsType
  <1>5. CASE ClearDrops
    <2>1. draining' \in BOOLEAN
      BY <1>5 DEF ClearDrops
    <2>2. 0 \in 0..Len(pools)
      BY <1>0
    <2> QED BY <1>5, <2>1, <2>2 DEF ClearDrops, PoolTypes, PoolTypeOK
  <1> QED BY <1>1, <1>2, <1>3, <1>4, <1>5

\* Every step keeps the types.
LEMMA PoolTypesStep == PoolTypes /\ [PoolNext]_poolVars => PoolTypes'
  <1> SUFFICES ASSUME PoolTypes, [PoolNext]_poolVars PROVE PoolTypes'
    OBVIOUS
  <1>1. CASE UNCHANGED poolVars
    BY <1>1 DEF poolVars, PoolTypes, PoolTypeOK
  <1>2. ASSUME NEW b \in Borrowers, GetPool(b) \/ TryIdle(b) \/ CheckLimit(b) \/ Connect(b) \/ GiveUp(b)
                                    \/ Release(b) \/ Push(b) \/ Discard(b)
        PROVE  PoolTypes'
    BY <1>2, GetPoolTypes, TryIdleTypes, CallTypes, ReturnTypes
  <1> QED BY <1>1, <1>2, BackgroundTypes DEF PoolNext

\* For any number of borrowers, any limit and any number of clears, no queue of
\* idle connections is longer than max_connections and every call works on a
\* pool that exists (connection_pool.rs:124-216).
THEOREM QueuesFit == PoolSpec => []PoolTypeOK
  <1>1. PoolTypes => PoolTypeOK
    BY DEF PoolTypes
  <1> QED BY <1>1, PoolInitTypes, PoolTypesStep, PTL DEF PoolSpec

----------------------------------------------------------------------------
(***************************************************************************)
(* The backend repositories. What the version tells a client, for lists of *)
(* any length and any number of changes. The property alone is not         *)
(* inductive: a client whose version were ahead of the repository's would  *)
(* find it equal later, with another list.                                 *)
(***************************************************************************)

Reads(pc, version, l) == client = [pc |-> pc, version |-> version, list |-> l]

\* A client's version is one the repository has had.
NeverAhead ==
    \E pc \in {"version", "list", "holds"}, version \in Nat : \E l :
       Reads(pc, version, l) /\ (pc # "version" => version <= revision)

RepoInv == revision \in Nat /\ NeverAhead /\ SameVersionSameList

\* Both repositories start with version 0 and an empty list.
LEMMA RepoInitInv == ReposInit => RepoInv
<1> SUFFICES ASSUME ReposInit PROVE RepoInv
  OBVIOUS
<1>1. revision = 0 /\ Reads("version", 0, <<>>) BY DEF ReposInit, Reads
<1>2. NeverAhead BY <1>1 DEF NeverAhead
<1>3. client.pc = "version" BY <1>1 DEF Reads
<1> QED BY <1>1, <1>2, <1>3 DEF RepoInv, SameVersionSameList

\* Either a step leaves the version and the list, or it counts the version up,
\* or it opens one of the two moments the property excepts: the client, whose
\* version is not ahead, has the current list or knows that it has not.
LEMMA RepoStepInv == RepoInv /\ [ReposNext]_repoVars => RepoInv'
<1> SUFFICES ASSUME RepoInv, [ReposNext]_repoVars PROVE RepoInv'
  OBVIOUS
<1>0. PICK pc \in {"version", "list", "holds"}, version \in Nat : \E l :
         Reads(pc, version, l) /\ (pc # "version" => version <= revision)
  BY DEF RepoInv, NeverAhead
<1>1. PICK l : Reads(pc, version, l) /\ (pc # "version" => version <= revision)
  BY <1>0
<1>2. client.pc = pc /\ client.version = version /\ client.list = l
  BY <1>1 DEF Reads
<1>3. revision \in Nat /\ SameVersionSameList BY DEF RepoInv
\* the repository moves and the client does not
<1>4. ASSUME UNCHANGED client,
             \/ revision' = revision + 1
             \/ revision' = revision /\ (phase' = "bump" \/ wiped')
             \/ revision' = revision /\ backends' = backends /\ phase # "bump" /\ wiped' = wiped
      PROVE  RepoInv'
  <2>1. revision' \in Nat /\ revision' >= revision BY <1>3, <1>4
  <2>2. Reads(pc, version, l)' /\ (pc # "version" => version <= revision')
    BY <1>1, <1>3, <1>4, <2>1 DEF Reads
  <2>3. NeverAhead' BY <2>2 DEF NeverAhead
  <2>4. SameVersionSameList'
    BY <1>1, <1>2, <1>3, <1>4 DEF SameVersionSameList
  <2> QED BY <2>1, <2>3, <2>4 DEF RepoInv
<1>5. CASE LoadFromSqlite BY <1>4, <1>5 DEF LoadFromSqlite
<1>6. CASE SwapList BY <1>4, <1>6 DEF SwapList
<1>7. CASE BumpVersion BY <1>4, <1>7 DEF BumpVersion
<1>8. CASE PostgresReload BY <1>4, <1>8 DEF PostgresReload
<1>9. CASE (\E e \in Entries : AddBackend(e)) \/ (\E id \in BackendIds : RemoveBackend(id))
           \/ (\E id \in BackendIds : \E h \in BOOLEAN : UpdateHealth(id, h))
  <2>1. UNCHANGED client /\ revision' = revision + 1
    BY <1>9 DEF AddBackend, RemoveBackend, UpdateHealth, Changed
  <2> QED BY <1>4, <2>1
\* neither the list nor the version moves
<1>10. CASE (\E t \in Tables : WriteTable(t)) \/ Initialize \/ UNCHANGED repoVars
  <2>1. UNCHANGED <<client, revision, backends, phase, wiped>>
    BY <1>10 DEF WriteTable, Initialize, repoVars
  <2> QED BY <1>3, <2>1 DEF RepoInv, NeverAhead, Reads, SameVersionSameList
\* the client
<1>11. CASE GetVersion
  <2>1. /\ client' = [pc |-> "list", version |-> revision, list |-> <<>>]
        /\ UNCHANGED <<revision, backends, phase, wiped>>
    BY <1>11 DEF GetVersion
  <2>2. Reads("list", revision, <<>>)' BY <2>1 DEF Reads
  <2>3. revision' \in Nat /\ revision' <= revision' BY <1>3, <2>1
  <2>4. NeverAhead' BY <2>2, <2>3 DEF NeverAhead
  <2> QED BY <1>3, <2>1, <2>4 DEF RepoInv, SameVersionSameList
<1>12. CASE GetAll
  <2>1. /\ client' = [pc |-> "holds", version |-> version, list |-> backends]
        /\ pc = "list" /\ UNCHANGED <<revision, backends, phase, wiped>>
    BY <1>1, <1>2, <1>12 DEF GetAll, Reads
  <2>2. NeverAhead' BY <1>1, <1>3, <2>1 DEF NeverAhead, Reads
  <2> QED BY <1>3, <2>1, <2>2 DEF RepoInv, SameVersionSameList
<1>13. CASE Poll
  <2>1. UNCHANGED <<revision, backends, phase, wiped>> BY <1>13 DEF Poll
  <2>2. CASE UNCHANGED client
    BY <1>3, <2>1, <2>2 DEF RepoInv, NeverAhead, Reads, SameVersionSameList
  <2>3. CASE client' = [pc |-> "version", version |-> 0, list |-> <<>>]
    <3>1. NeverAhead' BY <2>3 DEF NeverAhead, Reads
    <3> QED BY <1>3, <2>1, <2>3, <3>1 DEF RepoInv, SameVersionSameList
  <2> QED BY <1>13, <2>2, <2>3 DEF Poll
<1> QED BY <1>5, <1>6, <1>7, <1>8, <1>9, <1>10, <1>11, <1>12, <1>13
        DEF ReposNext, SqliteSync

\* A client of either repository that finds the version it has read has the
\* current list, but for the moment between SQLite's exchange of the list and
\* the count, and until PostgreSQL's first reload
\* (sqlite_backend_repo.rs:56-60, postgres_backend_repo.rs:139-169).
THEOREM VersionTellsList == ReposSpec => []SameVersionSameList
<1>1. RepoInv => SameVersionSameList BY DEF RepoInv
<1> QED BY <1>1, RepoInitInv, RepoStepInv, PTL DEF ReposSpec

----------------------------------------------------------------------------
(***************************************************************************)
(* The types of the repositories: the lists stay within the bound and the  *)
(* version within its own.                                                 *)
(***************************************************************************)

\* The types; and SQLite's loop counts up once for each load, which the bound on
\* versions lets begin (sqlite_backend_repo.rs:50-64).
RepoTypes ==
    /\ ReposTypeOK
    /\ phase # "load" => engine = "sqlite" /\ revision < MaxVersion

\* The lists of backends are the sequences up to the bound.
LEMMA ListsAreShort ==
    ASSUME NEW t
    PROVE  t \in BackendLists <=> t \in Seq(Entries) /\ Len(t) <= MaxListed
  <1>1. ASSUME t \in BackendLists PROVE t \in Seq(Entries) /\ Len(t) <= MaxListed
    <2>1. PICK n \in 0..MaxListed : t \in [1..n -> Entries]
      BY <1>1 DEF BackendLists
    <2> HIDE DEF Entries
    <2>2. n \in Nat
      BY <2>1, ReposBounds
    <2>3. t \in Seq(Entries) /\ Len(t) = n
      BY <2>1, <2>2
    <2> QED BY <2>1, <2>3, ReposBounds
  <1>2. ASSUME t \in Seq(Entries), Len(t) <= MaxListed PROVE t \in BackendLists
    <2> DEFINE n == Len(t)
    <2>1. n \in 0..MaxListed
      BY <1>2, ReposBounds
    <2>2. t \in [1..n -> Entries]
      BY <1>2
    <2> HIDE DEF n
    <2> QED BY <2>1, <2>2 DEF BackendLists
  <1> QED BY <1>1, <1>2

\* The empty list is one, and has no id twice.
LEMMA EmptyList == <<>> \in BackendLists /\ <<>> \in Tables
  <1>1. <<>> \in BackendLists
    <2>1. <<>> \in Seq(Entries) /\ Len(<<>>) <= MaxListed
      BY ReposBounds
    <2> QED BY <2>1, ListsAreShort
  <1>2. DOMAIN <<>> = {}
    OBVIOUS
  <1> QED BY <1>1, <1>2 DEF Tables

\* Both repositories begin empty.
LEMMA RepoInitTypes == ReposInit => RepoTypes
  <1> SUFFICES ASSUME ReposInit PROVE RepoTypes
    OBVIOUS
  <1>1. table \in Tables /\ backends \in BackendLists /\ loaded \in BackendLists
    BY EmptyList DEF ReposInit
  <1>2. revision \in 0..MaxVersion
    BY ReposBounds DEF ReposInit
  <1>3. client \in [pc : {"version", "list", "holds"}, version : 0..MaxVersion, list : BackendLists]
    BY EmptyList, ReposBounds DEF ReposInit
  <1>4. engine \in {"sqlite", "postgres"} /\ phase = "load" /\ phase \in {"load", "swap", "bump"}
    BY DEF ReposInit
  <1>5. initialized \in BOOLEAN /\ wiped \in BOOLEAN
    BY DEF ReposInit
  <1> QED BY <1>1, <1>2, <1>3, <1>4, <1>5 DEF RepoTypes, ReposTypeOK

\* PostgreSQL replaces the list and counts up.
LEMMA ChangedTypes ==
    ASSUME RepoTypes, NEW l \in BackendLists, engine = "postgres", revision < MaxVersion, Changed(l)
    PROVE  RepoTypes'
BY ReposBounds DEF RepoTypes, ReposTypeOK, Changed

\* push, retain and the change of one entry (postgres_backend_repo.rs:139-169).
LEMMA PostgresTypes ==
    ASSUME RepoTypes, \/ \E e \in Entries : AddBackend(e)
                      \/ \E id \in BackendIds : RemoveBackend(id) \/ \E h \in BOOLEAN : UpdateHealth(id, h)
    PROVE  RepoTypes'
  <1>0. backends \in Seq(Entries) /\ Len(backends) <= MaxListed /\ Len(backends) \in Nat
    <2>1. backends \in BackendLists
      BY DEF RepoTypes, ReposTypeOK
    <2>2. backends \in Seq(Entries) /\ Len(backends) <= MaxListed
      BY <2>1, ListsAreShort
    <2> QED BY <2>2
  <1>1. ASSUME NEW e \in Entries, AddBackend(e) PROVE RepoTypes'
    <2> DEFINE l == Append(backends, e)
    <2>1. l \in Seq(Entries) /\ Len(l) <= MaxListed
      BY <1>0, <1>1, ReposBounds DEF AddBackend
    <2> HIDE DEF l
    <2>2. l \in BackendLists
      BY <2>1, ListsAreShort
    <2> QED BY <1>1, <2>2, ChangedTypes DEF AddBackend, l
  <1>2. ASSUME NEW id \in BackendIds, RemoveBackend(id) PROVE RepoTypes'
    <2> DEFINE l == Retained(backends, {e \in Entries : e.id # id})
    <2>1. l \in Seq(Entries) /\ Len(l) <= Len(backends)
      BY <1>0, RetainedType
    <2>2. Changed(l) /\ engine = "postgres" /\ revision < MaxVersion
      BY <1>2 DEF RemoveBackend
    <2> HIDE DEF l
    <2>3. Len(l) <= MaxListed
      BY <1>0, <2>1, ReposBounds
    <2>4. l \in BackendLists
      BY <2>1, <2>3, ListsAreShort
    <2> QED BY <2>2, <2>4, ChangedTypes
  <1>3. ASSUME NEW id \in BackendIds, NEW h \in BOOLEAN, UpdateHealth(id, h) PROVE RepoTypes'
    <2>1. PICK i \in DOMAIN backends : Changed([backends EXCEPT ![i].healthy = h])
      BY <1>3 DEF UpdateHealth
    <2>2. engine = "postgres" /\ revision < MaxVersion
      BY <1>3 DEF UpdateHealth
    <2> DEFINE e == [backends[i] EXCEPT !.healthy = h]
               l == [backends EXCEPT ![i] = e]
    <2>3. backends[i] \in Entries
      BY <1>0
    <2>4. e \in Entries
      BY <2>3 DEF Entries
    <2>5. Changed(l)
      BY <2>1
    <2> HIDE DEF e
    <2>6. l \in Seq(Entries) /\ Len(l) = Len(backends)
      BY <1>0, <2>4
    <2> HIDE DEF l
    <2>7. l \in BackendLists
      BY <1>0, <2>6, ListsAreShort
    <2> QED BY <2>2, <2>5, <2>7, ChangedTypes
  <1> QED BY <1>1, <1>2, <1>3

\* A client reads.
LEMMA ClientTypes ==
    ASSUME RepoTypes, UNCHANGED <<engine, table, backends, revision, initialized, phase, loaded, wiped>>,
           client' \in [pc : {"version", "list", "holds"}, version : 0..MaxVersion, list : BackendLists]
    PROVE  RepoTypes'
BY DEF RepoTypes, ReposTypeOK

\* Every step keeps the types.
LEMMA RepoTypesStep == RepoTypes /\ [ReposNext]_repoVars => RepoTypes'
  <1> SUFFICES ASSUME RepoTypes, [ReposNext]_repoVars PROVE RepoTypes'
    OBVIOUS
  <1>0. table \in Tables /\ table \in BackendLists
    BY DEF RepoTypes, ReposTypeOK, Tables
  <1>1. CASE UNCHANGED repoVars
    BY <1>1 DEF repoVars, RepoTypes, ReposTypeOK
  <1>2. CASE LoadFromSqlite
    BY <1>0, <1>2 DEF LoadFromSqlite, RepoTypes, ReposTypeOK
  <1>3. CASE SwapList
    BY <1>3 DEF SwapList, RepoTypes, ReposTypeOK
  <1>4. CASE BumpVersion
    <2>1. revision' \in 0..MaxVersion
      BY <1>4, ReposBounds DEF BumpVersion, RepoTypes, ReposTypeOK
    <2> QED BY <1>4, <2>1 DEF BumpVersion, RepoTypes, ReposTypeOK
  <1>5. ASSUME NEW t \in Tables, WriteTable(t) PROVE RepoTypes'
    BY <1>5 DEF WriteTable, RepoTypes, ReposTypeOK
  <1>6. CASE Initialize
    <2>1. initialized' \in BOOLEAN
      BY <1>6 DEF Initialize
    <2> QED BY <1>6, <2>1 DEF Initialize, RepoTypes, ReposTypeOK
  <1>7. CASE PostgresReload
    <2>1. wiped' \in BOOLEAN
      BY <1>7 DEF PostgresReload
    <2> QED BY <1>7, <2>1, EmptyList DEF PostgresReload, RepoTypes, ReposTypeOK
  <1>8. CASE GetVersion
    <2>1. client' \in [pc : {"version", "list", "holds"}, version : 0..MaxVersion, list : BackendLists]
      BY <1>8, EmptyList DEF GetVersion, RepoTypes, ReposTypeOK
    <2> QED BY <1>8, <2>1, ClientTypes DEF GetVersion
  <1>9. CASE GetAll
    <2>1. client' \in [pc : {"version", "list", "holds"}, version : 0..MaxVersion, list : BackendLists]
      BY <1>9 DEF GetAll, RepoTypes, ReposTypeOK
    <2> QED BY <1>9, <2>1, ClientTypes DEF GetAll
  <1>10. CASE Poll
    <2>1. client' \in [pc : {"version", "list", "holds"}, version : 0..MaxVersion, list : BackendLists]
      BY <1>10, EmptyList, ReposBounds DEF Poll, RepoTypes, ReposTypeOK
    <2> QED BY <1>10, <2>1, ClientTypes DEF Poll
  <1> QED BY <1>1, <1>2, <1>3, <1>4, <1>5, <1>6, <1>7, <1>8, <1>9, <1>10, PostgresTypes
          DEF ReposNext, SqliteSync

\* For any bounds, the table, the lists and what a client holds are lists of
\* backends, and the version counts what has been changed
\* (sqlite_backend_repo.rs:50-64, postgres_backend_repo.rs:88, 139-169).
THEOREM ListsTyped == ReposSpec => []ReposTypeOK
  <1>1. RepoTypes => ReposTypeOK
    BY DEF RepoTypes
  <1> QED BY <1>1, RepoInitTypes, RepoTypesStep, PTL DEF ReposSpec

----------------------------------------------------------------------------
(***************************************************************************)
(* The transport. That nothing arrives twice rests on the tables of        *)
(* connections: a node has one entry per node it dialled, so a broadcast   *)
(* is owed to another node on at most one connection that its sender       *)
(* dialled, and only the end that accepted a connection reads streams from *)
(* it. The rest of the invariant keeps tables, tasks, streams and          *)
(* broadcasts true to the connections they are about.                      *)
(***************************************************************************)

\* The streams that have not been passed on or dropped.
Alive == streams \cup reading

\* Broadcast b is still to go out on c, or on its way there.
Owed(b, c) == c \in cast[b].left \/ \E s \in Alive : s.cast = b /\ s.line = c

\* A connection that has been made joins two nodes, and only such a one has tasks.
LinesJoin ==
    \A c \in Lines :
      \/ line[c] = Untouched /\ dialler[c] = "none" /\ answerer[c] = "none"
      \/ /\ line[c].state # "unused"
         /\ line[c].from \in Hubs /\ line[c].to \in Hubs /\ line[c].from # line[c].to

\* A table has connections of its node, each under the name of its other end.
TablesAreTrue ==
    \A n \in Hubs, k \in Names :
      LET c == peers[n][k]
      IN  c # NoLine =>
            /\ line[c].state # "unused"
            /\ k.kind = "id" => line[c].from = n /\ line[c].to = k.hub
            /\ k.kind = "addr" => line[c].to = n /\ line[c].from = k.hub

\* A task that serves streams has announced who called.
ServersAnnounced ==
    \A c \in Lines : answerer[c] = "serve" => Caller(c) \in announced[line[c].to]

\* A broadcast that has not been made has reached nobody.
CastsAreMade ==
    \A b \in Casts :
      \/ cast[b] = Uncast /\ \A n \in Hubs : got[n][b] = 0
      \/ cast[b].state = "sending" /\ cast[b].by \in Hubs

\* A broadcast goes out on connections that have been made.
OwedIsMade ==
    \A b \in Casts, c \in Lines : Owed(b, c) => line[c].state # "unused"

\* A stream is its sender's, is of a connection the broadcast has done with,
\* and is read by the end that accepted, after it has announced the sender.
StreamsAreTrue ==
    \A s \in Alive :
      /\ s.from = cast[s.cast].by /\ cast[s.cast].state = "sending"
      /\ s.line \notin cast[s.cast].left
      /\ s \in reading =>
           /\ s \notin streams
           /\ s.from = line[s.line].from
           /\ Caller(s.line) \in announced[line[s.line].to]

\* A broadcast is owed to a node on one connection that its sender dialled,
OneWay ==
    \A b \in Casts, c, d \in Lines :
      /\ Owed(b, c) /\ Owed(b, d)
      /\ line[c].from = cast[b].by /\ line[d].from = cast[b].by
      /\ line[c].to = line[d].to
      => c = d

\* and on none once the node has got it.
GotIsLast ==
    \A n \in Hubs, b \in Casts :
      got[n][b] # 0 => \A c \in Lines :
        Owed(b, c) /\ line[c].from = cast[b].by => line[c].to # n

\* The inductive invariant.
WireInv ==
    /\ WireTypeOK /\ LinesJoin /\ TablesAreTrue /\ ServersAnnounced /\ CastsAreMade
    /\ OwedIsMade /\ StreamsAreTrue /\ OneWay /\ GotIsLast /\ DeliveredOnce

----------------------------------------------------------------------------
\* At the start there are no connections, streams or broadcasts.
LEMMA WireInitInv == WireInit => WireInv
<1> SUFFICES ASSUME WireInit PROVE WireInv
    OBVIOUS
<1>1. WireTypeOK /\ LinesJoin
  <2>1. line \in [Lines -> [state : {"unused", "open", "closed"},
                            from : Hubs \cup {NoHub}, to : Hubs \cup {NoHub}]]
    BY DEF WireInit, Untouched
  <2>2. peers \in [Hubs -> [Names -> Lines \cup {NoLine}]]
    BY DEF WireInit
  <2>3. cast \in [Casts -> [state : {"unused", "sending"}, by : Hubs \cup {NoHub},
                            fits : BOOLEAN, left : SUBSET Lines]]
    BY DEF WireInit, Uncast
  <2>4. unread \in [Hubs -> 0..EventRoom]
    BY TransportConstants DEF WireInit
  <2>5. got \in [Hubs -> [Casts -> Nat]]
    BY DEF WireInit
  <2> QED
    BY <2>1, <2>2, <2>3, <2>4, <2>5 DEF WireInit, WireTypeOK, LinesJoin
<1>2. TablesAreTrue /\ ServersAnnounced
  BY DEF WireInit, TablesAreTrue, ServersAnnounced
<1>3. CastsAreMade
  BY DEF WireInit, CastsAreMade
<1>4. \A b \in Casts, c \in Lines : ~Owed(b, c)
  BY DEF WireInit, Owed, Alive, Uncast
<1>5. OwedIsMade /\ OneWay /\ GotIsLast
  BY <1>4 DEF OwedIsMade, OneWay, GotIsLast
<1>6. StreamsAreTrue
  BY DEF WireInit, StreamsAreTrue, Alive
<1>7. DeliveredOnce
  BY DEF WireInit, DeliveredOnce
<1> QED
  BY <1>1, <1>2, <1>3, <1>5, <1>6, <1>7 DEF WireInv

\* The event channel has room for EventRoom events.
LEMMA SendType ==
    ASSUME WireTypeOK, NEW n \in Hubs, Send(n)
    PROVE  unread' \in [Hubs -> 0..EventRoom]
<1>1. unread[n] \in 0..EventRoom /\ unread[n] + 1 \in 0..EventRoom
  BY TransportConstants DEF WireTypeOK, Send
<1> QED
  BY <1>1 DEF WireTypeOK, Send

\* A step that leaves connections, tables, broadcasts and streams alone.
LEMMA QuietInv ==
    ASSUME WireInv, WireTypeOK', NEW c \in Lines,
           UNCHANGED <<line, peers, cast, streams, reading, got>>,
           line[c].state # "unused",
           \A d \in Lines : d # c => dialler'[d] = dialler[d] /\ answerer'[d] = answerer[d],
           \A n \in Hubs : announced[n] \subseteq announced'[n],
           answerer'[c] = "serve" => answerer[c] = "serve" \/ Caller(c) \in announced'[line[c].to]
    PROVE  WireInv'
<1>1. LinesJoin'
  BY DEF WireInv, LinesJoin, Untouched
<1>2. TablesAreTrue'
  BY DEF WireInv, TablesAreTrue
<1>3. ServersAnnounced'
  BY DEF WireInv, ServersAnnounced, LinesJoin, Caller, Untouched
<1>4. CastsAreMade'
  BY DEF WireInv, CastsAreMade
<1>5. \A b \in Casts, d \in Lines : Owed(b, d)' = Owed(b, d)
  BY DEF Owed, Alive
<1>6. OwedIsMade' /\ OneWay' /\ GotIsLast'
  BY <1>5 DEF WireInv, OwedIsMade, OneWay, GotIsLast
<1>7. StreamsAreTrue'
  <2> SUFFICES ASSUME NEW s \in Alive'
               PROVE  /\ s.from = cast[s.cast].by /\ cast[s.cast].state = "sending"
                      /\ s.line \notin cast[s.cast].left
                      /\ s \in reading =>
                           /\ s \notin streams
                           /\ s.from = line[s.line].from
                           /\ Caller(s.line) \in announced'[line[s.line].to]
    BY DEF StreamsAreTrue, Caller
  <2>1. s \in Alive /\ s \in Stream
    BY DEF Alive, WireInv, WireTypeOK
  <2>2. line[s.line].state # "unused"
    BY <2>1 DEF WireInv, OwedIsMade, Owed, Stream
  <2>3. line[s.line].to \in Hubs
    BY <2>1, <2>2 DEF WireInv, LinesJoin, Stream, Untouched
  <2> QED
    BY <2>1, <2>3 DEF WireInv, StreamsAreTrue
<1>8. DeliveredOnce'
  BY DEF WireInv, DeliveredOnce
<1> QED
  BY <1>1, <1>2, <1>3, <1>4, <1>6, <1>7, <1>8 DEF WireInv

\* The tasks of a connection: an entry of the table, and the events.
LEMMA TaskInv ==
    ASSUME WireInv, NEW c \in Lines,
           DiallerAnnounces(c) \/ AnswererAnnounces(c) \/ ServeEnds(c) \/ AnswererLeaves(c)
    PROVE  WireInv'
<1>1. /\ line[c].state # "unused" /\ line[c].from \in Hubs /\ line[c].to \in Hubs
      /\ Called(c) \in Names /\ Caller(c) \in Names
  BY DEF WireInv, LinesJoin, DiallerAnnounces, AnswererAnnounces, ServeEnds, AnswererLeaves,
         Called, Caller, Names
<1>2. unread' \in [Hubs -> 0..EventRoom]
  BY <1>1, SendType DEF WireInv, WireTypeOK, DiallerAnnounces, AnswererAnnounces, ServeEnds,
                        AnswererLeaves
<1>a. announced' \in [Hubs -> SUBSET Names] /\ \A n \in Hubs : announced[n] \subseteq announced'[n]
  <2>0. announced \in [Hubs -> SUBSET Names]
    BY DEF WireInv, WireTypeOK
  <2>1. CASE UNCHANGED announced
    BY <2>0, <2>1
  <2>2. ASSUME NEW n \in Hubs, NEW k \in Names,
               announced' = [announced EXCEPT ![n] = @ \cup {k}]
        PROVE  announced' \in [Hubs -> SUBSET Names] /\ \A p \in Hubs : announced[p] \subseteq announced'[p]
    BY <2>0, <2>2
  <2> QED
    BY <1>1, <2>1, <2>2 DEF DiallerAnnounces, AnswererAnnounces, ServeEnds, AnswererLeaves
<1>3. WireTypeOK'
  <2>1. dialler' \in [Lines -> {"none", "insert", "announce", "over"}]
    <3>1. dialler \in [Lines -> {"none", "insert", "announce", "over"}]
      BY DEF WireInv, WireTypeOK
    <3> QED
      BY <3>1 DEF DiallerAnnounces, AnswererAnnounces, ServeEnds, AnswererLeaves
  <2>2. answerer' \in [Lines -> {"none", "insert", "announce", "serve", "leave", "over"}]
    <3>1. answerer \in [Lines -> {"none", "insert", "announce", "serve", "leave", "over"}]
      BY DEF WireInv, WireTypeOK
    <3> QED
      BY <3>1 DEF DiallerAnnounces, AnswererAnnounces, ServeEnds, AnswererLeaves
  <2>3. UNCHANGED <<accepting, closing, line, peers, cast, streams, reading, got>>
    BY DEF DiallerAnnounces, AnswererAnnounces, ServeEnds, AnswererLeaves
  <2> QED
    BY <1>2, <1>a, <2>1, <2>2, <2>3 DEF WireInv, WireTypeOK
<1>4. /\ UNCHANGED <<line, peers, cast, streams, reading, got>>
      /\ \A d \in Lines : d # c => dialler'[d] = dialler[d] /\ answerer'[d] = answerer[d]
  BY DEF DiallerAnnounces, AnswererAnnounces, ServeEnds, AnswererLeaves, WireInv, WireTypeOK
<1>6. answerer'[c] = "serve" => answerer[c] = "serve" \/ Caller(c) \in announced'[line[c].to]
  BY <1>1 DEF DiallerAnnounces, AnswererAnnounces, ServeEnds, AnswererLeaves, WireInv, WireTypeOK
<1> QED
  BY <1>1, <1>a, <1>3, <1>4, <1>6, QuietInv

\* Either end enters the connection into its own table, under the name it
\* knows the other by, and replaces what was there (transport.rs:341,
\* 369-386).
LEMMA InsertInv ==
    ASSUME WireInv, NEW c \in Lines, DiallerInserts(c) \/ AnswererInserts(c)
    PROVE  WireInv'
<1>1. /\ line[c].state # "unused" /\ line[c].from \in Hubs /\ line[c].to \in Hubs
      /\ Called(c) \in Names /\ Caller(c) \in Names
  BY DEF WireInv, LinesJoin, DiallerInserts, AnswererInserts, Called, Caller, Names
<1>0. PICK n \in Hubs, k \in Names :
        /\ peers' = [peers EXCEPT ![n][k] = c]
        /\ \/ n = line[c].from /\ k = Called(c)
           \/ n = line[c].to /\ k = Caller(c)
  BY <1>1 DEF DiallerInserts, AnswererInserts
<1>2. WireTypeOK'
  <2>1. peers' \in [Hubs -> [Names -> Lines \cup {NoLine}]]
    BY <1>0, <1>1 DEF WireInv, WireTypeOK
  <2>2. dialler' \in [Lines -> {"none", "insert", "announce", "over"}]
    <3>1. dialler \in [Lines -> {"none", "insert", "announce", "over"}]
      BY DEF WireInv, WireTypeOK
    <3> QED
      BY <3>1 DEF DiallerInserts, AnswererInserts
  <2>3. answerer' \in [Lines -> {"none", "insert", "announce", "serve", "leave", "over"}]
    <3>1. answerer \in [Lines -> {"none", "insert", "announce", "serve", "leave", "over"}]
      BY DEF WireInv, WireTypeOK
    <3> QED
      BY <3>1 DEF DiallerInserts, AnswererInserts
  <2>4. UNCHANGED <<accepting, closing, line, cast, streams, reading, unread, announced, got>>
    BY DEF DiallerInserts, AnswererInserts
  <2> QED
    BY <2>1, <2>2, <2>3, <2>4 DEF WireInv, WireTypeOK
<1>3. /\ UNCHANGED <<line, cast, streams, reading, announced, got>>
      /\ \A d \in Lines : /\ d # c => dialler'[d] = dialler[d]
                          /\ d # c => answerer'[d] = answerer[d]
                          /\ answerer'[d] = "serve" => answerer[d] = "serve"
  BY DEF DiallerInserts, AnswererInserts, WireInv, WireTypeOK
<1>4. LinesJoin'
  <2> SUFFICES ASSUME NEW d \in Lines
               PROVE  \/ line[d] = Untouched /\ dialler'[d] = "none" /\ answerer'[d] = "none"
                      \/ /\ line[d].state # "unused"
                         /\ line[d].from \in Hubs /\ line[d].to \in Hubs /\ line[d].from # line[d].to
    BY <1>3 DEF LinesJoin
  <2>1. CASE d = c
    BY <1>1, <2>1 DEF WireInv, LinesJoin, Untouched
  <2>2. CASE d # c
    BY <1>3, <2>2 DEF WireInv, LinesJoin
  <2> QED
    BY <2>1, <2>2
<1>5. TablesAreTrue'
  <2> SUFFICES ASSUME NEW p \in Hubs, NEW j \in Names, peers'[p][j] # NoLine
               PROVE  LET d == peers'[p][j]
                      IN  /\ line[d].state # "unused"
                          /\ j.kind = "id" => line[d].from = p /\ line[d].to = j.hub
                          /\ j.kind = "addr" => line[d].to = p /\ line[d].from = j.hub
    BY <1>3 DEF TablesAreTrue
  <2>1. CASE p = n /\ j = k
    <3>1. peers'[p][j] = c
      BY <1>0, <2>1 DEF WireInv, WireTypeOK
    <3>2. \/ j.kind = "id" /\ line[c].from = p /\ line[c].to = j.hub
          \/ j.kind = "addr" /\ line[c].to = p /\ line[c].from = j.hub
      BY <1>0, <2>1 DEF Called, Caller
    <3> QED
      BY <3>1, <3>2, <1>1
  <2>2. CASE ~(p = n /\ j = k)
    <3>1. peers'[p][j] = peers[p][j]
      BY <1>0, <2>2 DEF WireInv, WireTypeOK
    <3> QED
      BY <3>1 DEF WireInv, TablesAreTrue
  <2> QED
    BY <2>1, <2>2
<1>6. ServersAnnounced'
  BY <1>3 DEF WireInv, ServersAnnounced, Caller
<1>7. CastsAreMade' /\ DeliveredOnce'
  BY <1>3 DEF WireInv, CastsAreMade, DeliveredOnce
<1>8. \A b \in Casts, d \in Lines : Owed(b, d)' = Owed(b, d)
  BY <1>3 DEF Owed, Alive
<1>9. OwedIsMade' /\ OneWay' /\ GotIsLast'
  BY <1>3, <1>8 DEF WireInv, OwedIsMade, OneWay, GotIsLast
<1>10. StreamsAreTrue'
  BY <1>3 DEF WireInv, StreamsAreTrue, Alive, Caller
<1> QED
  BY <1>2, <1>4, <1>5, <1>6, <1>7, <1>9, <1>10 DEF WireInv

\* A new connection has no tasks or streams yet (transport.rs:317-331).
LEMMA DialInv ==
    ASSUME WireInv, NEW c \in Lines, NEW m \in Hubs, NEW n \in Hubs, Dial(c, m, n)
    PROVE  WireInv'
<1>1. WireTypeOK'
  <2>1. line' \in [Lines -> [state : {"unused", "open", "closed"},
                             from : Hubs \cup {NoHub}, to : Hubs \cup {NoHub}]]
    BY DEF WireInv, WireTypeOK, Dial
  <2> QED
    BY <2>1 DEF WireInv, WireTypeOK, Dial
<1>2. /\ UNCHANGED <<peers, cast, streams, reading, announced, got>>
      /\ line[c].state = "unused"
      /\ line'[c] = [state |-> "open", from |-> m, to |-> n] /\ m # n
      /\ answerer'[c] = "insert"
      /\ \A d \in Lines : d # c => /\ line'[d] = line[d] /\ dialler'[d] = dialler[d]
                                  /\ answerer'[d] = answerer[d]
  BY DEF Dial, WireInv, WireTypeOK, Untouched
<1>3. LinesJoin'
  <2>1. line'[c].state # "unused" /\ line'[c].from = m /\ line'[c].to = n
    BY <1>2
  <2> QED
    BY <1>2, <2>1 DEF WireInv, LinesJoin
<1>4. TablesAreTrue'
  <2> SUFFICES ASSUME NEW p \in Hubs, NEW k \in Names, peers[p][k] # NoLine
               PROVE  LET d == peers[p][k]
                      IN  /\ line'[d].state # "unused"
                          /\ k.kind = "id" => line'[d].from = p /\ line'[d].to = k.hub
                          /\ k.kind = "addr" => line'[d].to = p /\ line'[d].from = k.hub
    BY <1>2 DEF TablesAreTrue
  <2>1. peers[p][k] \in Lines
    BY DEF WireInv, WireTypeOK
  <2>2. line[peers[p][k]].state # "unused"
    BY DEF WireInv, TablesAreTrue
  <2>3. line'[peers[p][k]] = line[peers[p][k]]
    BY <1>2, <2>1, <2>2
  <2> QED
    BY <2>3 DEF WireInv, TablesAreTrue
<1>5. ServersAnnounced'
  BY <1>2 DEF WireInv, ServersAnnounced, Caller
<1>6. CastsAreMade' /\ DeliveredOnce'
  BY <1>2 DEF WireInv, CastsAreMade, DeliveredOnce
<1>7. \A b \in Casts, d \in Lines : Owed(b, d)' = Owed(b, d)
  BY <1>2 DEF Owed, Alive
<1>8. \A b \in Casts, d \in Lines : Owed(b, d) => line'[d] = line[d]
  BY <1>2 DEF WireInv, OwedIsMade
<1>9. OwedIsMade' /\ OneWay' /\ GotIsLast'
  BY <1>2, <1>7, <1>8 DEF WireInv, OwedIsMade, OneWay, GotIsLast
<1>10. StreamsAreTrue'
  <2>1. \A s \in Alive : line'[s.line] = line[s.line]
    BY <1>8 DEF Owed, Alive, WireInv, WireTypeOK, Stream
  <2> QED
    BY <1>2, <2>1 DEF WireInv, StreamsAreTrue, Alive, Caller
<1> QED
  BY <1>1, <1>3, <1>4, <1>5, <1>6, <1>9, <1>10 DEF WireInv

\* A connection closes, and its streams go.
LEMMA CloseInv ==
    ASSUME WireInv, NEW c \in Lines, Close(c)
    PROVE  WireInv'
<1>1. WireTypeOK'
  <2>0. line[c] \in [state : {"unused", "open", "closed"},
                     from : Hubs \cup {NoHub}, to : Hubs \cup {NoHub}]
    BY DEF WireInv, WireTypeOK
  <2>1. line' \in [Lines -> [state : {"unused", "open", "closed"},
                             from : Hubs \cup {NoHub}, to : Hubs \cup {NoHub}]]
    BY <2>0 DEF WireInv, WireTypeOK, Close
  <2> QED
    BY <2>1 DEF WireInv, WireTypeOK, Close
<1>2. /\ UNCHANGED <<peers, cast, reading, announced, got, dialler, answerer>>
      /\ streams' \subseteq streams
      /\ line[c].state # "unused" /\ line'[c].state # "unused"
      /\ \A d \in Lines : /\ line'[d].from = line[d].from /\ line'[d].to = line[d].to
                          /\ d # c => line'[d] = line[d]
  BY DEF Close, WireInv, WireTypeOK
<1>a. \A d \in Lines : line[d].state # "unused" => line'[d].state # "unused"
  BY <1>2
<1>3. LinesJoin'
  <2> SUFFICES ASSUME NEW d \in Lines
               PROVE  \/ line'[d] = Untouched /\ dialler[d] = "none" /\ answerer[d] = "none"
                      \/ /\ line'[d].state # "unused"
                         /\ line'[d].from \in Hubs /\ line'[d].to \in Hubs
                         /\ line'[d].from # line'[d].to
    BY <1>2 DEF LinesJoin
  <2>1. CASE d = c
    BY <1>2, <2>1 DEF WireInv, LinesJoin, Untouched
  <2>2. CASE d # c
    BY <1>2, <2>2 DEF WireInv, LinesJoin
  <2> QED
    BY <2>1, <2>2
<1>4. TablesAreTrue'
  <2> SUFFICES ASSUME NEW p \in Hubs, NEW k \in Names, peers[p][k] # NoLine
               PROVE  LET d == peers[p][k]
                      IN  /\ line'[d].state # "unused"
                          /\ k.kind = "id" => line'[d].from = p /\ line'[d].to = k.hub
                          /\ k.kind = "addr" => line'[d].to = p /\ line'[d].from = k.hub
    BY <1>2 DEF TablesAreTrue
  <2>1. peers[p][k] \in Lines
    BY DEF WireInv, WireTypeOK
  <2> QED
    BY <2>1, <1>2, <1>a DEF WireInv, TablesAreTrue
<1>5. ServersAnnounced'
  BY <1>2 DEF WireInv, ServersAnnounced, Caller
<1>6. CastsAreMade' /\ DeliveredOnce'
  BY <1>2 DEF WireInv, CastsAreMade, DeliveredOnce
<1>7. \A b \in Casts, d \in Lines : Owed(b, d)' => Owed(b, d)
  BY <1>2 DEF Owed, Alive
<1>8. OwedIsMade' /\ OneWay' /\ GotIsLast'
  <2>1. OwedIsMade'
    BY <1>7, <1>a DEF WireInv, OwedIsMade
  <2>2. OneWay'
    BY <1>2, <1>7 DEF WireInv, OneWay
  <2>3. GotIsLast'
    BY <1>2, <1>7 DEF WireInv, GotIsLast
  <2> QED
    BY <2>1, <2>2, <2>3
<1>9. StreamsAreTrue'
  <2>1. \A s \in Alive' : s \in Alive /\ s.line \in Lines
    BY <1>2 DEF Alive, WireInv, WireTypeOK, Stream
  <2>2. \A s \in Alive : s.line \in Lines => Caller(s.line)' = Caller(s.line)
    BY <1>2 DEF Caller
  <2>3. StreamsAreTrue
    BY DEF WireInv
  <2> QED
    BY <1>2, <2>1, <2>2, <2>3 DEF StreamsAreTrue
<1> QED
  BY <1>1, <1>3, <1>4, <1>5, <1>6, <1>8, <1>9 DEF WireInv

\* Steps that leave connections and streams alone.
LEMMA RestInv ==
    ASSUME WireInv, WireTypeOK',
           UNCHANGED <<line, answerer, dialler, peers, cast, streams, reading, announced, got>>
    PROVE  WireInv'
<1>1. LinesJoin' /\ TablesAreTrue' /\ ServersAnnounced' /\ CastsAreMade' /\ DeliveredOnce'
  BY DEF WireInv, LinesJoin, TablesAreTrue, ServersAnnounced, CastsAreMade, DeliveredOnce, Caller
<1>2. \A b \in Casts, d \in Lines : Owed(b, d)' = Owed(b, d)
  BY DEF Owed, Alive
<1>3. OwedIsMade' /\ OneWay' /\ GotIsLast'
  BY <1>2 DEF WireInv, OwedIsMade, OneWay, GotIsLast
<1>4. StreamsAreTrue'
  BY DEF WireInv, StreamsAreTrue, Alive, Caller
<1> QED
  BY <1>1, <1>3, <1>4 DEF WireInv

\* Reading an event, and shutting down (transport.rs:242-265).
LEMMA NodeInv ==
    ASSUME WireInv, NEW n \in Hubs, ReadEvent(n) \/ ShutdownHub(n)
    PROVE  WireInv'
<1>1. unread' \in [Hubs -> 0..EventRoom]
  <2>1. unread \in [Hubs -> 0..EventRoom] /\ EventRoom \in Nat
    BY TransportConstants DEF WireInv, WireTypeOK
  <2>2. ASSUME unread[n] > 0 PROVE unread[n] - 1 \in 0..EventRoom
    BY <2>1, <2>2
  <2> QED
    BY <2>1, <2>2 DEF ReadEvent, ShutdownHub
<1>2. closing' \in [Hubs -> BOOLEAN]
  BY DEF WireInv, WireTypeOK, ReadEvent, ShutdownHub
<1>3. /\ UNCHANGED <<line, answerer, dialler, peers, cast, streams, reading, announced, got>>
      /\ UNCHANGED accepting
  BY DEF ReadEvent, ShutdownHub
<1>4. WireTypeOK'
  BY <1>1, <1>2, <1>3 DEF WireInv, WireTypeOK
<1> QED
  BY <1>3, <1>4, RestInv

\* What there is to say of a step that only moves or ends streams.
LEMMA StreamsMove ==
    ASSUME WireInv, WireTypeOK',
           UNCHANGED <<line, answerer, dialler, peers, announced, got>>,
           \A b \in Casts, c \in Lines : Owed(b, c)' => Owed(b, c),
           \A b \in Casts : cast'[b].state = cast[b].state /\ cast'[b].by = cast[b].by,
           CastsAreMade', StreamsAreTrue'
    PROVE  WireInv'
<1>1. LinesJoin' /\ TablesAreTrue' /\ ServersAnnounced'
  BY DEF WireInv, LinesJoin, TablesAreTrue, ServersAnnounced, Caller
<1>2. OwedIsMade' /\ OneWay' /\ GotIsLast'
  <2>1. OwedIsMade'
    BY DEF WireInv, OwedIsMade
  <2>2. OneWay'
    BY DEF WireInv, OneWay
  <2>3. GotIsLast'
    BY DEF WireInv, GotIsLast
  <2> QED
    BY <2>1, <2>2, <2>3
<1>3. DeliveredOnce'
  BY DEF WireInv, DeliveredOnce
<1> QED
  BY <1>1, <1>2, <1>3 DEF WireInv

\* A stream is accepted, or its reading fails (transport.rs:418-466).
LEMMA AcceptInv ==
    ASSUME WireInv, NEW s \in Stream, AcceptUni(s) \/ GiveUpReading(s)
    PROVE  WireInv'
<1>1. /\ UNCHANGED <<accepting, closing, line, answerer, dialler, peers, cast, unread, announced, got>>
      /\ streams' \subseteq streams /\ Alive' \subseteq Alive
  BY DEF AcceptUni, GiveUpReading, Alive
<1>2. WireTypeOK'
  <2>1. streams' \subseteq Stream /\ reading' \subseteq Stream
    BY DEF AcceptUni, GiveUpReading, WireInv, WireTypeOK
  <2> QED
    BY <1>1, <2>1 DEF WireInv, WireTypeOK
<1>3. \A b \in Casts, c \in Lines : Owed(b, c)' => Owed(b, c)
  BY <1>1 DEF Owed
<1>4. CastsAreMade'
  BY <1>1 DEF WireInv, CastsAreMade
<1>5. StreamsAreTrue'
  <2> SUFFICES ASSUME NEW t \in Alive'
               PROVE  /\ t.from = cast[t.cast].by /\ cast[t.cast].state = "sending"
                      /\ t.line \notin cast[t.cast].left
                      /\ t \in reading' =>
                           /\ t \notin streams'
                           /\ t.from = line[t.line].from
                           /\ Caller(t.line) \in announced[line[t.line].to]
    BY <1>1 DEF StreamsAreTrue, Caller
  <2>1. t \in Alive
    BY <1>1
  <2>2. CASE t \in reading' => t \in reading
    BY <2>1, <2>2, <1>1 DEF WireInv, StreamsAreTrue
  <2>3. CASE t \in reading' /\ t \notin reading
    <3>1. AcceptUni(s) /\ t = s
      BY <2>3 DEF AcceptUni, GiveUpReading
    <3>2. Caller(t.line) \in announced[line[t.line].to]
      BY <3>1 DEF AcceptUni, Stream, WireInv, ServersAnnounced
    <3> QED
      BY <2>1, <3>1, <3>2 DEF AcceptUni, WireInv, StreamsAreTrue
  <2> QED
    BY <2>2, <2>3
<1> QED
  BY <1>1, <1>2, <1>3, <1>4, <1>5, StreamsMove

\* A broadcast goes out on one connection after the other, a stream on each
\* (transport.rs:401-410).
LEMMA SendToInv ==
    ASSUME WireInv, NEW b \in Casts, NEW c \in Lines, SendTo(b, c)
    PROVE  WireInv'
<1> DEFINE new == [cast |-> b, line |-> c, from |-> cast[b].by]
<1>1. UNCHANGED <<accepting, closing, line, answerer, dialler, peers, reading, unread, announced, got>>
  BY DEF SendTo
<1>2. /\ cast[b].state = "sending" /\ cast[b].by \in Hubs /\ c \in cast[b].left
  BY DEF SendTo, WireInv, CastsAreMade, Uncast
<1>3. /\ cast'[b].state = cast[b].state /\ cast'[b].by = cast[b].by
      /\ cast'[b].left = cast[b].left \ {c}
      /\ \A a \in Casts : a # b => cast'[a] = cast[a]
  BY DEF SendTo, WireInv, WireTypeOK
<1>4. new \in Stream /\ new.cast = b /\ new.line = c /\ new.from = cast[b].by
  BY <1>2 DEF Stream
<1>5. streams' \subseteq streams \cup {new}
  BY DEF SendTo
<1> HIDE DEF new
<1>6. WireTypeOK'
  <2>1. cast' \in [Casts -> [state : {"unused", "sending"}, by : Hubs \cup {NoHub},
                             fits : BOOLEAN, left : SUBSET Lines]]
    <3>1. cast[b] \in [state : {"unused", "sending"}, by : Hubs \cup {NoHub},
                       fits : BOOLEAN, left : SUBSET Lines]
      BY DEF WireInv, WireTypeOK
    <3>2. [cast[b] EXCEPT !.left = @ \ {c}] \in
             [state : {"unused", "sending"}, by : Hubs \cup {NoHub},
              fits : BOOLEAN, left : SUBSET Lines]
      BY <3>1
    <3> QED
      BY <3>2 DEF WireInv, WireTypeOK, SendTo
  <2>2. streams' \subseteq Stream
    BY <1>4, <1>5 DEF WireInv, WireTypeOK
  <2> QED
    BY <1>1, <2>1, <2>2 DEF WireInv, WireTypeOK
<1>7. \A a \in Casts, d \in Lines : Owed(a, d)' => Owed(a, d)
  <2> SUFFICES ASSUME NEW a \in Casts, NEW d \in Lines, Owed(a, d)'
               PROVE  Owed(a, d)
    OBVIOUS
  <2>1. CASE d \in cast'[a].left
    BY <1>3, <2>1 DEF Owed
  <2>2. ASSUME NEW t \in Alive', t.cast = a, t.line = d PROVE Owed(a, d)
    BY <1>1, <1>2, <1>4, <1>5, <2>2 DEF Owed, Alive
  <2> QED
    BY <2>1, <2>2 DEF Owed
<1>8. CastsAreMade'
  BY <1>1, <1>2, <1>3 DEF WireInv, CastsAreMade
<1>9. StreamsAreTrue'
  <2> SUFFICES ASSUME NEW t \in Alive'
               PROVE  /\ t.from = cast'[t.cast].by /\ cast'[t.cast].state = "sending"
                      /\ t.line \notin cast'[t.cast].left
                      /\ t \in reading =>
                           /\ t \notin streams'
                           /\ t.from = line[t.line].from
                           /\ Caller(t.line) \in announced[line[t.line].to]
    BY <1>1 DEF StreamsAreTrue, Caller
  <2>1. new \notin reading
    BY <1>2, <1>4 DEF WireInv, StreamsAreTrue, Alive
  <2>2. CASE t = new
    BY <1>2, <1>3, <1>4, <2>1, <2>2
  <2>3. CASE t # new
    <3>1. t \in Alive /\ t.cast \in Casts /\ (t \in streams' => t \in streams)
      BY <1>1, <1>5, <2>3 DEF Alive, WireInv, WireTypeOK, Stream
    <3>2. /\ cast'[t.cast].by = cast[t.cast].by /\ cast'[t.cast].state = cast[t.cast].state
          /\ cast'[t.cast].left \subseteq cast[t.cast].left
      BY <1>3, <3>1
    <3> QED
      BY <3>1, <3>2 DEF WireInv, StreamsAreTrue
  <2> QED
    BY <2>2, <2>3
<1>10. \A a \in Casts : cast'[a].state = cast[a].state /\ cast'[a].by = cast[a].by
  BY <1>3
<1> QED
  BY <1>1, <1>6, <1>7, <1>8, <1>9, <1>10, StreamsMove

\* broadcast takes a copy of the table, in which a node the sender dialled is
\* entered once, under its id (transport.rs:395-400).
LEMMA BroadcastInv ==
    ASSUME WireInv, NEW b \in Casts, NEW n \in Hubs, NEW fits \in BOOLEAN, Broadcast(b, n, fits)
    PROVE  WireInv'
<1>1. UNCHANGED <<accepting, closing, line, answerer, dialler, peers, streams, reading, unread,
                  announced, got>>
  BY DEF Broadcast
<1>2. /\ cast[b].state = "unused" /\ \A p \in Hubs : got[p][b] = 0
  BY DEF Broadcast, WireInv, CastsAreMade, Uncast
<1>3. /\ cast'[b] = [state |-> "sending", by |-> n, fits |-> fits,
                     left |-> {peers[n][k] : k \in Names} \ {NoLine}]
      /\ \A a \in Casts : a # b => cast'[a] = cast[a]
  BY DEF Broadcast, WireInv, WireTypeOK
<1>4. /\ cast'[b].state = "sending" /\ cast'[b].by = n
      /\ cast'[b].left = {peers[n][k] : k \in Names} \ {NoLine}
  BY <1>3
<1>5. cast'[b].left \subseteq Lines
  BY <1>4 DEF WireInv, WireTypeOK
<1>6. WireTypeOK'
  <2>1. cast'[b] \in [state : {"unused", "sending"}, by : Hubs \cup {NoHub},
                      fits : BOOLEAN, left : SUBSET Lines]
    BY <1>3, <1>5
  <2>2. cast' \in [Casts -> [state : {"unused", "sending"}, by : Hubs \cup {NoHub},
                             fits : BOOLEAN, left : SUBSET Lines]]
    BY <1>3, <2>1 DEF WireInv, WireTypeOK, Broadcast
  <2> QED
    BY <1>1, <2>2 DEF WireInv, WireTypeOK
<1>7. LinesJoin' /\ TablesAreTrue' /\ ServersAnnounced'
  BY <1>1 DEF WireInv, LinesJoin, TablesAreTrue, ServersAnnounced, Caller
<1>8. CastsAreMade'
  BY <1>1, <1>3, <1>4 DEF WireInv, CastsAreMade
<1>9. Alive' = Alive /\ \A s \in Alive : s.cast \in Casts /\ s.cast # b
  BY <1>1, <1>2 DEF Alive, WireInv, WireTypeOK, Stream, StreamsAreTrue
<1>10. \A a \in Casts, c \in Lines : a # b => Owed(a, c)' = Owed(a, c)
  BY <1>3, <1>9 DEF Owed
<1>11. \A c \in Lines : Owed(b, c)' => \E k \in Names : peers[n][k] = c /\ c # NoLine
  BY <1>4, <1>9 DEF Owed
<1>12. \A c \in Lines : Owed(b, c)' =>
          /\ line[c].state # "unused"
          /\ line[c].from = n => peers[n][[kind |-> "id", hub |-> line[c].to]] = c
  <2> SUFFICES ASSUME NEW c \in Lines, Owed(b, c)'
               PROVE  /\ line[c].state # "unused"
                      /\ line[c].from = n => peers[n][[kind |-> "id", hub |-> line[c].to]] = c
    OBVIOUS
  <2>1. PICK k \in Names : peers[n][k] = c /\ c # NoLine
    BY <1>11
  <2>2. /\ line[c].state # "unused"
        /\ k.kind = "id" => line[c].from = n /\ line[c].to = k.hub
        /\ k.kind = "addr" => line[c].to = n /\ line[c].from = k.hub
    BY <2>1 DEF WireInv, TablesAreTrue
  <2>3. line[c].from # line[c].to
    BY <2>2 DEF WireInv, LinesJoin, Untouched
  <2>4. k = [kind |-> k.kind, hub |-> k.hub] /\ k.kind \in {"addr", "id"}
    BY DEF Names
  <2> QED
    BY <2>1, <2>2, <2>3, <2>4
<1>13. OwedIsMade'
  BY <1>1, <1>10, <1>12 DEF WireInv, OwedIsMade
<1>14. OneWay'
  <2> SUFFICES ASSUME NEW a \in Casts, NEW c \in Lines, NEW d \in Lines,
                      Owed(a, c)', Owed(a, d)',
                      line[c].from = cast'[a].by, line[d].from = cast'[a].by,
                      line[c].to = line[d].to
               PROVE  c = d
    BY <1>1 DEF OneWay
  <2>1. CASE a = b
    BY <1>4, <1>12, <2>1
  <2>2. CASE a # b
    BY <1>3, <1>10, <2>2 DEF WireInv, OneWay
  <2> QED
    BY <2>1, <2>2
<1>15. GotIsLast'
  BY <1>1, <1>2, <1>3, <1>10 DEF WireInv, GotIsLast
<1>16. StreamsAreTrue'
  BY <1>1, <1>3, <1>9 DEF WireInv, StreamsAreTrue, Caller
<1>17. DeliveredOnce'
  <2> SUFFICES ASSUME NEW p \in Hubs, NEW a \in Casts
               PROVE  /\ got[p][a] <= 1
                      /\ got[p][a] > 0 => [kind |-> "addr", hub |-> cast'[a].by] \in announced[p]
    BY <1>1 DEF DeliveredOnce
  <2>1. CASE a = b
    BY <1>2, <2>1
  <2>2. CASE a # b
    BY <1>3, <2>2 DEF WireInv, DeliveredOnce
  <2> QED
    BY <2>1, <2>2
<1> QED
  BY <1>6, <1>7, <1>8, <1>13, <1>14, <1>15, <1>16, <1>17 DEF WireInv

\* What has been read is passed on once (transport.rs:433-461).
LEMMA DeliverInv ==
    ASSUME WireInv, NEW s \in Stream, Deliver(s)
    PROVE  WireInv'
<1>1. UNCHANGED <<accepting, closing, line, answerer, dialler, peers, cast, streams, announced>>
  BY DEF Deliver
<1>2. PICK n : n = line[s.line].to
  OBVIOUS
<1>3. PICK b : b = s.cast
  OBVIOUS
<1>4. /\ b \in Casts /\ s.line \in Lines /\ s \in reading /\ s \in Alive
      /\ s.from = cast[b].by /\ cast[b].state = "sending"
      /\ s.line \notin cast[b].left /\ s \notin streams
      /\ s.from = line[s.line].from /\ Caller(s.line) \in announced[n]
  BY <1>2, <1>3 DEF Deliver, Alive, Stream, WireInv, StreamsAreTrue
<1>5. Owed(b, s.line)
  BY <1>3, <1>4 DEF Owed
<1>6. n \in Hubs
  BY <1>2, <1>4, <1>5 DEF WireInv, OwedIsMade, LinesJoin, Untouched
<1>7. got[n][b] = 0
  BY <1>2, <1>4, <1>5, <1>6 DEF WireInv, GotIsLast
<1>8. /\ got' = [got EXCEPT ![n][b] = @ + 1] /\ Send(n) /\ reading' = reading \ {s}
  BY <1>2, <1>3, <1>4 DEF Deliver
<1>9. /\ got'[n][b] = 1
      /\ \A p \in Hubs, a \in Casts : ~(p = n /\ a = b) => got'[p][a] = got[p][a]
      /\ got' \in [Hubs -> [Casts -> Nat]]
  BY <1>4, <1>6, <1>7, <1>8 DEF WireInv, WireTypeOK
<1>10. WireTypeOK'
  <2>1. unread' \in [Hubs -> 0..EventRoom]
    BY <1>6, <1>8, SendType DEF WireInv
  <2>2. reading' \subseteq Stream
    BY <1>8 DEF WireInv, WireTypeOK
  <2> QED
    BY <1>1, <1>9, <2>1, <2>2 DEF WireInv, WireTypeOK
<1>11. LinesJoin' /\ TablesAreTrue' /\ ServersAnnounced'
  BY <1>1 DEF WireInv, LinesJoin, TablesAreTrue, ServersAnnounced, Caller
<1>12. CastsAreMade'
  <2> SUFFICES ASSUME NEW a \in Casts
               PROVE  \/ cast[a] = Uncast /\ \A p \in Hubs : got'[p][a] = 0
                      \/ cast[a].state = "sending" /\ cast[a].by \in Hubs
    BY <1>1 DEF CastsAreMade
  <2>1. CASE a = b
    BY <1>4, <2>1 DEF WireInv, CastsAreMade, Uncast
  <2>2. CASE a # b
    BY <1>9, <2>2 DEF WireInv, CastsAreMade
  <2> QED
    BY <2>1, <2>2
<1>13. Alive' \subseteq Alive /\ s \notin Alive'
  BY <1>1, <1>4, <1>8 DEF Alive
<1>14. \A a \in Casts, c \in Lines : Owed(a, c)' => Owed(a, c)
  BY <1>1, <1>13 DEF Owed
<1>15. ~Owed(b, s.line)'
  <2> SUFFICES ASSUME NEW t \in Alive', t.cast = b, t.line = s.line
               PROVE  FALSE
    BY <1>1, <1>4 DEF Owed
  <2>1. t \in Stream /\ t.from = cast[b].by
    BY <1>13 DEF Alive, WireInv, WireTypeOK, StreamsAreTrue
  <2>2. t = s
    BY <1>3, <1>4, <2>1 DEF Stream
  <2> QED
    BY <1>13, <2>2
<1>16. OwedIsMade' /\ OneWay'
  BY <1>1, <1>14 DEF WireInv, OwedIsMade, OneWay
<1>17. GotIsLast'
  <2> SUFFICES ASSUME NEW p \in Hubs, NEW a \in Casts, got'[p][a] # 0,
                      NEW c \in Lines, Owed(a, c)', line[c].from = cast[a].by
               PROVE  line[c].to # p
    BY <1>1 DEF GotIsLast
  <2>1. CASE p = n /\ a = b
    <3>1. c # s.line /\ Owed(b, c)
      BY <1>14, <1>15, <2>1
    <3> QED
      BY <1>2, <1>4, <1>5, <2>1, <3>1 DEF WireInv, OneWay
  <2>2. CASE ~(p = n /\ a = b)
    BY <1>9, <1>14, <2>2 DEF WireInv, GotIsLast
  <2> QED
    BY <2>1, <2>2
<1>18. StreamsAreTrue'
  BY <1>1, <1>8, <1>13 DEF WireInv, StreamsAreTrue, Caller
<1>19. DeliveredOnce'
  <2> SUFFICES ASSUME NEW p \in Hubs, NEW a \in Casts
               PROVE  /\ got'[p][a] <= 1
                      /\ got'[p][a] > 0 => [kind |-> "addr", hub |-> cast[a].by] \in announced[p]
    BY <1>1 DEF DeliveredOnce
  <2>1. CASE p = n /\ a = b
    <3>1. [kind |-> "addr", hub |-> cast[b].by] \in announced[n]
      BY <1>4 DEF Caller
    <3>2. got'[n][b] <= 1
      BY <1>9
    <3> QED
      BY <2>1, <3>1, <3>2
  <2>2. CASE ~(p = n /\ a = b)
    BY <1>9, <2>2 DEF WireInv, DeliveredOnce
  <2> QED
    BY <2>1, <2>2
<1> QED
  BY <1>10, <1>11, <1>12, <1>16, <1>17, <1>18, <1>19 DEF WireInv

\* Every step keeps the invariant.
LEMMA WireStepInv == WireInv /\ [WireNext]_wireVars => WireInv'
<1> SUFFICES ASSUME WireInv, [WireNext]_wireVars PROVE WireInv'
  OBVIOUS
<1>1. CASE UNCHANGED wireVars
  <2>1. WireTypeOK'
    BY <1>1 DEF WireInv, WireTypeOK, wireVars
  <2> QED
    BY <1>1, <2>1, RestInv DEF wireVars
<1>2. CASE WireRestart
  <2>1. WireInit'
    BY <1>2 DEF WireRestart, WireInit
  <2> QED
    BY <2>1, WireInitInv, PTL
<1>3. ASSUME NEW n \in Hubs, ReadEvent(n) \/ ShutdownHub(n) PROVE WireInv'
  BY <1>3, NodeInv
<1>4. ASSUME NEW c \in Lines, NEW m \in Hubs, NEW n \in Hubs, Dial(c, m, n) PROVE WireInv'
  BY <1>4, DialInv
<1>5. ASSUME NEW c \in Lines, Close(c) \/ DiallerStep(c) \/ AnswererStep(c) PROVE WireInv'
  BY <1>5, CloseInv, InsertInv, TaskInv DEF DiallerStep, AnswererStep
<1>6. ASSUME NEW s \in Stream, AcceptUni(s) \/ Deliver(s) \/ GiveUpReading(s) PROVE WireInv'
  BY <1>6, AcceptInv, DeliverInv
<1>7. ASSUME NEW b \in Casts, NEW n \in Casters, NEW fits \in BOOLEAN, Broadcast(b, n, fits)
      PROVE  WireInv'
  BY <1>7, BroadcastInv, TransportConstants
<1>8. ASSUME NEW b \in Casts, NEW c \in Lines, SendTo(b, c) PROVE WireInv'
  BY <1>8, SendToInv
<1> QED
  BY <1>1, <1>2, <1>3, <1>4, <1>5, <1>6, <1>7, <1>8, TransportConstants DEF WireNext

\* A broadcast reaches a node at most once, through any number of connections
\* between the same two nodes, redials, replaced table entries, closed
\* connections, full event channels and shutdowns (transport.rs:317-481).
THEOREM TransportDeliversOnce == WireSpec => []DeliveredOnce
<1>1. WireInv => DeliveredOnce
  BY DEF WireInv
<1> QED
  BY <1>1, WireInitInv, WireStepInv, PTL DEF WireSpec

----------------------------------------------------------------------------
(***************************************************************************)
(* The composition of Stores. One part runs and the others rest, so that a *)
(* step is one of a part, or leaves the part alone; what is proved of the  *)
(* parts then holds of the whole.                                          *)
(***************************************************************************)

\* Every behaviour of the composition is one of each part.
THEOREM StoresAreParts ==
    StoresSpec => BalancerSpec /\ PoolSpec /\ MetricsSpec /\ ReposSpec /\ WireSpec
  <1>1. StoresInit => BalancerInit /\ PoolInit /\ MetricsInit /\ ReposInit /\ WireInit
    BY DEF StoresInit
  <1>2. [StoresNext]_storesVars => [BalancerNext]_balancerVars
    BY DEF StoresNext, storesVars, BalancerRuns, PoolRuns, MetricsRuns, RepositoryRuns, TransportRuns
  <1>3. [StoresNext]_storesVars => [PoolNext]_poolVars
    BY DEF StoresNext, storesVars, BalancerRuns, PoolRuns, MetricsRuns, RepositoryRuns, TransportRuns
  <1>4. [StoresNext]_storesVars => [MetricsNext]_metricsVars
    BY DEF StoresNext, storesVars, BalancerRuns, PoolRuns, MetricsRuns, RepositoryRuns, TransportRuns
  <1>5. [StoresNext]_storesVars => [ReposNext]_repoVars
    BY DEF StoresNext, storesVars, BalancerRuns, PoolRuns, MetricsRuns, RepositoryRuns, TransportRuns
  <1>6. [StoresNext]_storesVars => [WireNext]_wireVars
    BY DEF StoresNext, storesVars, BalancerRuns, PoolRuns, MetricsRuns, RepositoryRuns, TransportRuns
  <1> QED BY <1>1, <1>2, <1>3, <1>4, <1>5, <1>6, PTL
          DEF StoresSpec, BalancerSpec, PoolSpec, MetricsSpec, ReposSpec, WireSpec

\* The types of all parts, with the capacities of the idle queue and of the
\* channel of events, for every value of the constants (connection_pool.rs,
\* prometheus_metrics_store.rs, sqlite_backend_repo.rs,
\* postgres_backend_repo.rs, transport.rs).
THEOREM StoresTyped == StoresSpec => []StoresTypeOK
  <1>1. BalancerInv => BalancerTypeOK
    BY DEF BalancerInv
  <1>2. MetricsInv => MetricsTypeOK
    BY DEF MetricsInv, MetricsTypes
  <1>3. MetricsSpec => []MetricsTypeOK
    BY <1>2, MetricsInitInv, MetricsStepInv, PTL DEF MetricsSpec
  <1>4. WireInv => WireTypeOK
    BY DEF WireInv
  <1>5. WireSpec => []WireTypeOK
    BY <1>4, WireInitInv, WireStepInv, PTL DEF WireSpec
  <1>6. BalancerTypeOK /\ PoolTypeOK /\ MetricsTypeOK /\ ReposTypeOK /\ WireTypeOK => StoresTypeOK
    BY DEF StoresTypeOK
  <1> QED BY <1>1, <1>3, <1>5, <1>6, StoresAreParts, BalancerInvariant, QueuesFit, ListsTyped, PTL

\* What the run checks of the composition holds for every value of the
\* constants: the choice of a backend, the pool's count, the text of the
\* metrics, the version of a list and the delivery of a broadcast.
THEOREM StoresSafe ==
    StoresSpec => /\ []PickIsFirstMinimum /\ []GeoDominatesBelowHundred /\ []LoadRepels
                  /\ []InUseIsExact /\ []ExportAddsUp /\ []SameVersionSameList /\ []DeliveredOnce
BY StoresAreParts, PicksFirstMinimum, GeoDominates, MoreLoadRepels, InUseCorrect, ExportIsTrue,
   VersionTellsList, TransportDeliversOnce, PTL
=============================================================================
