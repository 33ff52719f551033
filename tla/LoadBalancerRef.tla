-------------------------- MODULE LoadBalancerRef --------------------------
(***************************************************************************)
(* LoadBalancer::pick_backend against what its callers rely on: a call on  *)
(* a list of backends, every backend drawn from Profiles and every         *)
(* connection count from Counts, one turn of its loop after the other.     *)
(***************************************************************************)
EXTENDS LoadBalancer, Sequences

CONSTANTS
    Ids,        \* backend identifiers
    Lists,      \* the lists of backends that may be passed
    Profiles,   \* backend records an identifier may have
    Counts,     \* connection counts the metrics store may answer
    Geos        \* GeoInfo records a client may resolve to

ASSUME ListsType == Lists \subseteq Seq(Ids)
ASSUME ProfilesType ==
    \A b \in Profiles : /\ b.weight \in Nat /\ b.soft_limit \in Nat /\ b.hard_limit \in Nat
                        /\ b.healthy \in BOOLEAN
ASSUME CountsType == Counts \subseteq Nat
ASSUME NoBestIsNone == NoBest \notin [id : Ids, cur : Nat]

VARIABLES
    info, list, count, geo,     \* the arguments
    turn,                       \* the backend the loop is at, 0 without a call
    best                        \* the one it has kept

balancerVars == <<info, list, count, geo, turn, best>>

BalancerTypeOK ==
    /\ info \in [Ids -> Profiles] /\ count \in [Ids -> Counts]
    /\ geo \in Geos \cup {NoGeo} /\ list \in Lists
    /\ turn \in 0..(Len(list) + 1) /\ best \in [id : Ids, cur : Nat] \cup {NoBest}

BalancerInit ==
    /\ info \in [Ids -> Profiles]
    /\ count \in [Ids -> Counts]
    /\ geo \in Geos \cup {NoGeo}
    /\ list \in Lists
    /\ turn = 0 /\ best = NoBest

Call ==
    /\ turn = 0
    /\ turn' = 1 /\ best' = NoBest
    /\ UNCHANGED <<info, list, count, geo>>

\* A turn of the loop, which is over the backends that are healthy.
PickTurn ==
    /\ turn \in 1..Len(list)
    /\ turn' = turn + 1
    /\ best' = IF info[list[turn]].healthy
               THEN Consider(info, best, list[turn], count[list[turn]], geo) ELSE best
    /\ UNCHANGED <<info, list, count, geo>>

\* The caller has its answer.
Answered ==
    /\ turn = Len(list) + 1
    /\ turn' = 0 /\ best' = NoBest
    /\ UNCHANGED <<info, list, count, geo>>

BalancerNext == Call \/ PickTurn \/ Answered

BalancerSpec == BalancerInit /\ [][BalancerNext]_balancerVars

----------------------------------------------------------------------------
Less(counts, i, j) == ScoreLess(info[i], counts[i], info[j], counts[j], geo)

Eligible(counts, n) == /\ n \in 1..Len(list) /\ info[list[n]].healthy
                       /\ ~AtHardLimit(info[list[n]], counts[list[n]])

\* The choice among the first k backends of the list, declared without a loop:
\* nothing when each is unhealthy or at its hard limit, otherwise the earliest
\* that no other one beats.
FirstMinimum(counts, k) ==
    \/ best = NoBest /\ \A n \in 1..k : ~Eligible(counts, n)
    \/ \E n \in 1..k :
         /\ Eligible(counts, n) /\ best = [id |-> list[n], cur |-> counts[list[n]]]
         /\ \A m \in 1..k : Eligible(counts, m) =>
              /\ ~Less(counts, list[m], list[n])
              /\ m < n => Less(counts, list[n], list[m])

Picked == turn = Len(list) + 1

\* The answer of pick_backend is the earliest backend that no other eligible
\* one beats, and nothing only if there is none (load_balancer.rs:51-101).
PickIsFirstMinimum == Picked => FirstMinimum(count, Len(list))

\* load factor divided by weight of a backend, at least n
LoadAtLeast(id, n) == count[id] >= n * ScoreDen(info[id])

\* The "* 100" multiplier (load_balancer.rs:82-85): as long as no backend
\* carries a hundred times its weighted soft limit, no backend of a closer
\* tier is passed over for load.
GeoDominatesBelowHundred ==
    Picked /\ best # NoBest
    /\ (\A n \in 1..Len(list) : Eligible(count, n) => ~LoadAtLeast(list[n], 100))
      => \A n \in 1..Len(list) : Eligible(count, n) =>
           GeoScore(info[best.id], geo) <= GeoScore(info[list[n]], geo)

\* More load on a backend that was not picked never gets it picked: the score
\* is monotone in the count, also across the hard limit (load_balancer.rs:66-68,
\* 73-85).
LoadRepels ==
    Picked /\ best # NoBest =>
      \A id \in Ids \ {best.id} : FirstMinimum([count EXCEPT ![id] = @ + 1], Len(list))
============================================================================
