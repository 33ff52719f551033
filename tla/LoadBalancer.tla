---------------------------- MODULE LoadBalancer ----------------------------
(***************************************************************************)
(* The scoring rules of domain/services/load_balancer.rs, as operators.    *)
(*                                                                         *)
(* A backend is a record [country, region, weight, soft_limit,             *)
(* hard_limit]; `cur' is the connection count the metrics store answered   *)
(* for it and `geo' the client's GeoInfo, or NoGeo.                        *)
(*                                                                         *)
(* The code computes scores in f64.  The only thing it does with a score   *)
(* is to ask whether it is strictly smaller than another, so a score is    *)
(* kept here as the exact fraction                                         *)
(*     geo_score * 100 + cur / (soft * weight)                             *)
(* and two of them are compared by cross-multiplication.  Rounding is      *)
(* abstracted: two different fractions closer than an f64 can tell apart   *)
(* are ordered here and tie in the code.                                   *)
(***************************************************************************)
EXTENDS Naturals

CONSTANTS
    LocalRegion,   \* region of this POP (RegionCode)
    NoGeo,         \* the None of Option<GeoInfo>
    NoBest         \* the None of Option<(Backend, f64)>

\* A limit or weight of zero is read as one.
Soft(b)   == IF b.soft_limit = 0 THEN 1 ELSE b.soft_limit
Weight(b) == IF b.weight = 0 THEN 1 ELSE b.weight

\* Slips: the zero that means "no limit" forgotten; equality for "at least".
SlipZeroLimit(b, cur)  == cur >= b.hard_limit
SlipExactLimit(b, cur) == b.hard_limit # 0 /\ cur = b.hard_limit

\* A hard limit of zero is no limit at all.
AtHardLimit(b, cur) == b.hard_limit # 0 /\ cur >= b.hard_limit

\* Tiers of geographic proximity: 0 is best.
GeoScore(b, geo) ==
    IF geo # NoGeo /\ b.country = geo.country THEN 0
    ELSE IF geo # NoGeo /\ b.region = geo.region THEN 1
    ELSE IF b.region = LocalRegion THEN 2 ELSE 3

\* The score of b, as numerator and denominator.
ScoreDen(b) == Soft(b) * Weight(b)

\* Slip: a multiplier that a moderate load can outweigh.
SlipScoreNum(b, cur, geo) == 10 * GeoScore(b, geo) * ScoreDen(b) + cur

ScoreNum(b, cur, geo) == 100 * GeoScore(b, geo) * ScoreDen(b) + cur

ScoreLess(b1, cur1, b2, cur2, geo) ==
    ScoreNum(b1, cur1, geo) * ScoreDen(b2) < ScoreNum(b2, cur2, geo) * ScoreDen(b1)

\* Slip: <= instead of <, so that the last of equals wins.
SlipConsider(info, best, id, cur, geo) ==
    IF AtHardLimit(info[id], cur) THEN best
    ELSE IF best = NoBest \/ ~ScoreLess(info[best.id], best.cur, info[id], cur, geo)
         THEN [id |-> id, cur |-> cur]
         ELSE best

(***************************************************************************)
(* One turn of the loop of pick_backend.  `best' is NoBest or a record     *)
(* [id, cur] naming the backend kept so far and the count it was scored    *)
(* with.  info maps identifiers to backend records.                        *)
(***************************************************************************)
Consider(info, best, id, cur, geo) ==
    IF AtHardLimit(info[id], cur) THEN best
    ELSE IF best = NoBest \/ ScoreLess(info[id], cur, info[best.id], best.cur, geo)
         THEN [id |-> id, cur |-> cur]
         ELSE best
=============================================================================
