------------------------------- MODULE MCStores -----------------------------
(***************************************************************************)
(* Stores, with the tests of the pure parts.  The choice is made from      *)
(* three backends, with every zero of the limits and weights, every        *)
(* geographic tier, and counts on both sides of the limits and just below  *)
(* the factor of a hundred.                                                *)
(***************************************************************************)
EXTENDS Stores, ApiTests, DomainTests, GossipTests

CONSTANTS b1, b2, b3

MCIds == {b1, b2, b3}

\* Which profile an identifier has is arbitrary, so one order of them is enough,
\* and the turns of the loop pass through the shorter lists.
MCLists == {<<>>, <<b1, b2, b3>>}

Profile(c, r, w, s, h) ==
    [country |-> c, region |-> r, weight |-> w, soft_limit |-> s, hard_limit |-> h,
     healthy |-> TRUE]

MCProfiles == {
    Profile("BR", "sa", 1, 1, 0), Profile("BR", "sa", 2, 0, 2),
    Profile("AR", "sa", 0, 2, 1), Profile("US", "us", 3, 2, 100),
    [Profile("BR", "sa", 2, 1, 0) EXCEPT !.healthy = FALSE],
    Profile("DE", "eu", 0, 0, 0)}

MCCounts == {0, 1, 2, 99}

MCGeos == { [country |-> "BR", region |-> "sa"], [country |-> "FR", region |-> "eu"] }
=============================================================================
