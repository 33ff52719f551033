------------------------------ MODULE MCGossip ------------------------------
(* Two or three nodes: n2 and n3 join through n1. *)
EXTENDS Gossip, RoutingTests, TLC

CONSTANTS n1, n2, n3

MCNodes2 == {n1, n2}
MCNodes3 == {n1, n2, n3}
MCBoot == [n \in Nodes |-> IF n = n1 THEN {} ELSE {n1}]

\* The processes of n1 and n2 may end once each (n3, where there is one, is like
\* n2), or only that of n2, or none.
MCCrashes == [n \in Nodes |-> IF n = n3 THEN 0 ELSE 1]
MCOneCrash == [n \in Nodes |-> IF n = n2 THEN 1 ELSE 0]
MCNoCrashes == [n \in Nodes |-> 0]
=============================================================================
