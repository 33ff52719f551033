--------------------------- MODULE MCReplication ---------------------------
(* Small clusters for Replication: who records how many changes. *)
EXTENDS ReplicationRefinement, TLC

CONSTANTS n1, n2, n3, k1, k2

MCNodes2 == {n1, n2}
MCNodes3 == {n1, n2, n3}
MCKeys1 == {k1}
MCKeys2 == {k1, k2}
MCHash == [n \in Nodes |-> IF n = n1 THEN 1 ELSE IF n = n2 THEN 2 ELSE 3]

\* n1 alone records, or n1 and n2 do.
MCOne(x) == [n \in Nodes |-> IF n = n1 THEN x ELSE 0]
MCOneTwo == MCOne(2)
MCOneThree == MCOne(3)
MCBoth == [n \in Nodes |-> IF n \in {n1, n2} THEN 1 ELSE 0]
MCTwoAndOne == [n \in Nodes |-> IF n = n1 THEN 2 ELSE IF n = n2 THEN 1 ELSE 0]

MCOneFlusher == {"loop"}
MCTwoFlushers == {"loop", "call"}
MCPuts == {"put"}
MCPutsDeletes == {"put", "delete"}
MCGarbled == {"put", "garbled"}
MCAllKinds == {"put", "delete", "garbled"}
=============================================================================
