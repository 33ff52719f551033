----------------------- MODULE ReplicationRefinement -----------------------
(***************************************************************************)
(* Replication implements LwwStore: the check of should_apply_change, the  *)
(* two statements of apply_single_change and the cache together behave as  *)
(* one atomic merge, however the steps of the nodes interleave and the     *)
(* messages are ordered or lost.  It takes effect with the statement that  *)
(* writes the timestamp; until the next statement has written the row, the *)
(* mapping shows what that one will write.  A crash, an error or data that *)
(* is not JSON between the two statements tears the merge apart (sync.rs:  *)
(* 306), which the store knows as a step of its own.                       *)
(***************************************************************************)
EXTENDS Replication

\* What row k of node n shows, or will show after the statement under way.
Shown(n, k) ==
    IF job[n].pc = "row" /\ Current(n).pk = k
    THEN IF Current(n).kind = "put" THEN {Current(n)} ELSE {}
    ELSE Visible(rows[n][k])

\* The keys that are torn, but for one whose row is under way.
Behind(n) == IF job[n].pc = "row" THEN torn[n] \ {Current(n).pk} ELSE torn[n]

ElementsOf(cs) == {cs.changes[i] : i \in 1..Len(cs.changes)}

Store == INSTANCE LwwStore WITH
            published <- UNION {ElementsOf(cs) : cs \in sent},
            merged <- handled,
            stamp <- lww,
            value <- [n \in Nodes |-> [k \in Keys |-> Shown(n, k)]],
            torn <- [n \in Nodes |-> Behind(n)]

\* Every step of a node is one step of the last-write-wins store, or leaves it
\* alone (sync.rs:225-389), crashes and garbled data included: a step may merge
\* one change that some node has published, with the winner's timestamp and
\* content as one, or tear the key it was writing, and nothing else may ever
\* become visible.  As long as no statement fails: an error in reading a
\* timestamp is taken for its absence (sync.rs:293).
IsLwwStore == Store!StoreInit /\ [][Store!StoreNext \/ fails' > 0]_(Store!storeVars)
=============================================================================
