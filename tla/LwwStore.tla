------------------------------ MODULE LwwStore ------------------------------
(***************************************************************************)
(* What replication promises (sync.rs:1-5, should_apply_change): a store   *)
(* in which the last write wins.  Every node has, for every key, the       *)
(* timestamp and the content of the latest change among those it has       *)
(* merged, and merging a change is one step.  A key may be torn: it keeps  *)
(* the timestamp and falls back to an older content, until a later change  *)
(* is merged.  Replication implements it in several statements             *)
(* (ReplicationRefinement).                                                *)
(***************************************************************************)
EXTENDS Integers

CONSTANTS
    Nodes,
    Keys

\* Timestamps are pairs (wall, hash); NoStamp is below that of any change.
NoStamp == [wall |-> 0, hash |-> 0]
Above(a, b) ==
    \/ a.wall > b.wall
    \/ a.wall = b.wall /\ a.hash > b.hash

\* A change names a key and has a time past the epoch.
Stamped(c) == c.pk \in Keys /\ c.ts \in [wall : Nat \ {0}, hash : Nat]

VARIABLES
    published,  \* changes that have been sent out
    merged,     \* changes each node has dealt with
    stamp,      \* the timestamp each node has for a key
    value,      \* and what a reader sees there: a change or nothing
    torn        \* keys of each node whose value is behind their timestamp

storeVars == <<published, merged, stamp, value, torn>>

Content(c) == IF c.kind = "put" THEN {c} ELSE {}

StoreInit ==
    /\ published = {}
    /\ merged = [n \in Nodes |-> {}]
    /\ stamp = [n \in Nodes |-> [k \in Keys |-> NoStamp]]
    /\ value = [n \in Nodes |-> [k \in Keys |-> {}]]
    /\ torn = [n \in Nodes |-> {}]

Publish ==
    /\ published \subseteq published'
    /\ \A c \in published' : Stamped(c)
    /\ UNCHANGED <<merged, stamp, value, torn>>

\* A node merges a change: the later timestamp stays.
Merge(n, c) ==
    /\ merged' = [merged EXCEPT ![n] = @ \cup {c}]
    /\ IF Above(c.ts, stamp[n][c.pk])
         THEN /\ stamp' = [stamp EXCEPT ![n][c.pk] = c.ts]
              /\ value' = [value EXCEPT ![n][c.pk] = Content(c)]
              /\ torn' = [torn EXCEPT ![n] = @ \ {c.pk}]
         ELSE UNCHANGED <<stamp, value, torn>>
    /\ UNCHANGED published

\* A merge is torn: the timestamp stays, what is seen is nothing or some change
\* that was merged before.
Tear(n, k) ==
    /\ torn' = [torn EXCEPT ![n] = @ \cup {k}]
    /\ \E v \in {Content(c) : c \in {d \in merged[n] : d.pk = k}} \cup {{}} :
          value' = [value EXCEPT ![n][k] = v]
    /\ UNCHANGED <<published, merged, stamp>>

StoreNext ==
    \/ Publish
    \/ \E n \in Nodes, c \in published : Merge(n, c)
    \/ \E n \in Nodes, k \in Keys : Tear(n, k)

StoreSpec == StoreInit /\ [][StoreNext]_storeVars

-----------------------------------------------------------------------------
StoreTypeOK ==
    /\ \A c \in published : Stamped(c)
    /\ merged \in [Nodes -> SUBSET published]
    /\ stamp \in [Nodes -> [Keys -> [wall : Nat, hash : Nat]]]
    /\ value \in [Nodes -> [Keys -> SUBSET published]]
    /\ torn \in [Nodes -> SUBSET Keys]

\* At one node, a key has the stamp and, unless it is torn, the content of a
\* merged change that no other merged change is later than, and neither if none
\* was merged.
WinnerAt(n, k) ==
    LET mine == {c \in merged[n] : c.pk = k}
    IN  \/ mine = {} /\ stamp[n][k] = NoStamp /\ value[n][k] = {}
        \/ \E c \in mine : /\ stamp[n][k] = c.ts
                           /\ k \notin torn[n] => value[n][k] = Content(c)
                           /\ \A d \in mine : ~Above(d.ts, c.ts)

ValueIsWinner == \A n \in Nodes, k \in Keys : WinnerAt(n, k)
=============================================================================
