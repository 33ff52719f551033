--------------------------- MODULE LwwStoreProofs ---------------------------
(***************************************************************************)
(* What the abstract store promises, for any nodes, keys and changes: the  *)
(* result of merging is the latest change, whatever the order, and a key   *)
(* whose merge was torn keeps the timestamp.  RefinementProofs carries it  *)
(* over to replication.                                                    *)
(***************************************************************************)
EXTENDS LwwStore, TLAPS

StoreInv == StoreTypeOK /\ ValueIsWinner

\* Timestamps are ordered: wall clock first, then the hash of the node (the
\* derived order of HLCTimestamp, types.rs:44).
LEMMA AboveIsOrder ==
    ASSUME NEW a \in [wall : Nat, hash : Nat], NEW b \in [wall : Nat, hash : Nat],
           NEW c \in [wall : Nat, hash : Nat], Above(a, b), ~Above(c, b)
    PROVE  ~Above(c, a) /\ ~Above(a, a)
BY DEF Above

\* Whatever a node has not merged before takes the place of nothing.
LEMMA FirstIsAbove ==
    ASSUME NEW c, Stamped(c) PROVE Above(c.ts, NoStamp)
BY DEF Stamped, Above, NoStamp

\* Sending changes out does not concern what the nodes have.
LEMMA PublishInv ==
    ASSUME StoreInv, Publish PROVE StoreInv'
<1>1. StoreTypeOK' BY DEF StoreInv, StoreTypeOK, Publish
<1>2. ValueIsWinner' BY DEF StoreInv, ValueIsWinner, WinnerAt, Publish
<1> QED BY <1>1, <1>2 DEF StoreInv

\* A merge keeps the latest (should_apply_change, sync.rs:271-303).
LEMMA MergeInv ==
    ASSUME StoreInv, NEW n \in Nodes, NEW c \in published, Merge(n, c) PROVE StoreInv'
<1> DEFINE Stamps == [wall : Nat, hash : Nat]
<1>1. Stamped(c) /\ c.pk \in Keys /\ c.ts \in Stamps
  BY DEF StoreInv, StoreTypeOK, Stamped
<1>2. \A m \in Nodes : \A d \in merged[m] : d.ts \in Stamps
  BY DEF StoreInv, StoreTypeOK, Stamped
<1>3. StoreTypeOK'
  <2>1. published' = published BY DEF Merge
  <2>2. merged' \in [Nodes -> SUBSET published'] BY <2>1 DEF StoreInv, StoreTypeOK, Merge
  <2>3. CASE Above(c.ts, stamp[n][c.pk])
    <3>0. stamp' = [stamp EXCEPT ![n][c.pk] = c.ts] BY <2>3 DEF Merge
    <3>1. stamp' \in [Nodes -> [Keys -> Stamps]]
      <4>1. stamp \in [Nodes -> [Keys -> Stamps]] BY DEF StoreInv, StoreTypeOK
      <4> HIDE DEF Stamps
      <4> QED BY <1>1, <3>0, <4>1
    <3>2. Content(c) \in SUBSET published BY DEF Content
    <3>3. value' = [value EXCEPT ![n][c.pk] = Content(c)] BY <2>3 DEF Merge
    <3>4. value' \in [Nodes -> [Keys -> SUBSET published']]
      BY <2>1, <3>2, <3>3 DEF StoreInv, StoreTypeOK
    <3>5. torn' \in [Nodes -> SUBSET Keys]
      <4>1. torn' = [torn EXCEPT ![n] = torn[n] \ {c.pk}] BY <2>3 DEF Merge
      <4>2. torn \in [Nodes -> SUBSET Keys] BY DEF StoreInv, StoreTypeOK
      <4> QED BY <4>1, <4>2
    <3> QED BY <2>1, <2>2, <3>1, <3>4, <3>5 DEF StoreInv, StoreTypeOK
  <2>4. CASE ~Above(c.ts, stamp[n][c.pk])
    BY <2>1, <2>2, <2>4 DEF StoreInv, StoreTypeOK, Merge
  <2> QED BY <2>3, <2>4
<1>4. ASSUME NEW m \in Nodes, NEW k \in Keys PROVE WinnerAt(m, k)'
  <2>1. WinnerAt(m, k) BY DEF StoreInv, ValueIsWinner
  <2>2. stamp[m][k] \in Stamps BY DEF StoreInv, StoreTypeOK
  <2>3. CASE m # n \/ k # c.pk
    <3>1. {d \in merged'[m] : d.pk = k} = {d \in merged[m] : d.pk = k}
      BY <2>3 DEF Merge, StoreInv, StoreTypeOK
    <3>2. stamp'[m][k] = stamp[m][k] /\ value'[m][k] = value[m][k]
      BY <1>1, <2>3 DEF Merge, StoreInv, StoreTypeOK
    <3>3. k \notin torn'[m] => k \notin torn[m]
      BY <2>3 DEF Merge, StoreInv, StoreTypeOK
    <3> QED BY <2>1, <3>1, <3>2, <3>3 DEF WinnerAt
  <2>4. CASE m = n /\ k = c.pk
    <3>1. {d \in merged'[m] : d.pk = k} = {d \in merged[m] : d.pk = k} \cup {c}
      BY <2>4 DEF Merge, StoreInv, StoreTypeOK
    <3>2. CASE Above(c.ts, stamp[m][k])
      <4>1. stamp'[m][k] = c.ts /\ value'[m][k] = Content(c)
        BY <1>1, <2>4, <3>2 DEF Merge, StoreInv, StoreTypeOK
      <4>2. \A d \in merged[m] : d.pk = k => ~Above(d.ts, stamp[m][k])
        BY <2>1 DEF WinnerAt
      <4>3. \A d \in merged[m] : d.pk = k => ~Above(d.ts, c.ts)
        BY <1>1, <1>2, <2>2, <3>2, <4>2, AboveIsOrder
      <4>4. ~Above(c.ts, c.ts) BY <1>1 DEF Above
      <4> QED BY <2>4, <3>1, <4>1, <4>3, <4>4 DEF WinnerAt
    <3>3. CASE ~Above(c.ts, stamp[m][k])
      <4>1. /\ stamp'[m][k] = stamp[m][k] /\ value'[m][k] = value[m][k]
            /\ torn' = torn
        BY <2>4, <3>3 DEF Merge
      <4>2. stamp[m][k] # NoStamp BY <1>1, <3>3, FirstIsAbove
      <4>3. PICK w \in merged[m] :
               /\ w.pk = k /\ stamp[m][k] = w.ts
               /\ k \notin torn[m] => value[m][k] = Content(w)
               /\ \A d \in merged[m] : d.pk = k => ~Above(d.ts, w.ts)
        BY <2>1, <4>2 DEF WinnerAt
      <4> QED BY <3>1, <3>3, <4>1, <4>3 DEF WinnerAt
    <3> QED BY <3>2, <3>3
  <2> QED BY <2>3, <2>4
<1> QED BY <1>3, <1>4 DEF StoreInv, ValueIsWinner

\* A torn merge keeps the timestamp of the winner, and nothing that was not
\* merged is seen (apply_single_change, sync.rs:301-316).
LEMMA TearInv ==
    ASSUME StoreInv, NEW n \in Nodes, NEW k \in Keys, Tear(n, k) PROVE StoreInv'
<1>1. PICK v \in {Content(c) : c \in {d \in merged[n] : d.pk = k}} \cup {{}} :
         value' = [value EXCEPT ![n][k] = v]
  BY DEF Tear
<1>2. v \in SUBSET published
  BY DEF Content, StoreInv, StoreTypeOK
<1>3. /\ torn' = [torn EXCEPT ![n] = @ \cup {k}]
      /\ UNCHANGED <<published, merged, stamp>>
  BY DEF Tear
<1>4. StoreTypeOK'
  BY <1>1, <1>2, <1>3 DEF StoreInv, StoreTypeOK
<1>5. ASSUME NEW m \in Nodes, NEW j \in Keys PROVE WinnerAt(m, j)'
  <2>1. WinnerAt(m, j) BY DEF StoreInv, ValueIsWinner
  <2>2. CASE m # n \/ j # k
    <3>1. value'[m][j] = value[m][j] BY <1>1, <2>2 DEF StoreInv, StoreTypeOK
    <3>2. j \notin torn'[m] => j \notin torn[m] BY <1>3, <2>2 DEF StoreInv, StoreTypeOK
    <3> QED BY <1>3, <2>1, <3>1, <3>2 DEF WinnerAt
  <2>3. CASE m = n /\ j = k
    <3>1. k \in torn'[n] BY <1>3 DEF StoreInv, StoreTypeOK
    <3>2. CASE {c \in merged[n] : c.pk = k} = {}
      <4>1. v = {} BY <3>2
      <4>2. value'[n][k] = {} BY <1>1, <4>1 DEF StoreInv, StoreTypeOK
      <4> QED BY <1>3, <2>1, <2>3, <3>2, <4>2 DEF WinnerAt
    <3>3. CASE {c \in merged[n] : c.pk = k} # {}
      BY <1>3, <2>1, <2>3, <3>1, <3>3 DEF WinnerAt
    <3> QED BY <3>2, <3>3
  <2> QED BY <2>2, <2>3
<1> QED BY <1>4, <1>5 DEF StoreInv, ValueIsWinner

LEMMA StoreStep == StoreInv /\ [StoreNext]_storeVars => StoreInv'
<1> SUFFICES ASSUME StoreInv, [StoreNext]_storeVars PROVE StoreInv'
  OBVIOUS
<1>1. CASE UNCHANGED storeVars
  BY <1>1 DEF storeVars, StoreInv, StoreTypeOK, ValueIsWinner, WinnerAt
<1> QED BY <1>1, PublishInv, MergeInv, TearInv DEF StoreNext

LEMMA StoreStart == StoreInit => StoreInv
BY DEF StoreInit, StoreInv, StoreTypeOK, ValueIsWinner, WinnerAt, NoStamp

\* Every node has, for every key, the timestamp of the latest of the changes it
\* has merged and, unless the key was torn since, its content: two nodes that
\* have merged the same changes, no two of them of one time, agree
\* (sync.rs:1-4, 271-303).
THEOREM LatestWins == StoreSpec => []ValueIsWinner
<1>1. StoreInv => ValueIsWinner BY DEF StoreInv
<1> QED BY <1>1, StoreStart, StoreStep, PTL DEF StoreSpec
=============================================================================
