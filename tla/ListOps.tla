------------------------------- MODULE ListOps -------------------------------
(***************************************************************************)
(* What the code does to its vectors and queues with retain.  A function   *)
(* of the place, not SelectSeq, so that it can be reasoned about.          *)
(***************************************************************************)
EXTENDS Integers, Sequences

\* The elements of s that are in T, in the order they have in s.
Retained(s, T) ==
    LET kept[i \in 0..Len(s)] ==
          IF i = 0 THEN <<>>
          ELSE IF s[i] \in T THEN Append(kept[i - 1], s[i]) ELSE kept[i - 1]
    IN  kept[Len(s)]
============================================================================
