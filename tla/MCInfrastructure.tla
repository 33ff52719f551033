-------------------------- MODULE MCInfrastructure -------------------------
(***************************************************************************)
(* Infrastructure, with the smallest constants that let every part reach   *)
(* its limits: two callers of each kind, a channel of one, thresholds on   *)
(* both sides of one.                                                      *)
(***************************************************************************)
EXTENDS Infrastructure, TLC
============================================================================
