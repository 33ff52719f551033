---------------------------- MODULE ProxyHistory ----------------------------
(***************************************************************************)
(* Proxy with history variables that record, for every task, what has held *)
(* since it was accepted.  They are functions of the steps of Proxy and    *)
(* restrict none of them; no line of the code keeps them.                  *)
(***************************************************************************)
EXTENDS Proxy

VARIABLES
    usable,   \* backends healthy in the table and below their limit all along
    seen,     \* backends healthy in the table at some moment
    kept      \* the backend the client was bound to on arrival, forgotten when it
              \* fails in the table or somebody else changes the binding

histVars == <<usable, seen, kept>>
allVars  == <<vars, histVars>>

\* From the task's first step to the answer of resolve_backend_with_geo.
Resolving == {"handshake", "get_binding", "touch", "verify", "remove_stale",
              "get_healthy", "pick", "refused", "resolved"}

UsableNow == { b \in table : Info[b].hard_limit = 0 \/ conns[b] < Info[b].hard_limit }

KeptNow(s) ==
    LET b == bindings[client[s]].backend
    IN  IF b \in table THEN b ELSE NoBackend

\* The task itself does not move, and its client's binding or backend is taken away.
Disturbed(s) ==
    /\ pc'[s] = pc[s]
    /\ \/ bindings'[client[s]].backend # bindings[client[s]].backend
       \/ kept[s] \notin table'

HistInit ==
    /\ usable = [s \in Slots |-> {}]
    /\ seen = [s \in Slots |-> {}]
    /\ kept = [s \in Slots |-> NoBackend]

\* An accepted task starts from the present; then every step narrows or widens.
HistStep ==
    /\ usable' = [s \in Slots |->
          IF pc'[s] \notin Resolving THEN {}
          ELSE IF pc[s] = "idle" THEN UsableNow' ELSE usable[s] \cap UsableNow']
    /\ seen' = [s \in Slots |->
          IF pc'[s] \notin Resolving THEN {}
          ELSE IF pc[s] = "idle" THEN table' ELSE seen[s] \cup table']
    /\ kept' = [s \in Slots |->
          IF pc'[s] \notin Resolving THEN NoBackend
          ELSE IF pc[s] = "idle" THEN KeptNow(s)'
          ELSE IF Disturbed(s) THEN NoBackend ELSE kept[s]]

HistSpec == Init /\ HistInit /\ [][Next /\ HistStep]_allVars

----------------------------------------------------------------------------
(* A client is turned away ("no backend available") only if no backend was *)
(* healthy in the table and below its hard limit during the whole of its   *)
(* resolution (proxy_service.rs:139-152, load_balancer.rs:66-68).          *)
RefusedOnlyWithoutRoom ==
    \A s \in Slots : pc[s] = "refused" => usable[s] = {}

(* Whatever way a backend came to be chosen, from a binding or from the    *)
(* load balancer, the table listed it as healthy at some moment after the  *)
(* connection arrived: no route outlives the reload that withdrew it       *)
(* before the client came (proxy_service.rs:130-138).                      *)
ChosenWasHealthy ==
    \A s \in Slots : pc[s] = "resolved" => chosen[s] \in seen[s]

(* Session affinity: a client that comes with a binding is routed to the   *)
(* backend it names and is never turned away, unless a reload withdraws    *)
(* the backend or another task or the collector changes the binding before *)
(* it is resolved; the load and the limits of the backend play no part     *)
(* (proxy_service.rs:130-136).                                             *)
AffinityIsKept ==
    \A s \in Slots : kept[s] # NoBackend =>
        /\ pc[s] # "refused"
        /\ pc[s] = "resolved" => chosen[s] = kept[s]
=============================================================================
