------------------------------ MODULE Registry -----------------------------
(***************************************************************************)
(* The auto-discovery API at work (api_server.rs): agents on the backends  *)
(* register and send heartbeats, the cleanup task removes those that have  *)
(* been silent.  A handler's access to the map is atomic; the cleanup      *)
(* reads the whole map first and then removes key by key, with handlers in *)
(* between.  What the accesses do is in ApiState; ages stop at the TTL.    *)
(***************************************************************************)
EXTENDS ApiState

CONSTANTS
    Agents,         \* agents, which register under their own identifier
    HeartbeatTtl

ASSUME AgentsType == IsFiniteSet(Agents)
ASSUME TtlType == HeartbeatTtl \in Nat \ {0}

VARIABLES
    registry,   \* ApiState.backends
    running,    \* agents that are there
    expired     \* what the cleanup under way has still to remove

registryVars == <<registry, running, expired>>

\* Every agent asks for the same: what it asks for is kept and never read here.
Registration(a) ==
    [id |-> a, app |-> "app", region |-> "eu", country |-> Defaults.country, ip |-> "ip",
     port |-> 8080, weight |-> Defaults.weight, soft_limit |-> Defaults.soft_limit,
     hard_limit |-> Defaults.hard_limit]

RegistryTypeOK ==
    /\ DOMAIN registry \subseteq Agents
    /\ \A a \in DOMAIN registry :
         /\ registry[a].backend = from_request(Registration(a))
         /\ registry[a].last_heartbeat <= registry[a].registered_at
         /\ registry[a].registered_at \in 0..HeartbeatTtl
    /\ running \in SUBSET Agents
    /\ expired \in SUBSET Agents

RegistryInit ==
    /\ registry = EmptyRegistry
    /\ running \in SUBSET Agents
    /\ expired = {}

Registered(a) == a \in DOMAIN registry

\* Registering again replaces the entry.
Register(a) ==
    /\ a \in running
    /\ registry' = register_handler(registry, Registration(a)).backends
    /\ UNCHANGED <<running, expired>>

\* 404 for a backend that is not registered: it is not entered.
Heartbeat(a) ==
    /\ a \in running
    /\ registry' = heartbeat_handler(registry, a).backends
    /\ UNCHANGED <<running, expired>>

\* By the agent or by an operator.
Deregister(a) ==
    /\ Registered(a)
    /\ registry' = deregister_handler(registry, a).backends
    /\ UNCHANGED <<running, expired>>

\* A tick of the cleanup task: cleanup_expired begins.
Scan ==
    /\ expired = {}
    /\ expired' = Expired(registry, HeartbeatTtl)
    /\ UNCHANGED <<registry, running>>

\* Whether the agent was heard of meanwhile is not looked at again.
Remove(a) ==
    /\ a \in expired
    /\ expired' = expired \ {a}
    /\ registry' = Without(registry, {a})
    /\ UNCHANGED running

\* An agent starts or ends; an end is not announced.
Come(a) ==
    /\ a \notin running
    /\ running' = running \cup {a}
    /\ UNCHANGED <<registry, expired>>

Go(a) ==
    /\ a \in running
    /\ running' = running \ {a}
    /\ UNCHANGED <<registry, expired>>

RegistryTick ==
    /\ registry' = Aged(registry, HeartbeatTtl)
    /\ UNCHANGED <<running, expired>>

RegistryNext ==
    \/ \E a \in Agents : \/ Register(a) \/ Heartbeat(a) \/ Deregister(a)
                         \/ Come(a) \/ Go(a) \/ Remove(a)
    \/ Scan \/ RegistryTick

\* The cleanup task goes on and time passes.
RegistryFairness ==
    /\ WF_registryVars(Scan)
    /\ WF_registryVars(\E a \in Agents : Remove(a))
    /\ WF_registryVars(RegistryTick)

RegistrySpec == RegistryInit /\ [][RegistryNext]_registryVars /\ RegistryFairness

----------------------------------------------------------------------------
\* A backend whose agent is gone for good without saying so leaves the
\* registry for good (api_server.rs:193-208).
GoneIsForgotten ==
    \A a \in Agents : <>[](a \notin running) => <>[]~Registered(a)
============================================================================
