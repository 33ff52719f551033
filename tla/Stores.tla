------------------------------- MODULE Stores -------------------------------
(***************************************************************************)
(* The choice of a backend, and the components that keep something for     *)
(* many users at once: connections, counts, lists and peers.  Nothing is   *)
(* promised of them but safety.  They share no state: a behaviour chooses  *)
(* one, and the others rest in an initial state.                           *)
(***************************************************************************)
EXTENDS LoadBalancerRef, ConnectionPool, Metrics, Repositories, Transport

VARIABLE focus      \* the component that runs

storesVars == <<focus, balancerVars, poolVars, metricsVars, repoVars, wireVars>>

StoresInit ==
    /\ focus \in {"balancer", "pool", "metrics", "repository", "transport"}
    /\ focus # "balancer" =>
         /\ info = [i \in Ids |-> CHOOSE p \in Profiles : TRUE]
         /\ count = [i \in Ids |-> 0] /\ geo = NoGeo /\ list = <<>>
    /\ BalancerInit
    /\ PoolInit /\ MetricsInit /\ WireInit
    /\ ReposInit /\ (focus # "repository" => engine = "sqlite")

BalancerRuns ==
    /\ focus = "balancer" /\ BalancerNext
    /\ UNCHANGED <<focus, poolVars, metricsVars, repoVars, wireVars>>
PoolRuns ==
    /\ focus = "pool" /\ PoolNext
    /\ UNCHANGED <<focus, balancerVars, metricsVars, repoVars, wireVars>>
MetricsRuns ==
    /\ focus = "metrics" /\ MetricsNext
    /\ UNCHANGED <<focus, balancerVars, poolVars, repoVars, wireVars>>
RepositoryRuns ==
    /\ focus = "repository" /\ ReposNext
    /\ UNCHANGED <<focus, balancerVars, poolVars, metricsVars, wireVars>>
TransportRuns ==
    /\ focus = "transport" /\ WireNext
    /\ UNCHANGED <<focus, balancerVars, poolVars, metricsVars, repoVars>>

StoresNext ==
    \/ BalancerRuns \/ PoolRuns
    \/ MetricsRuns \/ RepositoryRuns \/ TransportRuns

StoresSpec == StoresInit /\ [][StoresNext]_storesVars

\* Types of all of them (connection_pool.rs, prometheus_metrics_store.rs,
\* sqlite_backend_repo.rs, postgres_backend_repo.rs, transport.rs), with the
\* capacities of the idle queue and of the channel of events.
StoresTypeOK == BalancerTypeOK /\ PoolTypeOK /\ MetricsTypeOK /\ ReposTypeOK /\ WireTypeOK
=============================================================================
