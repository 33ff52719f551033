--------------------------- MODULE Infrastructure --------------------------
(***************************************************************************)
(* The supporting components that wait for something: time, a task, a      *)
(* signal.  They share no state, so a product of their behaviours would    *)
(* show nothing more: a behaviour chooses one of them, and the others rest *)
(* in an initial state.                                                    *)
(***************************************************************************)
EXTENDS RateLimiter, CircuitBreaker, HealthChecker, Registry, Shutdown,
        ConfigWatcher, Startup

VARIABLE focus      \* the component that runs

infraVars == <<focus, limVars, breakerVars, healthVars, registryVars,
               shutVars, watcherVars, startVars>>

\* An environment in which nothing is enabled.
Bare == CHOOSE e \in Environment :
            Relevant(e) /\ \A o \in Optional \cup {"replication"} : ~Enabled(e[o])

InfraInit ==
    /\ focus \in {"limiter", "breaker", "health", "registry", "shutdown",
                  "watcher", "startup"}
    /\ LimiterInit /\ (focus # "limiter" => from = 0)
    /\ BreakerInit /\ (focus # "breaker" => serving)
    /\ HealthInit /\ (focus # "health" => listed /\ reachable)
    /\ RegistryInit /\ (focus # "registry" => running = {})
    /\ ShutInit /\ WatcherInit
    /\ StartInit
    /\ focus # "startup" => stage = "caller" /\ env = Bare

LimiterRuns ==
    /\ focus = "limiter" /\ LimiterNext
    /\ UNCHANGED <<focus, breakerVars, healthVars, registryVars, shutVars,
                   watcherVars, startVars>>
BreakerRuns ==
    /\ focus = "breaker" /\ BreakerNext
    /\ UNCHANGED <<focus, limVars, healthVars, registryVars, shutVars,
                   watcherVars, startVars>>
HealthRuns ==
    /\ focus = "health" /\ HealthNext
    /\ UNCHANGED <<focus, limVars, breakerVars, registryVars, shutVars,
                   watcherVars, startVars>>
RegistryRuns ==
    /\ focus = "registry" /\ RegistryNext
    /\ UNCHANGED <<focus, limVars, breakerVars, healthVars, shutVars,
                   watcherVars, startVars>>
ShutdownRuns ==
    /\ focus = "shutdown" /\ ShutNext
    /\ UNCHANGED <<focus, limVars, breakerVars, healthVars, registryVars,
                   watcherVars, startVars>>
WatcherRuns ==
    /\ focus = "watcher" /\ WatcherNext
    /\ UNCHANGED <<focus, limVars, breakerVars, healthVars, registryVars,
                   shutVars, startVars>>
StartupRuns ==
    /\ focus = "startup" /\ StartNext
    /\ UNCHANGED <<focus, limVars, breakerVars, healthVars, registryVars,
                   shutVars, watcherVars>>

InfraNext ==
    \/ LimiterRuns \/ BreakerRuns \/ HealthRuns \/ RegistryRuns
    \/ ShutdownRuns \/ WatcherRuns \/ StartupRuns

\* The fairness of each, for the one that runs.
InfraFairness ==
    /\ \A u \in Users : WF_breakerVars(focus = "breaker" /\ Step(u))
    /\ WF_breakerVars(focus = "breaker" /\ BreakerTick)
    /\ WF_healthVars(focus = "health" /\ HealthLoop)
    /\ WF_registryVars(focus = "registry" /\ Scan)
    /\ WF_registryVars(focus = "registry" /\ \E a \in Agents : Remove(a))
    /\ WF_registryVars(focus = "registry" /\ RegistryTick)
    /\ \A s \in Stoppers : WF_shutVars(focus = "shutdown" /\ SendSignal(s))
    /\ \A r \in Subscribers : WF_shutVars(focus = "shutdown" /\ Recv(r))
    /\ \A d \in Drainers :
         WF_shutVars(focus = "shutdown" /\ (Notified(d) \/ Woken(d) \/ DrainTimeout(d)))
    /\ WF_watcherVars(focus = "watcher" /\ WatcherLoop)
    /\ WF_startVars(focus = "startup" /\ MainStep)
    /\ WF_startVars(focus = "startup" /\ (StartStep \/ StartFails))
    /\ WF_startVars(focus = "startup" /\ (StopGossip \/ StopTransport))
    /\ \A l \in AgentLoops : WF_startVars(focus = "startup" /\ LoopStep(l))

InfraSpec == InfraInit /\ [][InfraNext]_infraVars /\ InfraFairness

\* Types of all of them (rate_limiter.rs, circuit_breaker.rs, health_checker.rs,
\* api_server.rs, shutdown.rs, config_watcher.rs, main.rs, agent.rs), with the
\* capacity of the watcher's channel.
InfraTypeOK ==
    /\ LimiterTypeOK /\ BreakerTypeOK /\ HealthTypeOK /\ RegistryTypeOK
    /\ ShutTypeOK /\ WatcherTypeOK /\ StartTypeOK
============================================================================
