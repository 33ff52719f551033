------------------------------ MODULE Startup ------------------------------
(***************************************************************************)
(* The composition root (main.rs) with the configuration it reads          *)
(* (config.rs, replication/config.rs), and the life of a replication agent *)
(* (agent.rs): start, the loops that start leaves behind, and stop.  The   *)
(* agent belongs to main, which starts it once and never stops it, or to a *)
(* program that uses the library, which may try again and stop it.         *)
(***************************************************************************)
EXTENDS Integers, FiniteSets

CONSTANTS
    RawFlags,       \* texts that EDGEPROXY_..._ENABLED may have
    GossipRoom      \* capacity of the gossip events' channel, 1024

ASSUME StartupConstants == GossipRoom \in Nat \ {0}

VARIABLES
    env,        \* the environment, as far as a step depends on it
    stage,      \* where main is; "caller" for a program that uses the library
    listener,   \* the tasks that main spawns
    agentAt,    \* how far the last call of start has come
    bound,      \* the sockets the agent holds
    loopAt,     \* the loops of the agent
    stopAt,     \* how far the call of stop has come
    emitted,    \* gossip events in the channel, which nobody reads
    why         \* history: what made main return

startVars == <<env, stage, listener, agentAt, bound, loopAt, stopAt, emitted, why>>

\* A flag counts as set for "1" and for "true" in any case.
Enabled(raw) == raw \in {"1", "true", "True", "TRUE"}

Environment ==
    [tls : RawFlags, api : RawFlags, dns : RawFlags, replication : RawFlags,
     node : {"unset", "empty", "named"},    \* EDGEPROXY_REPLICATION_NODE_ID
     cluster : {"unset", "empty"},          \* EDGEPROXY_REPLICATION_CLUSTER_NAME
     addresses : BOOLEAN]                   \* both replication addresses parse

\* load_config, for what main branches on.  It never fails: a variable that is
\* not set, or is no number, leaves the default.  A node without a name is
\* given one by main, an empty name stays.
Config(e) ==
    [tls |-> Enabled(e.tls), api |-> Enabled(e.api), dns |-> Enabled(e.dns),
     replication |-> Enabled(e.replication),
     node |-> e.node # "empty", cluster |-> e.cluster # "empty",
     addresses |-> e.addresses]

cfg == Config(env)

\* ReplicationConfig::validate.
Validate(c) == c.node /\ c.cluster

Optional == {"api", "dns", "tls"}
AgentLoops == {"accept", "gossip", "events", "flush"}

StartTypeOK ==
    /\ env \in Environment
    /\ stage \in {"caller", "storage", "replication", "agent", "geo", "api", "dns", "tls", "tcp", "serving", "over"}
    /\ listener \in [Optional -> {"none", "binding", "serving", "over"}]
    /\ agentAt \in {"none", "made", "db", "transport", "gossip", "loops", "ok", "failed"}
    /\ bound \subseteq {"transport", "gossip"}
    /\ loopAt \in [AgentLoops -> {"none", "head", "turn", "stuck", "over"}]
    /\ stopAt \in {"no", "agent", "gossip", "transport"}
    /\ emitted \in 0..GossipRoom
    /\ why \in {"", "config", "agent", "certificate", "listener"}

\* Variables that nothing reads are left at one value.
Relevant(e) ==
    ~Enabled(e.replication) => e.node = "unset" /\ e.cluster = "unset" /\ e.addresses

StartInit ==
    /\ env \in {e \in Environment : Relevant(e)}
    /\ stage \in {"storage", "caller"}
    /\ stage = "caller" => \A o \in Optional : ~Enabled(env[o])
    /\ listener = [o \in Optional |-> "none"]
    /\ agentAt = "none" /\ bound = {} /\ stopAt = "no"
    /\ loopAt = [l \in AgentLoops |-> "none"]
    /\ emitted = 0 /\ why = ""

MainReturns(cause) == stage' = "over" /\ why' = cause

----------------------------------------------------------------------------
\* main.  The repositories start their tasks and cannot fail.
Storage ==
    /\ stage = "storage"
    /\ stage' = IF cfg.replication THEN "replication" ELSE "geo"
    /\ UNCHANGED <<env, listener, agentAt, bound, loopAt, stopAt, emitted, why>>

\* The addresses are parsed and ReplicationAgent::new validates; both with `?'.
MakeAgent ==
    /\ stage = "replication"
    /\ IF cfg.addresses /\ Validate(cfg)
       THEN stage' = "agent" /\ agentAt' = "db" /\ UNCHANGED why
       ELSE MainReturns("config") /\ UNCHANGED agentAt
    /\ UNCHANGED <<env, listener, bound, loopAt, stopAt, emitted>>

\* Slip: the error of start is passed on like that of new.
SlipAgentReturned ==
    /\ stage = "agent" /\ agentAt \in {"ok", "failed"}
    /\ IF agentAt = "ok" THEN stage' = "geo" /\ UNCHANGED why ELSE MainReturns("agent")
    /\ UNCHANGED <<env, listener, agentAt, bound, loopAt, stopAt, emitted>>

\* An error of start is logged.  The agent is dropped; its loops stay.
AgentReturned ==
    /\ stage = "agent" /\ agentAt \in {"ok", "failed"}
    /\ stage' = "geo"
    /\ UNCHANGED <<env, listener, agentAt, bound, loopAt, stopAt, emitted, why>>

\* A database that cannot be read leaves the proxy without a resolver.
LoadGeo ==
    /\ stage = "geo"
    /\ stage' = "api"
    /\ UNCHANGED <<env, listener, agentAt, bound, loopAt, stopAt, emitted, why>>

Follows(s) == CASE s = "api" -> "dns" [] s = "dns" -> "tls" [] s = "tls" -> "tcp"

\* An optional server: a task of its own, if it is enabled.
Spawn(o) ==
    /\ stage = o
    /\ stage' = Follows(o)
    /\ listener' = [listener EXCEPT ![o] = IF cfg[o] THEN "binding" ELSE "none"]
    /\ UNCHANGED <<env, agentAt, bound, loopAt, stopAt, emitted, why>>

\* TLS wants its certificate first: from two files or, also if only one is set,
\* self-signed.  Either may fail, with `?'.
BadCertificate ==
    /\ stage = "tls" /\ cfg.tls
    /\ MainReturns("certificate")
    /\ UNCHANGED <<env, listener, agentAt, bound, loopAt, stopAt, emitted>>

\* TcpServer::run is the rest of main: an error of bind or accept ends it.
Listen ==
    /\ stage = "tcp"
    /\ stage' = "serving"
    /\ UNCHANGED <<env, listener, agentAt, bound, loopAt, stopAt, emitted, why>>

ListenerFails ==
    /\ stage \in {"tcp", "serving"}
    /\ MainReturns("listener")
    /\ UNCHANGED <<env, listener, agentAt, bound, loopAt, stopAt, emitted>>

\* A task binds its address and serves; an error ends the task and is logged.
Bind(o) ==
    /\ listener[o] = "binding" /\ stage # "over"
    /\ listener' = [listener EXCEPT ![o] = "serving"]
    /\ UNCHANGED <<env, stage, agentAt, bound, loopAt, stopAt, emitted, why>>

ServerFails(o) ==
    /\ listener[o] \in {"binding", "serving"} /\ stage # "over"
    /\ listener' = [listener EXCEPT ![o] = "over"]
    /\ UNCHANGED <<env, stage, agentAt, bound, loopAt, stopAt, emitted, why>>

----------------------------------------------------------------------------
\* ReplicationAgent::start, a step for each part.  Nothing is undone when a
\* later one fails.
StartFails ==
    /\ agentAt \in {"db", "transport", "gossip"} /\ stage # "over"
    /\ agentAt' = "failed"
    /\ UNCHANGED <<env, stage, listener, bound, loopAt, stopAt, emitted, why>>

InitDb ==
    /\ agentAt = "db"
    /\ agentAt' = "transport"
    /\ UNCHANGED <<env, stage, listener, bound, loopAt, stopAt, emitted, why>>

\* An address that the agent itself still holds cannot be bound again.  (Port 0
\* would be another one each time; a start repeated on it is left out.)
StartTransport ==
    /\ agentAt = "transport" /\ "transport" \notin bound
    /\ agentAt' = "gossip"
    /\ bound' = bound \cup {"transport"}
    /\ loopAt' = [loopAt EXCEPT !["accept"] = "head"]
    /\ UNCHANGED <<env, stage, listener, stopAt, emitted, why>>

StartGossip ==
    /\ agentAt = "gossip"
    /\ agentAt' = "loops"
    /\ bound' = bound \cup {"gossip"}
    /\ loopAt' = [loopAt EXCEPT !["gossip"] = "head"]
    /\ UNCHANGED <<env, stage, listener, stopAt, emitted, why>>

StartLoops ==
    /\ agentAt = "loops"
    /\ agentAt' = "ok"
    /\ loopAt' = [loopAt EXCEPT !["events"] = "head", !["flush"] = "head"]
    /\ UNCHANGED <<env, stage, listener, bound, stopAt, emitted, why>>

StartStep == InitDb \/ StartTransport \/ StartGossip \/ StartLoops

----------------------------------------------------------------------------
\* A program that uses the library: ReplicationAgentBuilder::build, start as
\* often as it likes, and stop.  start wants the agent for itself.
Build ==
    /\ stage = "caller" /\ agentAt = "none" /\ Validate(cfg)
    /\ agentAt' = "made"
    /\ UNCHANGED <<env, stage, listener, bound, loopAt, stopAt, emitted, why>>

CallStart ==
    /\ stage = "caller" /\ agentAt \in {"made", "ok", "failed"} /\ stopAt \in {"no", "transport"}
    /\ agentAt' = "db"
    /\ UNCHANGED <<env, stage, listener, bound, loopAt, stopAt, emitted, why>>

CallStop ==
    /\ stage = "caller" /\ agentAt \in {"made", "ok", "failed"} /\ stopAt = "no"
    /\ stopAt' = "agent"
    /\ UNCHANGED <<env, stage, listener, agentAt, bound, loopAt, emitted, why>>

\* The rest of stop: the flags of gossip and transport.
StopGossip ==
    /\ stopAt = "agent"
    /\ stopAt' = "gossip"
    /\ UNCHANGED <<env, stage, listener, agentAt, bound, loopAt, emitted, why>>

StopTransport ==
    /\ stopAt = "gossip"
    /\ stopAt' = "transport"
    /\ UNCHANGED <<env, stage, listener, agentAt, bound, loopAt, emitted, why>>

----------------------------------------------------------------------------
\* Slip: the gossip loop has a copy of its flag.
SlipTold(l) == l # "gossip" /\ stopAt # "no"

\* The flag that a loop looks at, and only at its head.
Told(l) == CASE l \in {"events", "flush"} -> stopAt # "no"
             [] l = "gossip" -> stopAt \in {"gossip", "transport"}
             [] l = "accept" -> stopAt = "transport"

LoopHead(l) ==
    /\ loopAt[l] = "head" /\ stage # "over"
    /\ loopAt' = [loopAt EXCEPT ![l] = IF Told(l) THEN "over" ELSE "turn"]
    /\ UNCHANGED <<env, stage, listener, agentAt, bound, stopAt, emitted, why>>

\* A turn ends: a tick and its work, or for accept one more connection.
EndTurn(l) ==
    /\ loopAt[l] = "turn" /\ stage # "over"
    /\ loopAt' = [loopAt EXCEPT ![l] = "head"]
    /\ UNCHANGED <<env, stage, listener, agentAt, bound, stopAt, emitted, why>>

\* A turn of the gossip loop that has an event to send, and waits for room.
Emits ==
    /\ loopAt["gossip"] = "turn" /\ stage # "over"
    /\ IF emitted < GossipRoom
       THEN emitted' = emitted + 1 /\ UNCHANGED loopAt
       ELSE loopAt' = [loopAt EXCEPT !["gossip"] = "stuck"] /\ UNCHANGED emitted
    /\ UNCHANGED <<env, stage, listener, agentAt, bound, stopAt, why>>

\* The process is started again.
StartAgain ==
    /\ stage = "over" \/ (stage = "caller" /\ agentAt = "none" /\ ~Validate(cfg))
    /\ stage' = "storage"
    /\ listener' = [o \in Optional |-> "none"]
    /\ agentAt' = "none" /\ bound' = {} /\ stopAt' = "no"
    /\ loopAt' = [l \in AgentLoops |-> "none"]
    /\ emitted' = 0 /\ why' = ""
    /\ UNCHANGED env

MainStep == Storage \/ MakeAgent \/ AgentReturned \/ LoadGeo \/ (\E o \in Optional : Spawn(o)) \/ Listen
LoopStep(l) == LoopHead(l) \/ (l # "accept" /\ EndTurn(l))

StartNext ==
    \/ MainStep \/ BadCertificate \/ ListenerFails
    \/ \E o \in Optional : Bind(o) \/ ServerFails(o)
    \/ StartStep \/ StartFails
    \/ Build \/ CallStart \/ CallStop \/ StopGossip \/ StopTransport
    \/ \E l \in AgentLoops : LoopStep(l)
    \/ EndTurn("accept") \/ Emits \/ StartAgain

\* main goes on, each await of start and stop ends in success or an error,
\* timers tick.  Nobody need connect to the transport.
StartFairness ==
    /\ WF_startVars(MainStep)
    /\ WF_startVars(StartStep \/ StartFails)
    /\ WF_startVars(StopGossip \/ StopTransport)
    /\ \A l \in AgentLoops : WF_startVars(LoopStep(l))

StartSpec == StartInit /\ [][StartNext]_startVars /\ StartFairness

----------------------------------------------------------------------------
\* The proxy comes to serve unless what it was told to use is unusable:
\* replication settings that are no addresses or names, the certificate of TLS,
\* from files or self-signed, or its own listener.  A replication agent that
\* returns an error half-way, the resolver and the optional servers never keep it
\* from that (main.rs:67-205, config.rs:72).
OptionalPartsAreOptional ==
    stage = "storage" ~>
      \/ stage = "serving"
      \/ why = "config" /\ cfg.replication /\ ~(cfg.addresses /\ Validate(cfg))
      \/ why = "certificate" /\ cfg.tls
      \/ why = "listener"

\* stop ends the loops of the agent, also those that a start left behind that
\* failed half-way, or that was repeated: all but the accept loop, which waits
\* for a connection, and a gossip loop that waits for room in the channel of
\* events (agent.rs:127-132, 170-173, 206-209, gossip.rs:477-480).
StopEndsLoops ==
    stopAt = "transport" ~>
      /\ \A l \in {"events", "flush"} : loopAt[l] \in {"none", "over"}
      /\ loopAt["gossip"] \in {"none", "over", "stuck"}
============================================================================
