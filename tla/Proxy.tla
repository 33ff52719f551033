------------------------------- MODULE Proxy -------------------------------
(***************************************************************************)
(* The routing core of one edgeproxy process: the connection tasks of      *)
(* tcp_server.rs, tls_server.rs and dns_server.rs running ProxyService     *)
(* against the shared state behind its ports: the in-memory routing table, *)
(* the binding map with its garbage collector, and the connection counts   *)
(* of the metrics store.                                                   *)
(*                                                                         *)
(* Every task is a tokio task; the runtime is multi-threaded, so tasks     *)
(* interleave between any two accesses to shared state.  Each action below *)
(* is one access (a DashMap operation, one acquisition of the table's      *)
(* lock, one atomic of the metrics store) with the local computation that  *)
(* follows it.                                                             *)
(*                                                                         *)
(* Slots is a pool of task slots: a slot whose task has returned serves    *)
(* the next connection, so it bounds how many tasks run at once, not how   *)
(* many connections there are.                                             *)
(***************************************************************************)
EXTENDS LoadBalancer, FiniteSets

CONSTANTS
    Slots,        \* connection tasks that may exist at the same time
    KindOf,       \* Slots -> the listener that spawns the task
    Clients,      \* client IP addresses (ClientKey)
    Backends,     \* backend identifiers
    Info,         \* Backends -> the columns the load balancer reads
    GeosOf,       \* Clients -> what the geo resolver may answer for the client
    NoClient,     \* the client of a slot that serves nobody
    NoBackend,    \* None, where an Option<Backend> or a binding's id is kept
    TTL,          \* binding_ttl_secs, in clock ticks
    MaxTime,      \* bound: the clock stops here
    MaxReloads    \* bound: installations of a new table

ASSUME SlotsFinite == IsFiniteSet(Slots)
ASSUME NoBackendIsNone == NoBackend \notin Backends
ASSUME NoBestIsNone == NoBest \notin [id : Backends, cur : Nat]
ASSUME LimitsAreNat ==
    Info \in [Backends -> [country : STRING, region : STRING, weight : Nat,
                           soft_limit : Nat, hard_limit : Nat]]
ASSUME KindsAreListeners == KindOf \in [Slots -> {"tcp", "tls", "dns"}]
ASSUME BoundsAreNat == TTL \in Nat /\ MaxTime \in Nat /\ MaxReloads \in Nat

VARIABLES
    table,      \* SqliteBackendRepository.backends: the rows with healthy = 1; its
                \* readers treat an unhealthy row as they treat a missing one
    reloads,    \* tables installed so far (bounded; not read by the code)
    bindings,   \* DashMapBindingRepository.bindings
    conns,      \* BackendMetrics.current_conns
    clock,      \* Instant::now()
    \* the locals of each connection task, None again once they are dead
    pc, client, geo,
    found,      \* backend_id of the binding that get() returned
    remaining,  \* healthy backends the pick loop has not looked at yet
    best,       \* best of the pick loop
    chosen,     \* the backend resolve_backend_with_geo returns
    \* the locals of the binding garbage collector
    gcPc, gcNow, gcScan, gcRemove

tableVars   == <<table, reloads>>
taskLocals  == <<client, geo, found, remaining, best, chosen>>
gcVars      == <<gcPc, gcNow, gcScan, gcRemove>>
vars == <<table, reloads, bindings, conns, clock, pc, client, geo, found,
          remaining, best, chosen, gcPc, gcNow, gcScan, gcRemove>>

NoBinding == [backend |-> NoBackend, last_seen |-> 0]
Binding(b) == [backend |-> b, last_seen |-> clock]
Bound(k) == bindings[k].backend # NoBackend

Labels == {"idle", "handshake", "get_binding", "touch", "verify", "remove_stale",
           "get_healthy", "pick", "refused", "resolved", "clear_binding",
           "record_start", "copy", "record_end"}

TypeOK ==
    /\ table \in SUBSET Backends
    /\ reloads \in 0..MaxReloads
    /\ bindings \in [Clients -> [backend : Backends \cup {NoBackend}, last_seen : 0..MaxTime]]
    /\ conns \in [Backends -> Nat]
    /\ clock \in 0..MaxTime
    /\ pc \in [Slots -> Labels]
    /\ client \in [Slots -> Clients \cup {NoClient}]
    /\ \A s \in Slots : pc[s] # "idle" => client[s] \in Clients
    /\ geo \in [Slots -> (UNION { GeosOf[k] : k \in Clients }) \cup {NoGeo}]
    /\ found \in [Slots -> Backends \cup {NoBackend}]
    /\ remaining \in [Slots -> SUBSET Backends]
    /\ best \in [Slots -> [id : Backends, cur : Nat] \cup {NoBest}]
    /\ chosen \in [Slots -> Backends \cup {NoBackend}]
    /\ gcPc \in {"sleep", "sweep"}
    /\ gcNow \in 0..MaxTime
    /\ gcScan \in SUBSET Clients
    /\ gcRemove \in SUBSET Clients

\* The process starts with an empty table (the first load comes later), no
\* bindings and no connections.
Init ==
    /\ table = {}
    /\ reloads = 0
    /\ bindings = [k \in Clients |-> NoBinding]
    /\ conns = [b \in Backends |-> 0]
    /\ clock = 0
    /\ pc = [s \in Slots |-> "idle"]
    /\ client = [s \in Slots |-> NoClient]
    /\ geo = [s \in Slots |-> NoGeo]
    /\ found = [s \in Slots |-> NoBackend]
    /\ remaining = [s \in Slots |-> {}]
    /\ best = [s \in Slots |-> NoBest]
    /\ chosen = [s \in Slots |-> NoBackend]
    /\ gcPc = "sleep" /\ gcNow = 0 /\ gcScan = {} /\ gcRemove = {}

Goto(s, from, to) ==
    /\ pc[s] = from
    /\ pc' = [pc EXCEPT ![s] = to]

\* Slip: the task loops for another request when it should return.
SlipReturn(s) ==
    /\ pc' = [pc EXCEPT ![s] = "get_binding"]
    /\ client' = [client EXCEPT ![s] = NoClient]
    /\ geo' = [geo EXCEPT ![s] = NoGeo]
    /\ found' = [found EXCEPT ![s] = NoBackend]
    /\ remaining' = [remaining EXCEPT ![s] = {}]
    /\ best' = [best EXCEPT ![s] = NoBest]
    /\ chosen' = [chosen EXCEPT ![s] = NoBackend]

\* The task returns: its locals go away with it and the slot is free.
Return(s) ==
    /\ pc' = [pc EXCEPT ![s] = "idle"]
    /\ client' = [client EXCEPT ![s] = NoClient]
    /\ geo' = [geo EXCEPT ![s] = NoGeo]
    /\ found' = [found EXCEPT ![s] = NoBackend]
    /\ remaining' = [remaining EXCEPT ![s] = {}]
    /\ best' = [best EXCEPT ![s] = NoBest]
    /\ chosen' = [chosen EXCEPT ![s] = NoBackend]

----------------------------------------------------------------------------
(* The connection task.                                                    *)

\* The listener accepts and spawns a task.  Which GeoInfo the client gets is
\* the resolver's answer; for a loopback client it depends on a lookup of the
\* public address that may fail, hence the choice.
Accept(s, k, g) ==
    /\ Goto(s, "idle", IF KindOf[s] = "tls" THEN "handshake" ELSE "get_binding")
    /\ g \in GeosOf[k]
    /\ client' = [client EXCEPT ![s] = k]
    /\ geo' = [geo EXCEPT ![s] = g]
    /\ UNCHANGED <<tableVars, bindings, conns, clock, found, remaining, best, chosen, gcVars>>

HandshakeOk(s) ==
    /\ Goto(s, "handshake", "get_binding")
    /\ UNCHANGED <<tableVars, bindings, conns, clock, taskLocals, gcVars>>

HandshakeFail(s) ==
    /\ pc[s] = "handshake"
    /\ Return(s)
    /\ UNCHANGED <<tableVars, bindings, conns, clock, gcVars>>

\* binding_repo.get
GetBinding(s) ==
    LET b == bindings[client[s]].backend IN
    /\ Goto(s, "get_binding", IF b = NoBackend THEN "get_healthy" ELSE "touch")
    /\ found' = [found EXCEPT ![s] = b]
    /\ UNCHANGED <<tableVars, bindings, conns, clock, client, geo, remaining, best, chosen, gcVars>>

\* binding_repo.touch: nothing happens when the binding has gone meanwhile.
Touch(s) ==
    LET k == client[s] IN
    /\ Goto(s, "touch", "verify")
    /\ bindings' = IF Bound(k) THEN [bindings EXCEPT ![k].last_seen = clock] ELSE bindings
    /\ UNCHANGED <<tableVars, conns, clock, taskLocals, gcVars>>

\* Slips: the healthy flag is not tested; a bound client is subjected to the hard
\* limit; an unhealthy backend restarts the resolution without unbinding it.
SlipVerifyAny(s) ==
    /\ Goto(s, "verify", "resolved")
    /\ chosen' = [chosen EXCEPT ![s] = found[s]]
    /\ found' = [found EXCEPT ![s] = NoBackend]
    /\ UNCHANGED <<tableVars, bindings, conns, clock, client, geo, remaining, best, gcVars>>
SlipVerifyLimit(s) ==
    LET ok == found[s] \in table /\ ~AtHardLimit(Info[found[s]], conns[found[s]]) IN
    /\ Goto(s, "verify", IF ok THEN "resolved" ELSE "remove_stale")
    /\ chosen' = [chosen EXCEPT ![s] = IF ok THEN found[s] ELSE NoBackend]
    /\ found' = [found EXCEPT ![s] = NoBackend]
    /\ UNCHANGED <<tableVars, bindings, conns, clock, client, geo, remaining, best, gcVars>>
SlipVerifyRetry(s) ==
    LET ok == found[s] \in table IN
    /\ Goto(s, "verify", IF ok THEN "resolved" ELSE "get_binding")
    /\ chosen' = [chosen EXCEPT ![s] = IF ok THEN found[s] ELSE NoBackend]
    /\ found' = [found EXCEPT ![s] = NoBackend]
    /\ UNCHANGED <<tableVars, bindings, conns, clock, client, geo, remaining, best, gcVars>>

\* backend_repo.get_by_id and the test of its healthy flag.
Verify(s) ==
    LET ok == found[s] \in table IN
    /\ Goto(s, "verify", IF ok THEN "resolved" ELSE "remove_stale")
    /\ chosen' = [chosen EXCEPT ![s] = IF ok THEN found[s] ELSE NoBackend]
    /\ found' = [found EXCEPT ![s] = NoBackend]
    /\ UNCHANGED <<tableVars, bindings, conns, clock, client, geo, remaining, best, gcVars>>

\* binding_repo.remove of whatever binding the client has by now.
RemoveStale(s) ==
    /\ Goto(s, "remove_stale", "get_healthy")
    /\ bindings' = [bindings EXCEPT ![client[s]] = NoBinding]
    /\ UNCHANGED <<tableVars, conns, clock, taskLocals, gcVars>>

\* backend_repo.get_healthy: a copy of the healthy rows of the table.
GetHealthy(s) ==
    /\ Goto(s, "get_healthy", IF table = {} THEN "refused" ELSE "pick")
    /\ remaining' = [remaining EXCEPT ![s] = table]
    /\ UNCHANGED <<tableVars, bindings, conns, clock, client, geo, found, best, chosen, gcVars>>

\* One turn of the loop of pick_backend, which reads one connection count.  The
\* SELECT that filled the table has no ORDER BY: any order of rows may come.
PickStep(s, b) ==
    /\ pc[s] = "pick"
    /\ b \in remaining[s]
    /\ best' = [best EXCEPT ![s] = Consider(Info, best[s], b, conns[b], geo[s])]
    /\ remaining' = [remaining EXCEPT ![s] = @ \ {b}]
    /\ UNCHANGED <<tableVars, bindings, conns, clock, pc, client, geo, found, chosen, gcVars>>

\* The loop ended with None: every backend it looked at was at its hard limit.
PickNone(s) ==
    /\ Goto(s, "pick", "refused")
    /\ remaining[s] = {} /\ best[s] = NoBest
    /\ UNCHANGED <<tableVars, bindings, conns, clock, taskLocals, gcVars>>

\* binding_repo.set of a binding to the backend that was picked.
SetBinding(s) ==
    /\ Goto(s, "pick", "resolved")
    /\ remaining[s] = {} /\ best[s] # NoBest
    /\ bindings' = [bindings EXCEPT ![client[s]] = Binding(best[s].id)]
    /\ chosen' = [chosen EXCEPT ![s] = best[s].id]
    /\ best' = [best EXCEPT ![s] = NoBest]
    /\ UNCHANGED <<tableVars, conns, clock, client, geo, found, remaining, gcVars>>

\* "no backend available": the task ends and drops the client.
Refuse(s) ==
    /\ pc[s] = "refused"
    /\ Return(s)
    /\ UNCHANGED <<tableVars, bindings, conns, clock, gcVars>>

\* A DNS query is answered with the backend's address; nothing is connected.
Answer(s) ==
    /\ pc[s] = "resolved" /\ KindOf[s] = "dns"
    /\ Return(s)
    /\ UNCHANGED <<tableVars, bindings, conns, clock, gcVars>>

ConnectOk(s) ==
    /\ KindOf[s] # "dns"
    /\ Goto(s, "resolved", "record_start")
    /\ UNCHANGED <<tableVars, bindings, conns, clock, taskLocals, gcVars>>

ConnectFail(s) ==
    /\ KindOf[s] # "dns"
    /\ Goto(s, "resolved", "clear_binding")
    /\ UNCHANGED <<tableVars, bindings, conns, clock, taskLocals, gcVars>>

\* clear_binding after a failed connect, and return.
ClearBinding(s) ==
    /\ pc[s] = "clear_binding"
    /\ bindings' = [bindings EXCEPT ![client[s]] = NoBinding]
    /\ Return(s)
    /\ UNCHANGED <<tableVars, conns, clock, gcVars>>

\* increment_connections
RecordStart(s) ==
    /\ Goto(s, "record_start", "copy")
    /\ conns' = [conns EXCEPT ![chosen[s]] = @ + 1]
    /\ UNCHANGED <<tableVars, bindings, clock, taskLocals, gcVars>>

\* Both directions of the copy have ended, with or without an error.
FinishCopy(s) ==
    /\ Goto(s, "copy", "record_end")
    /\ UNCHANGED <<tableVars, bindings, conns, clock, taskLocals, gcVars>>

\* Slip: an error of the copy returns before the count is given back.
SlipRecordEnd(s) ==
    /\ pc[s] = "record_end"
    /\ \/ conns' = [conns EXCEPT ![chosen[s]] = IF @ > 0 THEN @ - 1 ELSE 0]
       \/ conns' = conns
    /\ Return(s)
    /\ UNCHANGED <<tableVars, bindings, clock, gcVars>>

\* decrement_connections: a compare-exchange loop that stops at zero.
RecordEnd(s) ==
    /\ pc[s] = "record_end"
    /\ conns' = [conns EXCEPT ![chosen[s]] = IF @ > 0 THEN @ - 1 ELSE 0]
    /\ Return(s)
    /\ UNCHANGED <<tableVars, bindings, clock, gcVars>>

----------------------------------------------------------------------------
(* The garbage collector of bindings.                                      *)

\* Slip: `now' is read once, outside the loop.
SlipGcWake ==
    /\ gcPc = "sleep"
    /\ gcPc' = "sweep" /\ gcNow' = 0 /\ gcScan' = Clients /\ gcRemove' = {}
    /\ UNCHANGED <<tableVars, bindings, conns, clock, pc, taskLocals>>

GcWake ==
    /\ gcPc = "sleep"
    /\ gcPc' = "sweep" /\ gcNow' = clock /\ gcScan' = Clients /\ gcRemove' = {}
    /\ UNCHANGED <<tableVars, bindings, conns, clock, pc, taskLocals>>

\* One entry of the iteration; duration_since saturates at zero.
GcScan(k) ==
    /\ gcPc = "sweep" /\ k \in gcScan
    /\ gcScan' = gcScan \ {k}
    /\ gcRemove' = IF Bound(k) /\ gcNow > bindings[k].last_seen + TTL
                   THEN gcRemove \cup {k} ELSE gcRemove
    /\ UNCHANGED <<tableVars, bindings, conns, clock, pc, taskLocals, gcPc, gcNow>>

\* One bindings.remove(&key), whatever the key is bound to by now.
GcRemove(k) ==
    /\ gcPc = "sweep" /\ gcScan = {} /\ k \in gcRemove
    /\ gcRemove' = gcRemove \ {k}
    /\ bindings' = [bindings EXCEPT ![k] = NoBinding]
    /\ UNCHANGED <<tableVars, conns, clock, pc, taskLocals, gcPc, gcNow, gcScan>>

GcSleep ==
    /\ gcPc = "sweep" /\ gcScan = {} /\ gcRemove = {}
    /\ gcPc' = "sleep" /\ gcNow' = 0
    /\ UNCHANGED <<tableVars, bindings, conns, clock, pc, taskLocals, gcScan, gcRemove>>

----------------------------------------------------------------------------
\* The sync task installs what it read from SQLite: any set of rows.  A load
\* that fails keeps the table as it is.  Which rows there are, and which of them
\* are healthy, changes; the limits, weight and region of a backend (Info) stay.
Reload ==
    /\ reloads < MaxReloads
    /\ reloads' = reloads + 1
    /\ table' \in SUBSET Backends
    /\ UNCHANGED <<bindings, conns, clock, pc, taskLocals, gcVars>>

Tick ==
    /\ clock < MaxTime
    /\ clock' = clock + 1
    /\ UNCHANGED <<tableVars, bindings, conns, pc, taskLocals, gcVars>>

Resolve(s) ==
    \/ GetBinding(s) \/ Touch(s) \/ Verify(s) \/ RemoveStale(s) \/ GetHealthy(s)
    \/ \E b \in Backends : PickStep(s, b)
    \/ PickNone(s) \/ SetBinding(s)

\* What the runtime and the operating system drive forward on their own.
TaskStep(s) ==
    \/ Resolve(s) \/ Refuse(s) \/ Answer(s) \/ ConnectOk(s) \/ ConnectFail(s)
    \/ ClearBinding(s) \/ RecordStart(s) \/ RecordEnd(s)

\* What takes a client, or its peer, to happen.
PeerStep(s) ==
    \/ \E k \in Clients : \E g \in GeosOf[k] : Accept(s, k, g)
    \/ HandshakeOk(s) \/ HandshakeFail(s) \/ FinishCopy(s)

GcStep == GcWake \/ (\E k \in Clients : GcScan(k) \/ GcRemove(k)) \/ GcSleep

Next == (\E s \in Slots : TaskStep(s) \/ PeerStep(s)) \/ GcStep \/ Reload \/ Tick

Spec == Init /\ [][Next]_vars

\* The runtime polls every ready task and the collector's timer fires.  Nothing
\* is assumed of clients, of the administrator or of the clock.
Fairness == (\A s \in Slots : WF_vars(TaskStep(s))) /\ WF_vars(GcStep)

FairSpec == Spec /\ Fairness

----------------------------------------------------------------------------
(* Properties.                                                             *)

Holding(b) == { s \in Slots : pc[s] \in {"copy", "record_end"} /\ chosen[s] = b }

(* The count the load balancer reads is exactly the number of connections  *)
(* being proxied to the backend: every path out of handle_connection gives *)
(* back what it took, and the clamp at zero in decrement_connections never *)
(* hides a lost start (tcp_server.rs:127-140, dashmap_metrics_store.rs).   *)
CountsAreExact == \A b \in Backends : conns[b] = Cardinality(Holding(b))

(* Every task that starts resolving a backend comes to proxying or ends:   *)
(* no path of resolve_backend_with_geo waits for another task.             *)
TasksAreServed ==
    \A s \in Slots : pc[s] = "get_binding" ~> pc[s] \in {"copy", "idle"}

Expired(k) == Bound(k) /\ clock > bindings[k].last_seen + TTL

(* A binding older than the TTL does not stay: the collector removes it,   *)
(* unless a new connection of the client touches or replaces it first      *)
(* (dashmap_binding_repo.rs:31-57).                                        *)
ExpiredBindingsGo == \A k \in Clients : Expired(k) ~> ~Expired(k)

(* database-schema.md:60 calls hard_limit "Absolute maximum. Connections   *)
(* are refused beyond this limit."                                         *)
HardLimitIsAbsolute ==
    \A b \in Backends : Info[b].hard_limit # 0 => conns[b] <= Info[b].hard_limit
============================================================================
