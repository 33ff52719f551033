# A TLA+ model of edgeproxy

edgeproxy is a geo-aware TCP/TLS/DNS proxy written in Rust. One process runs in
each point of presence (POP). It picks a backend for each client, keeps the client on it,
and (optionally) replicates the table of backends between POPs. This directory
holds TLA+ modules translated from `src/src/`, TLC configurations that check
them on small instances, and TLAPS proofs of theorems that hold for every
instance.

Paths below are relative to the repository; `PROJECT.json` maps every
definition to the lines it models.

## 1. The system

| Part | State | Operations | Interacts with |
|---|---|---|---|
| Load balancer (`domain/services/load_balancer.rs`) | none | `pick_backend`: one pass over the healthy backends, lowest score wins; `calculate_all_scores` | called by the proxy service with a closure that reads the live counts |
| Domain values (`domain/`) | none | regions, countries, backends, bindings, with their conversions | everything |
| Proxy service (`application/proxy_service.rs`) | none of its own | resolve (binding, check, pick, bind), record start/end/failure | binding map, table, metrics through ports |
| TCP, TLS, DNS listeners (`adapters/inbound`) | one task per connection or query | accept, handshake, resolve, connect, copy, end | proxy service |
| Binding map (`dashmap_binding_repo.rs`) | client → backend, created/last seen | get, set, remove, touch, periodic sweep | all tasks and the collector share it |
| Metrics stores (`dashmap_metrics_store.rs`, `prometheus_metrics_store.rs`) | counts and times per backend; totals | increment, decrement (clamped at zero), record, export | all tasks |
| Backend repositories (`sqlite_backend_repo.rs`, `postgres_backend_repo.rs`) | list of backends behind a lock, version | periodic reload, read; PostgreSQL: add, remove, set health | tasks; the SQLite file is written by replication |
| Geo resolver (`maxmind_geo_resolver.rs`) | database | address → country and region | proxy service |
| Sync service (`replication/sync.rs`, `types.rs`) | pending changes, number, version vector, timestamp cache; three SQLite tables | record, flush, apply, restore at start | agent's flush loop, transport |
| Agent (`agent.rs`) | sockets, loops, a stop flag | build, start, stop, flush loop, event loop | main or a program that uses the library |
| Transport (`transport.rs`) | peer table, QUIC connections, event channel | connect, accept, a stream per changeset and peer, shutdown | sync service, network |
| Gossip (`gossip.rs`) | member table with state and last-seen | Ping/Ack/Join/MemberList, ping timer, failure timer | UDP, a bounded event channel |
| Rate limiter, circuit breaker, connection pool, health checker (`infrastructure/`) | atomics in DashMaps, queues, counters | see section 2 | library for users of the crate; `main.rs` starts none of them |
| Graceful shutdown (`infrastructure/shutdown.rs`) | a flag, a count of connections, a broadcast, a notification | guards, shutdown, subscribe, wait for drain | library; `main.rs` does not use it |
| Configuration watcher (`infrastructure/config_watcher.rs`) | values, watched files with their times, a broadcast channel | set, watch, unwatch, the polling loop | library |
| Auto-discovery API (`api_server.rs`) | registered backends and last heartbeat | register, heartbeat, deregister, list, clean-up | started by `main.rs`; nothing feeds it into routing |
| Configuration and wiring (`config.rs`, `replication/config.rs`, `main.rs`) | environment | load, validate, start the parts in order | all |

What is hard in it. Nothing but single map accesses is atomic: a connection
task reads a binding, a table, several counts and writes a binding and a count
in different steps on a multi-threaded runtime. Replication spreads one logical
step over several autocommitted SQL statements and awaits, with crashes between
them, over streams that keep no order. Gossip runs on lossy datagrams and
timers. The supporting components keep several atomics per object and change
them one at a time, or announce a change after they have let go of its lock.
`PROJECT.json` lists these as hazards, each at its line.

What makes the parts correct:

- balancer: the loop returns the first backend of least score; a closer one
  wins as long as load terms stay below a tier; more load never attracts.
- routing: counts are exact; nobody is refused while there is room; nobody is
  sent to a backend that was withdrawn before he came; a binding nobody else
  touches decides; every resolution ends; expired bindings go.
- replication: numbers are never used twice; timestamps on disk only grow; the
  row is a newest one of what was dealt with, unless its two writes were torn
  apart; every change reaches every node; all its statements together are a store
  in which the last write wins.
- transport: a broadcast is passed on at most once, and only from an announced peer.
- gossip: nobody who was asked is declared dead without cause; the dead are
  forgotten; the mesh forms.
- repositories and metrics: an unchanged version means an unchanged list; what is
  exported adds up.
- supporting parts: limits hold over every interval, counts of lent things are
  exact, breakers and health reports settle, silent agents are dropped, reported
  drains happened, announcements account for the value, the proxy comes up
  without its optional parts and its loops end when told to.

## 2. Modules

| Module | What it is |
|---|---|
| `LoadBalancer` | scores as exact fractions, one turn of the pick loop (`Consider`) |
| `LoadBalancerRef` | a machine that runs a call of `pick_backend`, a backend per step, the loop-free definition of the pick, and the properties |
| `Domain` | regions and countries, parsing and formatting of them, backends from rows and from the API, bindings |
| `Routing` (uses both) | proxy service and ports, one call at a time: what a caller alone sees |
| `Proxy` (extends `LoadBalancer`) | the same operations taken apart: connection tasks, binding map, collector, reload and counts |
| `ProxyHistory` (extends `Proxy`) | history variables: what had been true since a client came |
| `Replication` | sync service, flush loop and network |
| `LwwStore`, `ReplicationRefinement` | the abstract last-write-wins store, and the mapping under which `Replication` implements it |
| `Transport` | connections, peer table, streams and events of the QUIC transport |
| `Membership`, `Gossip` | the handlers as functions of table and message; the loop, timers, network and faults around them |
| `Metrics`, `Repositories`, `ConnectionPool` | one component each; `ListOps` has the `retain` of vectors and queues |
| `RateLimiter`, `CircuitBreaker`, `HealthChecker`, `Shutdown`, `ConfigWatcher` | one component each |
| `ApiState`, `Registry` | the handlers of the API as functions; agents, time and the clean-up around them |
| `Startup` | `main`, the configuration it branches on, and the life of a replication agent |
| `Stores` | composition of `LoadBalancerRef`, `ConnectionPool`, `Metrics`, `Repositories` and `Transport` |
| `Infrastructure` | composition of `RateLimiter`, `CircuitBreaker`, `HealthChecker`, `Registry`, `Shutdown`, `ConfigWatcher` and `Startup` |
| `DomainTests`, `RoutingTests`, `GossipTests`, `ApiTests` | the repository's unit tests, evaluated on the model |
| `ProxyProofs` | theorems about `Proxy` and `ProxyHistory` |
| `ReplicationProofs`, `RefinementProofs`, `LwwStoreProofs` | theorems about `Replication`, its refinement and the abstract store |
| `GossipProofs` | theorems about `Gossip` |
| `MetricsProofs` | the theorem about `Metrics`, and the lemmas about sums over finite sets it rests on |
| `StoresProofs` (extends `MetricsProofs`) | theorems about `LoadBalancerRef`, `ConnectionPool`, `Repositories`, `Transport` and their composition |
| `InfrastructureProofs` | theorems about the parts of `Infrastructure` and their composition |
| `MCStores`, `MCProxy`, `MCProxyHistory`, `MCReplication`, `MCGossip`, `MCInfrastructure` | instances for TLC |

A definition named `Slip...` is a deliberately wrong variant of the definition
that follows it. It is used by no specification; replacing the definition
by it makes a property fail, which shows that the property depends on the code.

### How state and actions correspond to the code

*Load balancer.* `LoadBalancerRef` runs one call after another: `Call` enters
`pick_backend` with arguments chosen at the start, `PickTurn` is one turn of its
loop over a list of any length, with the filter on health, and `Answered` is the return.

*Proxy.* A slot of `Slots` is a tokio task. `pc` names its next access to shared
state: a TCP task goes through accept, geo lookup, binding look-up, the touch,
the check of the bound backend, or else the copy of the healthy list, the pick loop with one
count read per turn, and the new binding; then connect, start count, copy, end
count. A failed connect removes the binding. `table` is the list of healthy
rows: its readers treat an unhealthy row as they treat a missing one.
`bindings`, `conns` and `clock` are the two DashMaps and `Instant`. The
collector scans and then removes key by key, as `start_gc` does.

*Replication.* Memory and disk of a node are separate variables, and a crash
resets memory to what `init_db` reads back. `flush[n][f]` and `job[n]` are the program
counters of `flush` and `apply_changeset`. Every autocommitted statement is one action and
may fail (`MaxFails`). `inflight` is a set of changesets: the transport opens a
stream per changeset and a task per stream, so there is no order unless `Fifo`.

*The refinement.* `published`, `merged`, `stamp` and `value` of `LwwStore` are
the changes of all changesets sent, those each node has dealt with, the
timestamps on disk, and the rows. A change is merged where its timestamp is
written; from there to the statement that writes the row, the mapping already
shows what that statement will write. If the call ends between the two (a crash, an
error, data that do not parse), the store takes a step of its own, `Tear`: it keeps the
timestamp and shows an older content until a later change is merged.

*Transport.* A line is one QUIC connection. The end that accepts enters the
caller by address and serves streams; the end that dials enters the called one
by id and reads none. Inserting a peer, announcing it, serving and leaving are
separate steps, since each awaits. A full event channel makes the sender wait.

*Gossip.* A handler or timer of the loop is one action, since one task owns
the table; what a handler does is a function in `Membership`. Time passes in
periods of at most a `gossip_interval`, and ages stop past the timeout. In a period a
node pings one member it takes for alive, any one, or none: the code picks at random
(`gossip.rs:517`), and nothing in `Tick` waits for the pings.

*RateLimiter.* `check_with_cost` holds the map entry, so it is one action. The
floating-point refill is an exact fraction, truncated.

*CircuitBreaker.* Each load, `fetch_add` and store is a step. A call that has
decided what to store keeps the stores in `todo`, in the code's order. The
map's read guard keeps `insert` and `clear_all` out. Times are ages; pending
timestamps grow older too.

*ConnectionPool.* Steps are the stretches between awaits and atomics; `clear`
leaves old pools alive for acquires under way, so there is a sequence of them.

*Metrics.* A call owes a set of additions to separate atomics, which take effect in any
order; the clamped decrement is a load and a compare-exchange that may fail and
is tried again. What reporters have done so far is kept per backend (`reported`), for the
property to compare with. `Export` computes what `export_prometheus` prints.

*Repositories.* SQLite's loop loads, swaps the list and counts the version in
three steps. PostgreSQL's calls change list and version under one lock; its
reload loads nothing and counts a copy of the version. A client of the port
reads the version, then the list, and polls.

*HealthChecker.* The loop takes the list, probes, updates. The callback is
called under the write lock, in the update.

*Registry.* Handlers are atomic map accesses; the clean-up scans first and then
removes key by key.

*Shutdown.* The decrement of a guard, its look at the flag and its notification
are separate, and so are the check, the registration and the wake-up of
`wait_for_drain`; `shutdown` swaps the flag and then sends. The count of
connections and the notification are read by different tasks in between.

*ConfigWatcher.* `set` replaces the value under the lock and sends after it;
`watch_file` reads the time before it asks for the lock; the loop collects
modified files and announces them one by one. The channel drops its oldest
message when full. Others write the file with any modification time, newer, equal or
older, and may move it away and put another one in its place.

*Startup.* `main` is one action per part, in its order, with the `?`s and the
logged errors apart; the `?` of the certificate (`main.rs:175-184`) covers files and the
self-signed one alike. `start` of an agent is four steps, nothing of which is undone
when a later one fails. The same agent may instead belong to a program that
starts it again or stops it.

*Test modules.* About two thirds of the repository's Rust lines are inline unit
tests. Those that call the sequential operations are translated, each to a formula of
the same name, and an `ASSUME` evaluates them on the modelled operations: the
model and the program agree on what the repository's own tests expect. Each of
these modules is extended by an instance whose `Slip` variants do not touch what it
tests (`MCStores`, `MCGossip`).

## 3. Runs

| Run | Expect | Question and answer |
|---|---|---|
| `stores` | pass | For three backends, healthy or not, and for none, over the chosen profiles, counts and client locations: the loop's result is the first minimum (`PickIsFirstMinimum`), a closer tier wins while relative load stays below a hundred (`GeoDominatesBelowHundred`), a load increase never draws a client (`LoadRepels`). The pool's `in_use` is exact (`InUseIsExact`); an export at a quiet moment adds up (`ExportAddsUp`); an unchanged version means an unchanged list (`SameVersionSameList`); a broadcast arrives at most once, after its sender was announced (`DeliveredOnce`). |
| `proxy` | pass | A TLS and a TCP task of one client, reloads, clock and collector interleaved: `CountsAreExact`, `RefusedOnlyWithoutRoom`, `ChosenWasHealthy`, `AffinityIsKept`. |
| `proxy_liveness` | pass | A TLS and a DNS task: `TasksAreServed`, `ExpiredBindingsGo`. |
| `proxy_hard_limit` | violation | A backend with a hard limit of one gets a second connection (`HardLimitIsAbsolute`). In the shortest behaviour it is that of a bound client, for whom `resolve_backend` does not look at the limit; two tasks between pick and count can do the same. |
| `replication` | pass | Two nodes, one crash, one failing statement, loss, reordering, unreadable data: `CacheNeverAhead`, `NoSeqReuse`, `LwwMonotone`; and a row that is not torn shows a change than which no other that was dealt with is newer (`RowIsNewest`). |
| `replication_cluster` | pass | Three nodes, ordered lossless delivery: every change reaches everybody (`ChangesReachEveryone`), and every step is a step of the abstract store or none (`IsLwwStore`). |
| `replication_order` | violation | Two changesets of one node swap on the way and the first is dropped as a duplicate. |
| `replication_events` | violation | The event channel nobody reads fills up and the flush loop stops. |
| `gossip` | pass | Two nodes with crashes, an outage and losses, started in any order: who is declared dead was gone, or for every ping he was sent since he was last heard from a datagram was lost (`DeathIsReal`). |
| `gossip_cluster` | pass | Three nodes, each pinging one of the others at a time or none; one may end and come back. A node that stays away is forgotten by all whose loop runs (`DeadAreForgotten`); all come to know each other and stay so unless the picks pass over somebody (`MeshForms`); `DeathIsReal`, where one member is pinged and another is not. |
| `gossip_any_address` | violation | With the documented `0.0.0.0:4001` no mesh forms. |
| `infrastructure` | pass | Seven supporting components, one per behaviour: `RateBounded`, `FullCountTrips`, `BreakerRecovers`, `ChangeHasCause`, `HealthSettles`, `GoneIsForgotten`; a reported drain happened and every wait ends (`DrainIsReal`, `WaitsEnd`); announcements account for the value in whatever order they come, and a file under watch that gets a later time is announced (`EventsAddUp`, `ModificationIsAnnounced`); the proxy serves unless what it needs is unusable, and `stop` ends the loops (`OptionalPartsAreOptional`, `StopEndsLoops`). |

The four violations are the findings of `PROJECT.json`, each with the sentence
of the repository it contradicts.

Bounds, and why they are enough:

- *proxy*: two slots, reused without limit, give every pair of concurrent
  tasks; one client lets them meet on one binding; two backends with limits one
  and more; two reloads allow withdrawing and bringing back; `TTL = 0` with
  two ticks lets a binding expire while a task holds it. The theorems remove
  these bounds for the safety properties.
- *replication*: one key (rows of different keys share nothing but the
  changeset they travel in). `replication`: three changes of n1, none of n2,
  two clock values so that equal, later and earlier timestamps occur, one crash and one
  failing statement at any place. `replication_cluster`: two changes of n1 and one of n2,
  all of one clock value, and n3 only receives: between the two writers the
  hash decides. `EventCap = 8` is not reached in the passing runs;
  `replication_events` uses 1 in place of 1024.
- *gossip*: two nodes suffice for one to be wrong about the other; three are
  needed for a member learned at second hand, and for one that is passed over
  while another is pinged. `Timeout` of one or two periods;
  two losses make one full exchange fail. `EventCap = 4` in `gossip_cluster` lets a node
  get to know two members and bury one; the next event stops its loop, so loops
  that are stuck occur.
- *stores*: three borrowers over two connections meet the limit, with one
  `clear`; `CounterSize = 8` stands for 2^64. Two reporters, two backends and
  three calls give every race of two calls on one counter and a first entry made
  twice. Two entries, two changes of the version. Two nodes and two
  connections: a reconnect, or both sides dialling at once, with an event channel of one.
- *infrastructure*: a rate of 2 per 3 ticks, so truncation matters; costs one and
  two; nine ticks are three windows. Two users suffice for every pair of racing
  calls on a circuit; the failure threshold 2 and the reset time 1 are the smallest
  with a count and a wait. Registry and health checker have few states and
  thresholds 2 and 3. Two guards, one after the other or together, and two
  callers of `shutdown`. Two setters, a channel of one and three modification
  times: an announcement is overtaken, another is lost, a file gets a newer, an equal
  and an older time. A flag that counts as set and one that does not, and every kind
  of name.

In `stores` and `infrastructure` the components share no state: a behaviour lets one
run and the others rest.

Deadlock checking is off where a bound (clock, changes, crashes) may end a
behaviour; the `stores` and `infrastructure` runs have it on.

## 4. Fairness

- *Proxy* (`FairSpec`): weak fairness of each task's own steps and of the collector,
  since tokio polls every ready task and the collector's interval ticks. A
  peer that keeps a connection open for ever is allowed: no fairness for the
  end of a copy. A connect ends because the kernel gives up.
- *Replication*: weak fairness of the flush loop and of the applier, which takes the next changeset that has arrived;
  none for recording, crashes or failures.
- *Gossip*: again and again all datagrams that can arrive have been handled (`Quiet`), and weak
  fairness of time and of the failure timer; none for faults, and none for
  pings: which member is picked is left to chance, so a behaviour may never pick one.
- *CircuitBreaker*: users keep coming, finish calls, and time passes.
  `BreakerRecovers` says nothing of a circuit nobody uses: the code has no
  timer of its own.
- *HealthChecker*, *Registry*: the interval loops go on and time passes. Agents owe nothing.
- *Shutdown*: a call of `shutdown` that has swapped the flag sends, receivers are polled, and
  the timer of a drain fires. Connections need not end.
- *ConfigWatcher*: the loop's interval ticks. Nobody need call `set` or read.
- *Startup*: `main` goes on, an await of `start` or `stop` ends in success or an error,
  the agent's timers tick. Nobody need connect to the transport, so its accept
  loop has no fairness.

## 5. Theorems

All are proved for every value of the constants allowed by the named `ASSUME`s
(finite slots, `None` values outside their types, natural bounds).

| Theorem | Statement | Argument |
|---|---|---|
| `ProxyProofs!TypeCorrect` | `Spec => []TypeOK` | one lemma per group of actions |
| `ProxyProofs!CountsCorrect` | `Spec => []CountsAreExact` | strengthened by `ChosenKnown` (a task that counts has a backend): the set of holders gains or loses exactly the task that moves, and cardinality follows |
| `ProxyProofs!NoWrongRefusal` | `HistSpec => []RefusedOnlyWithoutRoom` | `RoomInv`: in the middle of the pick loop, a backend that has had room all along is still to be looked at or there is a best one |
| `ProxyProofs!NoStaleRoute` | `HistSpec => []ChosenWasHealthy` | `SeenInv`: whatever the loop has in hand came from a table seen since the client came |
| `ProxyProofs!AffinityCorrect` | `HistSpec => []AffinityIsKept` | `KeptInv`: while nobody else writes the binding, what was found is what is there |
| `ReplicationProofs!TypeCorrect` | `Spec => []TypeOK` | one lemma per group of actions |
| `ReplicationProofs!NumbersAreFresh` | numbers are not reused, given one flusher at a time and no failed persist | `SeqInv`: a number in a flusher's hand, on disk, sent or in memory is below or at the right bound at each place of the flush (`FlushBelow`, `FlushIsNew`, `SentBelow`, `DiskBelow`, `NotToSelf`, `Fresh`) |
| `ReplicationProofs!LastWriteWins` | `Spec => LwwMonotone` | `LwwAt`: between check and write nobody else moves the stored timestamp |
| `ReplicationProofs!CacheCorrect` | `Spec => []CacheNeverAhead` | `CacheAt`: the file has the timestamp before the cache gets it |
| `RefinementProofs!ReplicationIsLwwStore` | `Spec => IsLwwStore`: until a statement fails, with crashes, garbled data, any order and loss, and flushes side by side | `WireInv`: what a receiver works on was published and has a time past the epoch. `MergeInv`: row and timestamp of a key are those of changes dealt with. Then every statement is a merge, a call that ends between its two writes is a tear (`EndIsTear`), and every other step leaves the mapped store alone (`StepIsStoreStep`) |
| `RefinementProofs!RowsShowTheNewest` | `Spec => []RowIsNewest`, with no assumption on hashes, order or flushes | the abstract store's inductive invariant (`LwwStoreProofs!StoreInv`), carried over by the refinement |
| `LwwStoreProofs!LatestWins` | `StoreSpec => []ValueIsWinner` | the winner is kept or replaced by a later change, and a tear keeps its timestamp; what the refinement is worth |
| `InfrastructureProofs!DrainsAreReal` | `ShutSpec => []DrainIsReal` | `WaitersKnow`: an ending connection means that none is open, and who has not seen that moment waits behind no such notification |
| `StoresProofs!InUseCorrect` | `PoolSpec => []InUseIsExact` | `OnePool`: until a clear there is one pool, everybody in a call works on it, and each way out of `held` counts once; the counter cannot wrap, since it is above the number of borrowers |
| `StoresProofs!VersionTellsList` | `ReposSpec => []SameVersionSameList` | `NeverAhead`: a client's version is one the repository has had |
| `StoresProofs!TransportDeliversOnce` | `WireSpec => []DeliveredOnce` | `OneWay`, `GotIsLast`: a broadcast is owed to a node on at most one connection its sender dialled, and on none once it got there; tables, tasks and streams are true to their connections (`TablesAreTrue`, `StreamsAreTrue`, ...) |
| `StoresProofs!PicksFirstMinimum`, `!GeoDominates`, `!MoreLoadRepels` | `BalancerSpec => []PickIsFirstMinimum`, `[]GeoDominatesBelowHundred`, `[]LoadRepels` | `BalancerInv`: after k turns the first minimum of the first k backends is kept; scores, compared by cross-multiplication, are a strict weak order (`ScoresOrdered`), grow with the count (`LoadRaisesScore`), and are a hundred apart between tiers (`TiersApart`) |
| `GossipProofs!GossipTypes` | `Spec => []TypeOK`, if no node lists itself as a peer | `GossipShape`, `NotOneself`: everybody is entered under the address he announces, and what a node is sent comes from another one |
| `GossipProofs!GossipDeathIsReal` | `Spec => DeathIsReal`, with announced addresses | `SilenceIsLoss`: each ping that a steady member has not answered has cost a datagram, unless it or the answer is still on the way |
| `InfrastructureProofs!HealthChangeHasCause` | `HealthSpec => ChangeHasCause` | `HealthInv`: the counters count the last equal probes |
| `InfrastructureProofs!LimiterBoundsRate` | `LimiterSpec => []RateBounded` | `LimiterInv`: an account since an arbitrary moment, of what was spent and what the bucket holds against burst and time (`Credit`); a bucket last refilled before that moment is behind by less than a token |
| `InfrastructureProofs!SubscriberAddsUp` | `WatcherSpec => []EventsAddUp` | `Net`: received, in the channel and still to be sent, every value came in as often as it went out, but for the one that is set |
| `InfrastructureProofs!BreakerTrips` | `BreakerSpec => []FullCountTrips`, for thresholds above one | `FullCountIsSeen`: a full count in a closed circuit belongs to a call that has yet to open it or to reset the count; `Forgets`: who closes the circuit resets the count next |
| `MetricsProofs!ExportIsTrue` | `MetricsSpec => []ExportAddsUp` | `BackendsAddUp`, `AggregatesAddUp`, `ActiveAddsUp`: every counter, plus the additions to it that calls still owe, is what was reported: reports and debts are sets of pairs and triples, so a sum over backends is the size of a set and a step adds or removes one element. Who is about to decrement has a connection that is counted (`DuesAreCalls`), so the clamp at zero never takes effect |
| `StoresProofs!QueuesFit`, `!ListsTyped` | `PoolSpec => []PoolTypeOK`, `ReposSpec => []ReposTypeOK` | `retain` yields a list of the same elements that is no longer (`RetainedType`), so a queue stays within `max_connections` through every clean-up |
| `StoresProofs!StoresAreParts`, `!StoresTyped`, `!StoresSafe` | a behaviour of `StoresSpec` is one of each part; so it keeps `StoresTypeOK` and all invariants of the `stores` run | a step of the composition is a step of one part and leaves the others alone |
| `InfrastructureProofs!InfraAreParts`, `!InfraTyped`, `!InfraSafe` | the same for `InfraSpec`, `InfraTypeOK` and the safety properties of the `infrastructure` run | as above; fairness is not part of the statement |
| `InfrastructureProofs!MainReturnsForCause` | `StartSpec => []MainHasCause`: `main` returns because of settings of replication, a certificate or its own listener, never because of the agent or an optional server | the safe part of `OptionalPartsAreOptional` |

None of the invariants is inductive by itself: each speaks of a moment at which
several steps have already happened, and the strengthening says what those
steps leave behind in the locals of a task.

Only model-checked:

- all liveness (`TasksAreServed`, `ExpiredBindingsGo`, `ChangesReachEveryone`,
  `DeadAreForgotten`, `MeshForms`, `BreakerRecovers`, `HealthSettles`, `GoneIsForgotten`,
  `WaitsEnd`, `ModificationIsAnnounced`, `OptionalPartsAreOptional`, `StopEndsLoops`):
  the prover has no rules for fairness;
- what the unit tests expect of the pure definitions;
- that the slips break what they are meant to break.

Induction over data is done by hand, since the library's induction theorems take an
operator as a parameter. For a fold over a finite set, `MetricsProofs` takes a smallest
set for which the claim fails (`FS_StrictSubsetOrderingWellFounded` and `WFMin` give one) and
removes an element from it; for a list, `StoresProofs` takes the first place of the
recursive function at which it fails. That is why `Retained` is a recursive function and not
`SelectSeq`, and why the sums of `Metrics` are `SumFunction` of a function, with no operator
as argument.

## 6. Assumptions to know about

- Nothing in the repository calls `transport.connect` or hands received
  changesets to `apply_changeset`; the replication model supplies both, and one
  applier per node.
- The counter of a timestamp is always 0 in the code paths modelled (`Change::new`
  uses `now()`; `tick` is called by tests only).
- `NumbersAreFresh` is for the flush loop alone. Two flushes side by side
  persist in either order and the lower number may stay.
- `RowIsNewest` and `IsLwwStore` speak of the time before a statement fails: a failing
  read of a timestamp is taken for its absence (`sync.rs:293`, `AcceptUnread`), and then an
  older change is let in. The same exception is in `LwwMonotone`, which also rests on
  the one applier: two that check before either writes would break it.
- `RowIsNewest` excepts a key whose two writes were torn apart, until a later change
  of it is written, and leaves open which of several changes of one timestamp is shown
  (section 7).
- A changeset with a wrong checksum (`sync.rs:228`) is not modelled: its refusal is the
  same as a loss.
- A reload of the proxy's table changes which rows there are and which are healthy;
  limits, weight and region of a backend stay as they are (`Info`).
- The gossip loop pings one random member it takes for alive per interval
  (`gossip.rs:509-530`) while the timeout of 30 seconds (`:542`) runs for all of them. The model
  leaves the pick open, so a member may be passed over until it is declared dead
  though all is well. `DeathIsReal` therefore counts the pings that were sent, and says
  nothing of a member that was sent none; `MeshForms` excepts the behaviours in which one is
  declared dead unasked (`overlooked`). How likely that is depends on the size of the
  cluster: in a small one it is rare, in a large one it is not, unless the member's own
  pings reach the node in time.
- `DeathIsReal` is proved for nodes that announce an address at which they can be
  reached (`~BindAny`; `gossip_any_address` shows what happens otherwise), and the
  part of the types that says that nobody is his own member for clusters in which
  no node is its own bootstrap peer: a node that is would ping itself.
- `gossip_cluster` starts a node after its bootstrap peers (`Ordered`) on a
  network without loss, because a Join is never repeated.
- `RateBounded` assumes that the clean-up's `max_age` is at least the time a
  bucket takes to fill (`CleanupIsLate`); the code leaves that choice to its caller.
- `FullCountTrips` is checked with a failure threshold of 2 and proved for all above 1: with 1, a failure outside
  the window is counted without being compared with the threshold, and the
  circuit stays closed.
- `InUseIsExact` is stated for pools that are never cleared.
- `DrainIsReal` excepts a connection that begins while another is between its
  decrement and its notification (`revived`): that notification may reach a later wait.
- `SameVersionSameList` excepts the moment between SQLite's exchange of the list and
  the count, and PostgreSQL from its first reload on.
- `ModificationIsAnnounced` is about a write that gives the file a later time than it ever
  had. The loop compares with `>` (`config_watcher.rs:127`): a file that is
  replaced by one of an equal or older time may never be announced.
- `OptionalPartsAreOptional` allows `main` to end over the certificate, from files or
  self-signed. A panic in the TLS set-up or in `agent.start()` is not modelled, and
  a start on an address that is bound already fails: with port 0 (`agent.rs:477`) it
  would succeed again and double the loops.
- `EventsAddUp` is for a subscriber that has missed nothing.
- `ExportAddsUp` is about a moment at which every reporter is between two calls, and there is at
  least one backend name (`MetricsConstants`). The largest modification time of the watcher's
  files, `LastMtime`, is a natural number; it bounds the model, not the code.

## 7. Behaviour seen while modelling that has no run of its own

Routing: load can outweigh a tier once relative load reaches a hundred, while
`docs/markdown/internals/load-balancer.md:241` says the factor makes the region
always dominate; a weight of zero counts as one, where `database-schema.md`
calls such a backend disabled; two first connections of one client may go to two
backends; a failed connect clears whatever binding the client has by then; the sweep
removes a key it found expired even if the client was seen in between. The balancer
compares countries by case while the region of a country is found in any case, so
a backend registered as "br" is never of the client's country. SQLite's integers are
cast: a weight of 256 becomes 0, and then counts as 1, and a port of 65536 becomes 0.

DNS: the server of this commit parses and logs queries and never answers, while
`docs/markdown/configuration/dns-server.md:7` describes geo-aware resolution; the
handler that would answer ignores the name of the application in a query.

Replication: an error in a changeset drops the rest of it for good; a crash
between timestamp and row makes a node refuse a change it never applied; two
changes of one microsecond at one node have equal timestamps and the second is
refused, since `now()` sets the counter to 0, while `replication/types.rs:48` has a
"Logical counter for events at the same wall time" and `docs/markdown/configuration/replication.md:22`
and `:38` promise the same; an error in reading a timestamp counts as none, and an
older change is then applied; a node's own change leaves no timestamp, so an older change of another
node is applied over it and two nodes may end with each other's row. As wired by
`main.rs` replication does nothing: no change is recorded, no peer dialled, no
received changeset applied, and the agent is dropped after `start`. An agent whose `start`
failed half-way cannot be started again, because its transport keeps the
socket; its accept loop ends only with one more connection.

Transport: the peer table never shrinks; the PeerDisconnected of an old connection
may follow the PeerConnected of its successor.

Gossip: a member that the random picks pass over for 30 seconds is declared dead without
having been asked; after an outage longer than the timeout both sides have declared each
other dead and neither speaks first; the return of a dead member emits no event;
a joiner enters dead members of the list as alive until they time out; the
event channel is never read and stops the loop when full. Bootstrap peers must be
addresses with a port (`gossip.rs:450`), where `replication/config.rs:20` shows a host name.

Repositories: PostgreSQL's reload replaces the list by nothing and leaves the
version that clients read; an id added twice is there twice, and a change of its health
reaches only the first.

Supporting parts: `allow_request` may judge a just opened circuit by its old
opening time and let requests through at once; a half-open circuit admits any number of
requests, where the enum's comment says limited; `get_or_create` may replace a circuit
in use and panics if `clear_all` comes between its calls. The pool's limit is checked
before the connect and may be exceeded; its clean-up works on a copy of the
map and never sees pools made later; after `clear`, a late release makes the new
pool's counter wrap below zero, and `acquire` then refuses everybody; a lent
connection that is dropped without release stays counted. A heartbeat
between the registry's scan and its removal is answered OK and the entry is gone.
`wait_for_drain` may miss the notification between its check and its listening, and
then waits for its timeout. A watched file whose new contents have an equal or older
time is not announced. The last announcement a subscriber of the
watcher reads need not be of the current value; `HotValue` (`config_watcher.rs:174`)
says that it updates automatically, and nothing updates it. An error of `accept` on
the main listener ends the process.

## 8. Not modelled, and the plan

Left out for good:

- certificates, QUIC and TLS framing, and the parsing of DNS packets with the
  client in the DNS tests: library code and I/O. The listeners' models start
  where these have succeeded or failed;
- the contents of the MaxMind database and of SQLite files: data; the models take any answer;
- OS signals: one event that starts a shutdown;
- texts, log lines, ports and periods that are only passed on, and figures that no
  decision reads;
- unit tests that open real sockets or threads, or that test derived traits and
  serialisation: what the first show is in the state machines, the others are library code.

What is left to do:

1. Composition of `Replication` and `Proxy` through the SQLite file: a withdrawal
   recorded at one POP and the last connection another POP routes to it.
2. An abstract specification of the binding map (one client, one backend at a
   time) that `Proxy` refines.

## 9. Running it

    tlc -workers 2 -config MCProxy.cfg MCProxyHistory     # and so on, see PROJECT.json
    tlapm ProxyProofs.tla

On two cores the longest runs are `infrastructure` (about 400,000 states, a bit over three
minutes), `gossip_cluster` (about a million states, two and a half minutes),
`replication` (about two million states) and `stores` (about a million states), a minute
or two each.
