---------------------------- MODULE Replication ----------------------------
(***************************************************************************)
(* Built-in replication (sync.rs, driven by agent.rs over transport.rs):   *)
(* every node records local changes, flushes them as numbered changesets,  *)
(* broadcasts these to its peers and applies what it receives, the last    *)
(* write winning, to its SQLite file.                                      *)
(*                                                                         *)
(* The flush loop and direct calls of agent.flush() run side by side (the  *)
(* Flushers); apply_changeset is called for one changeset at a time.  Each *)
(* action is one access to shared memory, one autocommitted SQL statement  *)
(* or one await, so that a crash may fall between any two of them.         *)
(*                                                                         *)
(* Two links are not in the repository: nothing calls connect, and nothing *)
(* reads the transport's events to call apply_changeset.  The model        *)
(* supplies both: nodes are connected, and what arrives is applied.        *)
(***************************************************************************)
EXTENDS Integers, Sequences, FiniteSets

CONSTANTS
    Nodes,        \* NodeId
    Hash,         \* Nodes -> crc32 of the id, HLCTimestamp.node_hash
    Keys,         \* primary keys of the backends table
    Kinds,        \* kinds of change recorded: "put" (Insert, Update), "delete",
                  \* and "garbled", a put whose data is not JSON
    Flushers,     \* calls of SyncService.flush that may run side by side
    MaxChanges,   \* Nodes -> bound on the changes a node records
    MaxWall,      \* bound on the wall clock
    MaxCrashes,   \* bound on crashes of the whole cluster
    EventCap,     \* capacity of the SyncEvent channel (1024)
    Fifo,         \* BOOLEAN: changesets of a node are handed over in order
    Lossy,        \* BOOLEAN: a broadcast may miss peers
    MaxFails      \* bound on SQL statements that return an error

ASSUME HashType == Hash \in [Nodes -> Nat]
ASSUME KindsType == Kinds \subseteq {"put", "delete", "garbled"}
ASSUME ChangesType == MaxChanges \in [Nodes -> Nat]
ASSUME BoundsType == 
    /\ MaxWall \in Nat /\ MaxCrashes \in Nat /\ MaxFails \in Nat
    /\ EventCap \in Nat \ {0}

VARIABLES
    \* memory of each node
    pending,    \* pending_changes
    seqno,      \* sequence
    vv,         \* version_vector
    cache,      \* last_timestamps
    events,     \* messages in the SyncEvent channel: no one ever takes them out
    flush,      \* what each flush call has in hand
    job,        \* the apply_changeset call
    \* SQLite file of each node
    versions,   \* __replication_versions
    lww,        \* __replication_lww
    rows,       \* backends
    \* between nodes
    inflight,   \* changesets on their way
    \* bounds and history, not read by the code
    recorded,   \* changes recorded so far
    crashes,
    fails,      \* SQL statements that have failed
    sent,       \* changesets broadcast so far
    handled,    \* changes each node has accepted or refused
    torn        \* keys whose timestamp was written, and whose row was not

memory == <<pending, seqno, vv, cache, events, flush, job>>
disk == <<versions, lww, rows>>
history == <<recorded, crashes, fails, sent, handled, torn>>
vars == <<memory, disk, inflight, history>>

\* HLCTimestamp, without the counter: Change::new takes it from now(), which
\* sets it to 0.  NoTs, older than any, is where there is no entry.
Timestamps == [wall : 0..MaxWall, hash : Nat]
NoTs == [wall |-> 0, hash |-> 0]

\* Slip: the node's hash is forgotten.
SlipWallOnly(a, b) == a.wall > b.wall

\* The derived order of HLCTimestamp.
Later(a, b) ==
    \/ a.wall > b.wall
    \/ a.wall = b.wall /\ a.hash > b.hash

\* A change to the backends table; (origin, nth) stands for its random id.
Changes == [origin : Nodes, nth : Nat \ {0}, pk : Keys, kind : Kinds, ts : Timestamps]

Batches == Seq(Changes) \ {<<>>}
ChangeSets == [source : Nodes, seq : Nat \ {0}, changes : Batches]

\* A flush call: "idle", or about to number, persist, send the event or
\* broadcast the changes in hand.
NoFlush == [pc |-> "idle", seq |-> 0, changes |-> <<>>]
FlushOf(pc, seq, changes) == [pc |-> pc, seq |-> seq, changes |-> changes]
Flushes == [pc : {"idle", "number", "persist", "event", "broadcast"},
            seq : Nat, changes : Seq(Changes)]

\* A call of apply_changeset: what it does next, and to which change.
NoJob == [pc |-> "idle", source |-> "none", seq |-> 0, changes |-> <<>>, i |-> 0]
Jobs == [pc : {"idle", "check", "lww", "row", "cache", "event", "vector", "persist"},
         source : Nodes \cup {"none"}, seq : Nat, changes : Seq(Changes), i : Nat]

\* A row of backends: absent, or what the change put there, perhaps deleted.
NoRow == [put |-> {}, deleted |-> FALSE]
Put(c) == [put |-> {c}, deleted |-> FALSE]

\* What the routing table reads of it: the row unless it is marked deleted.
Visible(r) == IF r.deleted THEN {} ELSE r.put

MemoryOK ==
    /\ pending \in [Nodes -> Seq(Changes)]
    /\ seqno \in [Nodes -> Nat]
    /\ vv \in [Nodes -> [Nodes -> Nat]]
    /\ cache \in [Nodes -> [Keys -> Timestamps]]
    /\ events \in [Nodes -> 0..EventCap]

FlushOK ==
    /\ flush \in [Nodes -> [Flushers -> Flushes]]
    /\ \A n \in Nodes, f \in Flushers :
          /\ flush[n][f].pc # "idle" => flush[n][f].changes # <<>>
          /\ flush[n][f].pc \in {"persist", "event", "broadcast"} => flush[n][f].seq > 0

JobOK ==
    /\ job \in [Nodes -> Jobs]
    /\ \A n \in Nodes :
          /\ job[n].pc # "idle" => job[n].source \in Nodes /\ job[n].seq > 0
          /\ job[n].pc \in {"check", "lww", "row", "cache", "event"}
                => job[n].i \in 1..Len(job[n].changes)

DiskOK ==
    /\ versions \in [Nodes -> [Nodes -> Nat]]
    /\ lww \in [Nodes -> [Keys -> Timestamps]]
    /\ rows \in [Nodes -> [Keys -> [put : SUBSET Changes, deleted : BOOLEAN]]]

WireOK ==
    /\ inflight \subseteq [to : Nodes, cs : ChangeSets]
    /\ sent \subseteq ChangeSets

HistoryOK ==
    /\ recorded \in [Nodes -> Nat]
    /\ crashes \in 0..MaxCrashes
    /\ fails \in 0..MaxFails
    /\ handled \in [Nodes -> SUBSET Changes]
    /\ torn \in [Nodes -> SUBSET Keys]

TypeOK == MemoryOK /\ FlushOK /\ JobOK /\ DiskOK /\ WireOK /\ HistoryOK

Init ==
    /\ pending = [n \in Nodes |-> <<>>]
    /\ seqno = [n \in Nodes |-> 0]
    /\ vv = [n \in Nodes |-> [m \in Nodes |-> 0]]
    /\ cache = [n \in Nodes |-> [k \in Keys |-> NoTs]]
    /\ events = [n \in Nodes |-> 0]
    /\ flush = [n \in Nodes |-> [f \in Flushers |-> NoFlush]]
    /\ job = [n \in Nodes |-> NoJob]
    /\ versions = [n \in Nodes |-> [m \in Nodes |-> 0]]
    /\ lww = [n \in Nodes |-> [k \in Keys |-> NoTs]]
    /\ rows = [n \in Nodes |-> [k \in Keys |-> NoRow]]
    /\ inflight = {}
    /\ recorded = [n \in Nodes |-> 0]
    /\ crashes = 0
    /\ fails = 0
    /\ sent = {}
    /\ handled = [n \in Nodes |-> {}]
    /\ torn = [n \in Nodes |-> {}]

-----------------------------------------------------------------------------
(* Recording and flushing. *)

\* record_backend_change: the change is stamped with the system clock, which
\* may stand still or be set back, and queued.  Neither backends nor the
\* last-write timestamps of the recording node are touched.
RecordChange(n, k, kind, wall) ==
    /\ recorded[n] < MaxChanges[n]
    /\ recorded' = [recorded EXCEPT ![n] = @ + 1]
    /\ pending' = [pending EXCEPT ![n] =
          Append(@, [origin |-> n, nth |-> recorded[n] + 1, pk |-> k, kind |-> kind,
                     ts |-> [wall |-> wall, hash |-> Hash[n]]])]
    /\ UNCHANGED <<seqno, vv, cache, events, flush, job, disk, inflight, crashes, fails, sent, handled,
                   torn>>

\* flush drains the queue; an empty one is nothing to do.
Drain(n, f) ==
    /\ flush[n][f].pc = "idle"
    /\ pending[n] # <<>>
    /\ flush' = [flush EXCEPT ![n][f] = FlushOf("number", 0, pending[n])]
    /\ pending' = [pending EXCEPT ![n] = <<>>]
    /\ UNCHANGED <<seqno, vv, cache, events, job, disk, inflight, history>>

\* VersionVector::update.
Raise(v, m, seq) == [v EXCEPT ![m] = IF seq > @ THEN seq ELSE @]

\* Slip: the number fetch_add returns, without the + 1.
SlipNumber(n, f) ==
    /\ flush[n][f].pc = "number"
    /\ LET seq == seqno[n]
       IN /\ flush' = [flush EXCEPT ![n][f] = FlushOf("persist", seq, flush[n][f].changes)]
          /\ seqno' = [seqno EXCEPT ![n] = @ + 1]
          /\ vv' = [vv EXCEPT ![n] = Raise(@, n, seq)]
    /\ UNCHANGED <<pending, cache, events, job, disk, inflight, history>>

Number(n, f) ==
    /\ flush[n][f].pc = "number"
    /\ LET seq == seqno[n] + 1
       IN /\ flush' = [flush EXCEPT ![n][f] = FlushOf("persist", seq, flush[n][f].changes)]
          /\ seqno' = [seqno EXCEPT ![n] = seq]
          /\ vv' = [vv EXCEPT ![n] = Raise(@, n, seq)]
    /\ UNCHANGED <<pending, cache, events, job, disk, inflight, history>>

FlushGoto(n, f, from, to) ==
    /\ flush[n][f].pc = from
    /\ flush' = [flush EXCEPT ![n][f].pc = to]

\* A statement returns an error (the file is locked, the disk is full).
SqlError == fails < MaxFails /\ fails' = fails + 1

\* persist_version replaces the row whatever it holds.
PersistOwn(n, f) ==
    /\ FlushGoto(n, f, "persist", "event")
    /\ versions' = [versions EXCEPT ![n][n] = flush[n][f].seq]
    /\ UNCHANGED <<pending, seqno, vv, cache, events, job, lww, rows, inflight, history>>

\* An error is logged and the flush goes on.
PersistOwnFails(n, f) ==
    /\ SqlError
    /\ FlushGoto(n, f, "persist", "event")
    /\ UNCHANGED <<pending, seqno, vv, cache, events, job, disk, inflight, recorded, crashes,
                   sent, handled, torn>>

\* BroadcastReady: the send waits while the channel is full.
SendReady(n, f) ==
    /\ FlushGoto(n, f, "event", "broadcast")
    /\ events[n] < EventCap
    /\ events' = [events EXCEPT ![n] = @ + 1]
    /\ UNCHANGED <<pending, seqno, vv, cache, job, disk, inflight, history>>

\* broadcast_changeset: to every peer whose connection is alive, once.
Broadcast(n, f) ==
    /\ flush[n][f].pc = "broadcast"
    /\ LET cs == [source |-> n, seq |-> flush[n][f].seq, changes |-> flush[n][f].changes]
       IN \E reached \in SUBSET (Nodes \ {n}) :
             /\ Lossy \/ reached = Nodes \ {n}
             /\ inflight' = inflight \cup [to : reached, cs : {cs}]
             /\ sent' = sent \cup {cs}
    /\ flush' = [flush EXCEPT ![n][f] = NoFlush]
    /\ UNCHANGED <<pending, seqno, vv, cache, events, job, disk, recorded, crashes, fails, handled,
                   torn>>

-----------------------------------------------------------------------------
(* Applying. *)

\* Every changeset has a stream and a task of its own at the receiver, so they
\* arrive in any order unless Fifo is assumed.
MayArrive(msg) ==
    Fifo => \A other \in inflight :
               other.to = msg.to /\ other.cs.source = msg.cs.source
                  => other.cs.seq >= msg.cs.seq

\* Slip: has_seen is off by one.
SlipHasSeen(n, cs) == vv[n][cs.source] >= cs.seq - 1

HasSeen(n, cs) == vv[n][cs.source] >= cs.seq

\* apply_changeset is called, and returns at once if the number was seen.  A
\* changeset with a wrong checksum is refused before (sync.rs:228): the same as a
\* loss.
Receive(n, msg) ==
    /\ job[n].pc = "idle"
    /\ msg.to = n
    /\ MayArrive(msg)
    /\ inflight' = inflight \ {msg}
    /\ job' = [job EXCEPT ![n] =
          IF HasSeen(n, msg.cs) THEN NoJob
          ELSE [pc |-> "check", source |-> msg.cs.source, seq |-> msg.cs.seq,
                changes |-> msg.cs.changes, i |-> 1]]
    /\ UNCHANGED <<pending, seqno, vv, cache, events, flush, disk, history>>

Current(n) == job[n].changes[job[n].i]

JobGoto(n, from, to) ==
    /\ job[n].pc = from
    /\ job' = [job EXCEPT ![n].pc = to]

\* On to the next change of the changeset, or to the version vector.
NextChange(n) ==
    job' = [job EXCEPT ![n].pc = IF job[n].i < Len(job[n].changes) THEN "check" ELSE "vector",
                       ![n].i = @ + 1]

NewerThanCache(n) == Later(Current(n).ts, cache[n][Current(n).pk])
NewerThanLww(n) == Later(Current(n).ts, lww[n][Current(n).pk])

\* Slip: only the cache is consulted.
SlipCacheOnly(n) ==
    /\ JobGoto(n, "check", "lww")
    /\ NewerThanCache(n)
    /\ UNCHANGED <<pending, seqno, vv, cache, events, flush, disk, inflight, history>>

\* Slip: the cache is filled before the database is written.
SlipEarlyCache(n) ==
    /\ JobGoto(n, "check", "lww")
    /\ NewerThanCache(n)
    /\ NewerThanLww(n)
    /\ cache' = [cache EXCEPT ![n][Current(n).pk] = Current(n).ts]
    /\ UNCHANGED <<pending, seqno, vv, events, flush, disk, inflight, history>>

\* should_apply_change: newer than the cache's entry and the database's.
Accept(n) ==
    /\ JobGoto(n, "check", "lww")
    /\ NewerThanCache(n)
    /\ NewerThanLww(n)
    /\ UNCHANGED <<pending, seqno, vv, cache, events, flush, disk, inflight, history>>

Reject(n) ==
    /\ job[n].pc = "check"
    /\ ~(NewerThanCache(n) /\ NewerThanLww(n))
    /\ NextChange(n)
    /\ handled' = [handled EXCEPT ![n] = @ \cup {Current(n)}]
    /\ UNCHANGED <<pending, seqno, vv, cache, events, flush, disk, inflight, recorded, crashes, fails, sent,
                   torn>>

\* An error in reading the timestamp counts as no timestamp.
AcceptUnread(n) ==
    /\ SqlError
    /\ JobGoto(n, "check", "lww")
    /\ NewerThanCache(n)
    /\ UNCHANGED <<pending, seqno, vv, cache, events, flush, disk, inflight, recorded, crashes,
                   sent, handled, torn>>

\* apply_single_change: the timestamp first, in a statement of its own,
WriteLww(n) ==
    /\ JobGoto(n, "lww", "row")
    /\ lww' = [lww EXCEPT ![n][Current(n).pk] = Current(n).ts]
    /\ handled' = [handled EXCEPT ![n] = @ \cup {Current(n)}]
    /\ UNCHANGED <<pending, seqno, vv, cache, events, flush, versions, rows, inflight,
                   recorded, crashes, fails, sent, torn>>

\* Slip: INSERT OR IGNORE, which leaves a row that is there.
SlipWriteRow(n) ==
    /\ JobGoto(n, "row", "cache")
    /\ Current(n).kind # "garbled"
    /\ rows' = [rows EXCEPT ![n][Current(n).pk] =
          IF Current(n).kind = "put" THEN (IF @.put = {} THEN Put(Current(n)) ELSE @)
          ELSE [put |-> @.put, deleted |-> @.put # {}]]
    /\ torn' = [torn EXCEPT ![n] = @ \ {Current(n).pk}]
    /\ UNCHANGED <<pending, seqno, vv, cache, events, flush, versions, lww, inflight,
                   recorded, crashes, fails, sent, handled>>

\* then the row: a put replaces it, a delete marks it if it is there.
WriteRow(n) ==
    /\ JobGoto(n, "row", "cache")
    /\ Current(n).kind # "garbled"
    /\ rows' = [rows EXCEPT ![n][Current(n).pk] =
          IF Current(n).kind = "put" THEN Put(Current(n))
          ELSE [put |-> @.put, deleted |-> @.put # {}]]
    /\ torn' = [torn EXCEPT ![n] = @ \ {Current(n).pk}]
    /\ UNCHANGED <<pending, seqno, vv, cache, events, flush, versions, lww, inflight,
                   recorded, crashes, fails, sent, handled>>

\* History: a call that ends between its two writes has torn the key.
Tear(n) ==
    torn' = [torn EXCEPT ![n] = @ \cup (IF job[n].pc = "row" THEN {Current(n).pk} ELSE {})]

\* Data that is not JSON ends the whole call with an error,
GarbledRow(n) ==
    /\ job[n].pc = "row"
    /\ Current(n).kind = "garbled"
    /\ job' = [job EXCEPT ![n] = NoJob]
    /\ Tear(n)
    /\ UNCHANGED <<pending, seqno, vv, cache, events, flush, disk, inflight, recorded, crashes,
                   fails, sent, handled>>

\* and so does any statement that fails.
ApplyFails(n) ==
    /\ SqlError
    /\ job[n].pc \in {"check", "lww", "row", "event", "persist"}
    /\ job' = [job EXCEPT ![n] = NoJob]
    /\ Tear(n)
    /\ UNCHANGED <<pending, seqno, vv, cache, events, flush, disk, inflight, recorded, crashes,
                   sent, handled>>

UpdateCache(n) ==
    /\ JobGoto(n, "cache", "event")
    /\ cache' = [cache EXCEPT ![n][Current(n).pk] = Current(n).ts]
    /\ UNCHANGED <<pending, seqno, vv, events, flush, disk, inflight, history>>

\* The log entry, which nothing reads back, and ChangeApplied.
SendApplied(n) ==
    /\ job[n].pc = "event"
    /\ events[n] < EventCap
    /\ events' = [events EXCEPT ![n] = @ + 1]
    /\ NextChange(n)
    /\ UNCHANGED <<pending, seqno, vv, cache, flush, disk, inflight, history>>

UpdateVector(n) ==
    /\ JobGoto(n, "vector", "persist")
    /\ vv' = [vv EXCEPT ![n] = Raise(@, job[n].source, job[n].seq)]
    /\ UNCHANGED <<pending, seqno, cache, events, flush, disk, inflight, history>>

PersistPeer(n) ==
    /\ job[n].pc = "persist"
    /\ job' = [job EXCEPT ![n] = NoJob]
    /\ versions' = [versions EXCEPT ![n][job[n].source] = job[n].seq]
    /\ UNCHANGED <<pending, seqno, vv, cache, events, flush, lww, rows, inflight, history>>

-----------------------------------------------------------------------------
\* Slip: init_db forgets to restore the sequence.
SlipCrash(n) ==
    /\ crashes < MaxCrashes
    /\ crashes' = crashes + 1
    /\ pending' = [pending EXCEPT ![n] = <<>>]
    /\ seqno' = [seqno EXCEPT ![n] = 0]
    /\ vv' = [vv EXCEPT ![n] = versions[n]]
    /\ cache' = [cache EXCEPT ![n] = [k \in Keys |-> NoTs]]
    /\ events' = [events EXCEPT ![n] = 0]
    /\ flush' = [flush EXCEPT ![n] = [f \in Flushers |-> NoFlush]]
    /\ job' = [job EXCEPT ![n] = NoJob]
    /\ inflight' = { msg \in inflight : msg.to # n }
    /\ Tear(n)
    /\ UNCHANGED <<disk, recorded, fails, sent, handled>>

\* The process dies and starts again: memory is empty, the version vector and
\* the sequence are read from the file (init_db), and what was on its way to
\* it is gone with its connections.
Crash(n) ==
    /\ crashes < MaxCrashes
    /\ crashes' = crashes + 1
    /\ pending' = [pending EXCEPT ![n] = <<>>]
    /\ seqno' = [seqno EXCEPT ![n] = versions[n][n]]
    /\ vv' = [vv EXCEPT ![n] = versions[n]]
    /\ cache' = [cache EXCEPT ![n] = [k \in Keys |-> NoTs]]
    /\ events' = [events EXCEPT ![n] = 0]
    /\ flush' = [flush EXCEPT ![n] = [f \in Flushers |-> NoFlush]]
    /\ job' = [job EXCEPT ![n] = NoJob]
    /\ inflight' = { msg \in inflight : msg.to # n }
    /\ Tear(n)
    /\ UNCHANGED <<disk, recorded, fails, sent, handled>>

FlushStep(n, f) ==
    \/ Drain(n, f) \/ Number(n, f)
    \/ PersistOwn(n, f) \/ PersistOwnFails(n, f)
    \/ SendReady(n, f) \/ Broadcast(n, f)

ApplyStep(n) ==
    \/ \E msg \in inflight : Receive(n, msg)
    \/ Accept(n) \/ Reject(n) \/ AcceptUnread(n)
    \/ WriteLww(n) \/ WriteRow(n) \/ GarbledRow(n) \/ ApplyFails(n)
    \/ UpdateCache(n) \/ SendApplied(n) \/ UpdateVector(n) \/ PersistPeer(n)

Next ==
    \E n \in Nodes :
       \/ \E k \in Keys, kind \in Kinds, wall \in 1..MaxWall : RecordChange(n, k, kind, wall)
       \/ \E f \in Flushers : FlushStep(n, f)
       \/ ApplyStep(n)
       \/ Crash(n)

Spec == Init /\ [][Next]_vars

\* The flush loop ticks for ever, and a call once made is run by the executor.
FairSpec ==
    /\ Spec
    /\ \A n \in Nodes : WF_vars(ApplyStep(n))
    /\ \A n \in Nodes : \A f \in Flushers : WF_vars(FlushStep(n, f))

-----------------------------------------------------------------------------
(* Properties. *)

\* As long as no statement fails, no two changesets a node broadcasts bear the
\* same number, restarts included: receivers drop the second one as already
\* seen (sync.rs:233).
NoSeqReuse ==
    fails = 0 => \A a, b \in sent : a.source = b.source /\ a.seq = b.seq => a = b

\* The in-memory timestamp of a key is never ahead of the one on disk, whatever
\* statement fails and whenever the node dies: a change that the cache refuses
\* would be refused after a restart too.
CacheNeverAhead ==
    \A n \in Nodes, k \in Keys :
       \/ cache[n][k] = lww[n][k]
       \/ cache[n][k].wall < lww[n][k].wall
       \/ cache[n][k].wall = lww[n][k].wall /\ cache[n][k].hash < lww[n][k].hash

\* The timestamp of a key on disk only ever moves forward (the last write wins),
\* across restarts, which empty the cache, as long as no statement fails: an
\* error in reading the timestamp is taken for its absence (sync.rs:293).
LwwMonotone ==
    [][fails' = 0 => \A n \in Nodes, k \in Keys :
          \/ lww'[n][k] = lww[n][k]
          \/ lww'[n][k].wall > lww[n][k].wall
          \/ lww'[n][k].wall = lww[n][k].wall /\ lww'[n][k].hash > lww[n][k].hash]_vars

\* d was made after c, by its timestamp.
Newer(d, c) ==
    \/ d.ts.wall > c.ts.wall
    \/ d.ts.wall = c.ts.wall /\ d.ts.hash > c.ts.hash

\* What a reader of the table sees of a row is a newest one among the changes the
\* node has dealt with, in whatever order and interleaving they came, whatever
\* it never received and whenever it crashed (a newest delete shows as no row).
\* The row may lag only while the two writes of apply_single_change are under
\* way, or where a crash or data that is not JSON has torn them apart
\* (sync.rs:301-316), until the next write.  Which of several changes with the same timestamp
\* it shows is left open.  An error in reading a timestamp, taken for its
\* absence (sync.rs:293), is excepted.
RowIsNewest ==
    fails = 0 => \A n \in Nodes, k \in Keys :
       k \notin torn[n] /\ ~(job[n].pc = "row" /\ Current(n).pk = k) =>
       LET mine == {c \in handled[n] : c.pk = k}
       IN  \/ mine = {} /\ Visible(rows[n][k]) = {}
           \/ \E c \in mine : /\ Visible(rows[n][k]) = IF c.kind = "put" THEN {c} ELSE {}
                              /\ \A d \in mine : ~Newer(d, c)

\* A change recorded at one node is in time dealt with by every other node.
ChangesReachEveryone ==
    \A n \in Nodes : \A i \in 1..MaxChanges[n] : \A m \in Nodes \ {n} :
       (recorded[n] >= i) ~> (\E c \in handled[m] : c.origin = n /\ c.nth = i)
=============================================================================
