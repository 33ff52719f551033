-------------------------- MODULE RefinementProofs --------------------------
(***************************************************************************)
(* Replication implements LwwStore, for every cluster, any number of       *)
(* changes, crashes and flushes side by side, and every order and loss of  *)
(* messages.  Besides the invariants of ReplicationProofs it takes three   *)
(* facts: what a receiver works on was published, every change has a time  *)
(* past the epoch, and a row is always that of a change dealt with.  The   *)
(* store's own invariant then says what the rows show.                     *)
(***************************************************************************)
EXTENDS ReplicationRefinement, ReplicationProofs

USE DEF memory, disk, history

Published == UNION {ElementsOf(cs) : cs \in sent}
Value == [n \in Nodes |-> [k \in Keys |-> Shown(n, k)]]
Torn == [n \in Nodes |-> Behind(n)]

InflightSent == \A msg \in inflight : msg.cs \in sent

JobPublished ==
    \A n \in Nodes : job[n].pc # "idle" =>
       \A i \in 1..Len(job[n].changes) : job[n].changes[i] \in Published

AllTimed(s) == \A i \in 1..Len(s) : s[i].ts.wall > 0

Timed ==
    /\ \A n \in Nodes : AllTimed(pending[n])
    /\ \A n \in Nodes, f \in Flushers : AllTimed(flush[n][f].changes)
    /\ \A cs \in sent : AllTimed(cs.changes)

WireInv == InflightSent /\ JobPublished /\ Timed

LEMMA InitWire == Init => WireInv
  BY DEF Init, WireInv, InflightSent, JobPublished, Timed, AllTimed, NoFlush, NoJob

\* What leaves the queues alone keeps the times.
LEMMA TimedFrame ==
    ASSUME Timed, UNCHANGED <<pending, flush, sent>>
    PROVE  Timed'
  BY DEF Timed, AllTimed

LEMMA AppendTimed ==
    ASSUME NEW s \in Seq(Changes), NEW c \in Changes, AllTimed(s), c.ts.wall > 0
    PROVE  AllTimed(Append(s, c))
  BY DEF AllTimed

\* The set published only grows.
LEMMA PublishedGrows ==
    ASSUME sent \subseteq sent'
    PROVE  Published \subseteq Published'
  BY DEF Published

LEMMA JobPublishedFrame ==
    ASSUME JobPublished, sent \subseteq sent',
           \A n \in Nodes : job'[n].pc = "idle" \/ (job[n].pc # "idle" /\ job'[n].changes = job[n].changes)
    PROVE  JobPublished'
  <1>1. Published \subseteq Published'
    BY PublishedGrows
  <1> QED BY <1>1 DEF JobPublished

LEMMA RecordWire ==
    ASSUME TypeOK, WireInv, NEW n \in Nodes, NEW k \in Keys, NEW kind \in Kinds,
           NEW wall \in 1..MaxWall, RecordChange(n, k, kind, wall)
    PROVE  WireInv'
  <1> USE DEF WireInv
  <1> DEFINE c == [origin |-> n, nth |-> recorded[n] + 1, pk |-> k, kind |-> kind,
                   ts |-> [wall |-> wall, hash |-> Hash[n]]]
  <1>1. c \in Changes /\ c.ts.wall > 0
    BY HashType, BoundsType DEF TypeOK, Changes, Timestamps, HistoryOK
  <1>2. pending' = [pending EXCEPT ![n] = Append(pending[n], c)]
    BY DEF RecordChange
  <1>3. pending \in [Nodes -> Seq(Changes)]
    BY DEF TypeOK, MemoryOK
  <1>4. \A m \in Nodes : AllTimed(pending'[m])
    <2> HIDE DEF c
    <2>1. AllTimed(Append(pending[n], c))
      BY <1>1, <1>3, AppendTimed DEF Timed
    <2> QED BY <1>2, <1>3, <2>1 DEF Timed
  <1>5. UNCHANGED <<flush, sent, inflight, job>>
    BY DEF RecordChange
  <1>6. Timed'
    BY <1>4, <1>5 DEF Timed, AllTimed
  <1> QED BY <1>5, <1>6, JobPublishedFrame DEF InflightSent, JobPublished, Published

LEMMA FlushWire ==
    ASSUME TypeOK, WireInv, NEW n \in Nodes, NEW f \in Flushers, FlushStep(n, f)
    PROVE  WireInv'
  <1> USE DEF WireInv
  <1>a. flush \in [Nodes -> [Flushers -> Flushes]]
    BY DEF TypeOK, FlushOK
  <1>b. pending \in [Nodes -> Seq(Changes)]
    BY DEF TypeOK, MemoryOK
  <1>1. CASE Drain(n, f)
    <2>1. UNCHANGED <<sent, inflight, job>>
      BY <1>1 DEF Drain
    <2>2. Timed'
      <3>1. /\ flush' = [flush EXCEPT ![n][f] = FlushOf("number", 0, pending[n])]
            /\ pending' = [pending EXCEPT ![n] = <<>>]
        BY <1>1 DEF Drain
      <3>2. AllTimed(pending[n]) /\ AllTimed(<<>>) BY DEF Timed, AllTimed
      <3>3. FlushOf("number", 0, pending[n]).changes = pending[n] BY DEF FlushOf
      <3> HIDE DEF WireInv
      <3>4. \A m \in Nodes : AllTimed(pending'[m])
        BY <1>b, <3>1, <3>2 DEF WireInv, Timed
      <3>5. \A m \in Nodes, g \in Flushers : AllTimed(flush'[m][g].changes)
        BY <1>a, <3>1, <3>2, <3>3 DEF WireInv, Timed
      <3> QED BY <2>1, <3>4, <3>5 DEF WireInv, Timed
    <2> QED BY <2>1, <2>2 DEF InflightSent, JobPublished, Published
  <1>2. CASE Number(n, f) \/ PersistOwn(n, f) \/ PersistOwnFails(n, f) \/ SendReady(n, f)
    <2>1. UNCHANGED <<pending, sent, inflight, job>>
      BY <1>2 DEF Number, PersistOwn, PersistOwnFails, SendReady
    <2>2. \A m \in Nodes, g \in Flushers : flush'[m][g].changes = flush[m][g].changes
      <3>1. CASE Number(n, f)
        BY <1>a, <3>1 DEF Number, FlushOf
      <3>2. ASSUME NEW from, NEW to, FlushGoto(n, f, from, to)
            PROVE  \A m \in Nodes, g \in Flushers : flush'[m][g].changes = flush[m][g].changes
        BY <1>a, <3>2 DEF FlushGoto, Flushes
      <3> QED BY <1>2, <3>1, <3>2 DEF PersistOwn, PersistOwnFails, SendReady
    <2>3. Timed'
      BY <2>1, <2>2 DEF Timed, AllTimed
    <2> QED BY <2>1, <2>3 DEF InflightSent, JobPublished, Published
  <1>3. CASE Broadcast(n, f)
    <2> DEFINE cs == [source |-> n, seq |-> flush[n][f].seq, changes |-> flush[n][f].changes]
    <2>1. PICK reached \in SUBSET (Nodes \ {n}) :
             inflight' = inflight \cup [to : reached, cs : {cs}] /\ sent' = sent \cup {cs}
      BY <1>3 DEF Broadcast
    <2>2. UNCHANGED <<pending, job>> /\ flush' = [flush EXCEPT ![n][f] = NoFlush]
      BY <1>3 DEF Broadcast
    <2>3. AllTimed(cs.changes)
      BY DEF Timed
    <2>4. \A m \in Nodes, g \in Flushers : AllTimed(flush'[m][g].changes)
      BY <1>a, <2>2 DEF Timed, AllTimed, NoFlush
    <2>5. Timed'
      <3> HIDE DEF cs
      <3> QED BY <2>1, <2>2, <2>3, <2>4 DEF Timed
    <2>6. InflightSent'
      <3> HIDE DEF cs
      <3> QED BY <2>1 DEF InflightSent
    <2>7. JobPublished'
      <3> HIDE DEF cs
      <3> QED BY <2>1, <2>2, JobPublishedFrame DEF JobPublished
    <2> QED BY <2>5, <2>6, <2>7
  <1> QED BY <1>1, <1>2, <1>3 DEF FlushStep

LEMMA ApplyWire ==
    ASSUME TypeOK, WireInv, NEW n \in Nodes, ApplyStep(n)
    PROVE  WireInv'
  <1> USE DEF WireInv
  <1>a. job \in [Nodes -> Jobs]
    BY DEF TypeOK, JobOK
  <1>b. Timed' /\ sent' = sent
    BY TimedFrame DEF ApplyStep, Receive, Accept, Reject, AcceptUnread, WriteLww, WriteRow,
       GarbledRow, ApplyFails, UpdateCache, SendApplied, UpdateVector, PersistPeer
  <1>1. ASSUME NEW msg \in inflight, Receive(n, msg) PROVE InflightSent' /\ JobPublished'
    <2>1. inflight' \subseteq inflight
      BY <1>1 DEF Receive
    <2>2. msg.cs \in sent
      BY DEF InflightSent
    <2>3. \A i \in 1..Len(msg.cs.changes) : msg.cs.changes[i] \in Published
      BY <2>2 DEF Published, ElementsOf
    <2>4. \/ job' = [job EXCEPT ![n] = NoJob]
          \/ job' = [job EXCEPT ![n] = [pc |-> "check", source |-> msg.cs.source, seq |-> msg.cs.seq,
                                        changes |-> msg.cs.changes, i |-> 1]]
      BY <1>1 DEF Receive
    <2>5. JobPublished'
      BY <1>a, <1>b, <2>3, <2>4 DEF JobPublished, NoJob, Published
    <2> QED BY <1>b, <2>1, <2>5 DEF InflightSent
  <1>2. ASSUME ~\E msg \in inflight : Receive(n, msg) PROVE InflightSent' /\ JobPublished'
    <2>1. inflight' = inflight
      BY <1>2 DEF ApplyStep, Accept, Reject, AcceptUnread, WriteLww, WriteRow,
         GarbledRow, ApplyFails, UpdateCache, SendApplied, UpdateVector, PersistPeer
    <2>2. CASE GarbledRow(n) \/ ApplyFails(n) \/ PersistPeer(n)
      <3>1. job' = [job EXCEPT ![n] = NoJob]
        BY <2>2 DEF GarbledRow, ApplyFails, PersistPeer
      <3>2. \A m \in Nodes : job'[m].pc = "idle" \/ (job[m].pc # "idle" /\ job'[m].changes = job[m].changes)
        BY <1>a, <3>1 DEF NoJob
      <3> QED BY <1>b, <2>1, <3>2, JobPublishedFrame DEF InflightSent
    <2>3. CASE Reject(n) \/ SendApplied(n)
      <3>1. job[n].pc # "idle" /\ NextChange(n)
        BY <2>3 DEF Reject, SendApplied
      <3>2. \A m \in Nodes : job'[m].pc = "idle" \/ (job[m].pc # "idle" /\ job'[m].changes = job[m].changes)
        BY <1>a, <3>1 DEF NextChange, Jobs
      <3> QED BY <1>b, <2>1, <3>2, JobPublishedFrame DEF InflightSent
    <2>4. CASE Accept(n) \/ AcceptUnread(n) \/ WriteLww(n) \/ WriteRow(n) \/ UpdateCache(n)
               \/ UpdateVector(n)
      <3>1. PICK from, to : from # "idle" /\ JobGoto(n, from, to)
        BY <2>4 DEF Accept, AcceptUnread, WriteLww, WriteRow, UpdateCache, UpdateVector
      <3>2. \A m \in Nodes : job'[m].pc = "idle" \/ (job[m].pc # "idle" /\ job'[m].changes = job[m].changes)
        BY <1>a, <3>1 DEF JobGoto, Jobs
      <3> QED BY <1>b, <2>1, <3>2, JobPublishedFrame DEF InflightSent
    <2> QED BY <1>2, <2>2, <2>3, <2>4 DEF ApplyStep
  <1> QED BY <1>b, <1>1, <1>2

LEMMA CrashWire ==
    ASSUME TypeOK, WireInv, NEW n \in Nodes, Crash(n)
    PROVE  WireInv'
  <1> USE DEF WireInv
  <1>1. /\ job \in [Nodes -> Jobs] /\ pending \in [Nodes -> Seq(Changes)]
        /\ flush \in [Nodes -> [Flushers -> Flushes]]
    BY DEF TypeOK, JobOK, MemoryOK, FlushOK
  <1>2. InflightSent' /\ sent' = sent
    BY DEF Crash, InflightSent
  <1>3. JobPublished'
    BY <1>1, <1>2 DEF Crash, JobPublished, NoJob, Published
  <1>4. Timed'
    BY <1>1 DEF Crash, Timed, AllTimed, NoFlush
  <1> QED BY <1>2, <1>3, <1>4

LEMMA NextWire == TypeOK /\ WireInv /\ [Next]_vars => WireInv'
  <1> SUFFICES ASSUME TypeOK, WireInv, [Next]_vars PROVE WireInv'
    OBVIOUS
  <1>1. CASE UNCHANGED vars
    BY <1>1 DEF vars, WireInv, InflightSent, JobPublished, Published, Timed, AllTimed
  <1> QED BY <1>1, RecordWire, FlushWire, ApplyWire, CrashWire DEF Next

-----------------------------------------------------------------------------
(* The rows. *)

\* A row shows nothing, or a put that the node has dealt with.
RowOf(n, k) ==
    \/ Visible(rows[n][k]) = {}
    \/ \E c \in handled[n] : c.pk = k /\ c.kind = "put" /\ Visible(rows[n][k]) = {c}

\* A change is dealt with before its row is written.
RowAt(n) ==
    /\ job[n].pc = "row" => Current(n) \in handled[n]
    /\ \A k \in Keys : RowOf(n, k)

\* What leaves the rows alone and starts no write of one keeps this.
LEMMA RowFrame ==
    ASSUME NEW m, RowAt(m), rows'[m] = rows[m], handled[m] \subseteq handled'[m],
           job'[m].pc # "row" \/ job'[m] = job[m]
    PROVE  RowAt(m)'
  <1>1. ASSUME NEW k \in Keys PROVE RowOf(m, k)'
    BY DEF RowAt, RowOf
  <1>2. job'[m].pc = "row" => Current(m)' \in handled'[m]
    BY DEF RowAt, Current
  <1> QED BY <1>1, <1>2 DEF RowAt

\* A node's steps leave the other nodes' rows alone.
LEMMA RowsElsewhere ==
    ASSUME TypeOK, NEW n \in Nodes, NEW m \in Nodes, m # n, NodeStep(n)
    PROVE  rows'[m] = rows[m] /\ handled'[m] = handled[m]
  <1> USE DEF TypeOK, DiskOK, HistoryOK
  <1>1. CASE \E k \in Keys, kind \in Kinds, wall \in 1..MaxWall : RecordChange(n, k, kind, wall)
    BY <1>1 DEF RecordChange
  <1>2. CASE \E f \in Flushers : FlushStep(n, f)
    BY <1>2 DEF FlushStep, Drain, Number, PersistOwn, PersistOwnFails, SendReady, Broadcast
  <1>3. CASE ApplyStep(n)
    BY <1>3 DEF ApplyStep, Receive, Accept, Reject, AcceptUnread, WriteLww, WriteRow,
                GarbledRow, ApplyFails, UpdateCache, SendApplied, UpdateVector, PersistPeer
  <1>4. CASE Crash(n)
    BY <1>4 DEF Crash
  <1> QED BY <1>1, <1>2, <1>3, <1>4 DEF NodeStep

LEMMA RowStep ==
    ASSUME TypeOK, NEW n \in Nodes, RowAt(n), NodeStep(n)
    PROVE  RowAt(n)'
  <1>a. /\ job \in [Nodes -> Jobs] /\ handled \in [Nodes -> SUBSET Changes]
        /\ rows \in [Nodes -> [Keys -> [put : SUBSET Changes, deleted : BOOLEAN]]]
    BY DEF TypeOK, JobOK, HistoryOK, DiskOK
  <1>1. CASE \/ \E k \in Keys, kind \in Kinds, wall \in 1..MaxWall : RecordChange(n, k, kind, wall)
             \/ \E f \in Flushers : FlushStep(n, f)
    <2>1. UNCHANGED <<rows, handled, job>>
      BY <1>1 DEF RecordChange, FlushStep, Drain, Number, PersistOwn, PersistOwnFails, SendReady,
                  Broadcast
    <2> QED BY <2>1, RowFrame
  <1>2. CASE WriteLww(n)
    <2>1. /\ handled' = [handled EXCEPT ![n] = @ \cup {Current(n)}] /\ rows' = rows
          /\ Current(n)' = Current(n)
      BY <1>a, <1>2 DEF WriteLww, JobGoto, Current, Jobs
    <2>2. Current(n) \in handled'[n] /\ handled[n] \subseteq handled'[n]
      BY <1>a, <2>1
    <2>3. ASSUME NEW k \in Keys PROVE RowOf(n, k)'
      BY <2>1, <2>2 DEF RowAt, RowOf
    <2> QED BY <2>1, <2>2, <2>3 DEF RowAt
  <1>3. CASE WriteRow(n)
    <2> DEFINE c == Current(n)
    <2>1. /\ job[n].pc = "row" /\ job'[n].pc = "cache" /\ handled' = handled
          /\ rows' = [rows EXCEPT ![n][c.pk] = IF c.kind = "put" THEN Put(c)
                                               ELSE [put |-> @.put, deleted |-> @.put # {}]]
      BY <1>a, <1>3 DEF WriteRow, JobGoto
    <2>2. c \in handled[n] /\ c.pk \in Keys
      BY <2>1, CurrentType DEF RowAt
    <2>3. ASSUME NEW k \in Keys PROVE RowOf(n, k)'
      <3> HIDE DEF c
      <3>1. CASE k # c.pk
        <4>1. rows'[n][k] = rows[n][k]
          BY <1>a, <2>1, <3>1
        <4> QED BY <2>1, <4>1 DEF RowAt, RowOf
      <3>2. CASE k = c.pk /\ c.kind = "put"
        <4>1. rows'[n][k] = Put(c)
          BY <1>a, <2>1, <3>2
        <4>2. Visible(rows'[n][k]) = {c}
          BY <4>1 DEF Put, Visible
        <4> QED BY <2>1, <2>2, <3>2, <4>2 DEF RowOf
      <3>3. CASE k = c.pk /\ c.kind # "put"
        <4>1. rows'[n][k] = [put |-> rows[n][k].put, deleted |-> rows[n][k].put # {}]
          BY <1>a, <2>1, <3>3
        <4>2. Visible(rows'[n][k]) = {}
          <5>1. rows'[n][k].put = rows[n][k].put /\ rows'[n][k].deleted = (rows[n][k].put # {})
            BY <4>1
          <5>2. CASE rows[n][k].put = {}
            BY <5>1, <5>2 DEF Visible
          <5>3. CASE rows[n][k].put # {}
            BY <5>1, <5>3 DEF Visible
          <5> QED BY <5>2, <5>3
        <4> QED BY <4>2 DEF RowOf
      <3> QED BY <3>1, <3>2, <3>3
    <2> QED BY <2>1, <2>3 DEF RowAt
  <1>4. CASE Reject(n) \/ SendApplied(n)
    <2>1. rows' = rows /\ handled[n] \subseteq handled'[n] /\ job'[n].pc # "row"
      BY <1>a, <1>4 DEF Reject, SendApplied, NextChange, Jobs
    <2> QED BY <2>1, RowFrame
  <1>5. CASE \/ \E msg \in inflight : Receive(n, msg)
             \/ Accept(n) \/ AcceptUnread(n) \/ UpdateCache(n) \/ UpdateVector(n)
    <2>1. rows' = rows /\ handled' = handled /\ job'[n].pc # "row"
      BY <1>a, <1>5 DEF Receive, Accept, AcceptUnread, UpdateCache, UpdateVector, JobGoto, NoJob,
                        Jobs
    <2> QED BY <2>1, RowFrame
  <1>6. CASE GarbledRow(n) \/ ApplyFails(n) \/ PersistPeer(n) \/ Crash(n)
    <2>1. rows' = rows /\ handled' = handled /\ job'[n].pc # "row"
      BY <1>a, <1>6 DEF GarbledRow, ApplyFails, PersistPeer, Crash, NoJob
    <2> QED BY <2>1, RowFrame
  <1> QED BY <1>1, <1>2, <1>3, <1>4, <1>5, <1>6 DEF NodeStep, ApplyStep

-----------------------------------------------------------------------------
(* Steps of Replication as steps of the store. *)

\* A step that neither begins nor ends the write of a row leaves what is shown.
LEMMA ShownFrame ==
    ASSUME NEW n \in Nodes, rows' = rows, job[n].pc # "row", job'[n].pc # "row",
           \A m \in Nodes \ {n} : job'[m] = job[m], torn' = torn
    PROVE  Value' = Value /\ Torn' = Torn
  <1>1. ASSUME NEW m \in Nodes, NEW k \in Keys PROVE Shown(m, k)' = Shown(m, k)
    BY <1>1 DEF Shown, Current
  <1>2. ASSUME NEW m \in Nodes PROVE Behind(m)' = Behind(m)
    BY <1>2 DEF Behind, Current
  <1> QED BY <1>1, <1>2 DEF Value, Torn

\* Recording and flushing are silent, but for the broadcast, which publishes.
LEMMA FlushIsPublish ==
    ASSUME TypeOK, WireInv, WireInv', TypeOK', NEW n \in Nodes,
           \/ \E k \in Keys, kind \in Kinds, wall \in 1..MaxWall : RecordChange(n, k, kind, wall)
           \/ \E f \in Flushers : FlushStep(n, f)
    PROVE  Store!Publish
  <1>1. UNCHANGED <<handled, lww, rows, job, torn>> /\ sent \subseteq sent'
    BY DEF RecordChange, FlushStep, Drain, Number, PersistOwn, PersistOwnFails, SendReady,
           Broadcast
  <1>2. Value' = Value /\ Torn' = Torn
    BY <1>1 DEF Value, Shown, Torn, Behind, Current
  <1>3. Published \subseteq Published'
    BY <1>1, PublishedGrows
  <1>4. ASSUME NEW c \in Published' PROVE Store!Stamped(c)
    <2>1. PICK cs \in sent' : \E i \in 1..Len(cs.changes) : c = cs.changes[i]
      BY <1>4 DEF Published, ElementsOf
    <2>2. cs.changes \in Seq(Changes) /\ AllTimed(cs.changes)
      BY DEF TypeOK, WireOK, ChangeSets, Batches, WireInv, Timed
    <2>3. c \in Changes /\ c.ts.wall > 0
      BY <2>1, <2>2 DEF AllTimed
    <2> QED BY <2>3, BoundsType DEF Store!Stamped, Changes, Timestamps
  <1> QED BY <1>1, <1>2, <1>3, <1>4 DEF Store!Publish, Published, Value, Torn

\* While a change is looked at it is among the published ones.
LEMMA CurrentPublished ==
    ASSUME TypeOK, WireInv, NEW n \in Nodes,
           job[n].pc \in {"check", "lww", "row", "cache", "event"}
    PROVE  Current(n) \in Published
  BY CurrentType DEF WireInv, JobPublished, Current

\* A change refused is one that the store would not take either: the cache is
\* never ahead of the file.
LEMMA RejectIsMerge ==
    ASSUME TypeOK, WireInv, NEW n \in Nodes, CacheAt(n), Reject(n)
    PROVE  \E c \in Published : Store!Merge(n, c)
  <1>1. job[n].pc = "check" /\ Current(n).pk \in Keys /\ Current(n).ts \in Timestamps
    BY CurrentType DEF Reject
  <1>2. ~Store!Above(Current(n).ts, lww[n][Current(n).pk])
    <2>1. \/ cache[n][Current(n).pk] = lww[n][Current(n).pk]
          \/ Later(lww[n][Current(n).pk], cache[n][Current(n).pk])
      BY <1>1 DEF CacheAt
    <2>2. /\ lww[n][Current(n).pk] \in Timestamps
          /\ cache[n][Current(n).pk] \in Timestamps
      BY <1>1 DEF TypeOK, DiskOK, MemoryOK
    <2>3. ~(NewerThanCache(n) /\ NewerThanLww(n))
      BY DEF Reject
    <2> QED BY <1>1, <2>1, <2>2, <2>3, BoundsType
            DEF NewerThanCache, NewerThanLww, Later, Store!Above, Timestamps
  <1>3. \A m \in Nodes \ {n} : job'[m] = job[m]
    BY DEF Reject, NextChange, TypeOK, JobOK
  <1>4. job'[n].pc # "row"
    BY DEF Reject, NextChange, TypeOK, JobOK, Jobs
  <1>5. Value' = Value /\ Torn' = Torn
    BY <1>1, <1>3, <1>4, ShownFrame DEF Reject
  <1>6. Current(n) \in Published
    BY <1>1, CurrentPublished
  <1> QED BY <1>2, <1>5, <1>6 DEF Store!Merge, Reject, Value, Torn, Published

\* The write of the timestamp is the merge.
LEMMA WriteLwwIsMerge ==
    ASSUME TypeOK, WireInv, NEW n \in Nodes, LwwAt(n), WriteLww(n)
    PROVE  \E c \in Published : Store!Merge(n, c)
  <1> DEFINE c == Current(n)
  <1>1. job[n].pc = "lww" /\ c.pk \in Keys
    BY CurrentType DEF WriteLww, JobGoto
  <1>2. Store!Above(c.ts, lww[n][c.pk])
    BY <1>1 DEF LwwAt, NewerThanLww, Later, Store!Above
  <1>3. /\ job' = [job EXCEPT ![n].pc = "row"] /\ rows' = rows
        /\ job \in [Nodes -> Jobs]
    BY DEF WriteLww, JobGoto, TypeOK, JobOK
  <1>4. Current(n)' = c /\ job'[n].pc = "row" /\ \A m \in Nodes \ {n} : job'[m] = job[m]
    BY <1>3 DEF Current, Jobs
  <1>5. ASSUME NEW m \in Nodes, NEW k \in Keys
        PROVE  Shown(m, k)' = IF m = n /\ k = c.pk THEN Store!Content(c) ELSE Shown(m, k)
    <2>1. CASE m = n
      BY <1>1, <1>3, <1>4, <2>1 DEF Shown, Store!Content
    <2>2. CASE m # n
      BY <1>3, <1>4, <2>2 DEF Shown, Current
    <2> QED BY <2>1, <2>2
  <1>6. Value' = [Value EXCEPT ![n][c.pk] = Store!Content(c)]
    <2> HIDE DEF c
    <2> QED BY <1>1, <1>5 DEF Value
  <1>7. Torn' = [Torn EXCEPT ![n] = @ \ {c.pk}]
    <2>1. torn' = torn
      BY DEF WriteLww
    <2>2. ASSUME NEW m \in Nodes
          PROVE  Behind(m)' = IF m = n THEN Behind(m) \ {c.pk} ELSE Behind(m)
      BY <1>1, <1>4, <2>1 DEF Behind, Current
    <2> HIDE DEF c
    <2> QED BY <2>2 DEF Torn
  <1>8. lww' = [lww EXCEPT ![n][c.pk] = c.ts] /\ handled' = [handled EXCEPT ![n] = @ \cup {c}]
        /\ sent' = sent
    BY DEF WriteLww
  <1>9. c \in Published
    BY <1>1, CurrentPublished
  <1> HIDE DEF c
  <1> QED BY <1>2, <1>6, <1>7, <1>8, <1>9 DEF Store!Merge, Value, Torn, Published

\* The write of the row brings what was already shown.
LEMMA WriteRowIsSilent ==
    ASSUME TypeOK, NEW n \in Nodes, WriteRow(n)
    PROVE  Value' = Value /\ Torn' = Torn
  <1> DEFINE c == Current(n)
  <1>1. job[n].pc = "row" /\ c.pk \in Keys /\ c.kind \in {"put", "delete"}
    BY CurrentType, KindsType DEF WriteRow, JobGoto, Changes
  <1>2. job' = [job EXCEPT ![n].pc = "cache"] /\ job \in [Nodes -> Jobs]
    BY DEF WriteRow, JobGoto, TypeOK, JobOK
  <1>3. job'[n].pc = "cache" /\ \A m \in Nodes \ {n} : job'[m] = job[m]
    BY <1>2 DEF Jobs
  <1>4. /\ rows \in [Nodes -> [Keys -> [put : SUBSET Changes, deleted : BOOLEAN]]]
        /\ rows' = [rows EXCEPT ![n][c.pk] = IF c.kind = "put" THEN Put(c)
                                             ELSE [put |-> @.put, deleted |-> @.put # {}]]
    BY DEF WriteRow, TypeOK, DiskOK
  <1>5. Visible(rows'[n][c.pk]) = IF c.kind = "put" THEN {c} ELSE {}
    <2> HIDE DEF c
    <2> QED BY <1>1, <1>4 DEF Put, Visible
  <1>6. \A m \in Nodes, k \in Keys : (m # n \/ k # c.pk) => rows'[m][k] = rows[m][k]
    <2> HIDE DEF c
    <2> QED BY <1>1, <1>4
  <1>7. ASSUME NEW m \in Nodes, NEW k \in Keys PROVE Shown(m, k)' = Shown(m, k)
    <2>1. CASE m = n
      BY <1>1, <1>3, <1>5, <1>6, <2>1 DEF Shown
    <2>2. CASE m # n
      BY <1>3, <1>6, <2>2 DEF Shown, Current
    <2> QED BY <2>1, <2>2
  <1>8. ASSUME NEW m \in Nodes PROVE Behind(m)' = Behind(m)
    <2>1. torn \in [Nodes -> SUBSET Keys] /\ torn' = [torn EXCEPT ![n] = @ \ {c.pk}]
      BY DEF WriteRow, TypeOK, HistoryOK
    <2>2. CASE m = n
      BY <1>1, <1>3, <2>1, <2>2 DEF Behind
    <2>3. CASE m # n
      BY <1>3, <2>1, <2>3 DEF Behind, Current
    <2> QED BY <2>2, <2>3
  <1> QED BY <1>7, <1>8 DEF Value, Torn

\* A call that ends between its two writes tears the key apart: what is shown
\* falls back to the row that is there.
LEMMA EndIsTear ==
    ASSUME TypeOK, NEW n \in Nodes, RowAt(n), job[n].pc = "row", Tear(n),
           job' = [job EXCEPT ![n] = NoJob], UNCHANGED <<rows, lww, sent, handled>>
    PROVE  \E k \in Keys : Store!Tear(n, k)
  <1> DEFINE k == Current(n).pk
  <1>1. k \in Keys
    BY CurrentType
  <1>2. job'[n].pc # "row" /\ \A m \in Nodes \ {n} : job'[m] = job[m]
    BY DEF TypeOK, JobOK, NoJob
  <1>3. Torn' = [Torn EXCEPT ![n] = @ \cup {k}]
    <2>1. torn \in [Nodes -> SUBSET Keys] /\ torn' = [torn EXCEPT ![n] = @ \cup {k}]
      BY DEF Tear, TypeOK, HistoryOK
    <2>2. Behind(n)' = Behind(n) \cup {k}
      BY <1>2, <2>1 DEF Behind
    <2>3. ASSUME NEW m \in Nodes, m # n PROVE Behind(m)' = Behind(m)
      BY <1>2, <2>1, <2>3 DEF Behind, Current
    <2> HIDE DEF k
    <2> QED BY <2>2, <2>3 DEF Torn
  <1>4. Value' = [Value EXCEPT ![n][k] = Visible(rows[n][k])]
    <2>1. ASSUME NEW m \in Nodes, NEW j \in Keys
          PROVE  Shown(m, j)' = IF m = n /\ j = k THEN Visible(rows[n][k]) ELSE Shown(m, j)
      <3>1. CASE m = n
        BY <1>2, <3>1 DEF Shown
      <3>2. CASE m # n
        BY <1>2, <3>2 DEF Shown, Current
      <3> QED BY <3>1, <3>2
    <2> HIDE DEF k
    <2> QED BY <1>1, <2>1 DEF Value
  <1>5. Visible(rows[n][k]) \in {Store!Content(c) : c \in {d \in handled[n] : d.pk = k}} \cup {{}}
    <2>1. RowOf(n, k)
      BY <1>1 DEF RowAt
    <2> HIDE DEF k
    <2> QED BY <2>1 DEF RowOf, Store!Content
  <1>6. Store!Tear(n, k)
    <2> HIDE DEF k
    <2> QED BY <1>3, <1>4, <1>5 DEF Store!Tear, Value, Torn, Published
  <1> QED BY <1>1, <1>6

\* A step of the store, in the terms of replication.
Merged(n) ==
    \/ \E c \in Published : Store!Merge(n, c)
    \/ \E k \in Keys : Store!Tear(n, k)
    \/ UNCHANGED Store!storeVars

LEMMA CrashIsTear ==
    ASSUME TypeOK, NEW n \in Nodes, RowAt(n), Crash(n)
    PROVE  Merged(n)
  <1>1. /\ job' = [job EXCEPT ![n] = NoJob] /\ Tear(n)
        /\ UNCHANGED <<rows, lww, sent, handled>>
    BY DEF Crash
  <1>2. CASE job[n].pc = "row"
    BY <1>1, <1>2, EndIsTear DEF Merged
  <1>3. CASE job[n].pc # "row"
    <2>1. torn' = torn
      BY <1>1, <1>3 DEF Tear, TypeOK, HistoryOK
    <2>2. job'[n].pc # "row" /\ \A m \in Nodes \ {n} : job'[m] = job[m]
      BY <1>1 DEF TypeOK, JobOK, NoJob
    <2>3. Value' = Value /\ Torn' = Torn
      BY <1>1, <1>3, <2>1, <2>2, ShownFrame
    <2> QED BY <1>1, <2>3 DEF Merged, Store!storeVars, Value, Torn, Published
  <1> QED BY <1>2, <1>3

LEMMA ApplyIsMerge ==
    ASSUME TypeOK, WireInv, NEW n \in Nodes, LwwAt(n), CacheAt(n), RowAt(n), ~SqlError, ApplyStep(n)
    PROVE  Merged(n)
  <1>a. job \in [Nodes -> Jobs]
    BY DEF TypeOK, JobOK
  <1>1. CASE Reject(n)
    BY <1>1, RejectIsMerge DEF Merged
  <1>2. CASE WriteLww(n)
    BY <1>2, WriteLwwIsMerge DEF Merged
  <1>3. CASE WriteRow(n)
    <2>1. Value' = Value /\ Torn' = Torn /\ UNCHANGED <<sent, handled, lww>>
      BY <1>3, WriteRowIsSilent DEF WriteRow
    <2> QED BY <2>1 DEF Merged, Store!storeVars, Value, Torn, Published
  <1>4. CASE \/ \E msg \in inflight : Receive(n, msg)
             \/ Accept(n) \/ UpdateCache(n) \/ SendApplied(n) \/ UpdateVector(n) \/ PersistPeer(n)
    <2>1. job[n].pc # "row" /\ rows' = rows /\ UNCHANGED <<sent, handled, lww, torn>>
      BY <1>4 DEF Receive, Accept, UpdateCache, SendApplied, UpdateVector, PersistPeer, JobGoto
    <2>2. \A m \in Nodes \ {n} : job'[m] = job[m]
      BY <1>a, <1>4 DEF Receive, Accept, UpdateCache, SendApplied, UpdateVector, PersistPeer, JobGoto,
                        NextChange
    <2>3. job'[n].pc # "row"
      BY <1>a, <1>4 DEF Receive, Accept, UpdateCache, SendApplied, UpdateVector, PersistPeer, JobGoto,
                        NextChange, NoJob, Jobs
    <2>4. Value' = Value /\ Torn' = Torn
      BY <2>1, <2>2, <2>3, ShownFrame
    <2> QED BY <2>1, <2>4 DEF Merged, Store!storeVars, Value, Torn, Published
  <1>5. CASE GarbledRow(n)
    BY <1>5, EndIsTear DEF GarbledRow, Merged
  <1> QED BY <1>1, <1>2, <1>3, <1>4, <1>5 DEF ApplyStep, AcceptUnread, ApplyFails

\* What the steps of replication preserve; the change let through is newer than
\* the one on disk only until a statement has failed.
MergeInv ==
    /\ TypeOK /\ WireInv
    /\ \A n \in Nodes : CacheAt(n) /\ RowAt(n)
    /\ fails = 0 => \A n \in Nodes : LwwAt(n)

LEMMA MergeStart == Init => MergeInv /\ Store!StoreInit
  <1> SUFFICES ASSUME Init PROVE MergeInv /\ Store!StoreInit
    OBVIOUS
  <1>1. MergeInv
    <2>1. \A n \in Nodes : RowAt(n)
      BY DEF Init, RowAt, RowOf, Visible, NoRow, NoJob
    <2> QED BY <2>1, InitType, InitWire DEF MergeInv, Init, LwwAt, CacheAt, NoJob
  <1>2. Value = [n \in Nodes |-> [k \in Keys |-> {}]]
    BY DEF Init, Value, Shown, Visible, NoRow, NoJob
  <1>3. Torn = [n \in Nodes |-> {}]
    BY DEF Init, Torn, Behind, NoJob
  <1>4. Published = {} /\ handled = [n \in Nodes |-> {}]
        /\ lww = [n \in Nodes |-> [k \in Keys |-> Store!NoStamp]]
    BY DEF Init, Published, Store!NoStamp, NoTs
  <1> QED BY <1>1, <1>2, <1>3, <1>4 DEF Store!StoreInit, Value, Torn, Published

LEMMA MergeKept == MergeInv /\ [Next]_vars => MergeInv'
  <1> SUFFICES ASSUME MergeInv, [Next]_vars PROVE MergeInv'
    OBVIOUS
  <1> USE DEF MergeInv
  <1>0. TypeOK' /\ WireInv'
    BY NextType, NextWire
  <1>1. CASE UNCHANGED vars
    <2>1. ASSUME NEW n \in Nodes PROVE CacheAt(n)'
      BY <1>1 DEF vars, CacheAt, NewerThanCache, Current
    <2>2. ASSUME NEW n \in Nodes PROVE RowAt(n)'
      BY <1>1, RowFrame DEF vars
    <2>3. ASSUME fails = 0, NEW n \in Nodes PROVE LwwAt(n)'
      BY <1>1, <2>3 DEF vars, LwwAt, NewerThanLww, Current
    <2> QED BY <1>0, <1>1, <2>1, <2>2, <2>3 DEF vars
  <1>2. ASSUME NEW n \in Nodes, NodeStep(n) PROVE MergeInv'
    <2>1. ASSUME NEW m \in Nodes PROVE CacheAt(m)' /\ RowAt(m)'
      <3>1. CASE m = n
        BY <1>2, <3>1, CacheStep, RowStep
      <3>2. CASE m # n
        <4>1. CacheAt(m)'
          BY <1>2, <3>2, Elsewhere DEF CacheAt, NewerThanCache, Current
        <4>2. RowAt(m)'
          BY <1>2, <3>2, Elsewhere, RowsElsewhere, RowFrame
        <4> QED BY <4>1, <4>2
      <3> QED BY <3>1, <3>2
    <2>2. ASSUME fails' = 0, NEW m \in Nodes PROVE LwwAt(m)'
      <3>1. fails = 0 /\ ~SqlError
        BY <2>2, FailsGrow DEF SqlError
      <3>2. CASE m = n
        BY <1>2, <3>1, <3>2, LwwStep
      <3>3. CASE m # n
        BY <1>2, <3>1, <3>3, Elsewhere DEF LwwAt, NewerThanLww, Current
      <3> QED BY <3>2, <3>3
    <2> QED BY <1>0, <2>1, <2>2
  <1> QED BY <1>1, <1>2 DEF Next, NodeStep

\* A step in which no statement has failed is a step of the store.
LEMMA StepIsStoreStep ==
    MergeInv /\ [Next]_vars /\ fails' = 0 => [Store!StoreNext]_(Store!storeVars)
  <1> SUFFICES ASSUME MergeInv, [Next]_vars, fails' = 0
               PROVE  [Store!StoreNext]_(Store!storeVars)
    OBVIOUS
  <1> USE DEF MergeInv
  <1>0. TypeOK' /\ WireInv' /\ fails = 0 /\ ~SqlError
    BY NextType, NextWire, FailsGrow DEF SqlError
  <1>1. CASE UNCHANGED vars
    <2>1. Value' = Value /\ Torn' = Torn
      BY <1>1 DEF vars, Value, Shown, Torn, Behind, Current
    <2> QED BY <1>1, <2>1 DEF vars, Store!storeVars, Value, Torn, Published
  <1>2. ASSUME NEW n \in Nodes, NodeStep(n) PROVE [Store!StoreNext]_(Store!storeVars)
    <2>1. CASE ApplyStep(n) \/ Crash(n)
      <3>1. Merged(n)
        BY <1>0, <2>1, ApplyIsMerge, CrashIsTear
      <3> QED BY <3>1 DEF Merged, Store!StoreNext, Published
    <2>2. CASE ~(ApplyStep(n) \/ Crash(n))
      BY <1>0, <1>2, <2>2, FlushIsPublish DEF NodeStep, Store!StoreNext
    <2> QED BY <2>1, <2>2
  <1> QED BY <1>1, <1>2 DEF Next, NodeStep

\* Replication is a store in which the last write wins, whatever the order and
\* the loss of messages, whenever nodes crash, whatever data is garbled and
\* however many flushes run side by side (sync.rs:225-389), as long as no
\* statement has failed.
THEOREM ReplicationIsLwwStore == Spec => IsLwwStore
  <1> DEFINE Step == Store!StoreNext \/ fails' > 0
  <1>1. Init => MergeInv /\ Store!StoreInit
    BY MergeStart
  <1>2. MergeInv /\ [Next]_vars => MergeInv' /\ [Step]_(Store!storeVars)
    <2> SUFFICES ASSUME MergeInv, [Next]_vars PROVE MergeInv' /\ [Step]_(Store!storeVars)
      OBVIOUS
    <2>1. MergeInv'
      BY MergeKept
    <2>2. fails' = 0 \/ fails' > 0
      BY <2>1, BoundsType DEF MergeInv, TypeOK, HistoryOK
    <2> QED BY <2>1, <2>2, StepIsStoreStep
  <1> QED BY <1>1, <1>2, PTL DEF Spec, IsLwwStore

-----------------------------------------------------------------------------
(* What the store promises, of replication. *)

Lww == INSTANCE LwwStoreProofs WITH
          published <- Published, merged <- handled, stamp <- lww, value <- Value,
          torn <- Torn

\* The two instances are one store.
LEMMA OneStore ==
    /\ Store!StoreInit => Lww!StoreInit
    /\ [Store!StoreNext]_(Store!storeVars) => [Lww!StoreNext]_(Lww!storeVars)
  BY DEF Store!StoreInit, Lww!StoreInit, Store!StoreNext, Lww!StoreNext, Store!storeVars,
         Lww!storeVars, Store!Publish, Lww!Publish, Store!Merge, Lww!Merge, Store!Tear, Lww!Tear,
         Store!Above, Lww!Above, Store!Content, Lww!Content, Store!Stamped, Lww!Stamped,
         Store!NoStamp, Lww!NoStamp, Published, Value, Torn

\* The winner of the store is the newest change, and its content the row.
LEMMA WinnerIsNewest ==
    ASSUME Lww!StoreInv, fails = 0 PROVE RowIsNewest
  <1> SUFFICES ASSUME NEW n \in Nodes, NEW k \in Keys, k \notin torn[n],
                      ~(job[n].pc = "row" /\ Current(n).pk = k)
               PROVE  LET mine == {c \in handled[n] : c.pk = k}
                      IN  \/ mine = {} /\ Visible(rows[n][k]) = {}
                          \/ \E c \in mine :
                                /\ Visible(rows[n][k]) = IF c.kind = "put" THEN {c} ELSE {}
                                /\ \A d \in mine : ~Newer(d, c)
    BY DEF RowIsNewest
  <1>1. Lww!WinnerAt(n, k)
    BY DEF Lww!StoreInv, Lww!ValueIsWinner
  <1>2. Value[n][k] = Visible(rows[n][k])
    BY DEF Value, Shown
  <1>3. k \notin Torn[n]
    BY DEF Torn, Behind
  <1> QED BY <1>1, <1>2, <1>3 DEF Lww!WinnerAt, Lww!Content, Lww!Above, Newer

\* A row that is neither torn nor being written shows a newest one of the
\* changes its node has dealt with, for every cluster and any number of keys,
\* changes, crashes and flushes side by side, in any order and loss of messages,
\* until a statement fails (sync.rs:271-316).  Nothing is assumed of the nodes'
\* hashes: among changes of one timestamp it may be any.
THEOREM RowsShowTheNewest == Spec => []RowIsNewest
  <1> DEFINE Inv == MergeInv /\ (fails = 0 => Lww!StoreInv)
  <1>1. Init => Inv
    BY MergeStart, OneStore, Lww!StoreStart
  <1>2. Inv /\ [Next]_vars => Inv'
    <2> SUFFICES ASSUME Inv, [Next]_vars PROVE Inv'
      OBVIOUS
    <2>1. MergeInv'
      BY MergeKept
    <2>2. ASSUME fails' = 0 PROVE Lww!StoreInv'
      <3>1. Lww!StoreInv
        BY <2>2, FailsGrow DEF MergeInv
      <3> QED BY <2>2, <3>1, StepIsStoreStep, OneStore, Lww!StoreStep
    <2> QED BY <2>1, <2>2
  <1>3. Inv => RowIsNewest
    BY WinnerIsNewest DEF RowIsNewest
  <1> HIDE DEF Inv
  <1> QED BY <1>1, <1>2, <1>3, PTL DEF Spec
=============================================================================
