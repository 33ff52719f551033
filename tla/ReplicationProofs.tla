------------------------- MODULE ReplicationProofs -------------------------
(***************************************************************************)
(* Proofs about Replication, for every cluster, every number of changes    *)
(* and crashes, and every order and loss of messages.                      *)
(***************************************************************************)
EXTENDS Replication, TLAPS

USE DEF memory, disk, history

LEMMA InitType == Init => TypeOK
  BY BoundsType DEF Init, TypeOK, MemoryOK, FlushOK, JobOK, DiskOK, WireOK, HistoryOK,
                    NoTs, Timestamps, NoFlush, Flushes, NoJob, Jobs, NoRow

\* What a receiver looks at while it works on a change.
LEMMA CurrentType ==
    ASSUME TypeOK, NEW n \in Nodes,
           job[n].pc \in {"check", "lww", "row", "cache", "event"}
    PROVE  /\ Current(n) \in Changes
           /\ Current(n).pk \in Keys /\ Current(n).ts \in Timestamps
           /\ job[n].i \in 1..Len(job[n].changes)
  <1>1. job[n].i \in 1..Len(job[n].changes) /\ job[n].changes \in Seq(Changes)
    BY DEF TypeOK, JobOK, Jobs
  <1>2. Current(n) \in Changes
    BY <1>1 DEF Current
  <1> QED BY <1>1, <1>2 DEF Changes

LEMMA TearType ==
    ASSUME TypeOK, NEW n \in Nodes, Tear(n)
    PROVE  torn' \in [Nodes -> SUBSET Keys]
  <1>1. job[n].pc = "row" => Current(n).pk \in Keys
    BY CurrentType
  <1> QED BY <1>1 DEF Tear, TypeOK, HistoryOK

LEMMA RaiseType ==
    ASSUME NEW v \in [Nodes -> Nat], NEW m \in Nodes, NEW seq \in Nat
    PROVE  Raise(v, m, seq) \in [Nodes -> Nat]
  BY DEF Raise

LEMMA FlushGotoType ==
    ASSUME FlushOK, NEW n \in Nodes, NEW f \in Flushers,
           NEW from \in {"persist", "event"}, NEW to \in {"event", "broadcast"},
           FlushGoto(n, f, from, to)
    PROVE  FlushOK'
  <1>1. flush[n][f] \in Flushes /\ flush[n][f].changes # <<>> /\ flush[n][f].seq > 0
    BY DEF FlushGoto, FlushOK
  <1>2. [flush[n][f] EXCEPT !.pc = to] \in Flushes
    BY <1>1 DEF Flushes
  <1>3. flush' = [flush EXCEPT ![n][f] = [flush[n][f] EXCEPT !.pc = to]]
    BY DEF FlushGoto, FlushOK
  <1>4. flush' \in [Nodes -> [Flushers -> Flushes]]
    BY <1>2, <1>3 DEF FlushOK
  <1> QED BY <1>1, <1>3, <1>4 DEF FlushOK, Flushes

LEMMA RecordType ==
    ASSUME TypeOK, NEW n \in Nodes, NEW k \in Keys, NEW kind \in Kinds,
           NEW wall \in 1..MaxWall, RecordChange(n, k, kind, wall)
    PROVE  TypeOK'
  <1> USE DEF TypeOK
  <1> DEFINE c == [origin |-> n, nth |-> recorded[n] + 1, pk |-> k, kind |-> kind,
                   ts |-> [wall |-> wall, hash |-> Hash[n]]]
  <1>1. c \in Changes
    BY HashType, BoundsType DEF Changes, Timestamps, HistoryOK
  <1>2. Append(pending[n], c) \in Seq(Changes)
    BY <1>1 DEF MemoryOK
  <1>3. pending' = [pending EXCEPT ![n] = Append(pending[n], c)]
    BY DEF RecordChange
  <1>4. MemoryOK'
    <2> HIDE DEF c
    <2> QED BY <1>2, <1>3 DEF RecordChange, MemoryOK
  <1>5. HistoryOK'
    BY DEF RecordChange, HistoryOK
  <1>6. FlushOK' /\ JobOK' /\ DiskOK' /\ WireOK'
    BY DEF RecordChange, FlushOK, JobOK, DiskOK, WireOK
  <1> QED BY <1>4, <1>5, <1>6

LEMMA FlushType ==
    ASSUME TypeOK, NEW n \in Nodes, NEW f \in Flushers, FlushStep(n, f)
    PROVE  TypeOK'
  <1> USE DEF TypeOK
  <1>1. CASE Drain(n, f)
    <2>1. MemoryOK'
      BY <1>1 DEF Drain, MemoryOK
    <2>2. FlushOK'
      BY <1>1 DEF Drain, FlushOK, Flushes, FlushOf, NoFlush, MemoryOK
    <2>3. JobOK' /\ DiskOK' /\ WireOK' /\ HistoryOK'
      BY <1>1 DEF Drain, JobOK, DiskOK, WireOK, HistoryOK
    <2> QED BY <2>1, <2>2, <2>3
  <1>2. CASE Number(n, f)
    <2>1. Raise(vv[n], n, seqno[n] + 1) \in [Nodes -> Nat]
      <3>1. vv[n] \in [Nodes -> Nat] /\ seqno[n] + 1 \in Nat
        BY DEF MemoryOK
      <3> QED BY <3>1, RaiseType
    <2>2. MemoryOK'
      BY <1>2, <2>1 DEF Number, MemoryOK
    <2>3. FlushOK'
      BY <1>2 DEF Number, FlushOK, Flushes, FlushOf, NoFlush, MemoryOK
    <2>4. JobOK' /\ DiskOK' /\ WireOK' /\ HistoryOK'
      BY <1>2 DEF Number, JobOK, DiskOK, WireOK, HistoryOK
    <2> QED BY <2>2, <2>3, <2>4
  <1>3. CASE PersistOwn(n, f)
    <2>1. FlushOK'
      BY <1>3, FlushGotoType DEF PersistOwn
    <2>2. DiskOK'
      BY <1>3 DEF PersistOwn, FlushGoto, DiskOK, FlushOK, Flushes
    <2>3. MemoryOK' /\ JobOK' /\ WireOK' /\ HistoryOK'
      BY <1>3 DEF PersistOwn, FlushGoto, MemoryOK, JobOK, WireOK, HistoryOK
    <2> QED BY <2>1, <2>2, <2>3
  <1>4. CASE PersistOwnFails(n, f)
    <2>1. FlushOK'
      BY <1>4, FlushGotoType DEF PersistOwnFails
    <2>2. MemoryOK' /\ JobOK' /\ DiskOK' /\ WireOK'
      BY <1>4 DEF PersistOwnFails, MemoryOK, JobOK, DiskOK, WireOK
    <2>3. HistoryOK'
      BY <1>4, BoundsType DEF PersistOwnFails, SqlError, HistoryOK
    <2> QED BY <2>1, <2>2, <2>3
  <1>5. CASE SendReady(n, f)
    <2>1. MemoryOK'
      BY <1>5, BoundsType DEF SendReady, FlushGoto, MemoryOK
    <2>2. FlushOK'
      BY <1>5, FlushGotoType DEF SendReady
    <2>3. JobOK' /\ DiskOK' /\ WireOK' /\ HistoryOK'
      BY <1>5 DEF SendReady, FlushGoto, JobOK, DiskOK, WireOK, HistoryOK
    <2> QED BY <2>1, <2>2, <2>3
  <1>6. CASE Broadcast(n, f)
    <2> DEFINE cs == [source |-> n, seq |-> flush[n][f].seq, changes |-> flush[n][f].changes]
    <2>1. cs \in ChangeSets
      BY <1>6 DEF Broadcast, FlushOK, Flushes, ChangeSets, Batches
    <2>2. PICK reached \in SUBSET (Nodes \ {n}) :
             inflight' = inflight \cup [to : reached, cs : {cs}] /\ sent' = sent \cup {cs}
      BY <1>6 DEF Broadcast
    <2>3. WireOK'
      <3> HIDE DEF cs
      <3> QED BY <2>1, <2>2 DEF WireOK
    <2>4. FlushOK'
      BY <1>6 DEF Broadcast, FlushOK, Flushes, NoFlush
    <2>5. MemoryOK' /\ JobOK' /\ DiskOK' /\ HistoryOK'
      BY <1>6 DEF Broadcast, MemoryOK, JobOK, DiskOK, HistoryOK
    <2> QED BY <2>3, <2>4, <2>5
  <1> QED BY <1>1, <1>2, <1>3, <1>4, <1>5, <1>6 DEF FlushStep

LEMMA ApplyType ==
    ASSUME TypeOK, NEW n \in Nodes, ApplyStep(n)
    PROVE  TypeOK'
  <1> USE DEF TypeOK
  <1>1. ASSUME NEW msg \in inflight, Receive(n, msg) PROVE TypeOK'
    <2>1. msg.cs \in ChangeSets
      BY DEF WireOK
    <2>2. Len(msg.cs.changes) \in Nat \ {0} /\ msg.cs.changes \in Seq(Changes)
      BY <2>1 DEF ChangeSets, Batches
    <2>3. JobOK'
      BY <1>1, <2>1, <2>2 DEF Receive, JobOK, Jobs, NoJob, ChangeSets
    <2>4. WireOK'
      BY <1>1 DEF Receive, WireOK
    <2>5. MemoryOK' /\ FlushOK' /\ DiskOK' /\ HistoryOK'
      BY <1>1 DEF Receive, MemoryOK, FlushOK, DiskOK, HistoryOK
    <2> QED BY <2>3, <2>4, <2>5
  <1>2. CASE Accept(n)
    <2>1. JobOK'
      BY <1>2 DEF Accept, JobGoto, JobOK, Jobs, NoJob
    <2>2. MemoryOK' /\ FlushOK' /\ DiskOK' /\ WireOK' /\ HistoryOK'
      BY <1>2 DEF Accept, JobGoto, MemoryOK, FlushOK, DiskOK, WireOK, HistoryOK
    <2> QED BY <2>1, <2>2
  <1>3. CASE Reject(n)
    <2>1. /\ Current(n) \in Changes
          /\ Current(n).pk \in Keys /\ Current(n).ts \in Timestamps
          /\ job[n].i \in 1..Len(job[n].changes)
      BY <1>3, CurrentType DEF Reject
    <2>2. JobOK'
      BY <1>3, <2>1 DEF Reject, NextChange, JobOK, Jobs, NoJob
    <2>3. HistoryOK'
      BY <1>3, <2>1 DEF Reject, NextChange, HistoryOK
    <2>4. MemoryOK' /\ FlushOK' /\ DiskOK' /\ WireOK'
      BY <1>3 DEF Reject, NextChange, MemoryOK, FlushOK, DiskOK, WireOK
    <2> QED BY <2>2, <2>3, <2>4
  <1>4. CASE AcceptUnread(n)
    <2>1. JobOK'
      BY <1>4 DEF AcceptUnread, JobGoto, JobOK, Jobs, NoJob
    <2>2. MemoryOK' /\ FlushOK' /\ DiskOK' /\ WireOK'
      BY <1>4 DEF AcceptUnread, MemoryOK, FlushOK, DiskOK, WireOK
    <2>3. HistoryOK'
      BY <1>4, BoundsType DEF AcceptUnread, SqlError, HistoryOK
    <2> QED BY <2>1, <2>2, <2>3
  <1>5. CASE WriteLww(n)
    <2>1. /\ Current(n) \in Changes
          /\ Current(n).pk \in Keys /\ Current(n).ts \in Timestamps
          /\ job[n].i \in 1..Len(job[n].changes)
      BY <1>5, CurrentType DEF WriteLww, JobGoto
    <2>2. JobOK'
      BY <1>5 DEF WriteLww, JobGoto, JobOK, Jobs, NoJob
    <2>3. DiskOK'
      BY <1>5, <2>1 DEF WriteLww, JobGoto, DiskOK
    <2>4. HistoryOK'
      BY <1>5, <2>1 DEF WriteLww, JobGoto, HistoryOK
    <2>5. MemoryOK' /\ FlushOK' /\ WireOK'
      BY <1>5 DEF WriteLww, JobGoto, MemoryOK, FlushOK, WireOK
    <2> QED BY <2>2, <2>3, <2>4, <2>5
  <1>6. CASE WriteRow(n)
    <2>1. /\ Current(n) \in Changes
          /\ Current(n).pk \in Keys /\ Current(n).ts \in Timestamps
          /\ job[n].i \in 1..Len(job[n].changes)
      BY <1>6, CurrentType DEF WriteRow, JobGoto
    <2>2. JobOK'
      BY <1>6 DEF WriteRow, JobGoto, JobOK, Jobs, NoJob
    <2>3. DiskOK'
      BY <1>6, <2>1 DEF WriteRow, JobGoto, DiskOK, Put
    <2>4. MemoryOK' /\ FlushOK' /\ WireOK' /\ HistoryOK'
      BY <1>6, <2>1 DEF WriteRow, JobGoto, MemoryOK, FlushOK, WireOK, HistoryOK
    <2> QED BY <2>2, <2>3, <2>4
  <1>7. CASE GarbledRow(n)
    <2>1. JobOK'
      BY <1>7 DEF GarbledRow, JobOK, Jobs, NoJob
    <2>2. MemoryOK' /\ FlushOK' /\ DiskOK' /\ WireOK'
      BY <1>7 DEF GarbledRow, MemoryOK, FlushOK, DiskOK, WireOK
    <2>3. HistoryOK'
      BY <1>7, TearType DEF GarbledRow, HistoryOK
    <2> QED BY <2>1, <2>2, <2>3
  <1>8. CASE ApplyFails(n)
    <2>1. JobOK'
      BY <1>8 DEF ApplyFails, JobOK, Jobs, NoJob
    <2>2. MemoryOK' /\ FlushOK' /\ DiskOK' /\ WireOK'
      BY <1>8 DEF ApplyFails, MemoryOK, FlushOK, DiskOK, WireOK
    <2>3. HistoryOK'
      BY <1>8, BoundsType, TearType DEF ApplyFails, SqlError, HistoryOK
    <2> QED BY <2>1, <2>2, <2>3
  <1>9. CASE UpdateCache(n)
    <2>1. /\ Current(n) \in Changes
          /\ Current(n).pk \in Keys /\ Current(n).ts \in Timestamps
          /\ job[n].i \in 1..Len(job[n].changes)
      BY <1>9, CurrentType DEF UpdateCache, JobGoto
    <2>2. JobOK'
      BY <1>9 DEF UpdateCache, JobGoto, JobOK, Jobs, NoJob
    <2>3. MemoryOK'
      BY <1>9, <2>1 DEF UpdateCache, JobGoto, MemoryOK
    <2>4. FlushOK' /\ DiskOK' /\ WireOK' /\ HistoryOK'
      BY <1>9 DEF UpdateCache, JobGoto, FlushOK, DiskOK, WireOK, HistoryOK
    <2> QED BY <2>2, <2>3, <2>4
  <1>10. CASE SendApplied(n)
    <2>1. /\ Current(n) \in Changes
          /\ Current(n).pk \in Keys /\ Current(n).ts \in Timestamps
          /\ job[n].i \in 1..Len(job[n].changes)
      BY <1>10, CurrentType DEF SendApplied
    <2>2. JobOK'
      BY <1>10, <2>1 DEF SendApplied, NextChange, JobOK, Jobs, NoJob
    <2>3. MemoryOK'
      BY <1>10, BoundsType DEF SendApplied, NextChange, MemoryOK
    <2>4. FlushOK' /\ DiskOK' /\ WireOK' /\ HistoryOK'
      BY <1>10 DEF SendApplied, NextChange, FlushOK, DiskOK, WireOK, HistoryOK
    <2> QED BY <2>2, <2>3, <2>4
  <1>11. CASE UpdateVector(n)
    <2>1. Raise(vv[n], job[n].source, job[n].seq) \in [Nodes -> Nat]
      BY <1>11, RaiseType DEF UpdateVector, JobGoto, JobOK, Jobs, MemoryOK
    <2>2. JobOK'
      BY <1>11 DEF UpdateVector, JobGoto, JobOK, Jobs, NoJob
    <2>3. MemoryOK'
      BY <1>11, <2>1 DEF UpdateVector, JobGoto, MemoryOK
    <2>4. FlushOK' /\ DiskOK' /\ WireOK' /\ HistoryOK'
      BY <1>11 DEF UpdateVector, JobGoto, FlushOK, DiskOK, WireOK, HistoryOK
    <2> QED BY <2>2, <2>3, <2>4
  <1>12. CASE PersistPeer(n)
    <2>1. JobOK'
      BY <1>12 DEF PersistPeer, JobOK, Jobs, NoJob
    <2>2. DiskOK'
      BY <1>12 DEF PersistPeer, DiskOK, JobOK, Jobs
    <2>3. MemoryOK' /\ FlushOK' /\ WireOK' /\ HistoryOK'
      BY <1>12 DEF PersistPeer, MemoryOK, FlushOK, WireOK, HistoryOK
    <2> QED BY <2>1, <2>2, <2>3
  <1> QED BY <1>1, <1>2, <1>3, <1>4, <1>5, <1>6, <1>7, <1>8, <1>9, <1>10, <1>11, <1>12
          DEF ApplyStep

LEMMA CrashType ==
    ASSUME TypeOK, NEW n \in Nodes, Crash(n)
    PROVE  TypeOK'
  <1> USE DEF TypeOK
  <1>1. MemoryOK'
    BY BoundsType DEF Crash, MemoryOK, DiskOK, NoTs, Timestamps
  <1>2. FlushOK'
    BY DEF Crash, FlushOK, NoFlush, Flushes
  <1>3. JobOK'
    BY DEF Crash, JobOK, NoJob, Jobs
  <1>4. WireOK'
    BY DEF Crash, WireOK
  <1>5. DiskOK' /\ HistoryOK'
    BY BoundsType, TearType DEF Crash, DiskOK, HistoryOK
  <1> QED BY <1>1, <1>2, <1>3, <1>4, <1>5

LEMMA NextType == TypeOK /\ [Next]_vars => TypeOK'
  <1> SUFFICES ASSUME TypeOK, [Next]_vars PROVE TypeOK'
    OBVIOUS
  <1>1. CASE UNCHANGED vars
    BY <1>1 DEF vars, TypeOK, MemoryOK, FlushOK, JobOK, DiskOK, WireOK, HistoryOK
  <1>2. CASE Next
    BY <1>2, RecordType, FlushType, ApplyType, CrashType DEF Next
  <1> QED BY <1>1, <1>2

\* Failures are only ever added up.
LEMMA FailsGrow == TypeOK /\ [Next]_vars => (fails' = 0 => fails = 0)
  <1> SUFFICES ASSUME TypeOK, [Next]_vars, fails' = 0 PROVE fails = 0
    OBVIOUS
  <1>1. ASSUME NEW n \in Nodes, NEW f \in Flushers, FlushStep(n, f)
        PROVE  fails' = fails \/ SqlError
    BY <1>1 DEF FlushStep, Drain, Number, PersistOwn, PersistOwnFails, SendReady, Broadcast
  <1>2. ASSUME NEW n \in Nodes, ApplyStep(n)
        PROVE  fails' = fails \/ SqlError
    <2>1. CASE AcceptUnread(n) \/ ApplyFails(n)
      BY <2>1 DEF AcceptUnread, ApplyFails
    <2>2. CASE \E msg \in inflight : Receive(n, msg)
      BY <2>2 DEF Receive
    <2>3. CASE Accept(n) \/ Reject(n) \/ WriteLww(n) \/ WriteRow(n) \/ GarbledRow(n)
      BY <2>3 DEF Accept, Reject, WriteLww, WriteRow, GarbledRow
    <2>4. CASE UpdateCache(n) \/ SendApplied(n) \/ UpdateVector(n) \/ PersistPeer(n)
      BY <2>4 DEF UpdateCache, SendApplied, UpdateVector, PersistPeer
    <2> QED BY <1>2, <2>1, <2>2, <2>3, <2>4 DEF ApplyStep
  <1>3. fails' = fails \/ SqlError
    BY <1>1, <1>2 DEF Next, RecordChange, Crash, vars
  <1> QED BY <1>3 DEF SqlError, TypeOK, HistoryOK

\* Every reachable state has the types of TypeOK: numbers on the wire start at
\* 1, a changeset is never empty and the change in work is one of its batch.
THEOREM TypeCorrect == Spec => []TypeOK
  BY InitType, NextType, PTL DEF Spec
-----------------------------------------------------------------------------
(* Sequence numbers.  With one flush call at a time, and until a write to    *)
(* the file fails, a number is on disk before it is on the wire, so that a   *)
(* restart goes on above every number ever sent.                             *)

FlushBelow ==
    \A n \in Nodes, f \in Flushers :
       /\ flush[n][f].pc = "persist" => flush[n][f].seq = seqno[n]
       /\ flush[n][f].pc \in {"event", "broadcast"} => flush[n][f].seq <= versions[n][n]

FlushIsNew ==
    \A n \in Nodes, f \in Flushers :
       flush[n][f].pc \in {"persist", "event", "broadcast"} =>
          \A cs \in sent : cs.source = n => cs.seq < flush[n][f].seq

SentBelow == \A cs \in sent : cs.seq <= versions[cs.source][cs.source]

DiskBelow == \A n \in Nodes : versions[n][n] <= seqno[n]

NotToSelf ==
    /\ \A msg \in inflight : msg.to # msg.cs.source
    /\ \A n \in Nodes : job[n].pc # "idle" => job[n].source # n

Fresh == \A a, b \in sent : a.source = b.source /\ a.seq = b.seq => a = b

SeqInv == FlushBelow /\ FlushIsNew /\ SentBelow /\ DiskBelow /\ NotToSelf /\ Fresh

LEMMA InitSeq == Init => SeqInv
  BY DEF Init, SeqInv, FlushBelow, FlushIsNew, SentBelow, DiskBelow, NotToSelf, Fresh,
         NoFlush, NoJob

\* Steps that leave the numbers alone.
LEMMA SeqFrame ==
    ASSUME TypeOK, SeqInv, UNCHANGED <<seqno, flush, versions, sent>>, NotToSelf'
    PROVE  SeqInv'
  BY DEF SeqInv, FlushBelow, FlushIsNew, SentBelow, DiskBelow, Fresh

LEMMA FlushSeq ==
    ASSUME TypeOK, SeqInv, NEW n \in Nodes, NEW f \in Flushers, Flushers = {f},
           FlushStep(n, f), ~PersistOwnFails(n, f)
    PROVE  SeqInv'
  <1> USE DEF TypeOK, SeqInv
  <1>a. /\ flush[n][f] \in Flushes /\ seqno[n] \in Nat /\ versions[n][n] \in Nat
        /\ \A cs \in sent : cs.seq \in Nat /\ cs.source \in Nodes
    BY DEF FlushOK, MemoryOK, DiskOK, WireOK, ChangeSets
  <1>1. CASE Drain(n, f)
    <2>1. FlushBelow' /\ FlushIsNew'
      BY <1>1 DEF Drain, FlushOK, FlushBelow, FlushIsNew, FlushOf
    <2>2. SentBelow' /\ DiskBelow' /\ NotToSelf' /\ Fresh'
      BY <1>1 DEF Drain, SentBelow, DiskBelow, NotToSelf, Fresh
    <2> QED BY <2>1, <2>2
  <1>2. CASE Number(n, f)
    <2>1. flush' = [flush EXCEPT ![n][f] = FlushOf("persist", seqno[n] + 1, flush[n][f].changes)]
          /\ seqno' = [seqno EXCEPT ![n] = seqno[n] + 1]
          /\ UNCHANGED <<versions, sent, inflight, job>>
      BY <1>2 DEF Number
    <2>2. FlushBelow'
      BY <2>1 DEF FlushBelow, FlushOK, MemoryOK, FlushOf
    <2>3. FlushIsNew'
      <3>1. \A cs \in sent : cs.source = n => cs.seq < seqno[n] + 1
        BY <1>a DEF SentBelow, DiskBelow
      <3> QED BY <2>1, <3>1 DEF FlushIsNew, FlushOK, FlushOf
    <2>4. DiskBelow'
      BY <1>a, <2>1 DEF DiskBelow, MemoryOK
    <2>5. SentBelow' /\ NotToSelf' /\ Fresh'
      BY <2>1 DEF SentBelow, NotToSelf, Fresh
    <2> QED BY <2>2, <2>3, <2>4, <2>5
  <1>3. CASE PersistOwn(n, f)
    <2>1. flush[n][f].pc = "persist" /\ flush[n][f].seq = seqno[n]
      BY <1>3 DEF PersistOwn, FlushGoto, FlushBelow
    <2>2. /\ flush' = [flush EXCEPT ![n][f].pc = "event"]
          /\ versions' = [versions EXCEPT ![n][n] = seqno[n]]
          /\ UNCHANGED <<seqno, sent, inflight, job>>
      BY <1>3, <2>1 DEF PersistOwn, FlushGoto
    <2>3. FlushBelow'
      BY <1>a, <2>1, <2>2 DEF FlushBelow, FlushOK, DiskOK
    <2>4. FlushIsNew'
      BY <2>1, <2>2 DEF FlushIsNew, FlushOK
    <2>5. SentBelow'
      <3>1. \A cs \in sent : cs.source = n => cs.seq <= seqno[n]
        BY <1>a DEF SentBelow, DiskBelow
      <3> QED BY <1>a, <2>2, <3>1 DEF SentBelow, DiskOK
    <2>6. DiskBelow'
      BY <1>a, <2>2 DEF DiskBelow, DiskOK
    <2>7. NotToSelf' /\ Fresh'
      BY <2>2 DEF NotToSelf, Fresh
    <2> QED BY <2>3, <2>4, <2>5, <2>6, <2>7
  <1>5. CASE SendReady(n, f)
    <2>1. FlushBelow' /\ FlushIsNew'
      BY <1>5 DEF SendReady, FlushGoto, FlushOK, FlushBelow, FlushIsNew
    <2>2. SentBelow' /\ DiskBelow' /\ NotToSelf' /\ Fresh'
      BY <1>5 DEF SendReady, SentBelow, DiskBelow, NotToSelf, Fresh
    <2> QED BY <2>1, <2>2
  <1>6. CASE Broadcast(n, f)
    <2> DEFINE cs == [source |-> n, seq |-> flush[n][f].seq, changes |-> flush[n][f].changes]
    <2>1. PICK reached \in SUBSET (Nodes \ {n}) :
             inflight' = inflight \cup [to : reached, cs : {cs}] /\ sent' = sent \cup {cs}
      BY <1>6 DEF Broadcast
    <2>2. /\ flush[n][f].pc = "broadcast" /\ flush' = [flush EXCEPT ![n][f] = NoFlush]
          /\ UNCHANGED <<seqno, versions, job>>
      BY <1>6 DEF Broadcast
    <2>3. FlushBelow'
      BY <2>2 DEF FlushBelow, FlushOK, NoFlush
    <2>4. FlushIsNew'
      BY <2>1, <2>2 DEF FlushIsNew, FlushOK, NoFlush
    <2>5. SentBelow'
      BY <2>1, <2>2 DEF SentBelow, FlushBelow
    <2>6. Fresh'
      <3>1. \A a \in sent : a.source = n => a.seq < cs.seq
        BY <2>2 DEF FlushIsNew
      <3>2. cs.source = n /\ cs.seq \in Nat
        BY <1>a DEF Flushes
      <3> HIDE DEF cs
      <3> QED BY <1>a, <2>1, <3>1, <3>2 DEF Fresh
    <2>7. NotToSelf'
      BY <2>1, <2>2 DEF NotToSelf
    <2>8. DiskBelow'
      BY <2>2 DEF DiskBelow
    <2> QED BY <2>3, <2>4, <2>5, <2>6, <2>7, <2>8
  <1> QED BY <1>1, <1>2, <1>3, <1>5, <1>6 DEF FlushStep

LEMMA ApplySeq ==
    ASSUME TypeOK, SeqInv, NEW n \in Nodes, ApplyStep(n)
    PROVE  SeqInv'
  <1> USE DEF TypeOK
  <1>1. ASSUME NEW msg \in inflight, Receive(n, msg) PROVE SeqInv'
    <2>1. NotToSelf'
      BY <1>1 DEF Receive, SeqInv, NotToSelf, JobOK, NoJob
    <2> QED BY <1>1, <2>1, SeqFrame DEF Receive
  <1>2. CASE Accept(n) \/ AcceptUnread(n) \/ WriteLww(n) \/ WriteRow(n) \/ UpdateCache(n)
             \/ UpdateVector(n)
    <2>1. PICK from, to : from # "idle" /\ JobGoto(n, from, to)
      BY <1>2 DEF Accept, AcceptUnread, WriteLww, WriteRow, UpdateCache, UpdateVector
    <2>2. \A m \in Nodes : /\ job'[m].source = job[m].source
                           /\ job'[m].pc # "idle" => job[m].pc # "idle"
      BY <2>1 DEF JobGoto, JobOK, Jobs
    <2>3. inflight' = inflight
      BY <1>2 DEF Accept, AcceptUnread, WriteLww, WriteRow, UpdateCache, UpdateVector
    <2>4. NotToSelf'
      BY <2>2, <2>3 DEF SeqInv, NotToSelf
    <2> QED BY <1>2, <2>4, SeqFrame
            DEF Accept, AcceptUnread, WriteLww, WriteRow, UpdateCache, UpdateVector
  <1>3. CASE Reject(n) \/ SendApplied(n)
    <2>1. job[n].pc # "idle" /\ NextChange(n)
      BY <1>3 DEF Reject, SendApplied
    <2>2. /\ \A m \in Nodes \ {n} : job'[m] = job[m]
          /\ job'[n].source = job[n].source
      BY <2>1 DEF NextChange, JobOK, Jobs
    <2>3. NotToSelf'
      BY <1>3, <2>1, <2>2 DEF Reject, SendApplied, SeqInv, NotToSelf
    <2> QED BY <1>3, <2>3, SeqFrame DEF Reject, SendApplied
  <1>4. CASE GarbledRow(n) \/ ApplyFails(n)
    <2>1. NotToSelf'
      BY <1>4 DEF GarbledRow, ApplyFails, SeqInv, NotToSelf, JobOK, NoJob
    <2> QED BY <1>4, <2>1, SeqFrame DEF GarbledRow, ApplyFails
  <1>5. CASE PersistPeer(n)
    <2>1. job[n].source # n
      BY <1>5 DEF PersistPeer, SeqInv, NotToSelf
    <2>2. \A m \in Nodes : versions'[m][m] = versions[m][m]
      BY <1>5, <2>1 DEF PersistPeer, DiskOK
    <2>3. \A cs \in sent : cs.source \in Nodes
      BY DEF WireOK, ChangeSets
    <2>4. NotToSelf'
      BY <1>5 DEF PersistPeer, SeqInv, NotToSelf, JobOK, NoJob
    <2>5. FlushBelow' /\ FlushIsNew'
      BY <1>5, <2>2 DEF PersistPeer, SeqInv, FlushBelow, FlushIsNew
    <2>6. SentBelow' /\ DiskBelow' /\ Fresh'
      BY <1>5, <2>2, <2>3 DEF PersistPeer, SeqInv, SentBelow, DiskBelow, Fresh
    <2> QED BY <2>4, <2>5, <2>6 DEF SeqInv
  <1> QED BY <1>1, <1>2, <1>3, <1>4, <1>5 DEF ApplyStep

LEMMA CrashSeq ==
    ASSUME TypeOK, SeqInv, NEW n \in Nodes, Crash(n)
    PROVE  SeqInv'
  <1> USE DEF TypeOK, SeqInv
  <1>1. FlushBelow' /\ FlushIsNew'
    BY DEF Crash, FlushBelow, FlushIsNew, FlushOK, MemoryOK, NoFlush
  <1>2. DiskBelow'
    BY DEF Crash, DiskBelow, MemoryOK, DiskOK
  <1>3. SentBelow' /\ Fresh'
    BY DEF Crash, SentBelow, Fresh
  <1>4. NotToSelf'
    BY DEF Crash, NotToSelf, JobOK, NoJob
  <1> QED BY <1>1, <1>2, <1>3, <1>4

\* A step in which no statement has failed, with one flush call at a time.
LEMMA SeqStep ==
    ASSUME NEW g, Flushers = {g}, TypeOK, fails = 0 => SeqInv, [Next]_vars, fails' = 0
    PROVE  fails = 0 /\ SeqInv'
  <1>0. fails = 0
    BY FailsGrow
  <1>1. SeqInv /\ \A n \in Nodes : \A f \in Flushers : ~PersistOwnFails(n, f)
    BY <1>0 DEF PersistOwnFails, SqlError
  <1>2. CASE UNCHANGED vars
    BY <1>0, <1>1, <1>2 DEF vars, SeqInv, FlushBelow, FlushIsNew, SentBelow, DiskBelow, NotToSelf,
                            Fresh
  <1>3. ASSUME NEW n \in Nodes, NEW k \in Keys, NEW kind \in Kinds,
               NEW wall \in 1..MaxWall, RecordChange(n, k, kind, wall)
        PROVE  SeqInv'
    <2>1. NotToSelf'
      BY <1>1, <1>3 DEF RecordChange, SeqInv, NotToSelf
    <2> QED BY <1>1, <1>3, <2>1, SeqFrame DEF RecordChange
  <1> QED BY <1>0, <1>1, <1>2, <1>3, FlushSeq, ApplySeq, CrashSeq DEF Next

\* No number is used twice by a node, whatever crashes, losses and orders there
\* are, if flushes come one at a time and no statement has failed: the persist
\* comes before the broadcast (sync.rs:215).
THEOREM NumbersAreFresh ==
    ASSUME NEW g, Flushers = {g}
    PROVE  Spec => []NoSeqReuse
  <1> DEFINE SeqSafe == fails = 0 => SeqInv
  <1>1. Init => TypeOK /\ SeqSafe
    BY InitType, InitSeq
  <1>2. TypeOK /\ SeqSafe /\ [Next]_vars => TypeOK' /\ SeqSafe'
    BY NextType, SeqStep
  <1>3. SeqSafe => NoSeqReuse
    BY DEF SeqInv, Fresh, NoSeqReuse
  <1> HIDE DEF SeqSafe
  <1> QED BY <1>1, <1>2, <1>3, PTL DEF Spec

-----------------------------------------------------------------------------
(* Timestamps.  A change let through by should_apply_change is still newer   *)
(* when its timestamp is written, and the cache is filled from what the file *)
(* holds already.                                                            *)

\* The change in work is newer than what it is about to replace,
LwwAt(n) == job[n].pc = "lww" => NewerThanLww(n)

\* and while its row is written the file has its timestamp, the cache not yet.
CacheAt(n) ==
    /\ \A k \in Keys : cache[n][k] = lww[n][k] \/ Later(lww[n][k], cache[n][k])
    /\ job[n].pc = "lww" => NewerThanCache(n)
    /\ job[n].pc \in {"row", "cache"} => lww[n][Current(n).pk] = Current(n).ts

\* One node's step: a step of Next without its choice of node.
NodeStep(n) ==
    \/ \E k \in Keys, kind \in Kinds, wall \in 1..MaxWall : RecordChange(n, k, kind, wall)
    \/ \E f \in Flushers : FlushStep(n, f)
    \/ ApplyStep(n)
    \/ Crash(n)

\* A node's steps leave the other nodes' timestamps and calls alone.
LEMMA Elsewhere ==
    ASSUME TypeOK, NEW n \in Nodes, NEW m \in Nodes, m # n, NodeStep(n)
    PROVE  job'[m] = job[m] /\ lww'[m] = lww[m] /\ cache'[m] = cache[m]
  <1> USE DEF TypeOK, JobOK, DiskOK, MemoryOK
  <1>1. CASE \E k \in Keys, kind \in Kinds, wall \in 1..MaxWall : RecordChange(n, k, kind, wall)
    BY <1>1 DEF RecordChange
  <1>2. CASE \E f \in Flushers : FlushStep(n, f)
    BY <1>2 DEF FlushStep, Drain, Number, PersistOwn, PersistOwnFails, SendReady, Broadcast
  <1>3. CASE ApplyStep(n)
    BY <1>3 DEF ApplyStep, Receive, Accept, Reject, AcceptUnread, WriteLww, WriteRow,
                GarbledRow, ApplyFails, UpdateCache, SendApplied, UpdateVector, PersistPeer,
                JobGoto, NextChange
  <1>4. CASE Crash(n)
    BY <1>4 DEF Crash
  <1> QED BY <1>1, <1>2, <1>3, <1>4 DEF NodeStep

\* Recording and flushing leave the node's own timestamps and call alone too.
LEMMA FlushElsewhere ==
    ASSUME NEW n \in Nodes,
           \/ \E k \in Keys, kind \in Kinds, wall \in 1..MaxWall : RecordChange(n, k, kind, wall)
           \/ \E f \in Flushers : FlushStep(n, f)
    PROVE  UNCHANGED <<job, lww, cache>>
  BY DEF RecordChange, FlushStep, Drain, Number, PersistOwn, PersistOwnFails, SendReady,
         Broadcast

LEMMA LwwStep ==
    ASSUME TypeOK, NEW n \in Nodes, LwwAt(n), NodeStep(n), ~SqlError
    PROVE  /\ LwwAt(n)'
           /\ \A k \in Keys : lww'[n][k] = lww[n][k] \/ Later(lww'[n][k], lww[n][k])
  <1> USE DEF TypeOK, JobOK, DiskOK
  <1>1. CASE \/ \E k \in Keys, kind \in Kinds, wall \in 1..MaxWall : RecordChange(n, k, kind, wall)
             \/ \E f \in Flushers : FlushStep(n, f)
    BY <1>1, FlushElsewhere DEF LwwAt, NewerThanLww, Current
  <1>2. CASE Accept(n)
    BY <1>2 DEF Accept, JobGoto, LwwAt, NewerThanLww, Current, Jobs
  <1>3. CASE WriteLww(n)
    <2>1. Current(n).pk \in Keys
      BY <1>3, CurrentType DEF WriteLww, JobGoto
    <2>2. Later(Current(n).ts, lww[n][Current(n).pk])
      BY <1>3 DEF WriteLww, JobGoto, LwwAt, NewerThanLww
    <2>3. \A k \in Keys : lww'[n][k] = IF k = Current(n).pk THEN Current(n).ts ELSE lww[n][k]
      BY <1>3, <2>1 DEF WriteLww
    <2>4. job'[n].pc = "row"
      BY <1>3 DEF WriteLww, JobGoto
    <2> QED BY <2>2, <2>3, <2>4 DEF LwwAt
  <1>4. CASE \E msg \in inflight : Receive(n, msg)
    BY <1>4 DEF Receive, LwwAt, NoJob
  <1>5. CASE Reject(n) \/ SendApplied(n)
    <2>1. lww' = lww /\ job'[n].pc # "lww"
      BY <1>5 DEF Reject, SendApplied, NextChange, Jobs
    <2> QED BY <2>1 DEF LwwAt
  <1>6. CASE WriteRow(n) \/ UpdateCache(n) \/ UpdateVector(n)
    BY <1>6 DEF WriteRow, UpdateCache, UpdateVector, JobGoto, LwwAt, Jobs
  <1>7. CASE GarbledRow(n) \/ PersistPeer(n) \/ Crash(n)
    BY <1>7 DEF GarbledRow, PersistPeer, Crash, LwwAt, NoJob
  <1> QED BY <1>1, <1>2, <1>3, <1>4, <1>5, <1>6, <1>7
          DEF NodeStep, ApplyStep, AcceptUnread, ApplyFails

\* The timestamps on disk only move forward, across crashes, in any order of
\* delivery and for any batches, as long as no statement has failed.
THEOREM LastWriteWins == Spec => LwwMonotone
  <1> DEFINE LwwInv == \A n \in Nodes : LwwAt(n)
             LwwSafe == fails = 0 => LwwInv
             Forward == fails' = 0 => \A n \in Nodes, k \in Keys :
                           lww'[n][k] = lww[n][k] \/ Later(lww'[n][k], lww[n][k])
  <1>1. Init => TypeOK /\ LwwSafe
    BY InitType DEF Init, LwwAt, NoJob
  <1>2. TypeOK /\ LwwSafe /\ [Next]_vars => TypeOK' /\ LwwSafe' /\ Forward
    <2> SUFFICES ASSUME TypeOK, LwwSafe, [Next]_vars, fails' = 0 PROVE LwwInv' /\ Forward
      BY NextType
    <2>0. LwwInv /\ ~SqlError
      <3>1. fails = 0
        BY FailsGrow
      <3> QED BY <3>1 DEF SqlError
    <2>1. CASE UNCHANGED vars
      BY <2>0, <2>1 DEF vars, LwwAt, NewerThanLww, Current
    <2>2. ASSUME NEW n \in Nodes, NodeStep(n) PROVE LwwInv' /\ Forward
      <3>1. ASSUME NEW m \in Nodes, m # n
            PROVE  LwwAt(m)' /\ \A k \in Keys : lww'[m][k] = lww[m][k]
        BY <2>0, <2>2, <3>1, Elsewhere DEF LwwAt, NewerThanLww, Current
      <3>2. LwwAt(n)' /\ \A k \in Keys : lww'[n][k] = lww[n][k] \/ Later(lww'[n][k], lww[n][k])
        BY <2>0, <2>2, LwwStep
      <3> QED BY <3>1, <3>2
    <2> QED BY <2>1, <2>2 DEF Next, NodeStep
  <1>3. Forward => (fails' = 0 => \A n \in Nodes, k \in Keys :
          \/ lww'[n][k] = lww[n][k]
          \/ lww'[n][k].wall > lww[n][k].wall
          \/ lww'[n][k].wall = lww[n][k].wall /\ lww'[n][k].hash > lww[n][k].hash)
    BY DEF Later
  <1> HIDE DEF LwwSafe, Forward
  <1> QED BY <1>1, <1>2, <1>3, PTL DEF Spec, LwwMonotone

LEMMA CacheStep ==
    ASSUME TypeOK, NEW n \in Nodes, CacheAt(n), NodeStep(n)
    PROVE  CacheAt(n)'
  <1> USE DEF TypeOK, JobOK, DiskOK, MemoryOK
  <1>1. CASE \/ \E k \in Keys, kind \in Kinds, wall \in 1..MaxWall : RecordChange(n, k, kind, wall)
             \/ \E f \in Flushers : FlushStep(n, f)
    BY <1>1, FlushElsewhere DEF CacheAt, NewerThanCache, Current
  <1>2. CASE Accept(n) \/ AcceptUnread(n)
    <2>1. NewerThanCache(n)
      BY <1>2 DEF Accept, AcceptUnread
    <2>2. /\ job'[n].pc = "lww" /\ job'[n].changes = job[n].changes /\ job'[n].i = job[n].i
          /\ UNCHANGED <<lww, cache>>
      BY <1>2 DEF Accept, AcceptUnread, JobGoto, Jobs
    <2> QED BY <2>1, <2>2 DEF CacheAt, NewerThanCache, Current
  <1>3. CASE WriteLww(n)
    <2>1. Current(n).pk \in Keys
      BY <1>3, CurrentType DEF WriteLww, JobGoto
    <2>2. Later(Current(n).ts, cache[n][Current(n).pk])
      BY <1>3 DEF WriteLww, JobGoto, CacheAt, NewerThanCache
    <2>3. \A k \in Keys : lww'[n][k] = IF k = Current(n).pk THEN Current(n).ts ELSE lww[n][k]
      BY <1>3, <2>1 DEF WriteLww
    <2>4. job'[n].pc = "row" /\ Current(n)' = Current(n) /\ cache' = cache
      BY <1>3 DEF WriteLww, JobGoto, Current, Jobs
    <2> QED BY <2>1, <2>2, <2>3, <2>4 DEF CacheAt
  <1>4. CASE WriteRow(n)
    <2>1. /\ job[n].pc = "row" /\ job'[n].pc = "cache"
          /\ job'[n].changes = job[n].changes /\ job'[n].i = job[n].i
          /\ UNCHANGED <<lww, cache>>
      BY <1>4 DEF WriteRow, JobGoto, Jobs
    <2> QED BY <2>1 DEF CacheAt, Current
  <1>5. CASE UpdateCache(n)
    <2>1. Current(n).pk \in Keys
      BY <1>5, CurrentType DEF UpdateCache, JobGoto
    <2>2. Current(n).ts = lww[n][Current(n).pk]
      BY <1>5 DEF UpdateCache, JobGoto, CacheAt
    <2>3. \A k \in Keys : cache'[n][k] = IF k = Current(n).pk THEN Current(n).ts ELSE cache[n][k]
      BY <1>5, <2>1 DEF UpdateCache
    <2>4. job'[n].pc = "event" /\ lww' = lww
      BY <1>5 DEF UpdateCache, JobGoto
    <2> QED BY <2>2, <2>3, <2>4 DEF CacheAt
  <1>6. CASE \E msg \in inflight : Receive(n, msg)
    <2>1. job'[n].pc \in {"idle", "check"} /\ UNCHANGED <<lww, cache>>
      BY <1>6 DEF Receive, NoJob
    <2> QED BY <2>1 DEF CacheAt
  <1>7. CASE Reject(n) \/ SendApplied(n) \/ UpdateVector(n)
    <2>1. lww' = lww /\ cache' = cache /\ job'[n].pc \in {"check", "vector", "persist"}
      BY <1>7 DEF Reject, SendApplied, UpdateVector, JobGoto, NextChange, Jobs
    <2> QED BY <2>1 DEF CacheAt
  <1>8. CASE GarbledRow(n) \/ ApplyFails(n) \/ PersistPeer(n)
    <2>1. job'[n].pc = "idle" /\ UNCHANGED <<lww, cache>>
      BY <1>8 DEF GarbledRow, ApplyFails, PersistPeer, NoJob
    <2> QED BY <2>1 DEF CacheAt
  <1>9. CASE Crash(n)
    <2>1. \A k \in Keys : cache'[n][k] = NoTs /\ lww'[n][k] = lww[n][k]
      BY <1>9 DEF Crash
    <2>2. job'[n].pc = "idle"
      BY <1>9 DEF Crash, NoJob
    <2>3. \A k \in Keys : lww[n][k] = NoTs \/ Later(lww[n][k], NoTs)
      <3> SUFFICES ASSUME NEW k \in Keys PROVE lww[n][k] = NoTs \/ Later(lww[n][k], NoTs)
        OBVIOUS
      <3>1. /\ lww[n][k] \in [wall : 0..MaxWall, hash : Nat]
            /\ lww[n][k] = [wall |-> lww[n][k].wall, hash |-> lww[n][k].hash]
        BY DEF Timestamps
      <3> QED BY <3>1, BoundsType DEF NoTs, Later
    <2> QED BY <2>1, <2>2, <2>3 DEF CacheAt
  <1> QED BY <1>1, <1>2, <1>3, <1>4, <1>5, <1>6, <1>7, <1>8, <1>9 DEF NodeStep, ApplyStep

\* The cache never runs ahead of the file, whatever statements fail, whenever
\* nodes crash and however many flushes run side by side.
THEOREM CacheCorrect == Spec => []CacheNeverAhead
  <1> DEFINE CacheInv == \A n \in Nodes : CacheAt(n)
  <1>1. Init => TypeOK /\ CacheInv
    BY InitType DEF Init, CacheAt, NoJob
  <1>2. TypeOK /\ CacheInv /\ [Next]_vars => TypeOK' /\ CacheInv'
    <2> SUFFICES ASSUME TypeOK, CacheInv, [Next]_vars PROVE CacheInv'
      BY NextType
    <2>1. CASE UNCHANGED vars
      BY <2>1 DEF vars, CacheAt, NewerThanCache, Current
    <2>2. ASSUME NEW n \in Nodes, NodeStep(n) PROVE CacheInv'
      <3>1. ASSUME NEW m \in Nodes, m # n PROVE CacheAt(m)'
        BY <2>2, <3>1, Elsewhere DEF CacheAt, NewerThanCache, Current
      <3> QED BY <2>2, <3>1, CacheStep
    <2> QED BY <2>1, <2>2 DEF Next, NodeStep
  <1>3. TypeOK /\ CacheInv => CacheNeverAhead
    BY DEF CacheAt, CacheNeverAhead, Later, TypeOK, MemoryOK, DiskOK, Timestamps
  <1> HIDE DEF CacheInv
  <1> QED BY <1>1, <1>2, <1>3, PTL DEF Spec
=============================================================================
