---------------------------- MODULE ProxyProofs -----------------------------
(***************************************************************************)
(* Proofs about Proxy and ProxyHistory, for every set of clients and       *)
(* backends, every finite set of task slots, every table of limits, and    *)
(* every interleaving of tasks with reloads, other connections and the     *)
(* collector.                                                              *)
(***************************************************************************)
EXTENDS ProxyHistory, FiniteSetTheorems, TLAPS

\* The parts of TypeOK, by owner of the state.
LEMMA ConsiderType ==
    ASSUME NEW b \in Backends, NEW n \in Nat, NEW g,
           NEW old \in [id : Backends, cur : Nat] \cup {NoBest}
    PROVE  Consider(Info, old, b, n, g) \in [id : Backends, cur : Nat] \cup {NoBest}
  BY DEF Consider

LEMMA InitType == Init => TypeOK
  BY BoundsAreNat DEF Init, TypeOK, NoBinding, Labels

\* A task step, whatever it is, keeps the types.
LEMMA TaskType ==
    ASSUME TypeOK, NEW s \in Slots, TaskStep(s)
    PROVE  TypeOK'
  <1> USE DEF Goto, tableVars, taskLocals, gcVars
  <1>1. CASE GetBinding(s)
    BY <1>1 DEF GetBinding, TypeOK, Labels
  <1>2. CASE Touch(s)
    BY <1>2 DEF Touch, TypeOK, Labels, Bound
  <1>3. CASE Verify(s)
    BY <1>3 DEF Verify, TypeOK, Labels
  <1>4. CASE RemoveStale(s)
    BY <1>4, BoundsAreNat DEF RemoveStale, TypeOK, Labels, NoBinding
  <1>5. CASE GetHealthy(s)
    BY <1>5 DEF GetHealthy, TypeOK, Labels
  <1>6. ASSUME NEW b \in Backends, PickStep(s, b) PROVE TypeOK'
    <2>1. Consider(Info, best[s], b, conns[b], geo[s])
             \in [id : Backends, cur : Nat] \cup {NoBest}
      BY <1>6, ConsiderType DEF TypeOK
    <2> QED BY <1>6, <2>1 DEF PickStep, TypeOK
  <1>7. CASE PickNone(s)
    BY <1>7 DEF PickNone, TypeOK, Labels
  <1>8. CASE SetBinding(s)
    BY <1>8 DEF SetBinding, TypeOK, Labels, Binding
  <1>9. CASE Refuse(s)
    BY <1>9 DEF Refuse, Return, TypeOK, Labels
  <1>10. CASE Answer(s)
    BY <1>10 DEF Answer, Return, TypeOK, Labels
  <1>11. CASE ConnectOk(s)
    BY <1>11 DEF ConnectOk, TypeOK, Labels
  <1>12. CASE ConnectFail(s)
    BY <1>12 DEF ConnectFail, TypeOK, Labels
  <1>13. CASE ClearBinding(s)
    BY <1>13, BoundsAreNat DEF ClearBinding, Return, TypeOK, Labels, NoBinding
  <1>14. CASE RecordStart(s)
    <2>1. conns' = [b \in Backends |-> IF b = chosen[s] THEN conns[b] + 1 ELSE conns[b]]
      BY <1>14 DEF RecordStart, TypeOK
    <2>2. conns' \in [Backends -> Nat]
      BY <2>1 DEF TypeOK
    <2> QED BY <1>14, <2>2 DEF RecordStart, TypeOK, Labels
  <1>15. CASE RecordEnd(s)
    <2>1. conns' = [b \in Backends |->
                        IF b = chosen[s] THEN (IF conns[b] > 0 THEN conns[b] - 1 ELSE 0)
                                         ELSE conns[b]]
      BY <1>15 DEF RecordEnd, TypeOK
    <2>2. conns' \in [Backends -> Nat]
      BY <2>1 DEF TypeOK
    <2> QED BY <1>15, <2>2 DEF RecordEnd, Return, TypeOK, Labels
  <1> QED
    BY <1>1, <1>2, <1>3, <1>4, <1>5, <1>6, <1>7, <1>8, <1>9, <1>10, <1>11, <1>12,
       <1>13, <1>14, <1>15 DEF TaskStep, Resolve

LEMMA PeerType ==
    ASSUME TypeOK, NEW s \in Slots, PeerStep(s)
    PROVE  TypeOK'
  <1> USE DEF Goto, tableVars, taskLocals, gcVars
  <1>1. ASSUME NEW k \in Clients, NEW g \in GeosOf[k], Accept(s, k, g) PROVE TypeOK'
    BY <1>1 DEF Accept, TypeOK, Labels
  <1>2. CASE HandshakeOk(s)
    BY <1>2 DEF HandshakeOk, TypeOK, Labels
  <1>3. CASE HandshakeFail(s)
    BY <1>3 DEF HandshakeFail, Return, TypeOK, Labels
  <1>4. CASE FinishCopy(s)
    BY <1>4 DEF FinishCopy, TypeOK, Labels
  <1> QED BY <1>1, <1>2, <1>3, <1>4 DEF PeerStep

LEMMA BackgroundType ==
    ASSUME TypeOK, GcStep \/ Reload \/ Tick
    PROVE  TypeOK'
  <1> USE DEF tableVars, taskLocals, gcVars
  <1>1. CASE GcWake
    BY <1>1 DEF GcWake, TypeOK
  <1>2. ASSUME NEW k \in Clients, GcScan(k) PROVE TypeOK'
    BY <1>2 DEF GcScan, TypeOK
  <1>3. ASSUME NEW k \in Clients, GcRemove(k) PROVE TypeOK'
    BY <1>3, BoundsAreNat DEF GcRemove, TypeOK, NoBinding
  <1>4. CASE GcSleep
    BY <1>4, BoundsAreNat DEF GcSleep, TypeOK
  <1>5. CASE Reload
    BY <1>5, BoundsAreNat DEF Reload, TypeOK
  <1>6. CASE Tick
    BY <1>6, BoundsAreNat DEF Tick, TypeOK
  <1> QED BY <1>1, <1>2, <1>3, <1>4, <1>5, <1>6 DEF GcStep

LEMMA StutterType == TypeOK /\ UNCHANGED vars => TypeOK'
  BY DEF TypeOK, vars

(* Every variable of the routing core keeps its type along every behaviour *)
(* of the connection tasks, the collector and the reloads.                 *)
THEOREM TypeCorrect == Spec => []TypeOK
  <1>1. TypeOK /\ [Next]_vars => TypeOK'
    BY TaskType, PeerType, BackgroundType, StutterType DEF Next
  <1> QED BY InitType, <1>1, PTL DEF Spec

----------------------------------------------------------------------------
(* The connection counts.                                                  *)

\* A task that has resolved a backend knows which one.
ChosenKnown ==
    \A s \in Slots :
        pc[s] \in {"resolved", "clear_binding", "record_start", "copy", "record_end"}
            => chosen[s] \in Backends

LEMMA HoldingFinite ==
    \A b : IsFiniteSet(Holding(b)) /\ Cardinality(Holding(b)) \in Nat
  <1> SUFFICES ASSUME NEW b
               PROVE  IsFiniteSet(Holding(b)) /\ Cardinality(Holding(b)) \in Nat
    OBVIOUS
  <1>1. Holding(b) \in SUBSET Slots
    BY DEF Holding
  <1>2. IsFiniteSet(Holding(b))
    BY <1>1, SlotsFinite, FS_Subset
  <1> QED BY <1>2, FS_CardinalityType

\* ChosenKnown is preserved.
LEMMA ChosenStep ==
    ASSUME TypeOK, ChosenKnown, [Next]_vars
    PROVE  ChosenKnown'
  <1> USE DEF Goto, ChosenKnown, TypeOK, tableVars, taskLocals, gcVars
  <1>1. ASSUME NEW s \in Slots, TaskStep(s) PROVE ChosenKnown'
    <2>1. CASE SetBinding(s)
      BY <2>1 DEF SetBinding
    <2>2. CASE Verify(s)
      BY <2>2 DEF Verify
    <2>3. CASE GetBinding(s) \/ Touch(s) \/ RemoveStale(s) \/ GetHealthy(s) \/ PickNone(s)
      BY <2>3 DEF GetBinding, Touch, RemoveStale, GetHealthy, PickNone
    <2>4. ASSUME NEW b \in Backends, PickStep(s, b) PROVE ChosenKnown'
      BY <2>4 DEF PickStep
    <2>5. CASE Refuse(s) \/ Answer(s) \/ ClearBinding(s) \/ RecordEnd(s)
      BY <2>5 DEF Refuse, Answer, ClearBinding, RecordEnd, Return
    <2>6. CASE ConnectOk(s) \/ ConnectFail(s) \/ RecordStart(s)
      BY <2>6 DEF ConnectOk, ConnectFail, RecordStart
    <2> QED BY <1>1, <2>1, <2>2, <2>3, <2>4, <2>5, <2>6 DEF TaskStep, Resolve
  <1>2. ASSUME NEW s \in Slots, PeerStep(s) PROVE ChosenKnown'
    BY <1>2 DEF PeerStep, Accept, HandshakeOk, HandshakeFail, FinishCopy, Return
  <1>3. CASE GcStep \/ Reload \/ Tick \/ UNCHANGED vars
    BY <1>3 DEF GcStep, GcWake, GcScan, GcRemove, GcSleep, Reload, Tick, vars
  <1> QED BY <1>1, <1>2, <1>3 DEF Next

\* A step that touches neither the counts nor who is being proxied where.
LEMMA CountsStutter ==
    ASSUME CountsAreExact, conns' = conns, \A b \in Backends : Holding(b)' = Holding(b)
    PROVE  CountsAreExact'
  BY DEF CountsAreExact

LEMMA CountsStep ==
    ASSUME TypeOK, ChosenKnown, CountsAreExact, [Next]_vars
    PROVE  CountsAreExact'
  <1> USE DEF Goto, tableVars, taskLocals, gcVars
  <1>1. ASSUME NEW s \in Slots, RecordStart(s) PROVE CountsAreExact'
    <2>1. PICK c \in Backends : c = chosen[s]
      BY <1>1 DEF RecordStart, ChosenKnown
    <2>2. Holding(c)' = Holding(c) \cup {s} /\ s \notin Holding(c)
      BY <1>1, <2>1 DEF RecordStart, Holding, TypeOK
    <2>3. Cardinality(Holding(c)') = Cardinality(Holding(c)) + 1
      BY <2>2, HoldingFinite, FS_AddElement
    <2>4. \A b \in Backends \ {c} : Holding(b)' = Holding(b) /\ conns'[b] = conns[b]
      BY <1>1, <2>1 DEF RecordStart, Holding, TypeOK
    <2>5. conns'[c] = conns[c] + 1
      BY <1>1, <2>1 DEF RecordStart, TypeOK
    <2> QED BY <2>3, <2>4, <2>5 DEF CountsAreExact
  <1>2. ASSUME NEW s \in Slots, RecordEnd(s) PROVE CountsAreExact'
    <2>1. PICK c \in Backends : c = chosen[s]
      BY <1>2 DEF RecordEnd, ChosenKnown
    <2>2. Holding(c)' = Holding(c) \ {s} /\ s \in Holding(c)
      BY <1>2, <2>1 DEF RecordEnd, Return, Holding, TypeOK
    <2>3. Cardinality(Holding(c)') = Cardinality(Holding(c)) - 1
      BY <2>2, HoldingFinite, FS_RemoveElement
    <2>4. Cardinality(Holding(c)) > 0
      BY <2>2, HoldingFinite, FS_EmptySet
    <2>5. \A b \in Backends \ {c} : Holding(b)' = Holding(b) /\ conns'[b] = conns[b]
      BY <1>2, <2>1, NoBackendIsNone DEF RecordEnd, Return, Holding, TypeOK
    <2>6. conns[c] > 0 => conns'[c] = conns[c] - 1
      BY <1>2, <2>1 DEF RecordEnd, TypeOK
    <2> QED BY <2>3, <2>4, <2>5, <2>6 DEF CountsAreExact
  <1>3. ASSUME NEW s \in Slots, TaskStep(s), ~RecordStart(s), ~RecordEnd(s)
        PROVE  conns' = conns /\ \A b \in Backends : Holding(b)' = Holding(b)
    <2>1. CASE GetBinding(s) \/ Touch(s) \/ Verify(s) \/ RemoveStale(s) \/ GetHealthy(s)
      BY <2>1 DEF GetBinding, Touch, Verify, RemoveStale, GetHealthy, Holding, TypeOK
    <2>2. CASE (\E b \in Backends : PickStep(s, b)) \/ PickNone(s) \/ SetBinding(s)
      BY <2>2 DEF PickStep, PickNone, SetBinding, Holding, TypeOK
    <2>3. CASE Refuse(s) \/ Answer(s) \/ ClearBinding(s)
      BY <2>3 DEF Refuse, Answer, ClearBinding, Return, Holding, TypeOK
    <2>4. CASE ConnectOk(s) \/ ConnectFail(s)
      BY <2>4 DEF ConnectOk, ConnectFail, Holding, TypeOK
    <2> QED BY <1>3, <2>1, <2>2, <2>3, <2>4 DEF TaskStep, Resolve
  <1>4. ASSUME NEW s \in Slots, PeerStep(s)
        PROVE  conns' = conns /\ \A b \in Backends : Holding(b)' = Holding(b)
    BY <1>4 DEF PeerStep, Accept, HandshakeOk, HandshakeFail, FinishCopy, Return, Holding, TypeOK
  <1>5. CASE GcStep \/ Reload \/ Tick \/ UNCHANGED vars
    <2>1. conns' = conns /\ pc' = pc /\ chosen' = chosen
      BY <1>5 DEF GcStep, GcWake, GcScan, GcRemove, GcSleep, Reload, Tick, vars
    <2> QED BY <2>1, CountsStutter DEF Holding
  <1> QED BY <1>1, <1>2, <1>3, <1>4, <1>5, CountsStutter DEF Next

(* At every moment the metrics store holds, for every backend, exactly the *)
(* number of connections being proxied to it: CountsAreExact, which needs  *)
(* ChosenKnown to be inductive.                                            *)
THEOREM CountsCorrect == Spec => []CountsAreExact
  <1>1. Init => ChosenKnown /\ CountsAreExact
    <2> SUFFICES ASSUME Init PROVE ChosenKnown /\ CountsAreExact
      OBVIOUS
    <2>1. \A b \in Backends : Holding(b) = {}
      BY DEF Init, Holding
    <2> QED BY <2>1, FS_EmptySet DEF Init, ChosenKnown, CountsAreExact
  <1>2. TypeOK /\ ChosenKnown /\ CountsAreExact /\ [Next]_vars
            => ChosenKnown' /\ CountsAreExact'
    BY ChosenStep, CountsStep
  <1> QED BY <1>1, <1>2, TypeCorrect, PTL DEF Spec

----------------------------------------------------------------------------
(***************************************************************************)
(* What resolve_backend_with_geo promises its clients.                     *)
(***************************************************************************)

\* A backend that has been usable all along still is, and the pick loop has not
\* passed over it while it had nothing better.
RoomInv ==
    \A s \in Slots :
        /\ pc[s] \in Resolving => usable[s] \subseteq UsableNow
        /\ pc[s] = "pick" /\ best[s] = NoBest => usable[s] \subseteq remaining[s]
        /\ pc[s] = "refused" => usable[s] = {}

\* Whatever a task holds in its locals comes from a table it could have read.
SeenInv ==
    \A s \in Slots :
        /\ pc[s] \in Resolving => table \subseteq seen[s]
        /\ pc[s] = "pick" => remaining[s] \subseteq seen[s]
        /\ best[s] # NoBest => pc[s] = "pick" /\ best[s].id \in seen[s]
        /\ pc[s] = "resolved" => chosen[s] \in seen[s]

\* A task whose client's binding stood all along is on the short path.
KeptInv ==
    \A s \in Slots : kept[s] # NoBackend =>
        /\ pc[s] \in {"handshake", "get_binding", "touch", "verify", "resolved"}
        /\ kept[s] = bindings[client[s]].backend
        /\ kept[s] \in table
        /\ pc[s] \in {"touch", "verify"} => found[s] = kept[s]
        /\ pc[s] = "resolved" => chosen[s] = kept[s]

LEMMA HistNextIsNext == [Next /\ HistStep]_allVars => [Next]_vars
  BY DEF allVars

LEMMA TypeAlong == HistSpec => []TypeOK
  <1>1. HistSpec => Init /\ [][Next]_vars
    BY HistNextIsNext, PTL DEF HistSpec
  <1> QED BY <1>1, TypeCorrect, PTL DEF Spec

\* A turn of the loop leaves nothing picked only at a hard limit.
LEMMA PickBest ==
    ASSUME NEW b, NEW n, NEW g, NEW old, Consider(Info, old, b, n, g) = NoBest,
           b \in Backends, n \in Nat
    PROVE  old = NoBest /\ AtHardLimit(Info[b], n)
  BY NoBestIsNone DEF Consider

LEMMA RoomStep ==
    ASSUME TypeOK, RoomInv, Next, HistStep
    PROVE  RoomInv'
  <1> USE DEF Goto, tableVars, taskLocals, gcVars
  <1> SUFFICES ASSUME NEW t \in Slots
               PROVE  /\ pc'[t] \in Resolving => usable'[t] \subseteq UsableNow'
                      /\ pc'[t] = "pick" /\ best'[t] = NoBest => usable'[t] \subseteq remaining'[t]
                      /\ pc'[t] = "refused" => usable'[t] = {}
    BY DEF RoomInv
  <1>1. pc'[t] \in Resolving => usable'[t] \subseteq UsableNow'
    BY DEF HistStep
  <1>2. pc'[t] \in Resolving /\ pc[t] # "idle" => usable'[t] \subseteq usable[t]
    BY DEF HistStep
  <1>3. ASSUME NEW s \in Slots, GetHealthy(s)
        PROVE  /\ pc'[t] = "pick" /\ best'[t] = NoBest => usable'[t] \subseteq remaining'[t]
               /\ pc'[t] = "refused" => usable'[t] = {}
    <2>1. CASE s = t
      <3>1. usable[t] \subseteq table
        BY <1>3, <2>1 DEF RoomInv, GetHealthy, Resolving, UsableNow
      <3> QED BY <1>2, <1>3, <2>1, <3>1 DEF GetHealthy, TypeOK, Resolving
    <2>2. CASE s # t
      BY <1>2, <1>3, <2>2 DEF RoomInv, GetHealthy, TypeOK, Resolving
    <2> QED BY <2>1, <2>2
  <1>4. ASSUME NEW s \in Slots, NEW b \in Backends, PickStep(s, b)
        PROVE  /\ pc'[t] = "pick" /\ best'[t] = NoBest => usable'[t] \subseteq remaining'[t]
               /\ pc'[t] = "refused" => usable'[t] = {}
    <2>1. CASE s = t /\ best'[t] = NoBest
      <3>1. best[t] = NoBest /\ AtHardLimit(Info[b], conns[b])
        BY <1>4, <2>1, PickBest DEF PickStep, TypeOK
      <3>2. b \notin usable[t]
        BY <1>4, <2>1, <3>1, LimitsAreNat
           DEF RoomInv, PickStep, Resolving, UsableNow, AtHardLimit, TypeOK
      <3> QED BY <1>2, <1>4, <2>1, <3>1, <3>2 DEF RoomInv, PickStep, TypeOK, Resolving
    <2>2. CASE s = t /\ best'[t] # NoBest
      BY <1>4, <2>2 DEF PickStep
    <2>3. CASE s # t
      BY <1>2, <1>4, <2>3 DEF RoomInv, PickStep, TypeOK, Resolving
    <2> QED BY <2>1, <2>2, <2>3
  <1>5. ASSUME NEW s \in Slots, PickNone(s)
        PROVE  /\ pc'[t] = "pick" /\ best'[t] = NoBest => usable'[t] \subseteq remaining'[t]
               /\ pc'[t] = "refused" => usable'[t] = {}
    BY <1>2, <1>5 DEF RoomInv, PickNone, TypeOK, Resolving
  <1>6. ASSUME NEW s \in Slots, TaskStep(s) \/ PeerStep(s),
               ~GetHealthy(s), ~PickNone(s), \A b \in Backends : ~PickStep(s, b)
        PROVE  pc'[t] \in {"pick", "refused"} =>
                  pc'[t] = pc[t] /\ best'[t] = best[t] /\ remaining'[t] = remaining[t]
    BY <1>6 DEF TaskStep, PeerStep, Resolve, GetBinding, Touch, Verify, RemoveStale, SetBinding,
                Refuse, Answer, ConnectOk, ConnectFail, ClearBinding, RecordStart, RecordEnd,
                Accept, HandshakeOk, HandshakeFail, FinishCopy, Return, TypeOK
  <1>7. ASSUME GcStep \/ Reload \/ Tick
        PROVE  pc' = pc /\ best' = best /\ remaining' = remaining
    BY <1>7 DEF GcStep, GcWake, GcScan, GcRemove, GcSleep, Reload, Tick
  <1> QED BY <1>1, <1>2, <1>3, <1>4, <1>5, <1>6, <1>7 DEF Next, RoomInv, Resolving

(* No client is turned away while some backend is, for the whole of its    *)
(* resolution, healthy in the table and below its hard limit: the loop     *)
(* that reads the counts one by one misses no such backend.                *)
THEOREM NoWrongRefusal == HistSpec => []RefusedOnlyWithoutRoom
  <1>1. Init /\ HistInit => RoomInv
    BY DEF Init, HistInit, RoomInv, Resolving
  <1>2. TypeOK /\ RoomInv /\ [Next /\ HistStep]_allVars => RoomInv'
    <2>1. RoomInv /\ UNCHANGED allVars => RoomInv'
      BY DEF RoomInv, UsableNow, allVars, vars, histVars
    <2> QED BY <2>1, RoomStep
  <1>3. RoomInv => RefusedOnlyWithoutRoom
    BY DEF RoomInv, RefusedOnlyWithoutRoom
  <1> QED BY <1>1, <1>2, <1>3, TypeAlong, PTL DEF HistSpec

----------------------------------------------------------------------------
\* A turn of the loop keeps what it had or takes the backend it looked at.
LEMMA PickKeeps ==
    ASSUME NEW b, NEW n, NEW g, NEW old, Consider(Info, old, b, n, g) # NoBest
    PROVE  \/ old # NoBest /\ Consider(Info, old, b, n, g) = old
           \/ Consider(Info, old, b, n, g).id = b
  BY DEF Consider

LEMMA SeenStep ==
    ASSUME TypeOK, SeenInv, Next, HistStep
    PROVE  SeenInv'
  <1> USE DEF Goto, tableVars, taskLocals, gcVars
  <1> DEFINE Local(t) ==
          /\ pc'[t] = "pick" => remaining'[t] \subseteq seen'[t]
          /\ best'[t] # NoBest => pc'[t] = "pick" /\ best'[t].id \in seen'[t]
          /\ pc'[t] = "resolved" => chosen'[t] \in seen'[t]
  <1> SUFFICES ASSUME NEW t \in Slots
               PROVE  (pc'[t] \in Resolving => table' \subseteq seen'[t]) /\ Local(t)
    BY DEF SeenInv
  <1>1. pc'[t] \in Resolving => table' \subseteq seen'[t]
    BY DEF HistStep
  <1>2. pc'[t] \in Resolving /\ pc[t] # "idle" => seen[t] \subseteq seen'[t]
    BY DEF HistStep
  <1>3. ASSUME NEW s \in Slots, Verify(s) PROVE Local(t)
    BY <1>1, <1>2, <1>3 DEF SeenInv, Verify, TypeOK, Resolving
  <1>4. ASSUME NEW s \in Slots, GetHealthy(s) PROVE Local(t)
    BY <1>1, <1>2, <1>4 DEF SeenInv, GetHealthy, TypeOK, Resolving
  <1>5. ASSUME NEW s \in Slots, NEW b \in Backends, PickStep(s, b) PROVE Local(t)
    <2>1. CASE s = t
      <3>1. best'[t] # NoBest => best'[t].id = b \/ (best[t] # NoBest /\ best'[t] = best[t])
        BY <1>5, <2>1, PickKeeps DEF PickStep, TypeOK
      <3>2. b \in seen[t] /\ remaining[t] \subseteq seen[t]
        BY <1>5, <2>1 DEF SeenInv, PickStep
      <3> QED BY <1>2, <1>5, <2>1, <3>1, <3>2 DEF SeenInv, PickStep, TypeOK, Resolving
    <2>2. CASE s # t
      BY <1>2, <1>5, <2>2 DEF SeenInv, PickStep, TypeOK, Resolving
    <2> QED BY <2>1, <2>2
  <1>6. ASSUME NEW s \in Slots, SetBinding(s) PROVE Local(t)
    BY <1>2, <1>6 DEF SeenInv, SetBinding, TypeOK, Resolving
  <1>7. ASSUME NEW s \in Slots, TaskStep(s) \/ PeerStep(s), ~Verify(s), ~GetHealthy(s),
               ~SetBinding(s), \A b \in Backends : ~PickStep(s, b)
        PROVE  /\ pc'[t] \in {"pick", "resolved"} =>
                     pc'[t] = pc[t] /\ chosen'[t] = chosen[t] /\ remaining'[t] = remaining[t]
               /\ best'[t] # NoBest => best'[t] = best[t] /\ pc'[t] = "pick"
    BY <1>7 DEF TaskStep, PeerStep, Resolve, GetBinding, Touch, RemoveStale, PickNone,
                Refuse, Answer, ConnectOk, ConnectFail, ClearBinding, RecordStart, RecordEnd,
                Accept, HandshakeOk, HandshakeFail, FinishCopy, Return, TypeOK, SeenInv
  <1>8. ASSUME GcStep \/ Reload \/ Tick
        PROVE  pc' = pc /\ best' = best /\ remaining' = remaining /\ chosen' = chosen
    BY <1>8 DEF GcStep, GcWake, GcScan, GcRemove, GcSleep, Reload, Tick
  <1>9. ASSUME NEW s \in Slots, TaskStep(s) \/ PeerStep(s), ~Verify(s), ~GetHealthy(s),
               ~SetBinding(s), \A b \in Backends : ~PickStep(s, b)
        PROVE  Local(t)
    BY <1>2, <1>7, <1>9 DEF SeenInv, Resolving
  <1>10. CASE GcStep \/ Reload \/ Tick
    BY <1>1, <1>2, <1>8, <1>10 DEF SeenInv, Resolving
  <1> QED BY <1>1, <1>3, <1>4, <1>5, <1>6, <1>9, <1>10 DEF Next

(* The backend a client is given, by its binding or by the load balancer,  *)
(* was listed as healthy at some moment after the client arrived.          *)
THEOREM NoStaleRoute == HistSpec => []ChosenWasHealthy
  <1>1. Init /\ HistInit => SeenInv
    BY DEF Init, HistInit, SeenInv, Resolving
  <1>2. TypeOK /\ SeenInv /\ [Next /\ HistStep]_allVars => SeenInv'
    <2>1. SeenInv /\ UNCHANGED allVars => SeenInv'
      BY DEF SeenInv, allVars, vars, histVars
    <2> QED BY <2>1, SeenStep
  <1>3. SeenInv => ChosenWasHealthy
    BY DEF SeenInv, ChosenWasHealthy
  <1> QED BY <1>1, <1>2, <1>3, TypeAlong, PTL DEF HistSpec

----------------------------------------------------------------------------
LEMMA KeptStep ==
    ASSUME TypeOK, KeptInv, Next, HistStep
    PROVE  KeptInv'
  <1> USE DEF Goto, tableVars, taskLocals, gcVars
  <1> DEFINE Short(t) ==
          /\ pc'[t] \in {"handshake", "get_binding", "touch", "verify", "resolved"}
          /\ pc'[t] \in {"touch", "verify"} => found'[t] = kept'[t]
          /\ pc'[t] = "resolved" => chosen'[t] = kept'[t]
  <1> SUFFICES ASSUME NEW t \in Slots, kept'[t] # NoBackend
               PROVE  /\ Short(t)
                      /\ kept'[t] = bindings'[client'[t]].backend
                      /\ kept'[t] \in table'
    BY DEF KeptInv
  <1>1. /\ pc'[t] \in Resolving
        /\ pc[t] = "idle" => kept'[t] = KeptNow(t)'
        /\ pc[t] # "idle" => kept'[t] = kept[t] /\ ~Disturbed(t)
    BY DEF HistStep
  <1>2. kept'[t] = KeptNow(t)'
            => kept'[t] = bindings'[client'[t]].backend /\ kept'[t] \in table'
    BY DEF KeptNow
  <1>3. ASSUME pc'[t] = pc[t], found'[t] = found[t], chosen'[t] = chosen[t], client'[t] = client[t]
        PROVE  Short(t) /\ kept'[t] = bindings'[client'[t]].backend /\ kept'[t] \in table'
    BY <1>1, <1>3 DEF KeptInv, Resolving, Disturbed
  <1>4. ASSUME NEW s \in Slots, TaskStep(s), s # t
        PROVE  /\ pc'[t] = pc[t] /\ found'[t] = found[t]
               /\ chosen'[t] = chosen[t] /\ client'[t] = client[t]
    BY <1>4 DEF TaskStep, Resolve, GetBinding, Touch, Verify, RemoveStale, GetHealthy,
          PickStep, PickNone, SetBinding, Refuse, Answer, ConnectOk, ConnectFail,
          ClearBinding, RecordStart, RecordEnd, Return, TypeOK
  <1>5. ASSUME TaskStep(t)
        PROVE  Short(t) /\ kept'[t] = bindings'[client'[t]].backend /\ kept'[t] \in table'
    <2>1. pc[t] # "idle"
      BY <1>5 DEF TaskStep, Resolve, GetBinding, Touch, Verify, RemoveStale, GetHealthy,
            PickStep, PickNone, SetBinding, Refuse, Answer, ConnectOk, ConnectFail,
            ClearBinding, RecordStart, RecordEnd
    <2>2. /\ kept[t] = kept'[t]
          /\ pc[t] \in {"handshake", "get_binding", "touch", "verify", "resolved"}
          /\ kept[t] = bindings[client[t]].backend /\ kept[t] \in table
          /\ pc[t] \in {"touch", "verify"} => found[t] = kept[t]
      BY <1>1, <2>1 DEF KeptInv
    <2>3. CASE GetBinding(t)
      BY <2>2, <2>3 DEF GetBinding, TypeOK
    <2>4. CASE Touch(t)
      BY <2>2, <2>4 DEF Touch, TypeOK
    <2>5. CASE Verify(t)
      BY <2>2, <2>5 DEF Verify, TypeOK
    <2>6. CASE Answer(t) \/ ConnectOk(t) \/ ConnectFail(t)
      BY <1>1, <2>6 DEF Answer, ConnectOk, ConnectFail, Return, TypeOK, Resolving
    <2> QED
      BY <1>5, <2>2, <2>3, <2>4, <2>5, <2>6
         DEF TaskStep, Resolve, RemoveStale, GetHealthy, PickStep, PickNone, SetBinding,
             Refuse, ClearBinding, RecordStart, RecordEnd
  <1>6. ASSUME NEW s \in Slots, PeerStep(s)
        PROVE  Short(t) /\ kept'[t] = bindings'[client'[t]].backend /\ kept'[t] \in table'
    <2>1. Short(t)
      BY <1>1, <1>6 DEF PeerStep, Accept, HandshakeOk, HandshakeFail, FinishCopy, Return,
                        TypeOK, KeptInv, Resolving
    <2>2. pc[t] # "idle" => bindings' = bindings /\ table' = table /\ client'[t] = client[t]
      BY <1>1, <1>6 DEF PeerStep, Accept, HandshakeOk, HandshakeFail, FinishCopy, Return,
                        TypeOK, Resolving
    <2> QED BY <1>1, <1>2, <2>1, <2>2 DEF KeptInv
  <1>7. ASSUME GcStep \/ Reload \/ Tick
        PROVE  pc' = pc /\ found' = found /\ chosen' = chosen /\ client' = client
    BY <1>7 DEF GcStep, GcWake, GcScan, GcRemove, GcSleep, Reload, Tick
  <1> QED BY <1>2, <1>3, <1>4, <1>5, <1>6, <1>7 DEF Next

(* Session affinity: unless somebody else changes the binding found on     *)
(* arrival or its backend is withdrawn, the client is routed to it.        *)
THEOREM AffinityCorrect == HistSpec => []AffinityIsKept
  <1>1. Init /\ HistInit => KeptInv
    BY DEF Init, HistInit, KeptInv
  <1>2. TypeOK /\ KeptInv /\ [Next /\ HistStep]_allVars => KeptInv'
    <2>1. KeptInv /\ UNCHANGED allVars => KeptInv'
      BY DEF KeptInv, allVars, vars, histVars
    <2> QED BY <2>1, KeptStep
  <1>3. KeptInv => AffinityIsKept
    BY DEF KeptInv, AffinityIsKept
  <1> QED BY <1>1, <1>2, <1>3, TypeAlong, PTL DEF HistSpec
=============================================================================
