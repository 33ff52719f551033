--------------------------- MODULE MetricsProofs ---------------------------
(***************************************************************************)
(* What export_prometheus prints adds up, for any backends, reporters and  *)
(* number of calls, and every order in which the relaxed additions take    *)
(* effect.  The invariant counts the additions that calls still owe: with  *)
(* them every counter equals what was reported.  A sum over the backends   *)
(* is treated as the size of a set, so that the library's theorems on      *)
(* cardinality apply; that it is one is shown by a smallest counterexample.*)
(***************************************************************************)
EXTENDS Metrics, FiniteSetTheorems, TLAPS

\* A pile of f[x] pairs on every x of S: its size is the sum of f over S.
Heap(f, S) == {p \in S \X Nat : p[2] < f[p[1]]}

\* The element that a fold over the set takes next.
One(s) == CHOOSE x \in s : TRUE

\* A set of subsets of a finite set has a smallest one: what holds of no smallest
\* counterexample holds of every subset.
LEMMA Smallest ==
    ASSUME NEW S, IsFiniteSet(S), NEW B \in SUBSET (SUBSET S), B # {}
    PROVE  \E T \in B : \A U \in B : U \subseteq T => U = T
  <1>1. IsWellFoundedOn(StrictSubsetOrdering(S), FiniteSubsetsOf(S))
    BY FS_StrictSubsetOrderingWellFounded
  <1>2. B \subseteq FiniteSubsetsOf(S)
    BY FS_FiniteSubsetsOfFinite
  <1>3. PICK T \in B : \A U \in B : ~ (<<U, T>> \in StrictSubsetOrdering(S))
    BY <1>1, <1>2, WFMin
  <1>4. \A U \in B : U \subseteq T => U = T
    BY <1>3 DEF StrictSubsetOrdering
  <1> QED BY <1>4

\* h's part of the heap is as high as f[h].
LEMMA Column ==
    ASSUME NEW h, NEW n \in Nat
    PROVE  LET C == {p \in {h} \X Nat : p[2] < n}
           IN  IsFiniteSet(C) /\ Cardinality(C) = n
  <1> DEFINE C == {p \in {h} \X Nat : p[2] < n}
             g == [k \in 0 .. n - 1 |-> <<h, k>>]
  <1>1. IsFiniteSet(0 .. n - 1) /\ Cardinality(0 .. n - 1) = n
    BY FS_Interval
  <1>2. g \in [0 .. n - 1 -> C]
    OBVIOUS
  <1>3. \A a, b \in 0 .. n - 1 : g[a] = g[b] => a = b
    OBVIOUS
  <1>4. \A p \in C : \E k \in 0 .. n - 1 : g[k] = p
    OBVIOUS
  <1>5. g \in Bijection(0 .. n - 1, C)
    BY <1>2, <1>3, <1>4 DEF Bijection, Injection, Surjection, IsInjective
  <1>6. ExistsBijection(0 .. n - 1, C)
    BY <1>5 DEF ExistsBijection
  <1> HIDE DEF C
  <1>7. IsFiniteSet(C) /\ Cardinality(C) = n
    BY <1>1, <1>6, FS_Bijection
  <1> QED BY <1>7 DEF C

\* One more element puts its own pile beside the others.
LEMMA HeapGrows ==
    ASSUME NEW S, NEW f \in [S -> Nat], NEW T \in SUBSET S, NEW x \in T,
           IsFiniteSet(Heap(f, T \ {x}))
    PROVE  /\ IsFiniteSet(Heap(f, T))
           /\ Cardinality(Heap(f, T)) = f[x] + Cardinality(Heap(f, T \ {x}))
  <1> DEFINE C == {p \in {x} \X Nat : p[2] < f[x]}
  <1>1. IsFiniteSet(C) /\ Cardinality(C) = f[x]
    BY Column
  <1>2. Heap(f, T) = Heap(f, T \ {x}) \cup C
    BY DEF Heap
  <1>3. Heap(f, T \ {x}) \cap C = {}
    BY DEF Heap
  <1> HIDE DEF C
  <1>4. Cardinality(Heap(f, T \ {x})) \in Nat
    BY FS_CardinalityType
  <1>5. Cardinality(Heap(f, T \ {x}) \cap C) = 0
    BY <1>3, FS_EmptySet
  <1>6. /\ IsFiniteSet(Heap(f, T \ {x}) \cup C)
        /\ Cardinality(Heap(f, T \ {x}) \cup C) =
             Cardinality(Heap(f, T \ {x})) + Cardinality(C) - Cardinality(Heap(f, T \ {x}) \cap C)
    BY <1>1, FS_Union
  <1>7. f[x] \in Nat
    OBVIOUS
  <1> QED BY <1>1, <1>2, <1>4, <1>5, <1>6, <1>7

\* The pile over a finite set is finite.
LEMMA HeapFinite ==
    ASSUME NEW S, IsFiniteSet(S), NEW f \in [S -> Nat]
    PROVE  \A T \in SUBSET S : IsFiniteSet(Heap(f, T))
  <1> DEFINE B == {T \in SUBSET S : ~ IsFiniteSet(Heap(f, T))}
  <1> SUFFICES ASSUME B # {} PROVE FALSE
    OBVIOUS
  <1>1. PICK T \in B : \A U \in B : U \subseteq T => U = T
    <2> HIDE DEF B
    <2>1. B \in SUBSET (SUBSET S) BY DEF B
    <2> QED BY <2>1, Smallest
  <1>2. T # {}
    <2>1. Heap(f, {}) = {} BY DEF Heap
    <2> QED BY <2>1, FS_EmptySet
  <1>3. PICK x \in T : TRUE
    BY <1>2
  <1>4. IsFiniteSet(Heap(f, T \ {x}))
    BY <1>1, <1>3
  <1> QED BY <1>3, <1>4, HeapGrows

\* A sum over a set is the size of a heap.
LEMMA SumIsHeap ==
    ASSUME NEW S, IsFiniteSet(S), NEW f \in [S -> Nat]
    PROVE  SumFunction(f) = Cardinality(Heap(f, S))
  <1> DEFINE Good(i) == i = [s \in SUBSET S |->
                               IF s = {} THEN 0 ELSE f[One(s)] + i[s \ {One(s)}]]
             H == [s \in SUBSET S |-> Cardinality(Heap(f, s))]
             iter == CHOOSE i : Good(i)
  <1>1. SumFunction(f) = iter[S]
    BY DEF SumFunction, SumFunctionOnSet, FoldFunctionOnSet, MapThenFoldSet, One
  <1>2. \A s \in SUBSET S : s # {} => One(s) \in s
    BY DEF One
  <1>3. \A s \in SUBSET S : H[s] = IF s = {} THEN 0 ELSE f[One(s)] + H[s \ {One(s)}]
    <2> SUFFICES ASSUME NEW s \in SUBSET S
                 PROVE  H[s] = IF s = {} THEN 0 ELSE f[One(s)] + H[s \ {One(s)}]
      OBVIOUS
    <2>1. CASE s = {}
      <3>1. Heap(f, {}) = {} BY DEF Heap
      <3> QED BY <2>1, <3>1, FS_EmptySet
    <2>2. CASE s # {}
      <3>1. One(s) \in s BY <2>2, <1>2
      <3>2. IsFiniteSet(Heap(f, s \ {One(s)})) BY HeapFinite
      <3>3. Cardinality(Heap(f, s)) = f[One(s)] + Cardinality(Heap(f, s \ {One(s)}))
        BY <3>1, <3>2, HeapGrows
      <3> QED BY <2>2, <3>3
    <2> QED BY <2>1, <2>2
  <1>4. Good(H)
    BY <1>3
  <1>5. Good(iter)
    <2> HIDE DEF Good, H
    <2> QED BY <1>4
  <1>6. \A s \in SUBSET S : iter[s] = IF s = {} THEN 0 ELSE f[One(s)] + iter[s \ {One(s)}]
    <2> HIDE DEF iter
    <2> QED BY <1>5
  <1> HIDE DEF iter, Good
  <1>7. \A s \in SUBSET S : iter[s] = H[s]
    <2> DEFINE B == {s \in SUBSET S : iter[s] # H[s]}
    <2> SUFFICES ASSUME B # {} PROVE FALSE
      OBVIOUS
    <2>1. PICK T \in B : \A U \in B : U \subseteq T => U = T
      <3> HIDE DEF B
      <3>1. B \in SUBSET (SUBSET S) BY DEF B
      <3> QED BY <3>1, Smallest
    <2> HIDE DEF H
    <2>2. T \in SUBSET S /\ iter[T] # H[T]
      OBVIOUS
    <2>3. T # {}
      BY <1>3, <1>6, <2>2
    <2>4. One(T) \in T
      BY <1>2, <2>3, <2>2
    <2>5. iter[T \ {One(T)}] = H[T \ {One(T)}]
      BY <2>1, <2>4
    <2> QED BY <1>3, <1>6, <2>2, <2>3, <2>5
  <1> QED BY <1>1, <1>7

----------------------------------------------------------------------------
\* The units, one pair each, that reporters still have to add to counter c for
\* backends in hs.
Outstanding(d, c, hs) ==
    {p \in Reporters \X Nat : \E a \in d[p[1]] : a.counter = c /\ a.host \in hs /\ p[2] < a.amount}

\* What has been reported of kind k, by backend.
Of(k) == [h \in Hosts |-> reported[h][k]]

\* The reporters whose connection to h has not been taken down.
Linked(h) == {r \in Reporters : link[r].state # "none" /\ link[r].host = h}

\* Which reports a counter counts.
KindOf == [total |-> "up", errors |-> "error", rttCount |-> "rtt", rttSum |-> "ms",
           allTotal |-> "up", allErrors |-> "error", sent |-> "bytes"]

\* The types, and that every reporter has a set of additions to make.
MetricsTypes == MetricsTypeOK /\ due \in [Reporters -> SUBSET Addition]

\* The additions of a call are to counters that differ; `active' is owed only by
\* who has just connected; decrement_connections begins when nothing is owed; and
\* a backend with a connection has an entry (prometheus_metrics_store.rs:240-262).
DuesAreCalls ==
    \A r \in Reporters :
      /\ \A a, b \in due[r] : a.counter = b.counter => a = b
      /\ \A a \in due[r] : a.counter = "active" =>
            a.amount = 1 /\ link[r] = [state |-> "up", host |-> a.host]
      /\ link[r].state = "down" => due[r] = {}
      /\ link[r].state # "none" => link[r].host \in entered

\* What is owed can be counted.
OutstandingFinite ==
    \A c \in BackendCounters \cup GlobalCounters : \A hs \in SUBSET Hosts :
      IsFiniteSet(Outstanding(due, c, hs))

\* A backend's counter and what is owed to it are what was reported
\* (prometheus_metrics_store.rs:100-112, 240-269).
BackendsAddUp ==
    \A h \in Hosts : \A c \in {"total", "errors", "rttCount", "rttSum"} :
      counter[h][c] + Cardinality(Outstanding(due, c, {h})) = reported[h][KindOf[c]]

\* So are the counters over all backends (prometheus_metrics_store.rs:100-112, 240-245).
AggregatesAddUp ==
    \A c \in {"allTotal", "allErrors", "sent"} :
      aggregate[c] + Cardinality(Outstanding(due, c, Hosts)) = Cardinality(Heap(Of(KindOf[c]), Hosts))

\* Active connections, and those that are owed, are the open ones.
ActiveAddsUp ==
    \A h \in Hosts :
      counter[h]["active"] + Cardinality(Outstanding(due, "active", {h})) = Cardinality(Linked(h))

\* A connection or an error makes the entry (prometheus_metrics_store.rs:92-105, 240).
OnlyEnteredReported ==
    \A h \in Hosts \ entered : reported[h]["up"] = 0 /\ reported[h]["error"] = 0

\* The inductive invariant.
MetricsInv ==
    /\ MetricsTypes /\ DuesAreCalls /\ OutstandingFinite
    /\ BackendsAddUp /\ AggregatesAddUp /\ ActiveAddsUp /\ OnlyEnteredReported

\* What a call that owes D owes to counter c.
AmountOf(D, c) == IF \E a \in D : a.counter = c THEN (CHOOSE a \in D : a.counter = c).amount ELSE 0

\* A call adds to a counter once.
OneEach(D) == \A a, b \in D : a.counter = b.counter => a = b

\* r owes D now.
Replaced(d, e, r, D) ==
    e \in [Reporters -> SUBSET Addition] /\ e[r] = D /\ \A s \in Reporters \ {r} : e[s] = d[s]

\* r has still to make the addition a, and then has made it.
Owes(d, r, a) == OneEach(d[r]) /\ a \in d[r]
Paid(d, e, r, a) == Replaced(d, e, r, d[r] \ {a})

\* What one call at h may owe.
CallAt(D, h) == D \in SUBSET Addition /\ OneEach(D) /\ \A a \in D : a.host = h

\* What is owed is a number.
LEMMA OutstandingType ==
    ASSUME NEW d, NEW c, NEW hs, IsFiniteSet(Outstanding(d, c, hs))
    PROVE  Cardinality(Outstanding(d, c, hs)) \in Nat
BY FS_CardinalityType

\* Two sets that have nothing in common.
LEMMA Disjoint ==
    ASSUME NEW A, NEW C, IsFiniteSet(A), IsFiniteSet(C), A \cap C = {}
    PROVE  IsFiniteSet(A \cup C) /\ Cardinality(A \cup C) = Cardinality(A) + Cardinality(C)
  <1>1. Cardinality(A \cap C) = 0 BY FS_EmptySet
  <1>2. Cardinality(A) \in Nat /\ Cardinality(C) \in Nat BY FS_CardinalityType
  <1>3. /\ IsFiniteSet(A \cup C)
        /\ Cardinality(A \cup C) = Cardinality(A) + Cardinality(C) - Cardinality(A \cap C)
    BY FS_Union
  <1> QED BY <1>1, <1>2, <1>3

\* A call begins.
LEMMA OweMore ==
    ASSUME NEW d \in [Reporters -> SUBSET Addition], NEW r \in Reporters, d[r] = {},
           NEW D, NEW h \in Hosts, CallAt(D, h),
           NEW c, NEW hs, IsFiniteSet(Outstanding(d, c, hs)),
           NEW e, Replaced(d, e, r, D)
    PROVE  /\ IsFiniteSet(Outstanding(e, c, hs))
           /\ Cardinality(Outstanding(e, c, hs)) =
                Cardinality(Outstanding(d, c, hs)) + IF h \in hs THEN AmountOf(D, c) ELSE 0
  <1>0. Cardinality(Outstanding(d, c, hs)) \in Nat
    BY OutstandingType
  <1> USE DEF CallAt, Replaced
  <1>1. CASE h \notin hs \/ ~ \E a \in D : a.counter = c
    <2>1. Outstanding(e, c, hs) = Outstanding(d, c, hs)
      BY <1>1 DEF Outstanding
    <2>2. (IF h \in hs THEN AmountOf(D, c) ELSE 0) = 0
      BY <1>1 DEF AmountOf
    <2> QED BY <1>0, <2>1, <2>2
  <1>2. CASE h \in hs /\ \E a \in D : a.counter = c
    <2>1. PICK a \in D : a.counter = c
      BY <1>2
    <2>2. AmountOf(D, c) = a.amount
      BY <2>1 DEF AmountOf, OneEach
    <2>3. a.amount \in Nat /\ a.host = h
      BY DEF Addition
    <2> DEFINE C == {p \in {r} \X Nat : p[2] < a.amount}
    <2>4. IsFiniteSet(C) /\ Cardinality(C) = a.amount
      BY <2>3, Column
    <2>5. Outstanding(e, c, hs) = Outstanding(d, c, hs) \cup C
      <3>1. \A p : p \in Outstanding(e, c, hs) => p \in Outstanding(d, c, hs) \cup C
        BY <1>2, <2>1, <2>3 DEF Outstanding, OneEach
      <3>2. \A p : p \in Outstanding(d, c, hs) => p \in Outstanding(e, c, hs)
        BY DEF Outstanding
      <3>3. \A p : p \in C => p \in Outstanding(e, c, hs)
        BY <1>2, <2>1, <2>3 DEF Outstanding
      <3> QED BY <3>1, <3>2, <3>3
    <2>6. Outstanding(d, c, hs) \cap C = {}
      BY DEF Outstanding
    <2> HIDE DEF C
    <2>7. /\ IsFiniteSet(Outstanding(d, c, hs) \cup C)
          /\ Cardinality(Outstanding(d, c, hs) \cup C) = Cardinality(Outstanding(d, c, hs)) + Cardinality(C)
      BY <2>4, <2>6, Disjoint
    <2> QED BY <1>2, <2>2, <2>4, <2>5, <2>7
  <1> QED BY <1>1, <1>2

\* One of the additions that are owed is made.
LEMMA PayOne ==
    ASSUME NEW d \in [Reporters -> SUBSET Addition], NEW r \in Reporters,
           NEW a, Owes(d, r, a), NEW c, NEW hs, IsFiniteSet(Outstanding(d, c, hs)),
           NEW e, Paid(d, e, r, a)
    PROVE  /\ IsFiniteSet(Outstanding(e, c, hs))
           /\ Cardinality(Outstanding(d, c, hs)) =
                Cardinality(Outstanding(e, c, hs))
                  + IF a.counter = c /\ a.host \in hs THEN a.amount ELSE 0
  <1>0. Cardinality(Outstanding(d, c, hs)) \in Nat
    BY OutstandingType
  <1> USE DEF Replaced, Paid, Owes
  <1>1. CASE ~(a.counter = c /\ a.host \in hs)
    <2>1. Outstanding(e, c, hs) = Outstanding(d, c, hs)
      BY <1>1 DEF Outstanding
    <2> QED BY <1>0, <1>1, <2>1
  <1>2. CASE a.counter = c /\ a.host \in hs
    <2>3. a.amount \in Nat
      BY DEF Addition
    <2> DEFINE C == {p \in {r} \X Nat : p[2] < a.amount}
    <2>4. IsFiniteSet(C) /\ Cardinality(C) = a.amount
      BY <2>3, Column
    <2>5. Outstanding(d, c, hs) = Outstanding(e, c, hs) \cup C
      <3>1. \A p : p \in Outstanding(d, c, hs) => p \in Outstanding(e, c, hs) \cup C
        BY <1>2 DEF Outstanding, OneEach
      <3>2. \A p : p \in Outstanding(e, c, hs) => p \in Outstanding(d, c, hs)
        BY DEF Outstanding
      <3>3. \A p : p \in C => p \in Outstanding(d, c, hs)
        BY <1>2 DEF Outstanding
      <3> QED BY <3>1, <3>2, <3>3
    <2>6. Outstanding(e, c, hs) \cap C = {}
      BY <1>2 DEF Outstanding, OneEach
    <2> HIDE DEF C
    <2>7. IsFiniteSet(Outstanding(e, c, hs))
      BY <2>5, FS_Subset
    <2>8. Cardinality(Outstanding(e, c, hs) \cup C) = Cardinality(Outstanding(e, c, hs)) + Cardinality(C)
      BY <2>4, <2>6, <2>7, Disjoint
    <2> QED BY <1>2, <2>4, <2>5, <2>7, <2>8
  <1> QED BY <1>1, <1>2

\* A report more.
LEMMA HeapUp ==
    ASSUME NEW S, IsFiniteSet(S), NEW f \in [S -> Nat], NEW g \in [S -> Nat], NEW h \in S, NEW n \in Nat,
           g[h] = f[h] + n, \A i \in S \ {h} : g[i] = f[i]
    PROVE  Cardinality(Heap(g, S)) = Cardinality(Heap(f, S)) + n
  <1>1. IsFiniteSet(Heap(f, S \ {h})) /\ IsFiniteSet(Heap(g, S \ {h}))
    BY HeapFinite
  <1>2. Heap(g, S \ {h}) = Heap(f, S \ {h})
    BY DEF Heap
  <1>3. Cardinality(Heap(f, S)) = f[h] + Cardinality(Heap(f, S \ {h}))
    BY <1>1, HeapGrows
  <1>4. Cardinality(Heap(g, S)) = g[h] + Cardinality(Heap(g, S \ {h}))
    BY <1>1, HeapGrows
  <1>5. Cardinality(Heap(f, S \ {h})) \in Nat
    BY <1>1, FS_CardinalityType
  <1>6. f[h] \in Nat
    OBVIOUS
  <1> QED BY <1>2, <1>3, <1>4, <1>5, <1>6

\* The counters that are compared with reports.
Counted == {"total", "errors", "rttCount", "rttSum"}
CountedAll == {"allTotal", "allErrors", "sent"}

\* A call at h that owes D, and reports as much.
Calls(r, h, D) ==
    /\ MayCall(r) /\ CallAt(D, h)
    /\ due' = [due EXCEPT ![r] = D]
    /\ reported' \in [Hosts -> [Kinds -> Nat]]
    /\ \A c \in Counted \cup CountedAll :
         reported'[h][KindOf[c]] = reported[h][KindOf[c]] + AmountOf(D, c)
    /\ \A i \in Hosts \ {h} : reported'[i] = reported[i]
    /\ UNCHANGED <<counter, aggregate>>

\* So is what a call owes to a counter.
LEMMA AmountType ==
    ASSUME NEW D \in SUBSET Addition, NEW c
    PROVE  AmountOf(D, c) \in Nat
BY DEF AmountOf, Addition

\* The counters that are compared, and the reports they are compared with.
LEMMA KindTypes ==
    /\ \A c \in Counted \cup CountedAll : KindOf[c] \in Kinds
    /\ Counted \subseteq BackendCounters
    /\ CountedAll \subseteq GlobalCounters
BY DEF Counted, CountedAll, KindOf, Kinds, BackendCounters, GlobalCounters

\* A call owes exactly what it reports, so that the sums of counters and debts
\* stay equal to the reports (prometheus_metrics_store.rs:100-112, 240-269).
LEMMA CallsAddUp ==
    ASSUME MetricsInv, NEW r \in Reporters, NEW h \in Hosts, NEW D, Calls(r, h, D)
    PROVE  /\ due' \in [Reporters -> SUBSET Addition]
           /\ OutstandingFinite' /\ BackendsAddUp' /\ AggregatesAddUp'
           /\ \A i \in Hosts :
                Cardinality(Outstanding(due, "active", {i}))' =
                  Cardinality(Outstanding(due, "active", {i})) + IF h = i THEN AmountOf(D, "active") ELSE 0
  <1> USE DEF MetricsInv
  <1>1. due \in [Reporters -> SUBSET Addition] /\ due[r] = {}
    BY DEF Calls, MayCall, MetricsTypes
  <1>2. CallAt(D, h) /\ D \in SUBSET Addition
    BY DEF Calls, CallAt
  <1>3. due' = [due EXCEPT ![r] = D] /\ counter' = counter /\ aggregate' = aggregate
    BY DEF Calls
  <1>4. \A c \in BackendCounters \cup GlobalCounters : \A hs \in SUBSET Hosts :
          /\ IsFiniteSet(Outstanding(due, c, hs)) /\ Cardinality(Outstanding(due, c, hs)) \in Nat
          /\ IsFiniteSet(Outstanding(due', c, hs))
          /\ Cardinality(Outstanding(due', c, hs)) =
               Cardinality(Outstanding(due, c, hs)) + IF h \in hs THEN AmountOf(D, c) ELSE 0
    <2> TAKE c \in BackendCounters \cup GlobalCounters
    <2> TAKE hs \in SUBSET Hosts
    <2>1. IsFiniteSet(Outstanding(due, c, hs))
      BY DEF OutstandingFinite
    <2>2. Cardinality(Outstanding(due, c, hs)) \in Nat
      BY <2>1, OutstandingType
    <2>3. /\ IsFiniteSet(Outstanding(due', c, hs))
          /\ Cardinality(Outstanding(due', c, hs)) =
               Cardinality(Outstanding(due, c, hs)) + IF h \in hs THEN AmountOf(D, c) ELSE 0
      <3> HIDE DEF MetricsInv
      <3>1. due \in [Reporters -> SUBSET Addition] /\ due[r] = {} BY <1>1
      <3>2. Replaced(due, due', r, D) BY <1>1, <1>2, <1>3 DEF Replaced
      <3>3. CallAt(D, h) BY <1>2
      <3> QED BY <2>1, <3>1, <3>2, <3>3, OweMore
    <2> QED BY <1>3, <2>1, <2>2, <2>3
  <1>5. due' \in [Reporters -> SUBSET Addition]
    BY <1>1, <1>2, <1>3
  <1>6. OutstandingFinite'
    BY <1>4 DEF OutstandingFinite
  <1>7. BackendsAddUp'
    <2> SUFFICES ASSUME NEW i \in Hosts, NEW c \in Counted
                 PROVE  counter'[i][c] + Cardinality(Outstanding(due', c, {i})) = reported'[i][KindOf[c]]
      BY DEF BackendsAddUp, Counted
    <2>1. counter[i][c] + Cardinality(Outstanding(due, c, {i})) = reported[i][KindOf[c]]
      BY DEF BackendsAddUp, Counted
    <2>2. counter[i][c] \in Nat /\ c \in BackendCounters
      BY KindTypes DEF MetricsTypes, MetricsTypeOK
    <2>3. reported'[i][KindOf[c]] = reported[i][KindOf[c]] + IF h = i THEN AmountOf(D, c) ELSE 0
      <3>1. reported[i][KindOf[c]] \in Nat
        BY KindTypes DEF MetricsTypes, MetricsTypeOK
      <3> QED BY <3>1 DEF Calls
    <2>4. AmountOf(D, c) \in Nat
      BY <1>2, AmountType
    <2>5. /\ Cardinality(Outstanding(due, c, {i})) \in Nat
          /\ Cardinality(Outstanding(due', c, {i})) =
               Cardinality(Outstanding(due, c, {i})) + IF h = i THEN AmountOf(D, c) ELSE 0
      BY <1>4, <2>2
    <2> QED BY <1>3, <2>1, <2>2, <2>3, <2>4, <2>5
  <1>8. AggregatesAddUp'
    <2> SUFFICES ASSUME NEW c \in CountedAll
                 PROVE  aggregate'[c] + Cardinality(Outstanding(due', c, Hosts)) =
                          Cardinality(Heap(Of(KindOf[c])', Hosts))
      BY DEF AggregatesAddUp, CountedAll
    <2>1. aggregate[c] + Cardinality(Outstanding(due, c, Hosts)) = Cardinality(Heap(Of(KindOf[c]), Hosts))
      BY DEF AggregatesAddUp, CountedAll
    <2>2. aggregate[c] \in Nat /\ c \in GlobalCounters /\ KindOf[c] \in Kinds
      BY KindTypes DEF MetricsTypes, MetricsTypeOK
    <2>3. /\ Of(KindOf[c]) \in [Hosts -> Nat] /\ Of(KindOf[c])' \in [Hosts -> Nat]
          /\ Of(KindOf[c])'[h] = Of(KindOf[c])[h] + AmountOf(D, c)
          /\ \A i \in Hosts \ {h} : Of(KindOf[c])'[i] = Of(KindOf[c])[i]
      BY <2>2 DEF Of, MetricsTypes, MetricsTypeOK, Calls
    <2>4. AmountOf(D, c) \in Nat
      BY <1>2, AmountType
    <2>5. Cardinality(Heap(Of(KindOf[c])', Hosts)) = Cardinality(Heap(Of(KindOf[c]), Hosts)) + AmountOf(D, c)
      BY <2>3, <2>4, HeapUp, MetricsConstants
    <2>6. /\ Cardinality(Outstanding(due, c, Hosts)) \in Nat
          /\ Cardinality(Outstanding(due', c, Hosts)) =
               Cardinality(Outstanding(due, c, Hosts)) + AmountOf(D, c)
      BY <1>4, <2>2
    <2> QED BY <1>3, <2>1, <2>2, <2>4, <2>5, <2>6
  <1>9. \A i \in Hosts :
          Cardinality(Outstanding(due', "active", {i})) =
            Cardinality(Outstanding(due, "active", {i})) + IF h = i THEN AmountOf(D, "active") ELSE 0
    <2> TAKE i \in Hosts
    <2>1. "active" \in BackendCounters
      BY DEF BackendCounters
    <2> QED BY <1>4, <2>1
  <1> QED BY <1>5, <1>6, <1>7, <1>8, <1>9

\* increment_connections makes the entry and owes one connection
\* (prometheus_metrics_store.rs:240-245).
LEMMA IncrementInv ==
    ASSUME MetricsInv, NEW r \in Reporters, NEW h \in Hosts, IncrementConnections(r, h)
    PROVE  MetricsInv'
  <1> USE DEF MetricsInv
  <1> DEFINE D == {[counter |-> c, host |-> h, amount |-> 1] : c \in {"active", "total", "allTotal"}}
  <1>1. /\ MayCall(r) /\ link[r].state = "none" /\ due' = [due EXCEPT ![r] = D]
        /\ entered' = entered \cup {h} /\ link' = [link EXCEPT ![r] = [state |-> "up", host |-> h]]
        /\ reported' = [reported EXCEPT ![h]["up"] = @ + 1]
        /\ UNCHANGED <<counter, aggregate, lastRtt, seen>>
    BY DEF IncrementConnections, Owe, Report
  <1>2. CallAt(D, h)
    BY DEF CallAt, Addition, OneEach, BackendCounters, GlobalCounters
  <1>3. /\ AmountOf(D, "total") = 1 /\ AmountOf(D, "allTotal") = 1 /\ AmountOf(D, "active") = 1
        /\ \A c \in {"errors", "rttCount", "rttSum", "allErrors", "sent"} : AmountOf(D, c) = 0
    <2>1. \A c \in {"active", "total", "allTotal"} : \E a \in D : a.counter = c
      <3> TAKE c \in {"active", "total", "allTotal"}
      <3>1. [counter |-> c, host |-> h, amount |-> 1] \in D
        OBVIOUS
      <3> QED BY <3>1
    <2>2. \A a \in D : a.amount = 1 /\ a.counter \in {"active", "total", "allTotal"}
      OBVIOUS
    <2> HIDE DEF D
    <2> QED BY <2>1, <2>2 DEF AmountOf
  <1>4. /\ reported' \in [Hosts -> [Kinds -> Nat]]
        /\ reported'[h]["up"] = reported[h]["up"] + 1
        /\ \A k \in Kinds \ {"up"} : reported'[h][k] = reported[h][k]
        /\ \A i \in Hosts \ {h} : reported'[i] = reported[i]
        /\ \A k \in Kinds : reported[h][k] \in Nat
    BY <1>1 DEF MetricsTypes, MetricsTypeOK, Kinds
  <1> HIDE DEF D
  <1>5. Calls(r, h, D)
    <2>1. \A c \in Counted \cup CountedAll :
            reported'[h][KindOf[c]] = reported[h][KindOf[c]] + AmountOf(D, c)
      BY <1>3, <1>4 DEF Counted, CountedAll, KindOf, Kinds
    <2> QED BY <1>1, <1>2, <1>4, <2>1 DEF Calls
  <1>6. /\ due' \in [Reporters -> SUBSET Addition]
        /\ OutstandingFinite' /\ BackendsAddUp' /\ AggregatesAddUp'
        /\ \A i \in Hosts :
             Cardinality(Outstanding(due', "active", {i})) =
               Cardinality(Outstanding(due, "active", {i})) + IF h = i THEN 1 ELSE 0
    BY <1>3, <1>5, CallsAddUp
  <1>7. MetricsTypes'
    BY <1>1, <1>4, <1>6 DEF MetricsTypes, MetricsTypeOK
  <1>8. DuesAreCalls'
    BY <1>1, <1>2 DEF DuesAreCalls, MetricsTypes, MetricsTypeOK, CallAt, OneEach, MayCall, D
  <1>9. ActiveAddsUp'
    <2> SUFFICES ASSUME NEW i \in Hosts
                 PROVE  counter'[i]["active"] + Cardinality(Outstanding(due', "active", {i})) =
                          Cardinality(Linked(i)')
      BY DEF ActiveAddsUp
    <2>1. Linked(i)' = IF i = h THEN Linked(i) \cup {r} ELSE Linked(i)
      BY <1>1 DEF Linked, MetricsTypes, MetricsTypeOK
    <2>2. r \notin Linked(i)
      BY <1>1 DEF Linked
    <2>3. IsFiniteSet(Linked(i))
      BY FS_Subset, MetricsConstants DEF Linked
    <2>4. Cardinality(Linked(i)) \in Nat
          /\ Cardinality(Linked(i) \cup {r}) = Cardinality(Linked(i)) + 1
      BY <2>2, <2>3, FS_AddElement, FS_CardinalityType
    <2>5. counter[i]["active"] \in Nat
      BY DEF MetricsTypes, MetricsTypeOK, BackendCounters
    <2>6. Cardinality(Outstanding(due, "active", {i})) \in Nat
      BY OutstandingType DEF OutstandingFinite, BackendCounters
    <2>7. counter[i]["active"] + Cardinality(Outstanding(due, "active", {i})) = Cardinality(Linked(i))
      BY DEF ActiveAddsUp
    <2>8. CASE i = h
      <3>1. Linked(i)' = Linked(i) \cup {r} BY <2>1, <2>8
      <3>2. Cardinality(Outstanding(due', "active", {i})) = Cardinality(Outstanding(due, "active", {i})) + 1
        BY <1>6, <2>8
      <3>3. counter' = counter BY <1>1
      <3> QED BY <3>1, <3>2, <3>3, <2>4, <2>5, <2>6, <2>7
    <2>9. CASE i # h
      <3>1. Linked(i)' = Linked(i) BY <2>1, <2>9
      <3>2. Cardinality(Outstanding(due', "active", {i})) = Cardinality(Outstanding(due, "active", {i}))
        BY <1>6, <2>6, <2>9
      <3>3. counter' = counter BY <1>1
      <3> QED BY <3>1, <3>2, <3>3, <2>7
    <2> QED BY <2>8, <2>9
  <1>10. OnlyEnteredReported'
    BY <1>1, <1>4 DEF OnlyEnteredReported
  <1> QED BY <1>6, <1>7, <1>8, <1>9, <1>10

\* A call that leaves the connections alone.
LEMMA OtherCallInv ==
    ASSUME MetricsInv, NEW r \in Reporters, NEW h \in Hosts, NEW D, Calls(r, h, D),
           \A a \in D : a.counter # "active",
           UNCHANGED <<link, seen>>, lastRtt' \in [Hosts -> Nat],
           entered \subseteq entered', entered' \subseteq Hosts, OnlyEnteredReported'
    PROVE  MetricsInv'
  <1> USE DEF MetricsInv
  <1>1. AmountOf(D, "active") = 0
    BY DEF AmountOf
  <1>2. /\ due' = [due EXCEPT ![r] = D] /\ MayCall(r) /\ CallAt(D, h)
        /\ counter' = counter /\ aggregate' = aggregate
        /\ reported' \in [Hosts -> [Kinds -> Nat]]
    BY DEF Calls
  <1>3. /\ due' \in [Reporters -> SUBSET Addition]
        /\ OutstandingFinite' /\ BackendsAddUp' /\ AggregatesAddUp'
        /\ \A i \in Hosts :
             Cardinality(Outstanding(due', "active", {i})) =
               Cardinality(Outstanding(due, "active", {i})) + IF h = i THEN 0 ELSE 0
    BY <1>1, CallsAddUp
  <1>4. MetricsTypes'
    BY <1>2, <1>3 DEF MetricsTypes, MetricsTypeOK
  <1>5. DuesAreCalls'
    BY <1>2 DEF DuesAreCalls, MetricsTypes, MetricsTypeOK, CallAt, OneEach, MayCall
  <1>6. ActiveAddsUp'
    <2> SUFFICES ASSUME NEW i \in Hosts
                 PROVE  counter'[i]["active"] + Cardinality(Outstanding(due', "active", {i})) =
                          Cardinality(Linked(i)')
      BY DEF ActiveAddsUp
    <2>1. Linked(i)' = Linked(i)
      BY DEF Linked
    <2>2. Cardinality(Outstanding(due, "active", {i})) \in Nat
      BY OutstandingType DEF OutstandingFinite, BackendCounters
    <2>3. Cardinality(Outstanding(due', "active", {i})) = Cardinality(Outstanding(due, "active", {i}))
      BY <1>3, <2>2
    <2>4. counter[i]["active"] + Cardinality(Outstanding(due, "active", {i})) = Cardinality(Linked(i))
      BY DEF ActiveAddsUp
    <2> QED BY <1>2, <2>1, <2>3, <2>4
  <1> QED BY <1>3, <1>4, <1>5, <1>6

\* record_error makes the entry and owes an error (prometheus_metrics_store.rs:100-105).
LEMMA ErrorInv ==
    ASSUME MetricsInv, NEW r \in Reporters, NEW h \in Hosts, RecordError(r, h)
    PROVE  MetricsInv'
  <1> USE DEF MetricsInv
  <1> DEFINE D == {[counter |-> c, host |-> h, amount |-> 1] : c \in {"errors", "allErrors"}}
  <1>1. /\ MayCall(r) /\ due' = [due EXCEPT ![r] = D]
        /\ entered' = entered \cup {h}
        /\ reported' = [reported EXCEPT ![h]["error"] = @ + 1]
        /\ UNCHANGED <<counter, aggregate, lastRtt, link, seen>>
    BY DEF RecordError, Owe, Report
  <1>2. CallAt(D, h) /\ \A a \in D : a.counter # "active"
    BY DEF CallAt, Addition, OneEach, BackendCounters, GlobalCounters
  <1>3. /\ AmountOf(D, "errors") = 1 /\ AmountOf(D, "allErrors") = 1
        /\ \A c \in {"total", "rttCount", "rttSum", "allTotal", "sent"} : AmountOf(D, c) = 0
    <2>1. \A c \in {"errors", "allErrors"} : \E a \in D : a.counter = c
      <3> TAKE c \in {"errors", "allErrors"}
      <3>1. [counter |-> c, host |-> h, amount |-> 1] \in D
        OBVIOUS
      <3> QED BY <3>1
    <2>2. \A a \in D : a.amount = 1 /\ a.counter \in {"errors", "allErrors"}
      OBVIOUS
    <2> HIDE DEF D
    <2> QED BY <2>1, <2>2 DEF AmountOf
  <1>4. /\ reported' \in [Hosts -> [Kinds -> Nat]]
        /\ reported'[h]["error"] = reported[h]["error"] + 1
        /\ \A k \in Kinds \ {"error"} : reported'[h][k] = reported[h][k]
        /\ \A i \in Hosts \ {h} : reported'[i] = reported[i]
        /\ \A k \in Kinds : reported[h][k] \in Nat
    BY <1>1 DEF MetricsTypes, MetricsTypeOK, Kinds
  <1> HIDE DEF D
  <1>5. Calls(r, h, D)
    <2>1. \A c \in Counted \cup CountedAll :
            reported'[h][KindOf[c]] = reported[h][KindOf[c]] + AmountOf(D, c)
      BY <1>3, <1>4 DEF Counted, CountedAll, KindOf, Kinds
    <2> QED BY <1>1, <1>2, <1>4, <2>1 DEF Calls
  <1>6. OnlyEnteredReported'
    BY <1>1, <1>4 DEF OnlyEnteredReported
  <1>7. /\ lastRtt' \in [Hosts -> Nat] /\ entered \subseteq entered' /\ entered' \subseteq Hosts
        /\ UNCHANGED <<link, seen>>
    BY <1>1 DEF MetricsTypes, MetricsTypeOK
  <1> QED BY <1>2, <1>5, <1>6, <1>7, OtherCallInv

\* Bytes are owed to the counters over all backends only
\* (prometheus_metrics_store.rs:107-112).
LEMMA BytesInv ==
    ASSUME MetricsInv, NEW r \in Reporters, NEW h \in Hosts, RecordBytes(r, h)
    PROVE  MetricsInv'
  <1> USE DEF MetricsInv
  <1> DEFINE D == {[counter |-> c, host |-> h, amount |-> 1] : c \in {"sent", "received"}}
  <1>1. /\ MayCall(r) /\ due' = [due EXCEPT ![r] = D]
        /\ reported' = [reported EXCEPT ![h]["bytes"] = @ + 1]
        /\ UNCHANGED <<entered, counter, aggregate, lastRtt, link, seen>>
    BY DEF RecordBytes, Owe, Report
  <1>2. CallAt(D, h) /\ \A a \in D : a.counter # "active"
    BY DEF CallAt, Addition, OneEach, BackendCounters, GlobalCounters
  <1>3. /\ AmountOf(D, "sent") = 1
        /\ \A c \in {"total", "errors", "rttCount", "rttSum", "allTotal", "allErrors"} : AmountOf(D, c) = 0
    <2>1. \E a \in D : a.counter = "sent"
      <3>1. [counter |-> "sent", host |-> h, amount |-> 1] \in D
        OBVIOUS
      <3> QED BY <3>1
    <2>2. \A a \in D : a.amount = 1 /\ a.counter \in {"sent", "received"}
      OBVIOUS
    <2> HIDE DEF D
    <2> QED BY <2>1, <2>2 DEF AmountOf
  <1>4. /\ reported' \in [Hosts -> [Kinds -> Nat]]
        /\ reported'[h]["bytes"] = reported[h]["bytes"] + 1
        /\ \A k \in Kinds \ {"bytes"} : reported'[h][k] = reported[h][k]
        /\ \A i \in Hosts \ {h} : reported'[i] = reported[i]
        /\ \A k \in Kinds : reported[h][k] \in Nat
    BY <1>1 DEF MetricsTypes, MetricsTypeOK, Kinds
  <1> HIDE DEF D
  <1>5. Calls(r, h, D)
    <2>1. \A c \in Counted \cup CountedAll :
            reported'[h][KindOf[c]] = reported[h][KindOf[c]] + AmountOf(D, c)
      BY <1>3, <1>4 DEF Counted, CountedAll, KindOf, Kinds
    <2> QED BY <1>1, <1>2, <1>4, <2>1 DEF Calls
  <1>6. OnlyEnteredReported'
    BY <1>1, <1>4 DEF OnlyEnteredReported, Kinds
  <1>7. /\ lastRtt' \in [Hosts -> Nat] /\ entered \subseteq entered' /\ entered' \subseteq Hosts
        /\ UNCHANGED <<link, seen>>
    BY <1>1 DEF MetricsTypes, MetricsTypeOK
  <1> QED BY <1>2, <1>5, <1>6, <1>7, OtherCallInv

\* record_rtt owes one measurement and its milliseconds (prometheus_metrics_store.rs:264-269).
LEMMA RttInv ==
    ASSUME MetricsInv, NEW r \in Reporters, NEW h \in Hosts, NEW ms \in RttValues, RecordRtt(r, h, ms)
    PROVE  MetricsInv'
  <1> USE DEF MetricsInv
  <1> DEFINE s == [counter |-> "rttSum", host |-> h, amount |-> ms]
             n == [counter |-> "rttCount", host |-> h, amount |-> 1]
             D == {s, n}
  <1>0. ms \in Nat
    BY MetricsConstants
  <1>1. /\ MayCall(r) /\ due' = [due EXCEPT ![r] = D]
        /\ entered' = entered \cup {h} /\ lastRtt' = [lastRtt EXCEPT ![h] = ms]
        /\ reported' = [reported EXCEPT ![h]["rtt"] = @ + 1, ![h]["ms"] = @ + ms]
        /\ UNCHANGED <<counter, aggregate, link, seen>>
    BY DEF RecordRtt
  <1>2. CallAt(D, h) /\ \A a \in D : a.counter # "active"
    BY <1>0 DEF CallAt, Addition, OneEach, BackendCounters, GlobalCounters
  <1>3. /\ AmountOf(D, "rttCount") = 1 /\ AmountOf(D, "rttSum") = ms
        /\ \A c \in {"total", "errors", "allTotal", "allErrors", "sent"} : AmountOf(D, c) = 0
    <2>1. /\ s \in D /\ n \in D /\ s.counter = "rttSum" /\ n.counter = "rttCount"
          /\ s.amount = ms /\ n.amount = 1 /\ \A a \in D : a = s \/ a = n
      OBVIOUS
    <2> HIDE DEF D, s, n
    <2> QED BY <2>1 DEF AmountOf
  <1>4. /\ reported' \in [Hosts -> [Kinds -> Nat]]
        /\ reported'[h]["rtt"] = reported[h]["rtt"] + 1
        /\ reported'[h]["ms"] = reported[h]["ms"] + ms
        /\ \A k \in Kinds \ {"rtt", "ms"} : reported'[h][k] = reported[h][k]
        /\ \A i \in Hosts \ {h} : reported'[i] = reported[i]
        /\ \A k \in Kinds : reported[h][k] \in Nat
    <2> DEFINE g == [reported[h] EXCEPT !["rtt"] = @ + 1]
               i == [g EXCEPT !["ms"] = @ + ms]
    <2>1. reported \in [Hosts -> [Kinds -> Nat]] /\ reported[h] \in [Kinds -> Nat]
      BY DEF MetricsTypes, MetricsTypeOK
    <2>2. reported' = [reported EXCEPT ![h] = i]
      BY <1>1, <2>1
    <2>3. /\ g \in [Kinds -> Nat] /\ g["rtt"] = reported[h]["rtt"] + 1
          /\ \A k \in Kinds \ {"rtt"} : g[k] = reported[h][k]
      BY <2>1 DEF Kinds
    <2> HIDE DEF g
    <2>4. /\ i \in [Kinds -> Nat] /\ i["ms"] = g["ms"] + ms
          /\ \A k \in Kinds \ {"ms"} : i[k] = g[k]
      BY <1>0, <2>3 DEF Kinds
    <2> HIDE DEF i
    <2>5. i["rtt"] = reported[h]["rtt"] + 1 /\ i["ms"] = reported[h]["ms"] + ms
      BY <2>3, <2>4 DEF Kinds
    <2>6. \A k \in Kinds \ {"rtt", "ms"} : i[k] = reported[h][k]
      BY <2>3, <2>4
    <2> QED BY <2>1, <2>2, <2>4, <2>5, <2>6
  <1> HIDE DEF D
  <1>5. Calls(r, h, D)
    <2>1. \A c \in Counted \cup CountedAll :
            reported'[h][KindOf[c]] = reported[h][KindOf[c]] + AmountOf(D, c)
      BY <1>3, <1>4 DEF Counted, CountedAll, KindOf, Kinds
    <2> QED BY <1>1, <1>2, <1>4, <2>1 DEF Calls
  <1>6. OnlyEnteredReported'
    BY <1>1, <1>4 DEF OnlyEnteredReported, Kinds
  <1>7. /\ lastRtt' \in [Hosts -> Nat] /\ entered \subseteq entered' /\ entered' \subseteq Hosts
        /\ UNCHANGED <<link, seen>>
    BY <1>0, <1>1 DEF MetricsTypes, MetricsTypeOK
  <1> QED BY <1>2, <1>5, <1>6, <1>7, OtherCallInv

\* A fetch_add takes effect: what it adds is no longer owed, in whatever order the
\* additions of the calls come (prometheus_metrics_store.rs:100-112, 240-269).
LEMMA AddInv ==
    ASSUME MetricsInv, NEW r \in Reporters, Add(r)
    PROVE  MetricsInv'
  <1> USE DEF MetricsInv
  <1>1. PICK a \in due[r] :
          /\ due' = [due EXCEPT ![r] = @ \ {a}]
          /\ IF a.counter \in BackendCounters
             THEN /\ counter' = [counter EXCEPT ![a.host][a.counter] = @ + a.amount]
                  /\ UNCHANGED aggregate
             ELSE /\ aggregate' = [aggregate EXCEPT ![a.counter] = @ + a.amount]
                  /\ UNCHANGED counter
          /\ UNCHANGED <<entered, lastRtt, link, seen, reported>>
    BY DEF Add
  <1>2. /\ due \in [Reporters -> SUBSET Addition]
        /\ counter \in [Hosts -> [BackendCounters -> Nat]] /\ aggregate \in [GlobalCounters -> Nat]
    BY DEF MetricsTypes, MetricsTypeOK
  <1>3. /\ a.counter \in BackendCounters \cup GlobalCounters /\ a.host \in Hosts /\ a.amount \in Nat
        /\ BackendCounters \cap GlobalCounters = {}
    BY <1>2 DEF Addition, BackendCounters, GlobalCounters
  <1>4. OneEach(due[r])
    BY DEF DuesAreCalls, OneEach
  <1>5. Replaced(due, due', r, due[r] \ {a})
    BY <1>1, <1>2 DEF Replaced
  <1>6. \A c \in BackendCounters \cup GlobalCounters : \A hs \in SUBSET Hosts :
          /\ IsFiniteSet(Outstanding(due', c, hs)) /\ Cardinality(Outstanding(due', c, hs)) \in Nat
          /\ Cardinality(Outstanding(due, c, hs)) =
               Cardinality(Outstanding(due', c, hs))
                 + IF a.counter = c /\ a.host \in hs THEN a.amount ELSE 0
    <2> TAKE c \in BackendCounters \cup GlobalCounters
    <2> TAKE hs \in SUBSET Hosts
    <2>1. IsFiniteSet(Outstanding(due, c, hs))
      BY DEF OutstandingFinite
    <2>2. /\ IsFiniteSet(Outstanding(due', c, hs))
          /\ Cardinality(Outstanding(due, c, hs)) =
               Cardinality(Outstanding(due', c, hs))
                 + IF a.counter = c /\ a.host \in hs THEN a.amount ELSE 0
      <3> HIDE DEF MetricsInv
      <3>1. due \in [Reporters -> SUBSET Addition] /\ Owes(due, r, a) /\ Paid(due, due', r, a)
        BY <1>2, <1>4, <1>5 DEF Owes, Paid
      <3> QED BY <2>1, <3>1, PayOne
    <2> QED BY <2>2, OutstandingType
  <1>7. \A h \in Hosts : \A c \in BackendCounters :
          counter'[h][c] = counter[h][c] + IF a.counter = c /\ a.host = h THEN a.amount ELSE 0
    <2>1. CASE a.counter \in BackendCounters
      BY <1>1, <1>2, <1>3, <2>1
    <2>2. CASE a.counter \notin BackendCounters
      BY <1>1, <1>2, <2>2
    <2> QED BY <2>1, <2>2
  <1>8. \A c \in GlobalCounters :
          aggregate'[c] = aggregate[c] + IF a.counter = c THEN a.amount ELSE 0
    <2>1. CASE a.counter \in BackendCounters
      BY <1>1, <1>2, <1>3, <2>1
    <2>2. CASE a.counter \notin BackendCounters
      BY <1>1, <1>2, <1>3, <2>2
    <2> QED BY <2>1, <2>2
  <1>9. MetricsTypes'
    <2>1. counter' \in [Hosts -> [BackendCounters -> Nat]]
      BY <1>1, <1>2, <1>3
    <2>2. aggregate' \in [GlobalCounters -> Nat]
      BY <1>1, <1>2, <1>3
    <2>3. due' \in [Reporters -> SUBSET Addition]
      BY <1>1, <1>2
    <2> QED BY <1>1, <2>1, <2>2, <2>3 DEF MetricsTypes, MetricsTypeOK
  <1>10. DuesAreCalls'
    BY <1>1, <1>2 DEF DuesAreCalls
  <1>11. OutstandingFinite'
    BY <1>6 DEF OutstandingFinite
  <1>12. \A h \in Hosts : \A c \in BackendCounters :
           counter'[h][c] + Cardinality(Outstanding(due', c, {h})) =
             counter[h][c] + Cardinality(Outstanding(due, c, {h}))
    <2> TAKE h \in Hosts
    <2> TAKE c \in BackendCounters
    <2>1. counter[h][c] \in Nat
      BY <1>2
    <2>2. /\ Cardinality(Outstanding(due', c, {h})) \in Nat
          /\ Cardinality(Outstanding(due, c, {h})) =
               Cardinality(Outstanding(due', c, {h})) + IF a.counter = c /\ a.host = h THEN a.amount ELSE 0
      BY <1>6
    <2>3. counter'[h][c] = counter[h][c] + IF a.counter = c /\ a.host = h THEN a.amount ELSE 0
      BY <1>7
    <2> QED BY <1>3, <2>1, <2>2, <2>3
  <1>13. \A c \in GlobalCounters :
           aggregate'[c] + Cardinality(Outstanding(due', c, Hosts)) =
             aggregate[c] + Cardinality(Outstanding(due, c, Hosts))
    <2> TAKE c \in GlobalCounters
    <2>1. aggregate[c] \in Nat
      BY <1>2
    <2>2. /\ Cardinality(Outstanding(due', c, Hosts)) \in Nat
          /\ Cardinality(Outstanding(due, c, Hosts)) =
               Cardinality(Outstanding(due', c, Hosts)) + IF a.counter = c THEN a.amount ELSE 0
      BY <1>3, <1>6
    <2>3. aggregate'[c] = aggregate[c] + IF a.counter = c THEN a.amount ELSE 0
      BY <1>8
    <2> QED BY <1>3, <2>1, <2>2, <2>3
  <1>14. BackendsAddUp'
    <2> SUFFICES ASSUME NEW h \in Hosts, NEW c \in Counted
                 PROVE  counter'[h][c] + Cardinality(Outstanding(due', c, {h})) = reported'[h][KindOf[c]]
      BY DEF BackendsAddUp, Counted
    <2>1. c \in BackendCounters
      BY KindTypes
    <2>2. counter[h][c] + Cardinality(Outstanding(due, c, {h})) = reported[h][KindOf[c]]
      BY DEF BackendsAddUp, Counted
    <2>3. reported' = reported
      BY <1>1
    <2> QED BY <1>12, <2>1, <2>2, <2>3
  <1>15. AggregatesAddUp'
    <2>1. \A k : Of(k)' = Of(k)
      BY <1>1 DEF Of
    <2> QED BY <1>13, <2>1 DEF AggregatesAddUp, GlobalCounters
  <1>16. ActiveAddsUp'
    <2>1. \A h : Linked(h)' = Linked(h)
      BY <1>1 DEF Linked
    <2> QED BY <1>12, <2>1 DEF ActiveAddsUp, BackendCounters
  <1>17. OnlyEnteredReported'
    BY <1>1 DEF OnlyEnteredReported
  <1> QED BY <1>9, <1>10, <1>11, <1>14, <1>15, <1>16, <1>17

\* Who has a connection to h and owes nothing has been counted as active there.
LEMMA ActiveIsPositive ==
    ASSUME MetricsInv, NEW r \in Reporters, link[r].state # "none", due[r] = {}
    PROVE  /\ link[r].host \in Hosts /\ link[r].host \in entered
           /\ counter[link[r].host]["active"] \in Nat /\ counter[link[r].host]["active"] > 0
  <1> USE DEF MetricsInv
  <1> DEFINE h == link[r].host
  <1>1. h \in Hosts /\ h \in entered /\ counter[h]["active"] \in Nat
    BY DEF MetricsTypes, MetricsTypeOK, DuesAreCalls, BackendCounters
  <1> HIDE DEF h
  <1> DEFINE U == Outstanding(due, "active", {h})
  <1>2. U \subseteq (Linked(h) \ {r}) \X {0}
    <2> SUFFICES ASSUME NEW p \in U PROVE p \in (Linked(h) \ {r}) \X {0}
      OBVIOUS
    <2>1. p \in Reporters \X Nat
      BY DEF Outstanding
    <2>2. PICK a \in due[p[1]] : a.counter = "active" /\ a.host = h /\ p[2] < a.amount
      BY DEF Outstanding
    <2>3. a.amount = 1 /\ link[p[1]] = [state |-> "up", host |-> h]
      BY <2>1, <2>2 DEF DuesAreCalls
    <2>4. p[1] \in Linked(h) /\ p[1] # r /\ p[2] = 0
      BY <2>1, <2>2, <2>3 DEF Linked
    <2> QED BY <2>1, <2>4
  <1>3. IsFiniteSet(Linked(h))
    BY FS_Subset, MetricsConstants DEF Linked
  <1>4. r \in Linked(h)
    BY DEF Linked, h
  <1>5. /\ IsFiniteSet(Linked(h) \ {r}) /\ Cardinality(Linked(h)) \in Nat
        /\ Cardinality(Linked(h) \ {r}) = Cardinality(Linked(h)) - 1
    BY <1>3, <1>4, FS_RemoveElement, FS_CardinalityType
  <1>6. /\ IsFiniteSet((Linked(h) \ {r}) \X {0})
        /\ Cardinality((Linked(h) \ {r}) \X {0}) = Cardinality(Linked(h) \ {r}) * 1
    <2> DEFINE L == Linked(h) \ {r}
    <2>1. IsFiniteSet({0}) /\ Cardinality({0}) = 1
      BY FS_Singleton
    <2>2. IsFiniteSet(L)
      BY <1>5
    <2> HIDE DEF L
    <2>3. IsFiniteSet(L \X {0}) /\ Cardinality(L \X {0}) = Cardinality(L) * 1
      BY <2>1, <2>2, FS_Product
    <2> QED BY <2>3 DEF L
  <1>7. Cardinality(U) <= Cardinality((Linked(h) \ {r}) \X {0}) /\ Cardinality(U) \in Nat
    <2> HIDE DEF U
    <2>1. IsFiniteSet(U)
      BY <1>2, <1>6, FS_Subset
    <2> QED BY <1>2, <1>6, <2>1, FS_Subset, FS_CardinalityType
  <1>8. counter[h]["active"] + Cardinality(U) = Cardinality(Linked(h))
    BY <1>1 DEF ActiveAddsUp
  <1>9. counter[h]["active"] > 0
    <2> HIDE DEF U
    <2> QED BY <1>1, <1>5, <1>6, <1>7, <1>8
  <1> QED BY <1>1, <1>9 DEF h

\* decrement_connections goes on by a value above zero.
LEMMA GoByInv ==
    ASSUME MetricsInv, NEW r \in Reporters, link[r].state # "none", due[r] = {},
           GoBy(r, counter[link[r].host]["active"]),
           UNCHANGED <<entered, counter, aggregate, lastRtt, due, reported>>
    PROVE  MetricsInv'
  <1> USE DEF MetricsInv
  <1>1. counter[link[r].host]["active"] \in Nat /\ counter[link[r].host]["active"] > 0
    BY ActiveIsPositive
  <1>2. link' = [link EXCEPT ![r] = [@ EXCEPT !.state = "down"]]
    BY <1>1 DEF GoBy
  <1>3. link \in [Reporters -> [state : {"none", "up", "down"}, host : Hosts]]
    BY DEF MetricsTypes, MetricsTypeOK
  <1>4. seen' \in [Reporters -> Nat]
    BY <1>1 DEF GoBy, MetricsTypes, MetricsTypeOK
  <1>5. link' \in [Reporters -> [state : {"none", "up", "down"}, host : Hosts]]
    BY <1>2, <1>3
  <1>6. /\ \A s \in Reporters :
              link'[s].host = link[s].host /\ (link'[s].state = "none" <=> link[s].state = "none")
        /\ \A s \in Reporters \ {r} : link'[s] = link[s]
    BY <1>2, <1>3
  <1>7. MetricsTypes'
    BY <1>4, <1>5 DEF MetricsTypes, MetricsTypeOK
  <1>8. DuesAreCalls'
    BY <1>6 DEF DuesAreCalls
  <1>9. \A h : Linked(h)' = Linked(h)
    BY <1>6 DEF Linked
  <1>10. \A k : Of(k)' = Of(k)
    BY DEF Of
  <1>11. OutstandingFinite' /\ BackendsAddUp' /\ AggregatesAddUp' /\ ActiveAddsUp' /\ OnlyEnteredReported'
    BY <1>9, <1>10 DEF OutstandingFinite, BackendsAddUp, AggregatesAddUp, ActiveAddsUp, OnlyEnteredReported
  <1> QED BY <1>7, <1>8, <1>11

\* The exchange succeeds: the value it goes by is still there, and one less is
\* active and linked.
LEMMA CasOkInv ==
    ASSUME MetricsInv, NEW r \in Reporters, CasOk(r)
    PROVE  MetricsInv'
  <1> USE DEF MetricsInv
  <1> DEFINE h == link[r].host
  <1>1. link[r].state = "down" /\ due[r] = {}
    BY DEF CasOk, DuesAreCalls
  <1>2. h \in Hosts /\ counter[h]["active"] \in Nat /\ counter[h]["active"] > 0
    BY <1>1, ActiveIsPositive
  <1>3. /\ counter' = [counter EXCEPT ![h]["active"] = counter[h]["active"] - 1]
        /\ link' = [link EXCEPT ![r] = Unlinked] /\ seen' = [seen EXCEPT ![r] = 0]
        /\ UNCHANGED <<entered, aggregate, lastRtt, due, reported>>
    BY DEF CasOk, Decremented
  <1> HIDE DEF h
  <1>4. /\ counter \in [Hosts -> [BackendCounters -> Nat]] /\ "active" \in BackendCounters
        /\ link \in [Reporters -> [state : {"none", "up", "down"}, host : Hosts]]
    BY DEF MetricsTypes, MetricsTypeOK, BackendCounters
  <1>5. /\ counter' \in [Hosts -> [BackendCounters -> Nat]]
        /\ counter'[h]["active"] = counter[h]["active"] - 1
        /\ \A c \in BackendCounters \ {"active"} : counter'[h][c] = counter[h][c]
        /\ \A i \in Hosts \ {h} : counter'[i] = counter[i]
    BY <1>2, <1>3, <1>4
  <1>6. Unlinked \in [state : {"none", "up", "down"}, host : Hosts] /\ Unlinked.state = "none"
    BY MetricsConstants DEF Unlinked
  <1>7. MetricsTypes'
    BY <1>3, <1>4, <1>5, <1>6 DEF MetricsTypes, MetricsTypeOK
  <1>8. DuesAreCalls'
    BY <1>1, <1>3, <1>4, <1>6 DEF DuesAreCalls
  <1>9. OutstandingFinite'
    BY <1>3 DEF OutstandingFinite
  <1>10. BackendsAddUp'
    <2> SUFFICES ASSUME NEW i \in Hosts, NEW c \in Counted
                 PROVE  counter'[i][c] + Cardinality(Outstanding(due', c, {i})) = reported'[i][KindOf[c]]
      BY DEF BackendsAddUp, Counted
    <2>1. c \in BackendCounters \ {"active"}
      BY DEF Counted, BackendCounters
    <2>2. counter'[i][c] = counter[i][c]
      BY <1>5, <2>1
    <2>3. counter[i][c] + Cardinality(Outstanding(due, c, {i})) = reported[i][KindOf[c]]
      BY DEF BackendsAddUp, Counted
    <2> QED BY <1>3, <2>2, <2>3
  <1>11. AggregatesAddUp'
    <2>1. \A k : Of(k)' = Of(k)
      BY <1>3 DEF Of
    <2> QED BY <1>3, <2>1 DEF AggregatesAddUp
  <1>12. ActiveAddsUp'
    <2> SUFFICES ASSUME NEW i \in Hosts
                 PROVE  counter'[i]["active"] + Cardinality(Outstanding(due', "active", {i})) =
                          Cardinality(Linked(i)')
      BY DEF ActiveAddsUp
    <2>1. counter[i]["active"] + Cardinality(Outstanding(due, "active", {i})) = Cardinality(Linked(i))
      BY DEF ActiveAddsUp
    <2>2. CASE i # h
      <3>1. Linked(i)' = Linked(i)
        BY <1>3, <1>4, <1>6, <2>2 DEF Linked, h
      <3> QED BY <1>3, <1>5, <2>1, <2>2, <3>1
    <2>3. CASE i = h
      <3>1. Linked(i)' = Linked(i) \ {r} /\ r \in Linked(i)
        BY <1>1, <1>3, <1>4, <1>6, <2>3 DEF Linked, h
      <3>2. IsFiniteSet(Linked(i))
        BY FS_Subset, MetricsConstants DEF Linked
      <3>3. /\ Cardinality(Linked(i)) \in Nat
            /\ Cardinality(Linked(i) \ {r}) = Cardinality(Linked(i)) - 1
        BY <3>1, <3>2, FS_RemoveElement, FS_CardinalityType
      <3>4. Cardinality(Outstanding(due, "active", {i})) \in Nat
        BY OutstandingType DEF OutstandingFinite, BackendCounters
      <3>5. counter'[i]["active"] = counter[i]["active"] - 1 /\ counter[i]["active"] \in Nat
        BY <1>2, <1>5, <2>3
      <3>6. due' = due
        BY <1>3
      <3> QED BY <2>1, <3>1, <3>3, <3>4, <3>5, <3>6
    <2> QED BY <2>2, <2>3
  <1>13. OnlyEnteredReported'
    BY <1>3 DEF OnlyEnteredReported
  <1> QED BY <1>7, <1>8, <1>9, <1>10, <1>11, <1>12, <1>13

\* Nothing is reported, owed or open.
Fresh ==
    /\ entered = {} /\ counter = [h \in Hosts |-> [c \in BackendCounters |-> 0]]
    /\ aggregate = [c \in GlobalCounters |-> 0] /\ lastRtt = [h \in Hosts |-> 0]
    /\ due \in [Reporters -> {{}}] /\ seen \in [Reporters -> Nat]
    /\ link \in [Reporters -> [state : {"none"}, host : Hosts]]
    /\ reported = [h \in Hosts |-> [k \in Kinds |-> 0]]

\* All counts agree on nothing.
LEMMA FreshInv == Fresh => MetricsInv
  <1> SUFFICES ASSUME Fresh PROVE MetricsInv
    OBVIOUS
  <1> USE DEF Fresh
  <1>1. MetricsTypes
    BY DEF MetricsTypes, MetricsTypeOK
  <1>2. DuesAreCalls
    BY DEF DuesAreCalls
  <1>3. \A c, hs : Outstanding(due, c, hs) = {}
    BY DEF Outstanding
  <1>4. \A c, hs : IsFiniteSet(Outstanding(due, c, hs)) /\ Cardinality(Outstanding(due, c, hs)) = 0
    BY <1>3, FS_EmptySet
  <1>5. BackendsAddUp
    BY <1>4 DEF BackendsAddUp, KindOf, Kinds, BackendCounters
  <1>6. AggregatesAddUp
    <2>1. \A c \in CountedAll : Heap(Of(KindOf[c]), Hosts) = {}
      BY KindTypes DEF Heap, Of
    <2>2. \A c \in CountedAll : Cardinality(Heap(Of(KindOf[c]), Hosts)) = 0
      BY <2>1, FS_EmptySet
    <2> QED BY <1>4, <2>2 DEF AggregatesAddUp, CountedAll, GlobalCounters
  <1>7. ActiveAddsUp
    <2>1. \A h : Linked(h) = {}
      BY DEF Linked
    <2>2. \A h : Cardinality(Linked(h)) = 0
      BY <2>1, FS_EmptySet
    <2> QED BY <1>4, <2>2 DEF ActiveAddsUp, BackendCounters
  <1>8. OnlyEnteredReported
    BY DEF OnlyEnteredReported, Kinds
  <1> QED BY <1>1, <1>2, <1>4, <1>5, <1>6, <1>7, <1>8 DEF MetricsInv, OutstandingFinite

\* So the store begins.
LEMMA MetricsInitInv == MetricsInit => MetricsInv
  <1> SUFFICES ASSUME MetricsInit PROVE MetricsInv
    OBVIOUS
  <1>1. Unlinked \in [state : {"none"}, host : Hosts]
    BY MetricsConstants DEF Unlinked
  <1>2. /\ due \in [Reporters -> {{}}] /\ seen \in [Reporters -> Nat]
        /\ link \in [Reporters -> [state : {"none"}, host : Hosts]]
    BY <1>1 DEF MetricsInit
  <1> QED BY <1>2, FreshInv DEF MetricsInit, Fresh

\* Every step of a reporter keeps the sums, and so does a restart of the process.
LEMMA MetricsStepInv == MetricsInv /\ [MetricsNext]_metricsVars => MetricsInv'
  <1> SUFFICES ASSUME MetricsInv, [MetricsNext]_metricsVars PROVE MetricsInv'
    OBVIOUS
  <1>1. CASE UNCHANGED metricsVars
    <2>1. \A h : Linked(h)' = Linked(h)
      BY <1>1 DEF metricsVars, Linked
    <2>2. \A k : Of(k)' = Of(k)
      BY <1>1 DEF metricsVars, Of
    <2> QED BY <1>1, <2>1, <2>2 DEF metricsVars, MetricsInv, MetricsTypes, MetricsTypeOK, DuesAreCalls,
              OutstandingFinite, BackendsAddUp, AggregatesAddUp, ActiveAddsUp, OnlyEnteredReported
  <1>2. CASE MetricsRestart
    <2>1. /\ due \in [Reporters -> {{}}] /\ seen \in [Reporters -> Nat]
          /\ link \in [Reporters -> [state : {"none"}, host : Hosts]]
      BY <1>2 DEF MetricsRestart, MetricsInv, MetricsTypes, MetricsTypeOK
    <2>2. /\ due' \in [Reporters -> {{}}] /\ seen' \in [Reporters -> Nat]
          /\ link' \in [Reporters -> [state : {"none"}, host : Hosts]]
      BY <1>2, <2>1 DEF MetricsRestart
    <2>3. /\ entered' = {} /\ counter' = [h \in Hosts |-> [c \in BackendCounters |-> 0]]
          /\ aggregate' = [c \in GlobalCounters |-> 0] /\ lastRtt' = [h \in Hosts |-> 0]
          /\ reported' = [h \in Hosts |-> [k \in Kinds |-> 0]]
      BY <1>2 DEF MetricsRestart
    <2>4. Fresh'
      BY <2>2, <2>3 DEF Fresh
    <2> QED BY <2>4, FreshInv, PTL
  <1>3. ASSUME NEW r \in Reporters, ReporterStep(r) PROVE MetricsInv'
    <2>1. ASSUME NEW h \in Hosts, IncrementConnections(r, h) PROVE MetricsInv'
      BY <2>1, IncrementInv
    <2>2. ASSUME NEW h \in Hosts, RecordError(r, h) PROVE MetricsInv'
      BY <2>2, ErrorInv
    <2>3. ASSUME NEW h \in Hosts, RecordBytes(r, h) PROVE MetricsInv'
      BY <2>3, BytesInv
    <2>4. ASSUME NEW h \in Hosts, NEW ms \in RttValues, RecordRtt(r, h, ms) PROVE MetricsInv'
      BY <2>4, RttInv
    <2>5. CASE Add(r)
      BY <2>5, AddInv
    <2>6. CASE Load(r)
      <3>1. link[r].state # "none" /\ due[r] = {}
        BY <2>6 DEF Load
      <3>2. link[r].host \in entered
        BY <3>1, ActiveIsPositive
      <3>3. GoBy(r, counter[link[r].host]["active"])
        BY <2>6, <3>2 DEF Load
      <3>4. UNCHANGED <<entered, counter, aggregate, lastRtt, due, reported>>
        BY <2>6 DEF Load
      <3> QED BY <3>1, <3>3, <3>4, GoByInv
    <2>7. CASE CasOk(r)
      BY <2>7, CasOkInv
    <2>8. CASE CasFails(r)
      <3>1. link[r].state # "none" /\ due[r] = {}
        BY <2>8 DEF CasFails, MetricsInv, DuesAreCalls
      <3>2. /\ GoBy(r, counter[link[r].host]["active"])
            /\ UNCHANGED <<entered, counter, aggregate, lastRtt, due, reported>>
        BY <2>8 DEF CasFails
      <3> QED BY <3>1, <3>2, GoByInv
    <2> QED BY <1>3, <2>1, <2>2, <2>3, <2>4, <2>5, <2>6, <2>7, <2>8 DEF ReporterStep
  <1> QED BY <1>1, <1>2, <1>3 DEF MetricsNext

\* Backends without an entry have nothing to add.
LEMMA SumOfEntered ==
    ASSUME NEW f \in [Hosts -> Nat], NEW E \in SUBSET Hosts, NEW g \in [E -> Nat],
           \A h \in E : g[h] = f[h], \A h \in Hosts \ E : f[h] = 0
    PROVE  SumFunction(g) = Cardinality(Heap(f, Hosts))
  <1>1. IsFiniteSet(E)
    BY MetricsConstants, FS_Subset
  <1>2. SumFunction(g) = Cardinality(Heap(g, E))
    BY <1>1, SumIsHeap
  <1>3. Heap(g, E) = Heap(f, Hosts)
    BY DEF Heap
  <1> QED BY <1>2, <1>3

\* When nothing is owed and no connection is being taken down, the counters are
\* the reports, and export_prometheus prints them (prometheus_metrics_store.rs:130-220).
LEMMA ExportFromInv == MetricsInv => ExportAddsUp
  <1> SUFFICES ASSUME MetricsInv, \A r \in Reporters : due[r] = {} /\ link[r].state # "down"
               PROVE  LET x == Export
      IN  /\ x.all["allTotal"] = SumFunction([h \in entered |-> x.backend[h].total])
          /\ x.all["allErrors"] = SumFunction([h \in entered |-> x.backend[h].errors])
          /\ x.all["sent"] = SumFunction([h \in Hosts |-> reported[h]["bytes"]])
          /\ \A h \in Hosts \ entered : reported[h]["up"] + reported[h]["error"] = 0
          /\ \A h \in entered :
               /\ x.backend[h].active =
                    Cardinality({r \in Reporters : link[r] = [state |-> "up", host |-> h]})
               /\ x.backend[h].total = reported[h]["up"]
               /\ reported[h]["rtt"] > 0 =>
                    x.backend[h].avg.num * reported[h]["rtt"] = reported[h]["ms"] * x.backend[h].avg.den
    BY DEF ExportAddsUp
  <1> USE DEF MetricsInv
  <1> DEFINE x == Export
  <1>1. /\ entered \in SUBSET Hosts /\ counter \in [Hosts -> [BackendCounters -> Nat]]
        /\ aggregate \in [GlobalCounters -> Nat] /\ reported \in [Hosts -> [Kinds -> Nat]]
        /\ link \in [Reporters -> [state : {"none", "up", "down"}, host : Hosts]]
    BY DEF MetricsTypes, MetricsTypeOK
  <1>2. \A c, hs : Cardinality(Outstanding(due, c, hs)) = 0
    <2>1. \A c, hs : Outstanding(due, c, hs) = {}
      BY DEF Outstanding
    <2> QED BY <2>1, FS_EmptySet
  <1>3. /\ x.all = aggregate
        /\ \A h \in entered :
             /\ x.backend[h].active = counter[h]["active"] /\ x.backend[h].total = counter[h]["total"]
             /\ x.backend[h].errors = counter[h]["errors"] /\ x.backend[h].avg = AvgRtt(h)
    BY DEF Export
  <1> HIDE DEF x
  <1>4. \A h \in Hosts : \A c \in Counted : counter[h][c] = reported[h][KindOf[c]]
    <2> TAKE h \in Hosts
    <2> TAKE c \in Counted
    <2>1. counter[h][c] + Cardinality(Outstanding(due, c, {h})) = reported[h][KindOf[c]]
      BY DEF BackendsAddUp, Counted
    <2>2. counter[h][c] \in Nat
      BY <1>1, KindTypes
    <2> QED BY <1>2, <2>1, <2>2
  <1>5. \A h \in Hosts : /\ counter[h]["total"] = reported[h]["up"]
                         /\ counter[h]["errors"] = reported[h]["error"]
                         /\ counter[h]["rttCount"] = reported[h]["rtt"]
                         /\ counter[h]["rttSum"] = reported[h]["ms"]
    BY <1>4 DEF Counted, KindOf
  <1>6. \A c \in CountedAll : aggregate[c] = Cardinality(Heap(Of(KindOf[c]), Hosts))
    <2> TAKE c \in CountedAll
    <2>1. aggregate[c] + Cardinality(Outstanding(due, c, Hosts)) = Cardinality(Heap(Of(KindOf[c]), Hosts))
      BY DEF AggregatesAddUp, CountedAll
    <2>2. aggregate[c] \in Nat
      BY <1>1, KindTypes
    <2> QED BY <1>2, <2>1, <2>2
  <1>7. /\ aggregate["allTotal"] = Cardinality(Heap(Of("up"), Hosts))
        /\ aggregate["allErrors"] = Cardinality(Heap(Of("error"), Hosts))
        /\ aggregate["sent"] = Cardinality(Heap(Of("bytes"), Hosts))
    BY <1>6 DEF CountedAll, KindOf
  <1>8. Of("up") \in [Hosts -> Nat] /\ Of("error") \in [Hosts -> Nat] /\ Of("bytes") \in [Hosts -> Nat]
    BY <1>1 DEF Of, Kinds
  <1>9. x.all["allTotal"] = SumFunction([h \in entered |-> x.backend[h].total])
    <2> DEFINE g == [h \in entered |-> x.backend[h].total]
    <2>1. g \in [entered -> Nat] /\ \A h \in entered : g[h] = Of("up")[h]
      BY <1>1, <1>3, <1>5 DEF Of, BackendCounters
    <2>2. \A h \in Hosts \ entered : Of("up")[h] = 0
      BY DEF OnlyEnteredReported, Of
    <2> HIDE DEF g
    <2>3. SumFunction(g) = Cardinality(Heap(Of("up"), Hosts))
      BY <1>1, <1>8, <2>1, <2>2, SumOfEntered
    <2> QED BY <1>3, <1>7, <2>3 DEF g
  <1>10. x.all["allErrors"] = SumFunction([h \in entered |-> x.backend[h].errors])
    <2> DEFINE g == [h \in entered |-> x.backend[h].errors]
    <2>1. g \in [entered -> Nat] /\ \A h \in entered : g[h] = Of("error")[h]
      BY <1>1, <1>3, <1>5 DEF Of, BackendCounters
    <2>2. \A h \in Hosts \ entered : Of("error")[h] = 0
      BY DEF OnlyEnteredReported, Of
    <2> HIDE DEF g
    <2>3. SumFunction(g) = Cardinality(Heap(Of("error"), Hosts))
      BY <1>1, <1>8, <2>1, <2>2, SumOfEntered
    <2> QED BY <1>3, <1>7, <2>3 DEF g
  <1>11. x.all["sent"] = SumFunction([h \in Hosts |-> reported[h]["bytes"]])
    <2>1. SumFunction(Of("bytes")) = Cardinality(Heap(Of("bytes"), Hosts))
      BY <1>8, MetricsConstants, SumIsHeap
    <2> QED BY <1>3, <1>7, <2>1 DEF Of
  <1>12. \A h \in Hosts \ entered : reported[h]["up"] + reported[h]["error"] = 0
    BY DEF OnlyEnteredReported
  <1>13. \A h \in entered :
           x.backend[h].active = Cardinality({r \in Reporters : link[r] = [state |-> "up", host |-> h]})
    <2> TAKE h \in entered
    <2>1. counter[h]["active"] + Cardinality(Outstanding(due, "active", {h})) = Cardinality(Linked(h))
      BY <1>1 DEF ActiveAddsUp
    <2>2. counter[h]["active"] \in Nat
      BY <1>1 DEF BackendCounters
    <2>3. Linked(h) = {r \in Reporters : link[r] = [state |-> "up", host |-> h]}
      BY <1>1 DEF Linked
    <2> QED BY <1>2, <1>3, <2>1, <2>2, <2>3
  <1>14. \A h \in entered : x.backend[h].total = reported[h]["up"]
    BY <1>1, <1>3, <1>5
  <1>15. \A h \in entered : reported[h]["rtt"] > 0 =>
           x.backend[h].avg.num * reported[h]["rtt"] = reported[h]["ms"] * x.backend[h].avg.den
    <2> SUFFICES ASSUME NEW h \in entered, reported[h]["rtt"] > 0
                 PROVE  x.backend[h].avg.num * reported[h]["rtt"] = reported[h]["ms"] * x.backend[h].avg.den
      OBVIOUS
    <2>1. x.backend[h].avg = [num |-> reported[h]["ms"], den |-> reported[h]["rtt"]]
      BY <1>1, <1>3, <1>5, SMTT(30) DEF AvgRtt, Kinds
    <2> QED BY <2>1
  <1> QED BY <1>9, <1>10, <1>11, <1>12, <1>13, <1>14, <1>15 DEF x

\* A scrape while every reporter is between two calls gets totals that are the
\* sums over the backends, the open connections, and nothing reported missing
\* or counted twice, however the additions and the compare-exchanges of the
\* calls before it were ordered (prometheus_metrics_store.rs:100-112, 130-220,
\* 240-269).
THEOREM ExportIsTrue == MetricsSpec => []ExportAddsUp
  <1> QED BY MetricsInitInv, MetricsStepInv, ExportFromInv, PTL DEF MetricsSpec
============================================================================
