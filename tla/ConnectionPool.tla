-------------------------- MODULE ConnectionPool ---------------------------
(***************************************************************************)
(* The pool of connections to one backend (connection_pool.rs) and the     *)
(* tasks that borrow from it, one connection at a time.  The steps are the *)
(* stretches between two awaits or atomics.  clear drops the pool and the  *)
(* next acquire makes another, while acquires that began before go on with *)
(* the old one: pools[g] is the g-th.  A connection is fresh, or old once  *)
(* past its lifetime or idle time.                                         *)
(***************************************************************************)
EXTENDS FiniteSets, ListOps

CONSTANTS
    Borrowers,
    MaxConnections,
    CounterSize,    \* in_use counts modulo this (2^64)
    MaxClears       \* bound: calls of clear

ASSUME BorrowersType == IsFiniteSet(Borrowers) /\ Borrowers # {}
ASSUME PoolType == MaxConnections \in Nat \ {0} /\ MaxClears \in Nat
ASSUME CounterType ==
    CounterSize \in Nat /\ CounterSize > MaxConnections + Cardinality(Borrowers)

VARIABLES
    pools,      \* BackendPool: in_use, and the queue of idle connections
    current,    \* the pool in the map, 0 if there is none
    task,       \* what a borrower is in
    mine,       \* the pool it works on
    stale,      \* borrowers whose connection is past its lifetime
    cleaning,   \* start_cleanup was called; pools its copy of the map has
    clears,     \* calls of clear so far
    draining    \* and whether one is under way

poolVars == <<pools, current, task, mine, stale, cleaning, clears, draining>>

Ages == {"fresh", "old"}
Pool == [inUse : 0..(CounterSize - 1), idle : Seq(Ages)]

PoolTypeOK ==
    /\ pools \in Seq(Pool)
    /\ current \in 0..Len(pools)
    /\ task \in [Borrowers -> {"none", "idle", "check", "connect", "held", "push"}]
    /\ mine \in [Borrowers -> 0..Len(pools)]
    /\ stale \in SUBSET Borrowers
    /\ cleaning \in [on : BOOLEAN, pool : 0..Len(pools)]
    /\ clears \in 0..MaxClears
    /\ draining \in BOOLEAN
    /\ \A g \in 1..Len(pools) : Len(pools[g].idle) <= MaxConnections

PoolInit ==
    /\ pools = <<>>
    /\ current = 0
    /\ task = [b \in Borrowers |-> "none"]
    /\ mine = [b \in Borrowers |-> 0]
    /\ stale = {}
    /\ cleaning = [on |-> FALSE, pool |-> 0]
    /\ clears = 0
    /\ draining = FALSE

Goes(b, where) == task' = [task EXCEPT ![b] = where]
\* Back to no connection: the pool worked on is forgotten.
Ends(b) ==
    /\ Goes(b, "none")
    /\ mine' = [mine EXCEPT ![b] = 0]
    /\ stale' = stale \ {b}

Lent(g) == pools' = [pools EXCEPT ![g].inUse = (@ + 1) % CounterSize]
GivenBack(g) == pools' = [pools EXCEPT ![g].inUse = (@ - 1) % CounterSize]

\* A release holds the map's read guard up to its end, across an await.
Guarded == \E b \in Borrowers : task[b] = "push"

\* acquire: get_or_create_pool
GetPool(b) ==
    /\ task[b] = "none"
    /\ ~Guarded
    /\ IF current = 0
         THEN /\ pools' = Append(pools, [inUse |-> 0, idle |-> <<>>])
              /\ current' = Len(pools) + 1
         ELSE UNCHANGED <<pools, current>>
    /\ mine' = [mine EXCEPT ![b] = current']
    /\ Goes(b, "idle")
    /\ UNCHANGED <<stale, cleaning, clears, draining>>

\* Under the queue's lock: old connections at the front are shut down, the
\* first fresh one is lent.
TryIdle(b) ==
    LET g == mine[b]
        fresh == {i \in DOMAIN pools[g].idle : pools[g].idle[i] = "fresh"}
        first == CHOOSE i \in fresh : \A j \in fresh : i <= j
    IN  /\ task[b] = "idle"
        /\ IF fresh # {}
             THEN /\ pools' = [pools EXCEPT ![g] =
                        [inUse |-> (@.inUse + 1) % CounterSize,
                         idle |-> SubSeq(@.idle, first + 1, Len(@.idle))]]
                  /\ Goes(b, "held")
             ELSE /\ pools' = [pools EXCEPT ![g].idle = <<>>]
                  /\ Goes(b, "check")
        /\ UNCHANGED <<current, mine, stale, cleaning, clears, draining>>

\* PoolExhausted, or on to connect: in_use is only read here.
CheckLimit(b) ==
    /\ task[b] = "check"
    /\ IF pools[mine[b]].inUse >= MaxConnections
         THEN Ends(b)
         ELSE Goes(b, "connect") /\ UNCHANGED <<mine, stale>>
    /\ UNCHANGED <<pools, current, cleaning, clears, draining>>

Connect(b) ==
    /\ task[b] = "connect"
    /\ Lent(mine[b])
    /\ Goes(b, "held")
    /\ UNCHANGED <<current, mine, stale, cleaning, clears, draining>>

\* The connect fails or times out, or the caller is cancelled at an await; a
\* release cancelled while it waits for the queue's lock drops its connection.
GiveUp(b) ==
    /\ task[b] \in {"idle", "connect", "push"}
    /\ Ends(b)
    /\ UNCHANGED <<pools, current, cleaning, clears, draining>>

\* Slip: a connection past its lifetime is closed before it is counted back.
SlipRelease(b) ==
    /\ task[b] = "held"
    /\ IF current = 0 \/ b \in stale
         THEN Ends(b) /\ UNCHANGED pools
         ELSE /\ GivenBack(current)
              /\ Goes(b, "push") /\ mine' = [mine EXCEPT ![b] = current]
              /\ UNCHANGED stale
    /\ UNCHANGED <<current, cleaning, clears, draining>>

\* The pool is looked up by the backend's id: it need not be the one the
\* connection came from.
Release(b) ==
    /\ task[b] = "held"
    /\ IF current = 0
         THEN Ends(b) /\ UNCHANGED pools
         ELSE /\ GivenBack(current)
              /\ IF b \in stale
                   THEN Ends(b)
                   ELSE /\ Goes(b, "push") /\ mine' = [mine EXCEPT ![b] = current]
                        /\ UNCHANGED stale
    /\ UNCHANGED <<current, cleaning, clears, draining>>

\* Slip: one more than the capacity is kept.
SlipPush(b) ==
    /\ task[b] = "push"
    /\ pools' = [pools EXCEPT ![mine[b]].idle =
                   IF Len(@) <= MaxConnections THEN Append(@, "fresh") ELSE @]
    /\ Ends(b)
    /\ UNCHANGED <<current, cleaning, clears, draining>>

Push(b) ==
    /\ task[b] = "push"
    /\ pools' = [pools EXCEPT ![mine[b]].idle =
                   IF Len(@) < MaxConnections THEN Append(@, "fresh") ELSE @]
    /\ Ends(b)
    /\ UNCHANGED <<current, cleaning, clears, draining>>

Discard(b) ==
    /\ task[b] = "held"
    /\ IF current = 0 THEN UNCHANGED pools ELSE GivenBack(current)
    /\ Ends(b)
    /\ UNCHANGED <<current, cleaning, clears, draining>>

\* Time: a lent or an idle connection gets too old.
GrowOld ==
    /\ \/ /\ \E b \in Borrowers : task[b] = "held" /\ stale' = stale \cup {b}
          /\ UNCHANGED pools
       \/ /\ \E g \in 1..Len(pools) : \E i \in DOMAIN pools[g].idle :
                pools' = [pools EXCEPT ![g].idle[i] = "old"]
          /\ UNCHANGED stale
    /\ UNCHANGED <<current, task, mine, cleaning, clears, draining>>

\* The task works on a copy of the map: a pool made later is not in it.
StartCleanup ==
    /\ ~cleaning.on
    /\ cleaning' = [on |-> TRUE, pool |-> current]
    /\ UNCHANGED <<pools, current, task, mine, stale, clears, draining>>

Cleanup ==
    /\ cleaning.pool # 0
    /\ pools' = [pools EXCEPT ![cleaning.pool].idle =
                   Retained(@, {"fresh"})]
    /\ UNCHANGED <<current, task, mine, stale, cleaning, clears, draining>>

\* clear: the idle connections are shut down one by one, then the map is
\* emptied; borrowed ones are not looked at.
ClearDrains ==
    /\ clears < MaxClears
    /\ ~draining
    /\ clears' = clears + 1
    /\ draining' = TRUE
    /\ pools' = IF current = 0 THEN pools ELSE [pools EXCEPT ![current].idle = <<>>]
    /\ UNCHANGED <<current, task, mine, stale, cleaning>>

ClearDrops ==
    /\ draining
    /\ ~Guarded
    /\ draining' = FALSE
    /\ current' = 0
    /\ UNCHANGED <<pools, task, mine, stale, cleaning, clears>>

PoolNext ==
    \/ \E b \in Borrowers :
          \/ GetPool(b) \/ TryIdle(b) \/ CheckLimit(b) \/ Connect(b) \/ GiveUp(b)
          \/ Release(b) \/ Push(b) \/ Discard(b)
    \/ GrowOld \/ StartCleanup \/ Cleanup \/ ClearDrains \/ ClearDrops

PoolSpec == PoolInit /\ [][PoolNext]_poolVars

----------------------------------------------------------------------------
\* While the pools are not cleared, in_use is the number of connections lent:
\* none is counted back twice or not at all on any path of release, discard, a
\* failed connect or a cancelled call, so acquire refuses for exhaustion only
\* when MaxConnections really are out (connection_pool.rs:154, :183-216).
InUseIsExact ==
    clears = 0 =>
       \A g \in 1..Len(pools) :
          pools[g].inUse = Cardinality({b \in Borrowers : task[b] = "held" /\ mine[b] = g})
============================================================================
