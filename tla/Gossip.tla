------------------------------- MODULE Gossip -------------------------------
(***************************************************************************)
(* Cluster membership and failure detection (gossip.rs): every node runs   *)
(* one loop that answers datagrams, pings the members it takes for alive   *)
(* and declares dead the ones it has not heard from for too long.  A node  *)
(* announces itself once, when it starts, to its bootstrap peers.          *)
(*                                                                         *)
(* The loop handles a datagram or a timer to the end before it takes the   *)
(* next one, and nobody else writes the member table, so each handler is   *)
(* one action.  Time passes in periods of at most a gossip_interval, in    *)
(* which every datagram arrives or gets lost.  In a period a node pings at *)
(* most one member, any one that it takes for alive: the code picks at     *)
(* random, and a member that is never picked goes on ageing.  One that has *)
(* not been heard from for more than Timeout periods is dead at the next   *)
(* check.  What is done with a message is in Membership.                   *)
(***************************************************************************)
EXTENDS Membership, FiniteSets

CONSTANTS
    Nodes,
    Boot,         \* Nodes -> bootstrap_peers
    Ordered,      \* BOOLEAN: a node is started once its bootstrap peers run
    BindAny,      \* BOOLEAN: gossip_addr is 0.0.0.0:4001, its default
    Timeout,      \* the 30 seconds after which a silent member is dead
    EventCap,     \* capacity of the GossipEvent channel (1024)
    MaxCrashes,   \* Nodes -> bound on how often the process ends
    MaxCuts,      \* bound on nodes that lose their network
    MaxLosses     \* bound on datagrams lost otherwise

ASSUME NodesFinite == IsFiniteSet(Nodes)
ASSUME BootType == Boot \in [Nodes -> SUBSET Nodes]
ASSUME BindAnyType == BindAny \in BOOLEAN
ASSUME TimeoutType == Timeout \in Nat \ {0}
ASSUME BoundsType ==
    EventCap \in Nat /\ MaxCrashes \in [Nodes -> Nat] /\ MaxCuts \in Nat /\ MaxLosses \in Nat
ASSUME AnywhereIsNoNode == "0.0.0.0" \notin Nodes

VARIABLES
    up,         \* the process runs
    members,    \* the member table of a node; ages stop past Timeout
    events,     \* events offered to the channel, which nobody reads
    pinged,     \* the member picked for a ping in this period, if any
    inflight,   \* datagrams on their way
    cut,        \* nodes without network
    crashes, cuts, losses,
    \* history, not read by the code
    fell,       \* nodes that have been without a process or a network since they started
    missed,     \* pings to a member, of periods that are over, since it was last heard from; stops past MaxLosses
    overlooked  \* somebody was declared dead who had not been pinged since then

tables == <<members, events>>
faults == <<crashes, cuts, losses>>
history == <<fell, missed, overlooked>>
vars == <<up, members, events, pinged, inflight, cut, faults, history>>

\* A node announces the address it is bound to.  The incarnation stays zero.
Address(n) == IF BindAny THEN "0.0.0.0" ELSE n
Self(n) == [id |-> n, addr |-> Address(n), incarnation |-> 0]

Addresses == {Address(n) : n \in Nodes}
Listed == [addr : Addresses, incarnation : {0}]
Entry == [addr : Addresses, incarnation : {0}, state : {"alive", "dead"}, age : 0..Timeout + 1]
IsMessage(msg) ==
    \/ msg \in [type : {"ping", "ack"}, id : Nodes, addr : Addresses, incarnation : {0}]
    \/ msg \in [type : {"join"}, id : Nodes, addr : Addresses]
    \/ /\ DOMAIN msg = {"type", "members"} /\ msg.type = "list"
       /\ DOMAIN msg.members \subseteq Nodes
       /\ \A m \in DOMAIN msg.members : msg.members[m] \in Listed

TypeOK ==
    /\ up \in [Nodes -> BOOLEAN]
    /\ DOMAIN members = Nodes
    /\ \A n \in Nodes : /\ DOMAIN members[n] \subseteq Nodes
                        /\ \A m \in DOMAIN members[n] : members[n][m] \in Entry
    /\ events \in [Nodes -> 0..EventCap + 1]
    /\ pinged \in [Nodes -> SUBSET Nodes]
    /\ \A d \in inflight : d.from \in Nodes /\ d.to \in Nodes /\ IsMessage(d.msg)
    /\ cut \subseteq Nodes
    /\ crashes \in [Nodes -> Nat] /\ cuts \in 0..MaxCuts /\ losses \in 0..MaxLosses
    /\ fell \subseteq Nodes
    /\ missed \in [Nodes -> [Nodes -> 0..MaxLosses + 1]] /\ overlooked \in BOOLEAN
    /\ ~BindAny => \A n \in Nodes : n \notin DOMAIN members[n]

NoMembers == [m \in {} |-> Seen("0.0.0.0", 0)]

Init ==
    /\ up = [n \in Nodes |-> FALSE]
    /\ members = [n \in Nodes |-> NoMembers]
    /\ events = [n \in Nodes |-> 0]
    /\ pinged = [n \in Nodes |-> {}]
    /\ inflight = {}
    /\ cut = {}
    /\ crashes = [n \in Nodes |-> 0] /\ cuts = 0 /\ losses = 0
    /\ fell = {}
    /\ missed = [n \in Nodes |-> [m \in Nodes |-> 0]] /\ overlooked = FALSE

-----------------------------------------------------------------------------
\* event_tx.send waits when the channel is full.  As nobody reads it, an event
\* beyond the capacity stops the loop for good.
Running(n) == up[n] /\ events[n] <= EventCap

\* Saturating addition.
Plus(a, b, max) == IF a + b > max THEN max ELSE a + b

Emit(n, k) == events' = [events EXCEPT ![n] = Plus(@, k, EventCap + 1)]

\* Where a datagram to an announced address goes: 0.0.0.0 is the sender's own
\* host.
Target(n, addr) == IF addr = "0.0.0.0" THEN n ELSE addr

Reachable(a, b) == Running(b) /\ (a = b \/ (a \notin cut /\ b \notin cut))

\* A process starts with an empty table and sends one Join to each peer.
Start(n) ==
    /\ ~up[n]
    /\ Ordered => \A b \in Boot[n] : Running(b)
    /\ up' = [up EXCEPT ![n] = TRUE]
    /\ inflight' = inflight \cup
          {[from |-> n, to |-> b, msg |-> CreateJoin(n, Address(n))] : b \in Boot[n]}
    /\ UNCHANGED <<tables, pinged, cut, faults, history>>

SendPing(n, m) ==
    inflight' = inflight \cup
      {[from |-> n, to |-> Target(n, members[n][m].addr), msg |-> CreatePing(n, Address(n), 0)]}

\* Slip: a member counts as seen when it is pinged.
SlipPing(n, m) ==
    /\ Running(n)
    /\ pinged[n] = {}
    /\ m \in Alive(members[n])
    /\ pinged' = [pinged EXCEPT ![n] = {m}]
    /\ SendPing(n, m)
    /\ members' = [members EXCEPT ![n][m].age = 0]
    /\ UNCHANGED <<up, events, cut, faults, history>>

\* The gossip timer: a ping to one of the members taken for alive, whichever
\* the random number says.
Ping(n, m) ==
    /\ Running(n)
    /\ pinged[n] = {}
    /\ m \in Alive(members[n])
    /\ pinged' = [pinged EXCEPT ![n] = {m}]
    /\ SendPing(n, m)
    /\ UNCHANGED <<up, tables, cut, faults, history>>

Arrives(d) == d \in inflight /\ Reachable(d.from, d.to)

\* handle_message: the table, the answers to where the datagram came from, and
\* an event for each new member.
Handle(d) ==
    LET n == d.to
        result == ProcessMessage(d.msg, members[n], Self(n))
    IN  /\ Arrives(d)
        /\ members' = [members EXCEPT ![n] = result.members]
        /\ inflight' = (inflight \ {d}) \cup
              {[from |-> n, to |-> d.from, msg |-> a] : a \in result.answers}
        /\ Emit(n, Cardinality(result.joined))
        /\ UNCHANGED <<up, pinged, cut, faults, history>>

\* The failure timer: two events for each member that is declared dead.
FailureTimer(n) ==
    /\ Running(n)
    /\ Overdue(members[n], Timeout) # {}
    /\ members' = [members EXCEPT ![n] = CheckMemberFailures(@, Timeout)]
    /\ Emit(n, 2 * Cardinality(Overdue(members[n], Timeout)))
    /\ overlooked' = (overlooked \/ \E m \in Overdue(members[n], Timeout) : missed[n][m] = 0)
    /\ UNCHANGED <<up, pinged, inflight, cut, faults, fell, missed>>

-----------------------------------------------------------------------------
\* The process dies or is stopped: the loop ends, the table goes, and nobody
\* is told.
Crash(n) ==
    /\ up[n]
    /\ crashes[n] < MaxCrashes[n]
    /\ crashes' = [crashes EXCEPT ![n] = @ + 1]
    /\ up' = [up EXCEPT ![n] = FALSE]
    /\ members' = [members EXCEPT ![n] = NoMembers]
    /\ events' = [events EXCEPT ![n] = 0]
    /\ pinged' = [pinged EXCEPT ![n] = {}]
    /\ fell' = fell \cup {n}
    /\ UNCHANGED <<inflight, cut, cuts, losses, missed, overlooked>>

Cut(n) ==
    /\ cuts < MaxCuts
    /\ n \notin cut
    /\ cuts' = cuts + 1
    /\ cut' = cut \cup {n}
    /\ fell' = fell \cup {n}
    /\ UNCHANGED <<up, tables, pinged, inflight, crashes, losses, missed, overlooked>>

Heal(n) ==
    /\ n \in cut
    /\ cut' = cut \ {n}
    /\ UNCHANGED <<up, tables, pinged, inflight, faults, history>>

Lose(d) ==
    /\ losses < MaxLosses
    /\ losses' = losses + 1
    /\ inflight' = inflight \ {d}
    /\ UNCHANGED <<up, tables, pinged, cut, crashes, cuts, history>>

\* How many pings to m have been without any word from it: age zero means
\* that n has heard from m in this period.
Missed(n, m) ==
    IF m \in Alive(members[n]) /\ members[n][m].age > 0
    THEN Plus(missed[n][m], Cardinality(pinged[n] \cap {m}), MaxLosses + 1)
    ELSE 0

\* All datagrams that can arrive have been handled.
Quiet == \A d \in inflight : ~Arrives(d)

\* A period ends: what could arrive has, and what could not is lost.  Nobody
\* need have pinged anybody.
Tick ==
    /\ Quiet
    /\ inflight' = {}
    /\ pinged' = [n \in Nodes |-> {}]
    /\ members' = [n \in Nodes |-> [m \in DOMAIN members[n] |->
          [members[n][m] EXCEPT !.age = Plus(@, 1, Timeout + 1)]]]
    /\ missed' = [n \in Nodes |-> [m \in Nodes |-> Missed(n, m)]]
    /\ UNCHANGED <<up, events, cut, faults, fell, overlooked>>

Next ==
    \/ \E n \in Nodes :
          \/ Start(n) \/ FailureTimer(n) \/ Crash(n) \/ Cut(n) \/ Heal(n)
          \/ \E m \in Nodes : Ping(n, m)
    \/ \E d \in inflight : Handle(d) \/ Lose(d)
    \/ Tick

Spec == Init /\ [][Next]_vars

\* The loops take what has arrived, time passes, and the failure timer fires.
\* Nothing is assumed of the pings: what they need is in the properties.
Fairness ==
    /\ []<>Quiet
    /\ WF_vars(Tick)
    /\ WF_vars(\E n \in Nodes : FailureTimer(n))

FairSpec == Spec /\ Fairness

-----------------------------------------------------------------------------
(* Properties. *)

\* No false alarm, but for bad luck in the choice of members: a node is
\* declared dead only if it, or the node declaring it, has been without a
\* process or a network, or if for every ping it was sent since it was last heard from
\* a datagram has been lost (gossip.rs:508-559).  One that was sent none may be
\* declared dead though all is well: the timer pings one random member at a
\* time, while the 30 seconds run for all of them.
DeathIsReal ==
    [][\A n \in Nodes : \A m \in Alive(members[n]) :
          m \in DOMAIN members'[n] /\ members'[n][m].state = "dead" =>
             n \in fell \/ m \in fell \/ ~Running(m) \/ losses >= missed[n][m]]_vars

\* A node that is gone for good is in time, and for good, no longer taken for
\* alive by anybody whose loop is not stuck on its full event channel, although
\* every joining node is told of it anew (gossip.rs:241-249).
DeadAreForgotten ==
    \A m \in Nodes :
       (<>[]~up[m]) => <>[](\A n \in Nodes : Running(n) => m \notin Alive(members[n]))

\* Where nothing fails and nodes are started after their bootstrap peers, all
\* nodes come to take each other for alive and stay so, although the peer that
\* answers a Join does not list itself (mod.rs:16: "Nodes discover each other
\* via gossip protocol on port 4001"), unless the random picks pass over a
\* member for so long that it is declared dead without having been asked.
MeshForms ==
    (<>[]((\A n \in Nodes : up[n]) /\ fell = {} /\ losses = 0 /\ ~overlooked))
       => <>[](\A n \in Nodes : Nodes \ {n} \subseteq Alive(members[n]))
=============================================================================
