--------------------------- MODULE GossipProofs -----------------------------
(***************************************************************************)
(* Proofs about Gossip, for every finite set of nodes, every timeout and   *)
(* number of losses, cuts and crashes. Types need to know that addresses   *)
(* in tables and messages are those their nodes announce. That a death has *)
(* a cause needs an account of every ping to a silent member: the ping or  *)
(* its answer was lost, or is still on its way.                            *)
(***************************************************************************)
EXTENDS Gossip, FiniteSetTheorems, TLAPS

\* The nodes a message names.
Names(msg) == IF msg.type = "list" THEN DOMAIN msg.members ELSE {msg.id}

\* A table, and a message, gives everybody the address they announce.
IsTable(t) ==
    /\ DOMAIN t \subseteq Nodes
    /\ \A m \in DOMAIN t : t[m] \in Entry /\ t[m].addr = Address(m)
IsSound(msg) ==
    /\ IsMessage(msg)
    /\ msg.type # "list" => msg.addr = Address(msg.id)
    /\ msg.type = "list" => \A m \in DOMAIN msg.members : msg.members[m].addr = Address(m)

\* The entry of one who was just heard of.
Fresh(m) == Seen(Address(m), 0)

\* It is an entry of the table.
LEMMA FreshIsEntry ==
    ASSUME NEW m \in Nodes
    PROVE  /\ Fresh(m) \in Entry /\ Fresh(m).addr = Address(m)
           /\ Fresh(m).state = "alive" /\ Fresh(m).age = 0
<1>1. 0 \in 0..Timeout + 1 /\ Address(m) \in Addresses
  BY TimeoutType DEF Addresses
<1> QED BY <1>1 DEF Fresh, Seen, Entry

\* The four kinds of messages.
LEMMA MessageKinds ==
    ASSUME NEW msg, IsSound(msg)
    PROVE  /\ msg.type \in {"ping", "ack", "join", "list"}
           /\ msg.type # "list" => msg.id \in Nodes /\ msg.addr = Address(msg.id)
           /\ msg.type \in {"ping", "ack"} => msg.incarnation = 0
           /\ msg.type = "list" => /\ DOMAIN msg.members \subseteq Nodes
                                   /\ \A m \in DOMAIN msg.members :
                                        msg.members[m] \in Listed /\ msg.members[m].addr = Address(m)
           /\ Names(msg) \subseteq Nodes
BY DEF IsSound, IsMessage, Names

\* Messages as the senders make them.
LEMMA PingIsSound ==
    ASSUME NEW n \in Nodes
    PROVE  LET p == CreatePing(n, Address(n), 0) IN
           IsSound(p) /\ Names(p) = {n} /\ p.type = "ping" /\ p.id = n
BY DEF CreatePing, IsSound, IsMessage, Names, Addresses

\* So is an ack,
LEMMA AckIsSound ==
    ASSUME NEW n \in Nodes
    PROVE  LET p == CreateAck(n, Address(n), 0) IN
           IsSound(p) /\ Names(p) = {n} /\ p.type = "ack" /\ p.id = n
BY DEF CreateAck, IsSound, IsMessage, Names, Addresses

\* a join,
LEMMA JoinIsSound ==
    ASSUME NEW n \in Nodes
    PROVE  LET p == CreateJoin(n, Address(n)) IN
           IsSound(p) /\ Names(p) = {n} /\ p.type = "join" /\ p.id = n
BY DEF CreateJoin, IsSound, IsMessage, Names, Addresses

\* and the list of a table.
LEMMA ListIsSound ==
    ASSUME NEW t, IsTable(t)
    PROVE  LET p == MemberList([m \in DOMAIN t |->
                       [addr |-> t[m].addr, incarnation |-> t[m].incarnation]])
           IN  IsSound(p) /\ Names(p) = DOMAIN t /\ p.type = "list"
<1> DEFINE l == [m \in DOMAIN t |-> [addr |-> t[m].addr, incarnation |-> t[m].incarnation]]
<1>1. DOMAIN l = DOMAIN t /\ DOMAIN t \subseteq Nodes
  BY DEF IsTable
<1>2. \A m \in DOMAIN l : l[m] \in Listed /\ l[m].addr = Address(m)
  BY DEF IsTable, Entry, Listed
<1> HIDE DEF l
<1>3. /\ MemberList(l).type = "list" /\ MemberList(l).members = l
      /\ DOMAIN MemberList(l) = {"type", "members"}
  BY DEF MemberList
<1>4. IsSound(MemberList(l)) /\ Names(MemberList(l)) = DOMAIN l
  BY <1>1, <1>2, <1>3 DEF IsSound, IsMessage, Names
<1> QED BY <1>1, <1>3, <1>4 DEF l

\* What insert leaves.
LEMMA InsertIsTable ==
    ASSUME NEW t, NEW e, IsTable(t), IsTable(e)
    PROVE  /\ IsTable(Insert(t, e))
           /\ DOMAIN Insert(t, e) = DOMAIN t \cup DOMAIN e
           /\ \A m \in DOMAIN e : Insert(t, e)[m] = e[m]
           /\ \A m \in DOMAIN t \ DOMAIN e : Insert(t, e)[m] = t[m]
BY DEF Insert, IsTable

\* Entries made of a message.
Heard(S) == [m \in S |-> Fresh(m)]

\* They make a table.
LEMMA HeardIsTable ==
    ASSUME NEW S \in SUBSET Nodes
    PROVE  IsTable(Heard(S)) /\ DOMAIN Heard(S) = S /\ \A m \in S : Heard(S)[m] = Fresh(m)
BY FreshIsEntry DEF Heard, IsTable

\* Whom n enters on a message.
HeardOf(msg, n) == IF msg.type = "list" THEN Names(msg) \ {n} ELSE Names(msg)

\* What every message comes to: some of those it names are entered as just
\* seen, and an answer names nobody new but oneself.
LEMMA MessageOutcome ==
    ASSUME NEW n \in Nodes, NEW msg, IsSound(msg), NEW t, IsTable(t)
    PROVE  LET r == ProcessMessage(msg, t, Self(n)) IN
           /\ r.members = Insert(t, Heard(HeardOf(msg, n)))
           /\ r.joined = HeardOf(msg, n) \ DOMAIN t
           /\ \A a \in r.answers : /\ IsSound(a)
                                   /\ Names(a) \subseteq DOMAIN t \cup Names(msg) \cup {n}
                                   /\ a.type # "list" => a.id = n
           /\ msg.type = "ping" => CreateAck(n, Address(n), 0) \in r.answers
<1> DEFINE S == HeardOf(msg, n)
           Good(a) == /\ IsSound(a)
                      /\ Names(a) \subseteq DOMAIN t \cup Names(msg) \cup {n}
                      /\ a.type # "list" => a.id = n
<1>0. Self(n).id = n /\ Self(n).addr = Address(n) /\ Self(n).incarnation = 0
  BY DEF Self
<1>1. S \in SUBSET Nodes /\ DOMAIN Heard(S) = S /\ IsTable(Heard(S))
  BY MessageKinds, HeardIsTable DEF HeardOf
<1>2. ASSUME NEW A, ProcessMessage(msg, t, Self(n)) = Outcome(t, Heard(S), A),
             \A a \in A : Good(a), msg.type = "ping" => CreateAck(n, Address(n), 0) \in A
      PROVE  LET r == ProcessMessage(msg, t, Self(n)) IN
             /\ r.members = Insert(t, Heard(S))
             /\ r.joined = S \ DOMAIN t
             /\ \A a \in r.answers : Good(a)
             /\ msg.type = "ping" => CreateAck(n, Address(n), 0) \in r.answers
  <2> DEFINE r == ProcessMessage(msg, t, Self(n))
  <2>1. r.members = Insert(t, Heard(S)) /\ r.joined = DOMAIN Heard(S) \ DOMAIN t /\ r.answers = A
    BY <1>2 DEF Outcome
  <2> HIDE DEF r, S, Good
  <2> QED BY <1>1, <1>2, <2>1 DEF r
<1>3. CASE msg.type \in {"ping", "ack"}
  <2>1. S = {msg.id} /\ Seen(msg.addr, msg.incarnation) = Fresh(msg.id)
    BY <1>3, MessageKinds DEF HeardOf, Names, Fresh
  <2>2. Heard(S) = [m \in {msg.id} |-> Seen(msg.addr, msg.incarnation)]
    BY <2>1 DEF Heard
  <2>3. CASE msg.type = "ping"
    <3> DEFINE A == {CreateAck(n, Address(n), 0)}
    <3>1. ProcessMessage(msg, t, Self(n)) = Outcome(t, Heard(S), A)
      BY <1>0, <2>2, <2>3 DEF ProcessMessage, HandlePing
    <3>2. \A a \in A : Good(a)
      BY AckIsSound
    <3> HIDE DEF A, Good, S
    <3>3. CreateAck(n, Address(n), 0) \in A
      BY DEF A
    <3> QED BY <1>2, <3>1, <3>2, <3>3 DEF Good, S
  <2>4. CASE msg.type = "ack"
    <3>1. ProcessMessage(msg, t, Self(n)) = Outcome(t, Heard(S), {})
      BY <2>2, <2>4 DEF ProcessMessage, HandleAck
    <3> HIDE DEF Good, S
    <3> QED BY <1>2, <2>4, <3>1 DEF Good, S
  <2> QED BY <1>3, <2>3, <2>4
<1>4. CASE msg.type = "join"
  <2>1. S = {msg.id} /\ Seen(msg.addr, 0) = Fresh(msg.id)
    BY <1>4, MessageKinds DEF HeardOf, Names, Fresh
  <2>2. Heard(S) = [m \in {msg.id} |-> Seen(msg.addr, 0)]
    BY <2>1 DEF Heard
  <2> DEFINE u == Insert(t, Heard(S))
             A == {MemberList([m \in DOMAIN u |->
                      [addr |-> u[m].addr, incarnation |-> u[m].incarnation]])}
  <2>3. ProcessMessage(msg, t, Self(n)) = Outcome(t, Heard(S), A)
    BY <1>4, <2>2 DEF ProcessMessage, HandleJoin
  <2>4. IsTable(u) /\ DOMAIN u = DOMAIN t \cup S
    BY <1>1, InsertIsTable
  <2> HIDE DEF u
  <2>5. \A a \in A : IsSound(a) /\ Names(a) = DOMAIN u /\ a.type = "list"
    BY <2>4, ListIsSound
  <2>6. Names(msg) = S
    BY <1>4 DEF HeardOf
  <2> HIDE DEF S
  <2>7. \A a \in A : Good(a)
    BY <2>4, <2>5, <2>6
  <2> HIDE DEF A, Good
  <2> QED BY <1>2, <1>4, <2>3, <2>7 DEF Good, S
<1>5. CASE msg.type = "list"
  <2>1. S = DOMAIN msg.members \ {n}
    BY <1>5 DEF HeardOf, Names
  <2>2. \A m \in S : Seen(msg.members[m].addr, msg.members[m].incarnation) = Fresh(m)
    BY <1>5, <2>1, MessageKinds DEF Fresh, Listed
  <2>3. Heard(S) = [m \in DOMAIN msg.members \ {n} |->
                      Seen(msg.members[m].addr, msg.members[m].incarnation)]
    BY <2>1, <2>2 DEF Heard
  <2>4. ProcessMessage(msg, t, Self(n)) = Outcome(t, Heard(S), {})
    BY <1>0, <1>5, <2>3 DEF ProcessMessage, HandleMemberList
  <2> HIDE DEF Good, S
  <2> QED BY <1>2, <1>5, <2>4 DEF Good, S
<1> QED BY <1>3, <1>4, <1>5, MessageKinds

-----------------------------------------------------------------------------
\* The state, with every address that of its owner, and with the nodes that
\* are cut off among those that fell.
GossipShape ==
    /\ up \in [Nodes -> BOOLEAN]
    /\ DOMAIN members = Nodes
    /\ \A n \in Nodes : IsTable(members[n])
    /\ events \in [Nodes -> 0..EventCap + 1]
    /\ pinged \in [Nodes -> SUBSET Nodes]
    /\ \A d \in inflight : d.from \in Nodes /\ d.to \in Nodes /\ IsSound(d.msg)
    /\ cut \subseteq fell
    /\ crashes \in [Nodes -> Nat] /\ cuts \in 0..MaxCuts /\ losses \in 0..MaxLosses
    /\ fell \subseteq Nodes
    /\ missed \in [Nodes -> [Nodes -> 0..MaxLosses + 1]] /\ overlooked \in BOOLEAN

\* Adding to the events, up to the one too many.
LEMMA PlusType ==
    ASSUME NEW a \in 0..EventCap + 1, NEW k \in Nat
    PROVE  Plus(a, k, EventCap + 1) \in 0..EventCap + 1 /\ Plus(a, k, EventCap + 1) >= a
BY BoundsType DEF Plus

\* Emitting events only adds to them (gossip.rs:568-589).
LEMMA EmitType ==
    ASSUME GossipShape, NEW n \in Nodes, NEW k \in Nat, Emit(n, k)
    PROVE  /\ events' \in [Nodes -> 0..EventCap + 1]
           /\ \A x \in Nodes : events'[x] >= events[x]
<1>1. events \in [Nodes -> 0..EventCap + 1]
  BY DEF GossipShape
<1>2. PICK p : p = Plus(events[n], k, EventCap + 1) OBVIOUS
<1>3. p \in 0..EventCap + 1 /\ p >= events[n]
  BY <1>1, <1>2, PlusType
<1>4. events' = [events EXCEPT ![n] = p]
  BY <1>2 DEF Emit
<1>5. \A x \in Nodes : events[x] \in Int
  BY <1>1, BoundsType
<1> QED BY <1>1, <1>3, <1>4, <1>5

\* Sets of nodes have a size.
LEMMA FiniteCount ==
    ASSUME NEW S \in SUBSET Nodes
    PROVE  IsFiniteSet(S) /\ Cardinality(S) \in Nat /\ 2 * Cardinality(S) \in Nat
<1>1. IsFiniteSet(S) /\ Cardinality(S) \in Nat
  BY NodesFinite, FS_Subset, FS_CardinalityType
<1> QED BY <1>1

\* What handling a datagram changes: the receiver has just heard of those
\* named, and answers (gossip.rs:591-623).
LEMMA HandleEffect ==
    ASSUME GossipShape, NEW d \in inflight, Handle(d)
    PROVE  LET k == d.to
               S == HeardOf(d.msg, k)
           IN
           /\ k \in Nodes /\ Running(k) /\ S \subseteq Names(d.msg) /\ S \subseteq Nodes
           /\ DOMAIN members' = Nodes /\ IsTable(members'[k])
           /\ DOMAIN members'[k] = DOMAIN members[k] \cup S
           /\ \A m \in S : members'[k][m] = Fresh(m)
           /\ \A m \in DOMAIN members[k] \ S : members'[k][m] = members[k][m]
           /\ \A x \in Nodes \ {k} : members'[x] = members[x]
           /\ \A e \in inflight' : e \in inflight \/
                /\ e.from = k /\ e.to = d.from /\ IsSound(e.msg)
                /\ Names(e.msg) \subseteq DOMAIN members[k] \cup Names(d.msg) \cup {k}
                /\ e.msg.type # "list" => e.msg.id = k
           /\ inflight \ {d} \subseteq inflight'
           /\ d.msg.type = "ping" =>
                [from |-> k, to |-> d.from, msg |-> CreateAck(k, Address(k), 0)] \in inflight'
           /\ events' \in [Nodes -> 0..EventCap + 1]
           /\ \A x \in Nodes : events'[x] >= events[x]
           /\ UNCHANGED <<up, pinged, cut, faults, history>>
<1>1. PICK k \in Nodes : k = d.to
  BY DEF GossipShape
<1>2. PICK msg : msg = d.msg OBVIOUS
<1>3. PICK t : t = members[k] OBVIOUS
<1>4. PICK r : r = ProcessMessage(msg, t, Self(k)) OBVIOUS
<1> DEFINE S == HeardOf(msg, k)
           Answer(a) == [from |-> k, to |-> d.from, msg |-> a]
<1>5. IsSound(msg) /\ IsTable(t) /\ DOMAIN members = Nodes
  BY <1>1, <1>2, <1>3 DEF GossipShape
<1>6. /\ r.members = Insert(t, Heard(S))
      /\ r.joined = S \ DOMAIN t
      /\ \A a \in r.answers : /\ IsSound(a)
                              /\ Names(a) \subseteq DOMAIN t \cup Names(msg) \cup {k}
                              /\ a.type # "list" => a.id = k
      /\ msg.type = "ping" => CreateAck(k, Address(k), 0) \in r.answers
  BY <1>4, <1>5, MessageOutcome
<1>7. /\ Running(k) /\ members' = [members EXCEPT ![k] = r.members]
      /\ inflight' = (inflight \ {d}) \cup {Answer(a) : a \in r.answers}
      /\ Emit(k, Cardinality(r.joined))
      /\ UNCHANGED <<up, pinged, cut, faults, history>>
  BY <1>1, <1>2, <1>3, <1>4 DEF Handle, Arrives, Reachable
<1>8. S \subseteq Names(msg) /\ S \subseteq Nodes
  BY <1>5, MessageKinds DEF HeardOf
<1> HIDE DEF S
<1>9. IsTable(Heard(S)) /\ DOMAIN Heard(S) = S /\ \A m \in S : Heard(S)[m] = Fresh(m)
  BY <1>8, HeardIsTable
<1>10. /\ IsTable(r.members) /\ DOMAIN r.members = DOMAIN t \cup S
       /\ \A m \in S : r.members[m] = Fresh(m)
       /\ \A m \in DOMAIN t \ S : r.members[m] = t[m]
  <2>1. PICK h : h = Heard(S) OBVIOUS
  <2>2. DOMAIN h = S /\ r.members = Insert(t, h) /\ \A m \in S : h[m] = Fresh(m)
    BY <1>6, <1>9, <2>1
  <2>3. IsTable(h)
    BY <1>9, <2>1
  <2>4. /\ IsTable(Insert(t, h)) /\ DOMAIN Insert(t, h) = DOMAIN t \cup DOMAIN h
        /\ \A m \in DOMAIN h : Insert(t, h)[m] = h[m]
        /\ \A m \in DOMAIN t \ DOMAIN h : Insert(t, h)[m] = t[m]
    BY <1>5, <2>3, InsertIsTable
  <2> QED BY <2>2, <2>4
<1>11. /\ DOMAIN members' = Nodes /\ members'[k] = r.members
       /\ \A x \in Nodes \ {k} : members'[x] = members[x]
  BY <1>5, <1>7
<1>12. /\ events' \in [Nodes -> 0..EventCap + 1]
       /\ \A x \in Nodes : events'[x] >= events[x]
  <2>1. Cardinality(r.joined) \in Nat
    BY <1>6, <1>8, FiniteCount
  <2> QED BY <1>7, <2>1, EmitType
<1>13. \A e \in inflight' : e \in inflight \/
         /\ e.from = k /\ e.to = d.from /\ IsSound(e.msg)
         /\ Names(e.msg) \subseteq DOMAIN t \cup Names(msg) \cup {k}
         /\ e.msg.type # "list" => e.msg.id = k
  <2> SUFFICES ASSUME NEW e \in inflight', e \notin inflight
               PROVE  /\ e.from = k /\ e.to = d.from /\ IsSound(e.msg)
                      /\ Names(e.msg) \subseteq DOMAIN t \cup Names(msg) \cup {k}
                      /\ e.msg.type # "list" => e.msg.id = k
    OBVIOUS
  <2>1. PICK a \in r.answers : e = Answer(a)
    BY <1>7
  <2>2. e.from = k /\ e.to = d.from /\ e.msg = a
    BY <2>1
  <2> QED BY <1>6, <2>2
<1>14. inflight \ {d} \subseteq inflight'
  BY <1>7
<1>15. msg.type = "ping" => Answer(CreateAck(k, Address(k), 0)) \in inflight'
  BY <1>6, <1>7
<1> QED BY <1>1, <1>2, <1>3, <1>7, <1>8, <1>10, <1>11, <1>12, <1>13, <1>14, <1>15 DEF S

\* The failure timer declares the overdue dead, and changes nothing else
\* (gossip.rs:533-560).
LEMMA FailureEffect ==
    ASSUME GossipShape, NEW n \in Nodes, FailureTimer(n)
    PROVE  /\ DOMAIN members' = Nodes /\ IsTable(members'[n])
           /\ DOMAIN members'[n] = DOMAIN members[n]
           /\ \A m \in DOMAIN members[n] :
                /\ members'[n][m].age = members[n][m].age
                /\ m \notin Overdue(members[n], Timeout) => members'[n][m] = members[n][m]
                /\ m \in Overdue(members[n], Timeout) => members'[n][m].state = "dead"
           /\ \A x \in Nodes \ {n} : members'[x] = members[x]
           /\ events' \in [Nodes -> 0..EventCap + 1]
           /\ \A x \in Nodes : events'[x] >= events[x]
           /\ UNCHANGED <<up, pinged, inflight, cut, faults, fell, missed>> /\ overlooked' \in BOOLEAN
<1>1. PICK t : t = members[n] OBVIOUS
<1>2. IsTable(t) /\ DOMAIN members = Nodes
  BY <1>1 DEF GossipShape
<1>3. PICK c : c = CheckMemberFailures(t, Timeout) OBVIOUS
<1>4. /\ DOMAIN c = DOMAIN t
      /\ \A m \in DOMAIN t : c[m] = IF m \in Overdue(t, Timeout) THEN [t[m] EXCEPT !.state = "dead"]
                                    ELSE t[m]
  BY <1>3 DEF CheckMemberFailures
<1>5. \A m \in DOMAIN t : [t[m] EXCEPT !.state = "dead"] \in Entry
                          /\ [t[m] EXCEPT !.state = "dead"].age = t[m].age
                          /\ [t[m] EXCEPT !.state = "dead"].addr = t[m].addr
                          /\ [t[m] EXCEPT !.state = "dead"].state = "dead"
  BY <1>2 DEF IsTable, Entry
<1>6. IsTable(c)
  BY <1>2, <1>4, <1>5 DEF IsTable
<1>7. /\ members' = [members EXCEPT ![n] = c] /\ Emit(n, 2 * Cardinality(Overdue(t, Timeout)))
      /\ UNCHANGED <<up, pinged, inflight, cut, faults, fell, missed>> /\ overlooked' \in BOOLEAN
  BY <1>1, <1>3 DEF FailureTimer
<1>8. 2 * Cardinality(Overdue(t, Timeout)) \in Nat
  <2>1. Overdue(t, Timeout) \in SUBSET Nodes
    BY <1>2 DEF Overdue, Alive, IsTable
  <2> QED BY <2>1, FiniteCount, Zenon
<1>9. /\ DOMAIN members' = Nodes /\ members'[n] = c
      /\ \A x \in Nodes \ {n} : members'[x] = members[x]
  BY <1>2, <1>7
<1>10. /\ events' \in [Nodes -> 0..EventCap + 1]
       /\ \A x \in Nodes : events'[x] >= events[x]
  BY <1>7, <1>8, EmitType
<1>11. \A m \in DOMAIN t :
         /\ c[m].age = t[m].age
         /\ m \notin Overdue(t, Timeout) => c[m] = t[m]
         /\ m \in Overdue(t, Timeout) => c[m].state = "dead"
  BY <1>4, <1>5
<1> QED BY <1>1, <1>4, <1>6, <1>7, <1>9, <1>10, <1>11

\* A ping that was not answered adds at most one to the count, one that was
\* starts it anew.
LEMMA MissedType ==
    ASSUME GossipShape, NEW n \in Nodes, NEW m \in Nodes
    PROVE  /\ missed[n][m] \in Nat /\ Missed(n, m) \in 0..MaxLosses + 1
           /\ Missed(n, m) > 0 => m \in Alive(members[n]) /\ members[n][m].age > 0
           /\ Missed(n, m) <= missed[n][m] + 1
           /\ m \notin pinged[n] => Missed(n, m) <= missed[n][m]
<1>1. missed[n][m] \in 0..MaxLosses + 1 /\ MaxLosses \in Nat
  BY BoundsType DEF GossipShape
<1>2. PICK c : c = Cardinality(pinged[n] \cap {m}) OBVIOUS
<1>3. c \in {0, 1} /\ (m \notin pinged[n] => c = 0)
  <2>1. CASE m \in pinged[n]
    BY <1>2, <2>1, pinged[n] \cap {m} = {m}, FS_Singleton
  <2>2. CASE m \notin pinged[n]
    BY <1>2, <2>2, pinged[n] \cap {m} = {}, FS_EmptySet
  <2> QED BY <2>1, <2>2
<1>4. Plus(missed[n][m], c, MaxLosses + 1) \in 0..MaxLosses + 1
      /\ Plus(missed[n][m], c, MaxLosses + 1) <= missed[n][m] + c
  BY <1>1, <1>3 DEF Plus
<1>5. Missed(n, m) = IF m \in Alive(members[n]) /\ members[n][m].age > 0
                     THEN Plus(missed[n][m], c, MaxLosses + 1) ELSE 0
  BY <1>2 DEF Missed
<1> QED BY <1>1, <1>3, <1>4, <1>5

\* A period passes: entries age, and what was not delivered is not delivered
\* later.
LEMMA TickEffect ==
    ASSUME GossipShape, Tick
    PROVE  /\ DOMAIN members' = Nodes
           /\ \A n \in Nodes :
                /\ IsTable(members'[n]) /\ DOMAIN members'[n] = DOMAIN members[n]
                /\ \A m \in DOMAIN members[n] :
                     /\ members'[n][m].state = members[n][m].state
                     /\ members[n][m].age \in Nat /\ members'[n][m].age \in Nat
                     /\ members'[n][m].age <= members[n][m].age + 1
           /\ inflight' = {} /\ pinged' = [n \in Nodes |-> {}]
           /\ missed' = [n \in Nodes |-> [m \in Nodes |-> Missed(n, m)]]
           /\ missed' \in [Nodes -> [Nodes -> 0..MaxLosses + 1]]
           /\ UNCHANGED <<up, events, cut, faults, fell, overlooked>>
<1>1. /\ members' = [n \in Nodes |-> [m \in DOMAIN members[n] |->
                       [members[n][m] EXCEPT !.age = Plus(@, 1, Timeout + 1)]]]
      /\ inflight' = {} /\ pinged' = [n \in Nodes |-> {}]
      /\ missed' = [n \in Nodes |-> [m \in Nodes |-> Missed(n, m)]]
      /\ UNCHANGED <<up, events, cut, faults, fell, overlooked>>
  BY DEF Tick
<1>2. \A e \in Entry : LET f == [e EXCEPT !.age = Plus(@, 1, Timeout + 1)] IN
         /\ f \in Entry /\ f.addr = e.addr /\ f.state = e.state
         /\ e.age \in Nat /\ f.age \in Nat /\ f.age <= e.age + 1
  BY TimeoutType DEF Entry, Plus
<1>3. ASSUME NEW n \in Nodes
      PROVE  /\ IsTable(members'[n]) /\ DOMAIN members'[n] = DOMAIN members[n]
             /\ \A m \in DOMAIN members[n] :
                  /\ members'[n][m].state = members[n][m].state
                  /\ members[n][m].age \in Nat /\ members'[n][m].age \in Nat
                  /\ members'[n][m].age <= members[n][m].age + 1
  <2>1. IsTable(members[n])
    BY DEF GossipShape
  <2>2. /\ DOMAIN members'[n] = DOMAIN members[n]
        /\ \A m \in DOMAIN members[n] :
             members'[n][m] = [members[n][m] EXCEPT !.age = Plus(@, 1, Timeout + 1)]
    BY <1>1
  <2>3. \A m \in DOMAIN members[n] : members[n][m] \in Entry /\ members[n][m].addr = Address(m)
    BY <2>1 DEF IsTable
  <2> QED BY <1>2, <2>1, <2>2, <2>3 DEF IsTable
<1>4. \A n, m \in Nodes : Missed(n, m) \in 0..MaxLosses + 1
  BY MissedType
<1>5. missed' \in [Nodes -> [Nodes -> 0..MaxLosses + 1]]
  BY <1>1, <1>4
<1> QED BY <1>1, <1>3, <1>5

\* A node that starts sends its joins (gossip.rs:430-462).
LEMMA StartEffect ==
    ASSUME GossipShape, NEW n \in Nodes, Start(n)
    PROVE  /\ ~up[n] /\ up' = [up EXCEPT ![n] = TRUE]
           /\ inflight \subseteq inflight'
           /\ \A d \in inflight' : d \in inflight \/
                /\ d.from = n /\ d.to \in Boot[n] /\ d.to \in Nodes /\ IsSound(d.msg)
                /\ Names(d.msg) = {n} /\ d.msg.id = n
           /\ UNCHANGED <<tables, pinged, cut, faults, history>>
<1> DEFINE Joins == {[from |-> n, to |-> b, msg |-> CreateJoin(n, Address(n))] : b \in Boot[n]}
<1>1. /\ ~up[n] /\ up' = [up EXCEPT ![n] = TRUE] /\ inflight' = inflight \cup Joins
      /\ UNCHANGED <<tables, pinged, cut, faults, history>>
  BY DEF Start
<1>2. \A d \in Joins : /\ d.from = n /\ d.to \in Boot[n] /\ d.to \in Nodes
                       /\ d.msg = CreateJoin(n, Address(n))
  BY BootType
<1> HIDE DEF Joins
<1> QED BY <1>1, <1>2, JoinIsSound

\* The gossip timer pings a member taken for alive (gossip.rs:508-531).
LEMMA PingEffect ==
    ASSUME GossipShape, NEW n \in Nodes, NEW m \in Nodes, Ping(n, m)
    PROVE  /\ m \in Alive(members[n]) /\ m \in DOMAIN members[n]
           /\ pinged' = [pinged EXCEPT ![n] = {m}]
           /\ inflight \subseteq inflight'
           /\ \A d \in inflight' : d \in inflight \/
                /\ d.from = n /\ d.to \in Nodes /\ IsSound(d.msg)
                /\ Names(d.msg) = {n} /\ d.msg.id = n
                /\ ~BindAny => d.to = m
           /\ ~BindAny => [from |-> n, to |-> m, msg |-> CreatePing(n, Address(n), 0)] \in inflight'
           /\ UNCHANGED <<up, tables, cut, faults, history>> /\ Running(n)
<1> DEFINE to == Target(n, members[n][m].addr)
           p == [from |-> n, to |-> to, msg |-> CreatePing(n, Address(n), 0)]
<1>1. /\ m \in Alive(members[n]) /\ pinged' = [pinged EXCEPT ![n] = {m}]
      /\ inflight' = inflight \cup {p} /\ UNCHANGED <<up, tables, cut, faults, history>> /\ Running(n)
  BY DEF Ping, SendPing
<1>2. m \in DOMAIN members[n] /\ members[n][m].addr = Address(m)
  BY <1>1 DEF GossipShape, IsTable, Alive
<1>3. to \in Nodes /\ (~BindAny => to = m)
  BY <1>2, AnywhereIsNoNode DEF Target, Address
<1> HIDE DEF to
<1>4. p.from = n /\ p.to = to /\ p.msg = CreatePing(n, Address(n), 0)
  OBVIOUS
<1>5. ~BindAny => [from |-> n, to |-> m, msg |-> CreatePing(n, Address(n), 0)] = p
  BY <1>3
<1> HIDE DEF p
<1> QED BY <1>1, <1>2, <1>3, <1>4, <1>5, PingIsSound

\* Nobody known is a table.
LEMMA EmptyTable == IsTable(NoMembers) /\ DOMAIN NoMembers = {}
BY DEF NoMembers, IsTable

\* A crash forgets the table, of that node only.
LEMMA CrashEffect ==
    ASSUME GossipShape, NEW n \in Nodes, Crash(n)
    PROVE  /\ up' = [up EXCEPT ![n] = FALSE] /\ fell' = fell \cup {n}
           /\ DOMAIN members' = Nodes /\ IsTable(members'[n]) /\ DOMAIN members'[n] = {}
           /\ \A x \in Nodes \ {n} : members'[x] = members[x] /\ events'[x] = events[x]
                                     /\ pinged'[x] = pinged[x] /\ up'[x] = up[x]
           /\ events' \in [Nodes -> 0..EventCap + 1]
           /\ pinged' \in [Nodes -> SUBSET Nodes]
           /\ crashes' \in [Nodes -> Nat]
           /\ UNCHANGED <<inflight, cut, cuts, losses, missed, overlooked>>
<1>1. /\ up \in [Nodes -> BOOLEAN] /\ DOMAIN members = Nodes
      /\ events \in [Nodes -> 0..EventCap + 1] /\ pinged \in [Nodes -> SUBSET Nodes]
      /\ crashes \in [Nodes -> Nat] /\ 0 \in 0..EventCap + 1
  BY BoundsType DEF GossipShape
<1>2. /\ up' = [up EXCEPT ![n] = FALSE] /\ fell' = fell \cup {n}
      /\ members' = [members EXCEPT ![n] = NoMembers]
      /\ events' = [events EXCEPT ![n] = 0] /\ pinged' = [pinged EXCEPT ![n] = {}]
      /\ crashes' = [crashes EXCEPT ![n] = @ + 1]
      /\ UNCHANGED <<inflight, cut, cuts, losses, missed, overlooked>>
  BY DEF Crash
<1>3. DOMAIN members' = Nodes /\ members'[n] = NoMembers /\ \A x \in Nodes \ {n} : members'[x] = members[x]
  BY <1>1, <1>2
<1> QED BY <1>1, <1>2, <1>3, EmptyTable

\* Every step keeps the shape.
LEMMA ShapeStep == ASSUME GossipShape, [Next]_vars PROVE GossipShape'
<1>0. /\ up \in [Nodes -> BOOLEAN] /\ DOMAIN members = Nodes
      /\ \A n \in Nodes : IsTable(members[n])
      /\ events \in [Nodes -> 0..EventCap + 1] /\ pinged \in [Nodes -> SUBSET Nodes]
      /\ \A d \in inflight : d.from \in Nodes /\ d.to \in Nodes /\ IsSound(d.msg)
      /\ cut \subseteq fell /\ crashes \in [Nodes -> Nat]
      /\ cuts \in 0..MaxCuts /\ losses \in 0..MaxLosses /\ fell \subseteq Nodes
      /\ MaxCuts \in Nat /\ MaxLosses \in Nat
      /\ missed \in [Nodes -> [Nodes -> 0..MaxLosses + 1]] /\ overlooked \in BOOLEAN
  BY BoundsType DEF GossipShape
<1> USE DEF tables, faults, history
<1>1. ASSUME NEW n \in Nodes, Start(n) PROVE GossipShape'
  <2>1. \A d \in inflight' : d.from \in Nodes /\ d.to \in Nodes /\ IsSound(d.msg)
    BY <1>0, <1>1, StartEffect
  <2>2. up' \in [Nodes -> BOOLEAN]
    BY <1>0, <1>1, StartEffect
  <2>3. UNCHANGED <<tables, pinged, cut, faults, history>>
    BY <1>1, StartEffect
  <2> QED BY <1>0, <2>1, <2>2, <2>3 DEF GossipShape
<1>2. ASSUME NEW n \in Nodes, FailureTimer(n) PROVE GossipShape'
  <2>1. \A x \in Nodes : IsTable(members'[x])
    BY <1>0, <1>2, FailureEffect
  <2>2. /\ DOMAIN members' = Nodes /\ events' \in [Nodes -> 0..EventCap + 1]
        /\ UNCHANGED <<up, pinged, inflight, cut, faults, fell, missed>> /\ overlooked' \in BOOLEAN
    BY <1>2, FailureEffect
  <2> QED BY <1>0, <2>1, <2>2 DEF GossipShape
<1>3. ASSUME NEW n \in Nodes, Crash(n) PROVE GossipShape'
  <2>1. \A x \in Nodes : IsTable(members'[x])
    BY <1>0, <1>3, CrashEffect
  <2>2. /\ DOMAIN members' = Nodes /\ events' \in [Nodes -> 0..EventCap + 1]
        /\ pinged' \in [Nodes -> SUBSET Nodes] /\ crashes' \in [Nodes -> Nat]
        /\ up' = [up EXCEPT ![n] = FALSE] /\ fell' = fell \cup {n}
        /\ UNCHANGED <<inflight, cut, cuts, losses, missed, overlooked>>
    BY <1>3, CrashEffect
  <2>3. up' \in [Nodes -> BOOLEAN] /\ fell' \subseteq Nodes /\ cut' \subseteq fell'
    BY <1>0, <2>2
  <2> QED BY <1>0, <2>1, <2>2, <2>3 DEF GossipShape
<1>4. ASSUME NEW n \in Nodes, Cut(n) \/ Heal(n) PROVE GossipShape'
  <2>1. /\ UNCHANGED <<up, tables, pinged, inflight, crashes, losses, missed, overlooked>>
        /\ cuts' \in 0..MaxCuts /\ cut' \subseteq fell' /\ fell' \subseteq Nodes
    BY <1>0, <1>4 DEF Cut, Heal
  <2> QED BY <1>0, <2>1 DEF GossipShape
<1>5. ASSUME NEW n \in Nodes, NEW m \in Nodes, Ping(n, m) PROVE GossipShape'
  <2>0. \A d \in inflight' : d \in inflight \/ (d.from = n /\ d.to \in Nodes /\ IsSound(d.msg))
    BY <1>5, PingEffect
  <2>1. \A d \in inflight' : d.from \in Nodes /\ d.to \in Nodes /\ IsSound(d.msg)
    BY <1>0, <2>0
  <2>2. pinged' = [pinged EXCEPT ![n] = {m}] /\ UNCHANGED <<up, tables, cut, faults, history>>
    BY <1>5, PingEffect
  <2>3. pinged' \in [Nodes -> SUBSET Nodes]
    BY <1>0, <2>2
  <2> QED BY <1>0, <2>1, <2>2, <2>3 DEF GossipShape
<1>6. ASSUME NEW d \in inflight, Handle(d) PROVE GossipShape'
  <2>1. PICK k \in Nodes : k = d.to
    BY <1>0
  <2>2. \A e \in inflight' : e.from \in Nodes /\ e.to \in Nodes /\ IsSound(e.msg)
    BY <1>0, <1>6, <2>1, HandleEffect
  <2>3. \A x \in Nodes : IsTable(members'[x])
    BY <1>0, <1>6, <2>1, HandleEffect
  <2>4. DOMAIN members' = Nodes /\ events' \in [Nodes -> 0..EventCap + 1]
        /\ UNCHANGED <<up, pinged, cut, faults, history>>
    BY <1>6, HandleEffect
  <2> QED BY <1>0, <2>2, <2>3, <2>4 DEF GossipShape
<1>7. ASSUME NEW d \in inflight, Lose(d) PROVE GossipShape'
  <2>1. /\ inflight' \subseteq inflight /\ losses' \in 0..MaxLosses
        /\ UNCHANGED <<up, tables, pinged, cut, crashes, cuts, history>>
    BY <1>0, <1>7 DEF Lose
  <2> QED BY <1>0, <2>1 DEF GossipShape
<1>8. CASE Tick
  <2>1. DOMAIN members' = Nodes /\ \A n \in Nodes : IsTable(members'[n])
    BY <1>8, TickEffect
  <2>2. inflight' = {} /\ pinged' = [n \in Nodes |-> {}] /\ UNCHANGED <<up, events, cut, faults, fell, overlooked>>
    BY <1>8, TickEffect
  <2>3. pinged' \in [Nodes -> SUBSET Nodes] /\ missed' \in [Nodes -> [Nodes -> 0..MaxLosses + 1]]
    BY <1>8, <2>2, TickEffect
  <2> QED BY <1>0, <2>1, <2>2, <2>3 DEF GossipShape
<1>9. CASE UNCHANGED vars
  BY <1>0, <1>9 DEF vars, GossipShape
<1> QED BY <1>1, <1>2, <1>3, <1>4, <1>5, <1>6, <1>7, <1>8, <1>9 DEF Next

\* At first nobody knows anybody.
LEMMA ShapeInit == Init => GossipShape
<1> SUFFICES ASSUME Init PROVE GossipShape OBVIOUS
<1>1. 0 \in 0..EventCap + 1 /\ 0 \in 0..MaxCuts /\ 0 \in 0..MaxLosses /\ 0 \in 0..MaxLosses + 1
  BY BoundsType
<1>2. DOMAIN members = Nodes /\ \A n \in Nodes : IsTable(members[n])
  BY EmptyTable DEF Init
<1> QED BY <1>1, <1>2 DEF Init, GossipShape

-----------------------------------------------------------------------------
\* Nobody hears of itself: what a node is sent comes from another one, and
\* names its sender.
NotOneself ==
    /\ \A n \in Nodes : n \notin DOMAIN members[n]
    /\ \A d \in inflight : d.from # d.to /\ (d.msg.type # "list" => d.msg.id = d.from)

\* No node has itself among its bootstrap peers.
NoOwnPeer == \A n \in Nodes : n \notin Boot[n]

\* Who answers a ping answers its sender, who is another node.
LEMMA NotOneselfStep ==
    ASSUME ~BindAny, NoOwnPeer, GossipShape, NotOneself, [Next]_vars
    PROVE  NotOneself'
<1> USE DEF tables, faults, history
<1>0. \A d \in inflight : d.from \in Nodes /\ d.to \in Nodes
  BY DEF GossipShape
<1>1. ASSUME NEW n \in Nodes, Start(n) PROVE NotOneself'
  <2>1. \A d \in inflight' : d \in inflight \/ (d.from = n /\ d.to \in Boot[n] /\ d.msg.id = n)
    BY <1>1, StartEffect
  <2>2. \A d \in inflight' : d.from # d.to /\ (d.msg.type # "list" => d.msg.id = d.from)
    BY <2>1 DEF NotOneself, NoOwnPeer
  <2>3. UNCHANGED members
    BY <1>1, StartEffect
  <2> QED BY <2>2, <2>3 DEF NotOneself
<1>2. ASSUME NEW n \in Nodes, FailureTimer(n) PROVE NotOneself'
  <2>1. \A x \in Nodes : DOMAIN members'[x] = DOMAIN members[x]
    BY <1>2, FailureEffect
  <2>2. UNCHANGED inflight
    BY <1>2, FailureEffect
  <2> QED BY <2>1, <2>2 DEF NotOneself
<1>3. ASSUME NEW n \in Nodes, Crash(n) PROVE NotOneself'
  <2>1. \A x \in Nodes : DOMAIN members'[x] \subseteq DOMAIN members[x]
    BY <1>3, CrashEffect
  <2>2. UNCHANGED inflight
    BY <1>3, CrashEffect
  <2> QED BY <2>1, <2>2 DEF NotOneself
<1>4. ASSUME NEW n \in Nodes, Cut(n) \/ Heal(n) PROVE NotOneself'
  BY <1>4 DEF Cut, Heal, NotOneself
<1>5. ASSUME NEW n \in Nodes, NEW m \in Nodes, Ping(n, m) PROVE NotOneself'
  <2>1. /\ m \in DOMAIN members[n]
        /\ \A d \in inflight' : d \in inflight \/ (d.from = n /\ d.to = m /\ d.msg.id = n)
    BY <1>5, PingEffect
  <2>2. n # m
    BY <2>1 DEF NotOneself
  <2>3. \A d \in inflight' : d.from # d.to /\ (d.msg.type # "list" => d.msg.id = d.from)
    BY <2>1, <2>2 DEF NotOneself
  <2>4. UNCHANGED members
    BY <1>5, PingEffect
  <2> QED BY <2>3, <2>4 DEF NotOneself
<1>6. ASSUME NEW d \in inflight, Handle(d) PROVE NotOneself'
  <2>1. PICK k \in Nodes : k = d.to
    BY <1>0
  <2>2. k \notin HeardOf(d.msg, k)
    BY <2>1 DEF NotOneself, HeardOf, Names
  <2>3. /\ DOMAIN members'[k] = DOMAIN members[k] \cup HeardOf(d.msg, k)
        /\ \A x \in Nodes \ {k} : members'[x] = members[x]
    BY <1>6, <2>1, HandleEffect
  <2>4. \A e \in inflight' : e \in inflight \/
           (e.from = k /\ e.to = d.from /\ (e.msg.type # "list" => e.msg.id = k))
    BY <1>6, <2>1, HandleEffect
  <2>5. d.from # k
    BY <2>1 DEF NotOneself
  <2>6. \A n \in Nodes : n \notin DOMAIN members'[n]
    BY <2>2, <2>3 DEF NotOneself
  <2>7. \A e \in inflight' : e.from # e.to /\ (e.msg.type # "list" => e.msg.id = e.from)
    BY <2>4, <2>5 DEF NotOneself
  <2> QED BY <2>6, <2>7 DEF NotOneself
<1>7. ASSUME NEW d \in inflight, Lose(d) PROVE NotOneself'
  BY <1>7 DEF Lose, NotOneself
<1>8. CASE Tick
  <2>1. \A x \in Nodes : DOMAIN members'[x] = DOMAIN members[x]
    BY <1>8, TickEffect
  <2>2. inflight' = {}
    BY <1>8, TickEffect
  <2> QED BY <2>1, <2>2 DEF NotOneself
<1>9. CASE UNCHANGED vars
  BY <1>9 DEF vars, NotOneself
<1> QED BY <1>1, <1>2, <1>3, <1>4, <1>5, <1>6, <1>7, <1>8, <1>9 DEF Next

\* Together they are the type invariant.
LEMMA ShapeIsType ==
    ASSUME GossipShape, ~BindAny => NotOneself PROVE TypeOK
<1>1. \A n \in Nodes : /\ DOMAIN members[n] \subseteq Nodes
                       /\ \A m \in DOMAIN members[n] : members[n][m] \in Entry
  BY DEF GossipShape, IsTable
<1>2. \A d \in inflight : d.from \in Nodes /\ d.to \in Nodes /\ IsMessage(d.msg)
  BY DEF GossipShape, IsSound
<1>3. ~BindAny => \A n \in Nodes : n \notin DOMAIN members[n]
  BY DEF NotOneself
<1> QED BY <1>1, <1>2, <1>3 DEF GossipShape, TypeOK

\* Tables, datagrams and counters have their types in every cluster, whatever
\* crashes and is lost; and with announced addresses no node is ever among
\* its own members, although the code nowhere compares a sender with itself
\* except in a MemberList (gossip.rs:262), as long as no node lists itself
\* as a bootstrap peer.
THEOREM GossipTypes ==
    ASSUME NoOwnPeer
    PROVE  Spec => []TypeOK
<1> DEFINE Inv == GossipShape /\ (~BindAny => NotOneself)
<1>1. Init => Inv
  <2>1. Init => NotOneself
    BY EmptyTable DEF Init, NotOneself
  <2> QED BY <2>1, ShapeInit
<1>2. Inv /\ [Next]_vars => Inv'
  BY ShapeStep, NotOneselfStep
<1>3. Inv => TypeOK
  BY ShapeIsType
<1> QED BY <1>1, <1>2, <1>3, PTL DEF Spec

-----------------------------------------------------------------------------
\* A node that has not been started yet is unknown, and one that does not run
\* knows nobody.
UnknownBeforeStart ==
    \A m \in Nodes :
      /\ ~up[m] => DOMAIN members[m] = {}
      /\ ~up[m] /\ m \notin fell =>
           /\ \A n \in Nodes : m \notin DOMAIN members[n]
           /\ \A d \in inflight : m \notin Names(d.msg)

\* The datagrams between two nodes.
PingTo(n, m) == [from |-> n, to |-> m, msg |-> CreatePing(n, Address(n), 0)]
AckTo(n, m) == [from |-> m, to |-> n, msg |-> CreateAck(m, Address(m), 0)]

\* Two nodes that have been there all the time.
Steady(n, m) == {n, m} \cap fell = {} /\ Running(n) /\ Running(m)

\* n has not heard from m for a periods: every ping of those that are over cost
\* a datagram, and so did this period's, unless it or its answer is still on
\* its way.
Accounted(n, m, a) ==
    /\ a > 0 => losses >= missed[n][m]
    /\ m \in pinged[n] /\ a > 0 =>
         losses >= missed[n][m] + 1 \/ PingTo(n, m) \in inflight \/ AckTo(n, m) \in inflight

\* Two steady nodes that take each other for alive miss each other's answers
\* only by losses.
SilenceIsLoss ==
    \A n, m \in Nodes :
      m \in Alive(members[n]) /\ Steady(n, m) => Accounted(n, m, members[n][m].age)

\* Only a node that runs is ever named (gossip.rs:430-462).
LEMMA UnknownStep ==
    ASSUME GossipShape, UnknownBeforeStart, [Next]_vars
    PROVE  UnknownBeforeStart'
<1> USE DEF tables, faults, history
<1>0. /\ \A d \in inflight : d.from \in Nodes /\ d.to \in Nodes
      /\ up \in [Nodes -> BOOLEAN]
  BY DEF GossipShape
<1>1. ASSUME NEW n \in Nodes, Start(n) PROVE UnknownBeforeStart'
  <2>1. /\ \A d \in inflight' : d \in inflight \/ Names(d.msg) = {n}
        /\ up' = [up EXCEPT ![n] = TRUE] /\ UNCHANGED <<members, fell>>
    BY <1>1, StartEffect
  <2>2. up'[n] /\ \A m \in Nodes : m # n => up'[m] = up[m]
    BY <1>0, <2>1
  <2> QED BY <2>1, <2>2 DEF UnknownBeforeStart
<1>2. ASSUME NEW n \in Nodes, FailureTimer(n) PROVE UnknownBeforeStart'
  <2>1. \A x \in Nodes : DOMAIN members'[x] = DOMAIN members[x]
    BY <1>2, FailureEffect
  <2>2. UNCHANGED <<up, inflight, fell>>
    BY <1>2, FailureEffect
  <2> QED BY <2>1, <2>2 DEF UnknownBeforeStart
<1>3. ASSUME NEW n \in Nodes, Crash(n) PROVE UnknownBeforeStart'
  <2>1. \A x \in Nodes : DOMAIN members'[x] \subseteq DOMAIN members[x] /\ (x # n => up'[x] = up[x])
    BY <1>3, CrashEffect
  <2>2. UNCHANGED inflight /\ fell' = fell \cup {n} /\ DOMAIN members'[n] = {}
    BY <1>3, CrashEffect
  <2>3. \A m \in Nodes : ~up'[m] => DOMAIN members'[m] = {}
    BY <2>1, <2>2 DEF UnknownBeforeStart
  <2> QED BY <2>1, <2>2, <2>3 DEF UnknownBeforeStart
<1>4. ASSUME NEW n \in Nodes, Cut(n) \/ Heal(n) PROVE UnknownBeforeStart'
  <2>1. UNCHANGED <<up, members, inflight>> /\ fell \subseteq fell'
    BY <1>4 DEF Cut, Heal
  <2> QED BY <2>1 DEF UnknownBeforeStart
<1>5. ASSUME NEW n \in Nodes, NEW m \in Nodes, Ping(n, m) PROVE UnknownBeforeStart'
  <2>1. /\ UNCHANGED <<up, members, fell>> /\ up[n]
        /\ \A d \in inflight' : d \in inflight \/ Names(d.msg) = {n}
    BY <1>5, PingEffect DEF Running
  <2> QED BY <2>1 DEF UnknownBeforeStart
<1>6. ASSUME NEW d \in inflight, Handle(d) PROVE UnknownBeforeStart'
  <2>1. PICK k \in Nodes : k = d.to
    BY <1>0
  <2>2. /\ DOMAIN members'[k] \subseteq DOMAIN members[k] \cup Names(d.msg)
        /\ \A x \in Nodes \ {k} : members'[x] = members[x]
    BY <1>6, <2>1, HandleEffect
  <2>3. \A e \in inflight' : e \in inflight \/
           Names(e.msg) \subseteq DOMAIN members[k] \cup Names(d.msg) \cup {k}
    BY <1>6, <2>1, HandleEffect
  <2>4. UNCHANGED <<up, fell>> /\ up[k]
    BY <1>6, <2>1, HandleEffect DEF Running
  <2>5. ASSUME NEW m \in Nodes, ~up[m] PROVE DOMAIN members'[m] = {}
    BY <2>2, <2>4, <2>5 DEF UnknownBeforeStart
  <2>6. ASSUME NEW m \in Nodes, ~up[m], m \notin fell
        PROVE  /\ \A n \in Nodes : m \notin DOMAIN members'[n]
               /\ \A e \in inflight' : m \notin Names(e.msg)
    <3>1. /\ \A n \in Nodes : m \notin DOMAIN members[n]
          /\ \A e \in inflight : m \notin Names(e.msg)
          /\ m # k
      BY <2>4, <2>6 DEF UnknownBeforeStart
    <3> QED BY <2>2, <2>3, <3>1
  <2> QED BY <2>4, <2>5, <2>6 DEF UnknownBeforeStart
<1>7. ASSUME NEW d \in inflight, Lose(d) PROVE UnknownBeforeStart'
  BY <1>7 DEF Lose, UnknownBeforeStart
<1>8. CASE Tick
  <2>1. \A x \in Nodes : DOMAIN members'[x] = DOMAIN members[x]
    BY <1>8, TickEffect
  <2>2. inflight' = {} /\ UNCHANGED <<up, fell>>
    BY <1>8, TickEffect
  <2> QED BY <2>1, <2>2 DEF UnknownBeforeStart
<1>9. CASE UNCHANGED vars
  BY <1>9 DEF vars, UnknownBeforeStart
<1> QED BY <1>1, <1>2, <1>3, <1>4, <1>5, <1>6, <1>7, <1>8, <1>9 DEF Next

\* An entry that stays, between nodes that were steady before.
LEMMA StaysAccounted ==
    ASSUME GossipShape, NEW n \in Nodes, NEW m \in Nodes, NEW a \in Nat,
           Accounted(n, m, a), UNCHANGED <<losses, missed>>, pinged'[n] = pinged[n],
           PingTo(n, m) \in inflight => PingTo(n, m) \in inflight' \/ AckTo(n, m) \in inflight',
           AckTo(n, m) \in inflight => AckTo(n, m) \in inflight'
    PROVE  Accounted(n, m, a)'
BY DEF Accounted, PingTo, AckTo

\* Who was just heard of is accounted for.
LEMMA JustHeard ==
    ASSUME NEW n, NEW m
    PROVE  Accounted(n, m, 0)'
<1>1. ~(0 > 0)
  OBVIOUS
<1> QED BY <1>1, Zenon DEF Accounted

\* Whoever is steady after a step that starts nobody was so before.
LEMMA WasSteady ==
    ASSUME GossipShape, NEW n \in Nodes, NEW m \in Nodes, Steady(n, m)',
           \A x \in {n, m} : up'[x] => up[x] /\ events'[x] >= events[x],
           fell \subseteq fell', events' \in [Nodes -> 0..EventCap + 1]
    PROVE  Steady(n, m)
<1>1. \A x \in {n, m} : events[x] \in Int /\ events'[x] \in Int /\ EventCap \in Int
  BY BoundsType DEF GossipShape
<1>2. \A x \in {n, m} : up'[x] /\ events'[x] <= EventCap
  BY DEF Steady, Running
<1>3. \A x \in {n, m} : Running(x)
  BY <1>1, <1>2 DEF Running
<1> QED BY <1>3 DEF Steady

\* Ages are bounded.
LEMMA AgeType ==
    ASSUME GossipShape, NEW n \in Nodes, NEW m \in DOMAIN members[n]
    PROVE  m \in Nodes /\ members[n][m].age \in Nat /\ members[n][m].age <= Timeout + 1
<1>1. members[n][m] \in Entry /\ m \in Nodes
  BY DEF GossipShape, IsTable
<1> QED BY <1>1, TimeoutType DEF Entry

\* Each ping to a member that stays silent costs a datagram, since one that
\* arrives is answered before the period is over.
LEMMA SilenceStep ==
    ASSUME ~BindAny, GossipShape, UnknownBeforeStart, SilenceIsLoss, [Next]_vars
    PROVE  SilenceIsLoss'
<1> SUFFICES ASSUME NEW n \in Nodes, NEW m \in Nodes, m \in Alive(members'[n]), Steady(n, m)'
             PROVE  Accounted(n, m, members[n][m].age)'
  BY DEF SilenceIsLoss, Alive
<1> USE DEF tables, faults, history
<1>10. GossipShape'
  BY ShapeStep
<1>0. /\ \A d \in inflight : d.from \in Nodes /\ d.to \in Nodes /\ IsSound(d.msg)
      /\ up \in [Nodes -> BOOLEAN] /\ events \in [Nodes -> 0..EventCap + 1]
      /\ losses \in Nat /\ losses' \in Nat /\ missed[n][m] \in Nat
      /\ \A x \in Nodes : events[x] \in Int
      /\ pinged \in [Nodes -> SUBSET Nodes]
  BY <1>10, BoundsType DEF GossipShape
<1>11. ASSUME m \in Alive(members[n]), members'[n][m].age = members[n][m].age, Steady(n, m),
             UNCHANGED <<losses, missed>>, pinged'[n] = pinged[n],
             PingTo(n, m) \in inflight => PingTo(n, m) \in inflight' \/ AckTo(n, m) \in inflight',
             AckTo(n, m) \in inflight => AckTo(n, m) \in inflight'
      PROVE  Accounted(n, m, members[n][m].age)'
  <2>1. PICK a \in Nat : a = members[n][m].age
    BY <1>11, AgeType DEF Alive
  <2>2. Accounted(n, m, a)
    BY <1>11, <2>1 DEF SilenceIsLoss
  <2>3. Accounted(n, m, a)'
    BY <1>11, <2>2, StaysAccounted
  <2>4. members'[n][m].age = a
    BY <1>11, <2>1
  <2> QED BY <2>3, <2>4 DEF Accounted
<1>1. ASSUME NEW k \in Nodes, Start(k) PROVE Accounted(n, m, members[n][m].age)'
  <2>1. /\ ~up[k] /\ up' = [up EXCEPT ![k] = TRUE] /\ inflight \subseteq inflight'
        /\ UNCHANGED <<members, events, pinged, losses, fell, missed>>
    BY <1>1, StartEffect
  <2>2. m \in Alive(members[n]) /\ m \in DOMAIN members[n]
    BY <2>1 DEF Alive
  <2>3. {n, m} \cap fell = {} /\ up'[n] /\ up'[m]
    BY <2>1 DEF Steady, Running
  <2>4. k # n /\ k # m
    BY <2>1, <2>2, <2>3 DEF UnknownBeforeStart
  <2>5. Steady(n, m)
    BY <1>0, <2>1, <2>4 DEF Steady, Running
  <2> QED BY <1>11, <2>1, <2>2, <2>5
<1>2. ASSUME NEW k \in Nodes, FailureTimer(k) PROVE Accounted(n, m, members[n][m].age)'
  <2>1. /\ UNCHANGED <<up, pinged, inflight, losses, fell, missed>>
        /\ events' \in [Nodes -> 0..EventCap + 1]
        /\ \A x \in Nodes : events'[x] >= events[x]
        /\ \A x \in Nodes \ {k} : members'[x] = members[x]
        /\ DOMAIN members'[k] = DOMAIN members[k]
        /\ \A x \in DOMAIN members[k] :
             /\ members'[k][x].age = members[k][x].age
             /\ x \notin Overdue(members[k], Timeout) => members'[k][x] = members[k][x]
             /\ x \in Overdue(members[k], Timeout) => members'[k][x].state = "dead"
    BY <1>2, FailureEffect
  <2>2. m \in Alive(members[n]) /\ members'[n][m].age = members[n][m].age
    BY <2>1 DEF Alive
  <2>3. Steady(n, m)
    BY <2>1, WasSteady
  <2> QED BY <1>11, <2>1, <2>2, <2>3
<1>3. ASSUME NEW k \in Nodes, Crash(k) PROVE Accounted(n, m, members[n][m].age)'
  <2>1. /\ fell' = fell \cup {k} /\ UNCHANGED <<inflight, losses, missed>>
        /\ \A x \in Nodes \ {k} : members'[x] = members[x] /\ events'[x] = events[x]
                                  /\ pinged'[x] = pinged[x] /\ up'[x] = up[x]
        /\ events' \in [Nodes -> 0..EventCap + 1]
    BY <1>3, CrashEffect
  <2>2. k # n /\ k # m
    BY <2>1 DEF Steady
  <2>3. /\ members'[n] = members[n] /\ pinged'[n] = pinged[n]
        /\ \A x \in {n, m} : up'[x] = up[x] /\ events'[x] = events[x]
    BY <2>1, <2>2
  <2>4. Steady(n, m)
    BY <2>1, <2>3 DEF Steady, Running
  <2> QED BY <1>11, <2>1, <2>3, <2>4
<1>4. ASSUME NEW k \in Nodes, Cut(k) \/ Heal(k) PROVE Accounted(n, m, members[n][m].age)'
  <2>1. UNCHANGED <<up, members, events, pinged, inflight, losses, missed>> /\ fell \subseteq fell'
    BY <1>4 DEF Cut, Heal
  <2>2. Steady(n, m)
    BY <2>1 DEF Steady, Running
  <2> QED BY <1>11, <2>1, <2>2
<1>5. ASSUME NEW k \in Nodes, NEW j \in Nodes, Ping(k, j) PROVE Accounted(n, m, members[n][m].age)'
  <2>1. /\ UNCHANGED <<up, members, events, losses, fell, missed>> /\ inflight \subseteq inflight'
        /\ pinged' = [pinged EXCEPT ![k] = {j}]
        /\ [from |-> k, to |-> j, msg |-> CreatePing(k, Address(k), 0)] \in inflight'
    BY <1>5, PingEffect
  <2>2. Steady(n, m) /\ m \in Alive(members[n]) /\ m \in DOMAIN members[n]
    BY <2>1 DEF Steady, Running, Alive
  <2>3. CASE k = n /\ j = m
    <3>1. PingTo(n, m) \in inflight'
      BY <2>1, <2>3 DEF PingTo
    <3>2. members[n][m].age > 0 => losses >= missed[n][m]
      BY <2>2 DEF SilenceIsLoss, Accounted
    <3> QED BY <2>1, <3>1, <3>2 DEF Accounted, PingTo
  <2>4. CASE ~(k = n /\ j = m)
    <3>1. m \in pinged'[n] => m \in pinged[n]
      BY <1>0, <2>1, <2>4
    <3>2. Accounted(n, m, members[n][m].age)
      BY <2>2 DEF SilenceIsLoss
    <3> QED BY <2>1, <3>1, <3>2 DEF Accounted, PingTo, AckTo
  <2> QED BY <2>3, <2>4
<1>6. ASSUME NEW d \in inflight, Handle(d) PROVE Accounted(n, m, members[n][m].age)'
  <2>1. PICK k \in Nodes : k = d.to
    BY <1>0
  <2>2. PICK S : S = HeardOf(d.msg, k) OBVIOUS
  <2>3. /\ DOMAIN members'[k] = DOMAIN members[k] \cup S
        /\ \A x \in S : members'[k][x] = Fresh(x)
        /\ \A x \in DOMAIN members[k] \ S : members'[k][x] = members[k][x]
        /\ \A x \in Nodes \ {k} : members'[x] = members[x]
        /\ S \subseteq Nodes
    BY <1>6, <2>1, <2>2, HandleEffect
  <2>4. /\ inflight \ {d} \subseteq inflight'
        /\ d.msg.type = "ping" =>
             [from |-> k, to |-> d.from, msg |-> CreateAck(k, Address(k), 0)] \in inflight'
        /\ events' \in [Nodes -> 0..EventCap + 1]
        /\ \A x \in Nodes : events'[x] >= events[x]
        /\ UNCHANGED <<up, pinged, losses, fell, missed>>
    BY <1>6, <2>1, HandleEffect
  <2>5. Steady(n, m)
    BY <2>4, WasSteady
  <2>6. CASE n = k /\ m \in S
    <3>1. members'[n][m].age = 0
      BY <2>3, <2>6, FreshIsEntry
    <3> QED BY <3>1, JustHeard DEF Accounted
  <2>7. CASE ~(n = k /\ m \in S)
    <3>1. m \in Alive(members[n]) /\ members'[n][m] = members[n][m]
      BY <2>3, <2>7 DEF Alive
    <3>2. PingTo(n, m) \in inflight => PingTo(n, m) \in inflight' \/ AckTo(n, m) \in inflight'
      <4> SUFFICES ASSUME d = PingTo(n, m) PROVE AckTo(n, m) \in inflight'
        BY <2>4
      <4>1. d.from = n /\ d.to = m /\ d.msg = CreatePing(n, Address(n), 0)
        BY DEF PingTo
      <4>2. d.msg.type = "ping" /\ k = m
        BY <2>1, <4>1, PingIsSound
      <4> QED BY <2>4, <4>1, <4>2 DEF AckTo
    <3>3. AckTo(n, m) \in inflight => AckTo(n, m) \in inflight'
      <4> SUFFICES ASSUME d = AckTo(n, m) PROVE FALSE
        BY <2>4
      <4>1. d.to = n /\ d.msg = CreateAck(m, Address(m), 0)
        BY DEF AckTo
      <4>2. d.msg.type = "ack" /\ d.msg.id = m
        BY <4>1, AckIsSound
      <4>3. m \in S /\ n = k
        BY <2>1, <2>2, <4>1, <4>2 DEF HeardOf, Names
      <4> QED BY <2>7, <4>3
    <3> QED BY <1>11, <2>4, <2>5, <3>1, <3>2, <3>3
  <2> QED BY <2>6, <2>7
<1>7. ASSUME NEW d \in inflight, Lose(d) PROVE Accounted(n, m, members[n][m].age)'
  <2>1. /\ losses' = losses + 1 /\ UNCHANGED <<up, members, events, pinged, fell, missed>>
    BY <1>7 DEF Lose
  <2>2. Steady(n, m) /\ m \in Alive(members[n]) /\ m \in DOMAIN members[n]
    BY <2>1 DEF Steady, Running, Alive
  <2>3. PICK a \in Nat : a = members[n][m].age
    BY <2>2, AgeType
  <2>4. a > 0 => losses >= missed[n][m]
    BY <2>2, <2>3 DEF SilenceIsLoss, Accounted
  <2>5. members'[n][m].age = a
    BY <2>1, <2>3
  <2> QED BY <1>0, <2>1, <2>4, <2>5 DEF Accounted
<1>8. CASE Tick
  <2>1. /\ DOMAIN members'[n] = DOMAIN members[n]
        /\ \A x \in DOMAIN members[n] : members'[n][x].state = members[n][x].state
        /\ inflight' = {} /\ pinged' = [x \in Nodes |-> {}] /\ missed'[n][m] = Missed(n, m)
        /\ UNCHANGED <<up, events, cut, losses, fell>>
    BY <1>8, TickEffect
  <2>2. Steady(n, m) /\ m \in Alive(members[n]) /\ m \in DOMAIN members[n]
    BY <2>1 DEF Steady, Running, Alive
  <2>4. n \notin cut /\ m \notin cut /\ Running(n) /\ Running(m)
    BY <2>2 DEF GossipShape, Steady
  <2>5. PingTo(n, m) \notin inflight
    <3>1. PingTo(n, m).from = n /\ PingTo(n, m).to = m
      BY DEF PingTo
    <3> QED BY <1>8, <2>4, <3>1 DEF Tick, Quiet, Arrives, Reachable
  <2>6. AckTo(n, m) \notin inflight
    <3>1. AckTo(n, m).from = m /\ AckTo(n, m).to = n
      BY DEF AckTo
    <3> QED BY <1>8, <2>4, <3>1 DEF Tick, Quiet, Arrives, Reachable
  <2>7. Accounted(n, m, members[n][m].age)
    BY <2>2 DEF SilenceIsLoss
  <2>8. losses >= Missed(n, m)
    <3>1. /\ Missed(n, m) \in Nat /\ (Missed(n, m) > 0 => members[n][m].age > 0)
          /\ Missed(n, m) <= missed[n][m] + 1
          /\ m \notin pinged[n] => Missed(n, m) <= missed[n][m]
      BY MissedType, BoundsType
    <3> QED BY <1>0, <2>5, <2>6, <2>7, <3>1 DEF Accounted
  <2>9. m \notin pinged'[n]
    BY <2>1
  <2> QED BY <2>1, <2>8, <2>9 DEF Accounted
<1>9. CASE UNCHANGED vars
  <2>1. Steady(n, m) /\ m \in Alive(members[n])
    BY <1>9 DEF vars, Steady, Running, Alive
  <2> QED BY <1>11, <1>9, <2>1 DEF vars
<1> QED BY <1>1, <1>2, <1>3, <1>4, <1>5, <1>6, <1>7, <1>8, <1>9 DEF Next

\* Only the failure timer declares anybody dead.
LEMMA DeathStep ==
    ASSUME ~BindAny, GossipShape, UnknownBeforeStart, SilenceIsLoss, [Next]_vars,
           NEW n \in Nodes, NEW m \in Alive(members[n]),
           m \in DOMAIN members'[n], members'[n][m].state = "dead"
    PROVE  n \in fell \/ m \in fell \/ ~Running(m) \/ losses >= missed[n][m]
<1> USE DEF tables, faults, history
<1>0. /\ m \in DOMAIN members[n] /\ members[n][m].state = "alive" /\ m \in Nodes
      /\ members[n][m].state # members'[n][m].state
  BY DEF Alive, GossipShape, IsTable
<1>1. CASE FailureTimer(n)
  <2>1. m \in Overdue(members[n], Timeout) /\ Running(n)
    BY <1>0, <1>1, FailureEffect DEF FailureTimer
  <2>2. PICK a \in Nat : a = members[n][m].age
    BY <1>0, AgeType
  <2>3. a > Timeout
    BY <2>1, <2>2 DEF Overdue
  <2>4. Steady(n, m) /\ a > 0 => losses >= missed[n][m]
    BY <1>0, <2>2 DEF SilenceIsLoss, Accounted
  <2>5. a > 0
    BY <2>2, <2>3, TimeoutType
  <2> QED BY <2>1, <2>4, <2>5 DEF Steady
<1>2. ASSUME members'[n] = members[n] PROVE FALSE
  BY <1>0, <1>2
<1>3. ASSUME NEW k \in Nodes, k # n, FailureTimer(k) PROVE FALSE
  BY <1>2, <1>3, FailureEffect
<1>4. ASSUME NEW k \in Nodes, Start(k) \/ Cut(k) \/ Heal(k) \/ \E j \in Nodes : Ping(k, j) PROVE FALSE
  BY <1>2, <1>4 DEF Start, Cut, Heal, Ping
<1>5. ASSUME NEW k \in Nodes, Crash(k) PROVE FALSE
  BY <1>2, <1>5, CrashEffect
<1>6. ASSUME NEW d \in inflight, Handle(d) PROVE FALSE
  <2>1. PICK k \in Nodes : k = d.to
    BY DEF GossipShape
  <2>2. PICK S : S = HeardOf(d.msg, k) OBVIOUS
  <2>3. /\ \A x \in S : members'[k][x] = Fresh(x)
        /\ \A x \in DOMAIN members[k] \ S : members'[k][x] = members[k][x]
        /\ \A x \in Nodes \ {k} : members'[x] = members[x]
    BY <1>6, <2>1, <2>2, HandleEffect
  <2>4. n = k /\ m \in S
    BY <1>0, <2>3
  <2>5. Fresh(m).state = "alive"
    BY <1>0, FreshIsEntry
  <2> QED BY <1>0, <2>3, <2>4, <2>5
<1>7. ASSUME NEW d \in inflight, Lose(d) PROVE FALSE
  BY <1>2, <1>7 DEF Lose
<1>8. CASE Tick
  BY <1>0, <1>8, TickEffect
<1>9. CASE UNCHANGED vars
  BY <1>2, <1>9 DEF vars
<1> QED BY <1>1, <1>3, <1>4, <1>5, <1>6, <1>7, <1>8, <1>9 DEF Next

\* No false alarm on somebody who was asked: when a node declares another dead,
\* one of the two has been without process or network, the other has stopped
\* reading, or at least as many datagrams were lost as it was sent pings since it
\* was last heard from (gossip.rs:508-560).  With the choice of the members to
\* ping left open, so that one that is never picked may be declared dead; for
\* every cluster whose nodes announce an address at which they can be reached,
\* and any number of losses, outages and crashes.
THEOREM GossipDeathIsReal ==
    ASSUME ~BindAny
    PROVE  Spec => DeathIsReal
<1> DEFINE Inv == GossipShape /\ UnknownBeforeStart /\ SilenceIsLoss
<1>1. Init => Inv
  <2> SUFFICES ASSUME Init PROVE UnknownBeforeStart /\ SilenceIsLoss
    BY ShapeInit
  <2>1. \A n \in Nodes : DOMAIN members[n] = {}
    BY EmptyTable DEF Init
  <2> QED BY <2>1 DEF Init, UnknownBeforeStart, SilenceIsLoss, Alive
<1>2. Inv /\ [Next]_vars => Inv'
  BY ShapeStep, UnknownStep, SilenceStep
<1>3. Inv /\ [Next]_vars =>
        [\A n \in Nodes : \A m \in Alive(members[n]) :
          m \in DOMAIN members'[n] /\ members'[n][m].state = "dead" =>
             n \in fell \/ m \in fell \/ ~Running(m) \/ losses >= missed[n][m]]_vars
  BY DeathStep
<1> QED BY <1>1, <1>2, <1>3, PTL DEF Spec, DeathIsReal
=============================================================================
