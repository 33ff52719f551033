----------------------------- MODULE Membership ----------------------------
(***************************************************************************)
(* The rules of membership, apart from sockets and timers: process_message *)
(* and check_member_failures (gossip.rs), which the code too keeps pure.   *)
(*                                                                         *)
(* A member table is a function from the identifiers that have an entry to *)
(* records: the announced address, the incarnation, the state, and for how *)
(* long the member has not been seen.  Of the two addresses of a member    *)
(* only that for gossip is kept: the other one is stored and passed on     *)
(* alike.                                                                  *)
(***************************************************************************)
EXTENDS Integers

Seen(addr, incarnation) ==
    [addr |-> addr, incarnation |-> incarnation, state |-> "alive", age |-> 0]

Alive(members) == {m \in DOMAIN members : members[m].state = "alive"}

\* Messages, as their senders make them: create_ping, the answer to it, and
\* create_join.
CreatePing(id, addr, incarnation) ==
    [type |-> "ping", id |-> id, addr |-> addr, incarnation |-> incarnation]
CreateAck(id, addr, incarnation) ==
    [type |-> "ack", id |-> id, addr |-> addr, incarnation |-> incarnation]
CreateJoin(id, addr) == [type |-> "join", id |-> id, addr |-> addr]
MemberList(list) == [type |-> "list", members |-> list]

\* Slip: entry().or_insert() leaves a member that is known as it is.
SlipInsert(members, entries) ==
    [m \in DOMAIN members \cup DOMAIN entries |->
       IF m \in DOMAIN members THEN members[m] ELSE entries[m]]

\* HashMap::insert: an entry replaces the one that is there, whatever it says.
Insert(members, entries) ==
    [m \in DOMAIN members \cup DOMAIN entries |->
       IF m \in DOMAIN entries THEN entries[m] ELSE members[m]]

\* What the handling of a message comes to: the new table, the answers, and
\* the members announced as joined, those that had no entry.
Outcome(members, entries, answers) ==
    [members |-> Insert(members, entries), answers |-> answers,
     joined |-> DOMAIN entries \ DOMAIN members]

\* The sender is entered as alive and just seen, and gets an Ack.
HandlePing(msg, members, self) ==
    Outcome(members, [m \in {msg.id} |-> Seen(msg.addr, msg.incarnation)],
            {CreateAck(self.id, self.addr, self.incarnation)})

HandleAck(msg, members) ==
    Outcome(members, [m \in {msg.id} |-> Seen(msg.addr, msg.incarnation)], {})

\* Slip: the new member gets the list, but is not entered.
SlipHandleJoin(msg, members) ==
    Outcome(members, [m \in {} |-> Seen(msg.addr, 0)],
            {MemberList([m \in DOMAIN members |->
                [addr |-> members[m].addr, incarnation |-> members[m].incarnation]])})

\* The new member gets the table, with its own entry and those of dead members,
\* but nothing of the node that answers.
HandleJoin(msg, members) ==
    LET entries == [m \in {msg.id} |-> Seen(msg.addr, 0)]
        table == Insert(members, entries)
    IN  Outcome(members, entries,
                {MemberList([m \in DOMAIN table |->
                    [addr |-> table[m].addr, incarnation |-> table[m].incarnation]])})

\* Slip: a node does not skip itself.
SlipHandleMemberList(msg, members, self) ==
    Outcome(members, [m \in DOMAIN msg.members |->
        Seen(msg.members[m].addr, msg.members[m].incarnation)], {})

\* Everybody on the list is taken for alive and just seen, oneself excepted.
HandleMemberList(msg, members, self) ==
    Outcome(members, [m \in DOMAIN msg.members \ {self.id} |->
        Seen(msg.members[m].addr, msg.members[m].incarnation)], {})

ProcessMessage(msg, members, self) ==
    CASE msg.type = "ping" -> HandlePing(msg, members, self)
      [] msg.type = "ack"  -> HandleAck(msg, members)
      [] msg.type = "join" -> HandleJoin(msg, members)
      [] msg.type = "list" -> HandleMemberList(msg, members, self)

\* The members that a check declares dead: alive, and silent for too long.
Overdue(members, timeout) == {m \in Alive(members) : members[m].age > timeout}

CheckMemberFailures(members, timeout) ==
    [m \in DOMAIN members |->
       IF m \in Overdue(members, timeout) THEN [members[m] EXCEPT !.state = "dead"]
       ELSE members[m]]

\* The addresses of which select_ping_target picks one at random.
PingTargets(members) == {members[m].addr : m \in Alive(members)}
============================================================================
