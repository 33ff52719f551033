---------------------------- MODULE GossipTests ----------------------------
(***************************************************************************)
(* The unit tests of gossip.rs for its pure functions, evaluated on        *)
(* Membership: what the repository expects of process_message,             *)
(* check_member_failures and select_ping_target is what the model does.    *)
(* Names and numbers are the tests'; the address tells where an answer     *)
(* goes in the service and is not needed here.                             *)
(***************************************************************************)
EXTENDS Membership, FiniteSets

Local == [id |-> "local-node", addr |-> "127.0.0.1:4001", incarnation |-> 1]
Nobody == [m \in {} |-> Seen("", 0)]

\* A table with one member for each of the states given.
In(states) ==
    [m \in DOMAIN states |-> [Seen(m, 1) EXCEPT !.state = states[m]]]
Silent(states, secs) == [m \in DOMAIN states |-> [In(states)[m] EXCEPT !.age = secs]]

test_gossip_service_members_with_data ==
    LET members == Insert(Nobody, [m \in {"peer-1"} |-> Seen("127.0.0.1:5001", 1)])
    IN  DOMAIN members = {"peer-1"} /\ Alive(members) = {"peer-1"}

test_gossip_service_alive_members_filters_dead ==
    LET members == In([alive |-> "alive", dead |-> "dead", suspect |-> "suspect"])
    IN  Cardinality(DOMAIN members) = 3 /\ Alive(members) = {"alive"}

test_gossip_service_member_state_transitions ==
    /\ Alive(In([member |-> "alive"])) = {"member"}
    /\ Alive(In([member |-> "suspect"])) = {}
    /\ Alive(In([member |-> "dead"])) = {} /\ DOMAIN In([member |-> "dead"]) = {"member"}

test_gossip_service_multiple_members_states ==
    Alive(In([alive_1 |-> "alive", alive_2 |-> "alive", suspect_1 |-> "suspect",
              dead_1 |-> "dead"])) = {"alive_1", "alive_2"}

test_process_message_ping_new_member ==
    LET r == ProcessMessage(CreatePing("peer-1", "10.0.0.1:4001", 5), Nobody, Local)
    IN  /\ r.answers = {CreateAck("local-node", "127.0.0.1:4001", 1)}
        /\ r.joined = {"peer-1"} /\ r.members["peer-1"].incarnation = 5

test_process_message_ping_existing_member ==
    LET before == [m \in {"peer-1"} |-> Seen("10.0.0.1:4001", 1)]
        r == ProcessMessage(CreatePing("peer-1", "10.0.0.1:4001", 5), before, Local)
    IN  r.joined = {} /\ Cardinality(r.answers) = 1

test_process_message_ack_new_member ==
    LET r == ProcessMessage(CreateAck("peer-2", "10.0.0.2:4001", 10), Nobody, Local)
    IN  /\ r.joined = {"peer-2"} /\ r.answers = {}
        /\ r.members["peer-2"].incarnation = 10

test_process_message_ack_existing_member ==
    LET before == [m \in {"peer-2"} |-> Seen("10.0.0.2:4001", 5)]
        r == ProcessMessage(CreateAck("peer-2", "10.0.0.2:4001", 10), before, Local)
    IN  r.joined = {} /\ r.answers = {}

test_process_message_join_new_member ==
    LET r == ProcessMessage(CreateJoin("new-peer", "10.0.0.3:4001"), Nobody, Local)
    IN  /\ r.joined = {"new-peer"}
        /\ \E a \in r.answers : a.type = "list" /\ "new-peer" \in DOMAIN a.members

test_process_message_member_list ==
    LET list == [m \in {"peer-1", "peer-2", "local-node"} |-> [addr |-> m, incarnation |-> 1]]
        r == ProcessMessage(MemberList(list), Nobody, Local)
    IN  r.joined = {"peer-1", "peer-2"} /\ r.answers = {} /\ DOMAIN r.members = {"peer-1", "peer-2"}

test_process_message_member_list_empty ==
    LET r == ProcessMessage(MemberList(Nobody), Nobody, Local)
    IN  r.joined = {} /\ r.answers = {}

test_check_member_failures_no_failures == Overdue(In([alive |-> "alive"]), 30) = {}

test_check_member_failures_with_failure ==
    LET members == Silent([stale |-> "alive"], 60)
    IN  /\ Overdue(members, 30) = {"stale"}
        /\ CheckMemberFailures(members, 30)["stale"].state = "dead"

test_check_member_failures_already_dead ==
    Overdue(Silent([dead |-> "dead"], 60), 30) = {}

test_select_ping_target_empty == PingTargets(Nobody) = {}
test_select_ping_target_with_members == PingTargets(In([p |-> "alive"])) = {"p"}
test_select_ping_target_skips_dead ==
    PingTargets(In([dead |-> "dead", alive |-> "alive"])) = {"alive"}
test_select_ping_target_all_members_dead ==
    PingTargets(In([dead1 |-> "dead", dead2 |-> "dead"])) = {}

test_check_member_failures_suspect_not_transitioned ==
    Overdue(Silent([suspect |-> "suspect"], 60), 30) = {}

ASSUME GossipUnitTests ==
    /\ test_gossip_service_members_with_data
    /\ test_gossip_service_alive_members_filters_dead
    /\ test_gossip_service_member_state_transitions
    /\ test_gossip_service_multiple_members_states
    /\ test_process_message_ping_new_member /\ test_process_message_ping_existing_member
    /\ test_process_message_ack_new_member /\ test_process_message_ack_existing_member
    /\ test_process_message_join_new_member
    /\ test_process_message_member_list /\ test_process_message_member_list_empty
    /\ test_check_member_failures_no_failures /\ test_check_member_failures_with_failure
    /\ test_check_member_failures_already_dead
    /\ test_check_member_failures_suspect_not_transitioned
    /\ test_select_ping_target_empty /\ test_select_ping_target_with_members
    /\ test_select_ping_target_skips_dead /\ test_select_ping_target_all_members_dead
============================================================================
