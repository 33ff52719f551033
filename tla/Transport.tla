----------------------------- MODULE Transport -----------------------------
(***************************************************************************)
(* The QUIC transport (transport.rs): the table of peers, the two ends of  *)
(* a connection, broadcast, the task per stream, and the channel of events.*)
(* The end that accepts reads streams; the end that dialled does not.  QUIC *)
(* itself is left as what the code sees of it: connections that open and   *)
(* close, and streams that arrive whole, or not at all, in any order.      *)
(***************************************************************************)
EXTENDS Integers, Sequences, FiniteSets

CONSTANTS
    Hubs,           \* nodes
    Casters,        \* those that broadcast
    Closers,        \* those on which shutdown is called
    Lines,          \* connections, numbered in the order in which they are made
    Casts,          \* broadcasts
    EventRoom,      \* capacity of a node's event channel, 1024
    NoHub

ASSUME TransportConstants ==
    /\ Casters \subseteq Hubs /\ Closers \subseteq Hubs /\ NoHub \notin Hubs
    /\ Lines \subseteq Nat /\ EventRoom \in Nat \ {0}

VARIABLES
    accepting,      \* the accept loop of a node: waits for one more, or is over
    closing,        \* the shutdown flag of a node
    line,           \* a connection: its two ends and whether it is open
    answerer,       \* the task at the end that accepted
    dialler,        \* the call of connect at the other end
    peers,          \* a node's table: name of the peer to connection
    cast,           \* a broadcast: who makes it, its size, connections to go
    streams,        \* streams on their way
    reading,        \* streams with a task of their own
    unread,         \* events in a node's channel
    announced,      \* history: peers whose connection a node has announced
    got             \* history: how often a node has passed on a broadcast

wireVars == <<accepting, closing, line, answerer, dialler, peers, cast, streams, reading, unread, announced, got>>

\* A node enters who calls it under the address, whom it calls under the id.
Names == [kind : {"addr", "id"}, hub : Hubs]
Stream == [cast : Casts, line : Lines, from : Hubs]
NoLine == -1
Untouched == [state |-> "unused", from |-> NoHub, to |-> NoHub]
Uncast == [state |-> "unused", by |-> NoHub, fits |-> TRUE, left |-> {}]

WireTypeOK ==
    /\ accepting \in [Hubs -> {"waits", "over"}] /\ closing \in [Hubs -> BOOLEAN]
    /\ line \in [Lines -> [state : {"unused", "open", "closed"},
                           from : Hubs \cup {NoHub}, to : Hubs \cup {NoHub}]]
    /\ answerer \in [Lines -> {"none", "insert", "announce", "serve", "leave", "over"}]
    /\ dialler \in [Lines -> {"none", "insert", "announce", "over"}]
    /\ peers \in [Hubs -> [Names -> Lines \cup {NoLine}]]
    /\ cast \in [Casts -> [state : {"unused", "sending"}, by : Hubs \cup {NoHub},
                           fits : BOOLEAN, left : SUBSET Lines]]
    /\ streams \subseteq Stream /\ reading \subseteq Stream
    /\ unread \in [Hubs -> 0..EventRoom]
    /\ announced \in [Hubs -> SUBSET Names] /\ got \in [Hubs -> [Casts -> Nat]]

WireInit ==
    /\ accepting = [n \in Hubs |-> "waits"] /\ closing = [n \in Hubs |-> FALSE]
    /\ line = [c \in Lines |-> Untouched]
    /\ answerer = [c \in Lines |-> "none"] /\ dialler = [c \in Lines |-> "none"]
    /\ peers = [n \in Hubs |-> [k \in Names |-> NoLine]]
    /\ cast = [b \in Casts |-> Uncast]
    /\ streams = {} /\ reading = {}
    /\ unread = [n \in Hubs |-> 0]
    /\ announced = [n \in Hubs |-> {}] /\ got = [n \in Hubs |-> [b \in Casts |-> 0]]

\* mpsc send: waits for room.
Send(n) ==
    /\ unread[n] < EventRoom
    /\ unread' = [unread EXCEPT ![n] = @ + 1]

\* Whoever has taken the receiver reads an event.
ReadEvent(n) ==
    /\ unread[n] > 0
    /\ unread' = [unread EXCEPT ![n] = @ - 1]
    /\ UNCHANGED <<accepting, closing, line, answerer, dialler, peers, cast, streams,
                   reading, announced, got>>

Caller(c) == [kind |-> "addr", hub |-> line[c].from]
Called(c) == [kind |-> "id", hub |-> line[c].to]

\* connect at m, accept at n.  The loop of n looks at the flag only before it
\* waits: one more connection is taken after shutdown.
Dial(c, m, n) ==
    /\ m # n /\ line[c] = Untouched /\ \A d \in Lines : d < c => line[d] # Untouched
    /\ accepting[n] = "waits"
    /\ line' = [line EXCEPT ![c] = [state |-> "open", from |-> m, to |-> n]]
    /\ accepting' = [accepting EXCEPT ![n] = IF closing[n] THEN "over" ELSE "waits"]
    /\ answerer' = [answerer EXCEPT ![c] = "insert"]
    /\ dialler' = [dialler EXCEPT ![c] = "insert"]
    /\ UNCHANGED <<closing, peers, cast, streams, reading, unread, announced, got>>

ShutdownHub(n) ==
    /\ ~closing[n]
    /\ closing' = [closing EXCEPT ![n] = TRUE]
    /\ UNCHANGED <<accepting, line, answerer, dialler, peers, cast, streams, reading, unread, announced, got>>

\* The dialling end: into the table, and the event.
DiallerInserts(c) ==
    /\ dialler[c] = "insert"
    /\ peers' = [peers EXCEPT ![line[c].from][Called(c)] = c]
    /\ dialler' = [dialler EXCEPT ![c] = "announce"]
    /\ UNCHANGED <<accepting, closing, line, answerer, cast, streams, reading, unread, announced, got>>

DiallerAnnounces(c) ==
    /\ dialler[c] = "announce"
    /\ Send(line[c].from)
    /\ announced' = [announced EXCEPT ![line[c].from] = @ \cup {Called(c)}]
    /\ dialler' = [dialler EXCEPT ![c] = "over"]
    /\ UNCHANGED <<accepting, closing, line, answerer, peers, cast, streams, reading, got>>

\* The accepting end, which then serves streams.
AnswererInserts(c) ==
    /\ answerer[c] = "insert"
    /\ peers' = [peers EXCEPT ![line[c].to][Caller(c)] = c]
    /\ answerer' = [answerer EXCEPT ![c] = "announce"]
    /\ UNCHANGED <<accepting, closing, line, dialler, cast, streams, reading, unread, announced, got>>

AnswererAnnounces(c) ==
    /\ answerer[c] = "announce"
    /\ Send(line[c].to)
    /\ announced' = [announced EXCEPT ![line[c].to] = @ \cup {Caller(c)}]
    /\ answerer' = [answerer EXCEPT ![c] = "serve"]
    /\ UNCHANGED <<accepting, closing, line, dialler, peers, cast, streams, reading, got>>

\* Slip: streams are served from the start, and by both ends.
SlipAcceptUni(s) ==
    /\ s \in streams
    /\ line[s.line].state = "open"
    /\ streams' = streams \ {s} /\ reading' = reading \cup {s}
    /\ UNCHANGED <<accepting, closing, line, answerer, dialler, peers, cast, unread, announced, got>>

\* handle_connection: a task for the next stream of the other end.
AcceptUni(s) ==
    /\ s \in streams
    /\ line[s.line].state = "open"
    /\ answerer[s.line] = "serve" /\ s.from = line[s.line].from
    /\ streams' = streams \ {s} /\ reading' = reading \cup {s}
    /\ UNCHANGED <<accepting, closing, line, answerer, dialler, peers, cast, unread, announced, got>>

\* The task reads the length and the message and passes it on.
Deliver(s) ==
    LET n == IF s.from = line[s.line].from THEN line[s.line].to ELSE line[s.line].from
    IN  /\ s \in reading /\ cast[s.cast].fits
        /\ Send(n)
        /\ got' = [got EXCEPT ![n][s.cast] = @ + 1]
        /\ reading' = reading \ {s}
        /\ UNCHANGED <<accepting, closing, line, answerer, dialler, peers, cast, streams, announced>>

\* It gives up: the message is too long, or the connection fails first.
GiveUpReading(s) ==
    /\ s \in reading
    /\ ~cast[s.cast].fits \/ line[s.line].state = "closed"
    /\ reading' = reading \ {s}
    /\ UNCHANGED <<accepting, closing, line, answerer, dialler, peers, cast, streams, unread, announced, got>>

\* Either end or the network ends a connection; streams not yet taken go too.
Close(c) ==
    /\ line[c].state = "open"
    /\ line' = [line EXCEPT ![c].state = "closed"]
    /\ streams' = {s \in streams : s.line # c}
    /\ UNCHANGED <<accepting, closing, answerer, dialler, peers, cast, reading, unread, announced, got>>

\* accept_uni fails, and the loop of handle_connection ends.  The table keeps
\* the connection, and tasks of streams go on.
ServeEnds(c) ==
    /\ answerer[c] = "serve" /\ line[c].state = "closed"
    /\ answerer' = [answerer EXCEPT ![c] = "leave"]
    /\ UNCHANGED <<accepting, closing, line, dialler, peers, cast, streams, reading, unread, announced, got>>

AnswererLeaves(c) ==
    /\ answerer[c] = "leave"
    /\ Send(line[c].to)
    /\ answerer' = [answerer EXCEPT ![c] = "over"]
    /\ UNCHANGED <<accepting, closing, line, dialler, peers, cast, streams, reading, announced, got>>

\* broadcast: a copy of the table, then one connection after the other.
Broadcast(b, n, fits) ==
    /\ cast[b] = Uncast
    /\ cast' = [cast EXCEPT ![b] = [state |-> "sending", by |-> n, fits |-> fits,
                                    left |-> {peers[n][k] : k \in Names} \ {NoLine}]]
    /\ UNCHANGED <<accepting, closing, line, answerer, dialler, peers, streams, reading, unread, announced, got>>

\* is_alive and send: a connection that has been closed is passed over.
SendTo(b, c) ==
    /\ c \in cast[b].left
    /\ cast' = [cast EXCEPT ![b].left = @ \ {c}]
    /\ streams' = IF line[c].state = "open"
                  THEN streams \cup {[cast |-> b, line |-> c, from |-> cast[b].by]}
                  ELSE streams
    /\ UNCHANGED <<accepting, closing, line, answerer, dialler, peers, reading, unread, announced, got>>

\* Both processes end and start anew, with nothing left of the connections.
WireRestart ==
    /\ \A c \in Lines : line[c].state = "closed"
    /\ accepting' = [n \in Hubs |-> "waits"] /\ closing' = [n \in Hubs |-> FALSE]
    /\ line' = [c \in Lines |-> Untouched]
    /\ answerer' = [c \in Lines |-> "none"] /\ dialler' = [c \in Lines |-> "none"]
    /\ peers' = [n \in Hubs |-> [k \in Names |-> NoLine]]
    /\ cast' = [b \in Casts |-> Uncast]
    /\ streams' = {} /\ reading' = {}
    /\ unread' = [n \in Hubs |-> 0]
    /\ announced' = [n \in Hubs |-> {}] /\ got' = [n \in Hubs |-> [b \in Casts |-> 0]]

DiallerStep(c) == DiallerInserts(c) \/ DiallerAnnounces(c)
AnswererStep(c) ==
    AnswererInserts(c) \/ AnswererAnnounces(c) \/ ServeEnds(c) \/ AnswererLeaves(c)

WireNext ==
    \/ WireRestart
    \/ \E n \in Hubs : ReadEvent(n)
    \/ \E n \in Closers : ShutdownHub(n)
    \/ \E c \in Lines :
         \/ \E m, n \in Hubs : Dial(c, m, n)
         \/ Close(c) \/ DiallerStep(c) \/ AnswererStep(c)
    \/ \E s \in Stream : AcceptUni(s) \/ Deliver(s) \/ GiveUpReading(s)
    \/ \E b \in Casts :
         \/ \E n \in Casters, fits \in BOOLEAN : Broadcast(b, n, fits)
         \/ \E c \in Lines : SendTo(b, c)

WireSpec == WireInit /\ [][WireNext]_wireVars

----------------------------------------------------------------------------
\* Two nodes that have dialled each other, or one that has dialled again, hold
\* several connections, and a broadcast goes out on each that the table has:
\* still a node is handed a broadcast at most once, because only the end that
\* accepted reads and a name has one connection; and it hears of a message's
\* sender before it gets the message (transport.rs:341-353, 386, 398-407,
\* 427-460).
DeliveredOnce ==
    \A n \in Hubs, b \in Casts :
      /\ got[n][b] <= 1
      /\ got[n][b] > 0 => [kind |-> "addr", hub |-> cast[b].by] \in announced[n]
============================================================================
