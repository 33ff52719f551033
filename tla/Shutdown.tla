------------------------------ MODULE Shutdown -----------------------------
(***************************************************************************)
(* The shutdown controller (shutdown.rs): a flag, a count of connections,  *)
(* a broadcast channel for the signal and a Notify for the end of the last *)
(* connection.  Each access to one of the four is a step.  All orderings   *)
(* are SeqCst.  A guard stands for the connections that come after each     *)
(* other in one place, each the life of one ConnectionGuard.               *)
(***************************************************************************)
EXTENDS Integers, FiniteSets

CONSTANTS
    Guards,         \* connections
    Stoppers,       \* callers of shutdown: signal handler, operator
    Drainers,       \* callers of wait_for_drain
    Subscribers

ASSUME GuardsFinite == IsFiniteSet(Guards)

VARIABLES
    initiated,      \* shutdown_initiated
    active,         \* active_connections
    guard,          \* where a connection is
    stopper,        \* where a call of shutdown is
    drainer,        \* where a call of wait_for_drain is
    signals,        \* messages sent on shutdown_tx so far
    receiver,       \* a subscriber's Receiver, or what it got
    idleSeen,       \* history: no connection was open at some time of the call
    revived         \* history: a connection began between another one's
                    \* decrement and the end of its connection_ended

shutVars == <<initiated, active, guard, stopper, drainer, signals, receiver,
              idleSeen, revived>>

ShutTypeOK ==
    /\ initiated \in BOOLEAN /\ revived \in BOOLEAN
    /\ active \in Nat /\ signals \in Nat
    /\ guard \in [Guards -> {"none", "open", "check", "notify"}]
    /\ stopper \in [Stoppers -> {"idle", "send", "done"}]
    /\ drainer \in [Drainers -> {"idle", "loaded", "listening", "woken", "drained", "timeout"}]
    /\ receiver \in [Subscribers -> {"none", "early", "late", "heard", "lagged"}]
    /\ idleSeen \in [Drainers -> BOOLEAN]

ShutInit ==
    /\ initiated = FALSE /\ active = 0 /\ signals = 0
    /\ guard = [c \in Guards |-> "none"]
    /\ stopper = [s \in Stoppers |-> "idle"]
    /\ drainer = [d \in Drainers |-> "idle"]
    /\ receiver = [r \in Subscribers |-> "none"]
    /\ idleSeen = [d \in Drainers |-> FALSE]
    /\ revived = FALSE

Open == {c \in Guards : guard[c] = "open"}
Ending == {c \in Guards : guard[c] \in {"check", "notify"}}

\* connection_guard, connection_started.  The flag is not looked at.
ConnectionStarted(c) ==
    /\ guard[c] = "none"
    /\ guard' = [guard EXCEPT ![c] = "open"]
    /\ active' = active + 1
    /\ revived' = (revived \/ Ending # {})
    /\ UNCHANGED <<initiated, stopper, drainer, signals, receiver, idleSeen>>

\* Slip: every end of a connection counts as the last.
SlipConnectionEnded(c) ==
    /\ guard[c] = "open"
    /\ guard' = [guard EXCEPT ![c] = "check"]
    /\ active' = active - 1
    /\ idleSeen' = [d \in Drainers |-> idleSeen[d] \/ Open = {c}]
    /\ UNCHANGED <<initiated, stopper, drainer, signals, receiver, revived>>

\* The drop of the guard: connection_ended, in up to three steps.
ConnectionEnded(c) ==
    /\ guard[c] = "open"
    /\ guard' = [guard EXCEPT ![c] = IF active = 1 THEN "check" ELSE "none"]
    /\ active' = active - 1
    /\ idleSeen' = [d \in Drainers |-> idleSeen[d] \/ Open = {c}]
    /\ UNCHANGED <<initiated, stopper, drainer, signals, receiver, revived>>

IsShutdown(c) ==
    /\ guard[c] = "check"
    /\ guard' = [guard EXCEPT ![c] = IF initiated THEN "notify" ELSE "none"]
    /\ UNCHANGED <<initiated, active, stopper, drainer, signals, receiver, idleSeen, revived>>

\* Wakes who listens now; the call is not kept for who listens later.
NotifyWaiters(c) ==
    /\ guard[c] = "notify"
    /\ guard' = [guard EXCEPT ![c] = "none"]
    /\ drainer' = [d \in Drainers |-> IF drainer[d] = "listening" THEN "woken" ELSE drainer[d]]
    /\ UNCHANGED <<initiated, active, stopper, signals, receiver, idleSeen, revived>>

\* shutdown: the swap, and for the first caller the send.
Swap(s) ==
    /\ stopper[s] = "idle"
    /\ initiated' = TRUE
    /\ stopper' = [stopper EXCEPT ![s] = IF initiated THEN "done" ELSE "send"]
    /\ UNCHANGED <<active, guard, drainer, signals, receiver, idleSeen, revived>>

SendSignal(s) ==
    /\ stopper[s] = "send"
    /\ stopper' = [stopper EXCEPT ![s] = "done"]
    /\ signals' = signals + 1
    /\ UNCHANGED <<initiated, active, guard, drainer, receiver, idleSeen, revived>>

\* A receiver gets the messages sent after it was made.
Subscribe(r) ==
    /\ receiver[r] = "none"
    /\ receiver' = [receiver EXCEPT ![r] = IF signals = 0 THEN "early" ELSE "late"]
    /\ UNCHANGED <<initiated, active, guard, stopper, drainer, signals, idleSeen, revived>>

\* The channel keeps one message: of two a receiver is told it missed one.
Recv(r) ==
    /\ receiver[r] = "early" /\ signals > 0
    /\ receiver' = [receiver EXCEPT ![r] = IF signals = 1 THEN "heard" ELSE "lagged"]
    /\ UNCHANGED <<initiated, active, guard, stopper, drainer, signals, idleSeen, revived>>

\* wait_for_drain: the count first, and only then the Notified future, which
\* is the first moment from which it can be woken.
WaitForDrain(d) ==
    /\ drainer[d] = "idle"
    /\ drainer' = [drainer EXCEPT ![d] = IF active = 0 THEN "drained" ELSE "loaded"]
    /\ idleSeen' = [idleSeen EXCEPT ![d] = (Open = {})]
    /\ UNCHANGED <<initiated, active, guard, stopper, signals, receiver, revived>>

Notified(d) ==
    /\ drainer[d] = "loaded"
    /\ drainer' = [drainer EXCEPT ![d] = "listening"]
    /\ UNCHANGED <<initiated, active, guard, stopper, signals, receiver, idleSeen, revived>>

Woken(d) ==
    /\ drainer[d] = "woken"
    /\ drainer' = [drainer EXCEPT ![d] = "drained"]
    /\ UNCHANGED <<initiated, active, guard, stopper, signals, receiver, idleSeen, revived>>

\* Slip: the timeout is given up when the wake-up has not come.
SlipDrainTimeout(d) ==
    /\ drainer[d] = "woken"
    /\ drainer' = [drainer EXCEPT ![d] = "timeout"]
    /\ UNCHANGED <<initiated, active, guard, stopper, signals, receiver, idleSeen, revived>>

\* select! takes either arm when both are ready.
DrainTimeout(d) ==
    /\ drainer[d] \in {"listening", "woken"}
    /\ drainer' = [drainer EXCEPT ![d] = "timeout"]
    /\ UNCHANGED <<initiated, active, guard, stopper, signals, receiver, idleSeen, revived>>

DrainStep(d) == WaitForDrain(d) \/ Notified(d) \/ Woken(d) \/ DrainTimeout(d)
GuardStep(c) == ConnectionEnded(c) \/ IsShutdown(c) \/ NotifyWaiters(c)
StopStep(s) == Swap(s) \/ SendSignal(s)

ShutNext ==
    \/ \E c \in Guards : ConnectionStarted(c) \/ GuardStep(c)
    \/ \E s \in Stoppers : StopStep(s)
    \/ \E r \in Subscribers : Subscribe(r) \/ Recv(r)
    \/ \E d \in Drainers : DrainStep(d)

\* Calls go on once made, receivers are polled and the timer fires.
\* Connections need not end, and nobody need call anything.
ShutFairness ==
    /\ \A s \in Stoppers : WF_shutVars(SendSignal(s))
    /\ \A r \in Subscribers : WF_shutVars(Recv(r))
    /\ \A d \in Drainers : WF_shutVars(Notified(d) \/ Woken(d) \/ DrainTimeout(d))

ShutSpec == ShutInit /\ [][ShutNext]_shutVars

----------------------------------------------------------------------------
\* wait_for_drain reports a drain only if during the call there was a moment
\* with no connection open (shutdown.rs:66-83), unless a connection began
\* while another was between its decrement and its notification: that late
\* notification belongs to a drain that is over.
DrainIsReal ==
    \A d \in Drainers : drainer[d] = "drained" => idleSeen[d] \/ revived

\* The waits of a shutdown end: a drain that is waited for comes to a report,
\* also when the wake-up went by between the check and the listening, and who
\* subscribed before the signal hears it (shutdown.rs:43-48, 73-90).
WaitsEnd ==
    /\ \A d \in Drainers :
          drainer[d] = "loaded" ~> drainer[d] \in {"drained", "timeout"}
    /\ \A r \in Subscribers :
          (receiver[r] = "early" /\ initiated) ~> receiver[r] = "heard"
============================================================================
