--------------------------- MODULE HealthChecker ---------------------------
(***************************************************************************)
(* The active health checker (health_checker.rs), for one backend: the     *)
(* loop of start, which takes a list of the backends, probes each and      *)
(* updates its status, and the callback that is told of changes.  Latency  *)
(* and error texts are left out.                                           *)
(***************************************************************************)
EXTENDS Integers, Sequences

CONSTANTS
    HealthyThreshold, UnhealthyThreshold

ASSUME HealthThresholds ==
    HealthyThreshold \in Nat \ {0} /\ UnhealthyThreshold \in Nat \ {0}

VARIABLES
    listed,     \* the repository has the backend
    reachable,  \* a probe gets through
    loop,       \* where the loop is: at the tick, the probe, the update
    probe,      \* result of the probe
    status,     \* HealthStatus: healthy, and the two counters
    told,       \* what the callback was last told
    results     \* history: results of the last updates, newest last

healthVars == <<listed, reachable, loop, probe, status, told, results>>

\* Counters are compared with their thresholds only, and stop above them.
Most == 1 + (IF HealthyThreshold > UnhealthyThreshold
             THEN HealthyThreshold ELSE UnhealthyThreshold)
Count(n) == IF n < Most THEN n + 1 ELSE Most

HealthTypeOK ==
    /\ listed \in BOOLEAN /\ reachable \in BOOLEAN
    /\ loop \in {"tick", "probe", "update"}
    /\ probe \in BOOLEAN /\ told \in BOOLEAN
    /\ status \in [healthy : BOOLEAN, successes : 0..Most, failures : 0..Most]
    /\ results \in Seq(BOOLEAN)

\* HealthStatus::default; nobody is told of that.
HealthInit ==
    /\ listed \in BOOLEAN /\ reachable \in BOOLEAN
    /\ loop = "tick"
    /\ probe = TRUE
    /\ status = [healthy |-> TRUE, successes |-> 0, failures |-> 0]
    /\ told = TRUE
    /\ results = <<>>

\* Slip: a success leaves the failures counted, and the other way round.
SlipTransition(s, ok) ==
    LET good == IF ok THEN Count(s.successes) ELSE s.successes
        bad == IF ok THEN s.failures ELSE Count(s.failures)
    IN  [healthy |-> IF s.healthy THEN ok \/ bad < UnhealthyThreshold
                     ELSE ok /\ good >= HealthyThreshold,
         successes |-> good, failures |-> bad]

\* calculate_health_transition, which update_status repeats.
Transition(s, ok) ==
    LET good == IF ok THEN Count(s.successes) ELSE 0
        bad == IF ok THEN 0 ELSE Count(s.failures)
    IN  [healthy |-> IF s.healthy THEN ok \/ bad < UnhealthyThreshold
                     ELSE ok /\ good >= HealthyThreshold,
         successes |-> good, failures |-> bad]

\* A tick: get_all.  A backend that is not on the list keeps its old status.
Round ==
    /\ loop = "tick"
    /\ listed
    /\ loop' = "probe"
    /\ UNCHANGED <<listed, reachable, probe, status, told, results>>

CheckBackend ==
    /\ loop = "probe"
    /\ probe' = reachable
    /\ loop' = "update"
    /\ UNCHANGED <<listed, reachable, status, told, results>>

\* The last results, as many as a threshold may ask for.
Recent(s) == IF Len(s) > Most THEN Tail(s) ELSE s

\* Slip: the callback is told of breakdowns only.
SlipUpdateStatus ==
    /\ loop = "update"
    /\ status' = Transition(status, probe)
    /\ told' = IF status.healthy /\ ~status'.healthy THEN FALSE ELSE told
    /\ results' = Recent(Append(results, probe))
    /\ loop' = "tick"
    /\ UNCHANGED <<listed, reachable, probe>>

\* Under the write lock, the callback included.
UpdateStatus ==
    /\ loop = "update"
    /\ status' = Transition(status, probe)
    /\ told' = IF status'.healthy # status.healthy THEN status'.healthy ELSE told
    /\ results' = Recent(Append(results, probe))
    /\ loop' = "tick"
    /\ UNCHANGED <<listed, reachable, probe>>

\* The backend breaks down or comes back, or is entered or deleted.
Flip ==
    /\ reachable' = ~reachable
    /\ UNCHANGED <<listed, loop, probe, status, told, results>>

Relist ==
    /\ listed' = ~listed
    /\ UNCHANGED <<reachable, loop, probe, status, told, results>>

HealthNext == Round \/ CheckBackend \/ UpdateStatus \/ Flip \/ Relist

\* The loop goes on: the interval ticks and a probe ends by its timeout.
HealthLoop == Round \/ CheckBackend \/ UpdateStatus
HealthFairness == WF_healthVars(HealthLoop)

HealthSpec == HealthInit /\ [][HealthNext]_healthVars /\ HealthFairness

----------------------------------------------------------------------------
\* The callback is told of a change only after as many equal results in a row
\* as the threshold asks for: neither a single lost probe nor alternating
\* results move a backend in or out (health_checker.rs:221-243).
ChangeHasCause ==
    [][told' # told =>
         LET n == Len(results')
             k == IF told' THEN HealthyThreshold ELSE UnhealthyThreshold
         IN  n >= k /\ \A i \in (n - k + 1)..n : results'[i] = told']_healthVars

\* What the callback was last told becomes true: of a backend that stays in
\* the repository and stays up, or down, it is told so in the end, whatever it
\* counted before (health_checker.rs:135-146).
HealthSettles ==
    /\ <>[](listed /\ reachable) => <>[]told
    /\ <>[](listed /\ ~reachable) => <>[]~told
============================================================================
