-------------------------- MODULE CircuitBreaker ---------------------------
(***************************************************************************)
(* The circuit of one backend (circuit_breaker.rs) and the callers that    *)
(* ask it, use the backend and report.  Its fields are separate atomics,   *)
(* so every access is a step; a caller holds the map's read guard over its *)
(* accesses, which keeps insert and clear_all out but no other caller.     *)
(* What a caller still has to store is the sequence todo[c].               *)
(* Times are kept as ages, which grow up to the largest threshold they are *)
(* compared with; a call's now, which the code takes at its beginning, is  *)
(* taken where the call decides, and grows older in todo until stored.     *)
(***************************************************************************)
EXTENDS Integers, Sequences

CONSTANTS
    Users,              \* tasks that use the backend
    FailureThreshold, SuccessThreshold,
    ResetTimeout,       \* age at which an open circuit is tried again
    FailureWindow       \* age beyond which failures are forgotten

ASSUME UsersType == Users # {}
ASSUME ThresholdsType ==
    FailureThreshold \in Nat \ {0} /\ SuccessThreshold \in Nat \ {0}
ASSUME TimeoutsType == ResetTimeout \in Nat \ {0} /\ FailureWindow \in Nat

VARIABLES
    circuit,    \* BackendCircuit; the key is there or not
    known,
    uptime,     \* age of the process, which is time 0 of a new circuit
    serving,    \* whether requests to the backend succeed
    op,         \* what a user is in: nothing, a call, or the request itself
    at,         \* and where in that call
    todo        \* the stores it has decided on

breakerVars == <<circuit, known, uptime, serving, op, at, todo>>

States == {"Closed", "Open", "HalfOpen"}
Calls == {"allow", "success", "failure", "reset"}
Oldest == IF ResetTimeout > FailureWindow THEN ResetTimeout ELSE FailureWindow + 1
Older(age) == IF age < Oldest THEN age + 1 ELSE Oldest

Stores == ({"state"} \X States)
            \cup ({"failures", "successes", "openedAt", "lastFailure"} \X Nat)

BreakerTypeOK ==
    /\ circuit \in [state : States, failures : Nat, successes : Nat,
                    openedAt : 0..Oldest, lastFailure : 0..Oldest]
    /\ known \in BOOLEAN
    /\ uptime \in 0..Oldest
    /\ serving \in BOOLEAN
    /\ op \in [Users -> {"none", "request"} \cup Calls]
    /\ at \in [Users -> {"", "look", "insert", "get", "state", "timeout", "count",
                         "window", "store"}]
    /\ \A u \in Users : todo[u] \in Seq(Stores)

NewCircuit == [state |-> "Closed", failures |-> 0, successes |-> 0,
               openedAt |-> uptime, lastFailure |-> uptime]

BreakerInit ==
    /\ uptime = 0
    /\ circuit = NewCircuit
    /\ known = FALSE
    /\ serving \in BOOLEAN
    /\ op = [u \in Users |-> "none"]
    /\ at = [u \in Users |-> ""]
    /\ todo = [u \in Users |-> <<>>]

\* Users that hold the map's guard.
Inside(u) == at[u] \in {"state", "timeout", "count", "window", "store"}
Nobody == \A u \in Users : ~Inside(u)

Enter(u, call) ==
    /\ op' = [op EXCEPT ![u] = call]
    /\ at' = [at EXCEPT ![u] = "look"]

\* What follows a call.
Leave(u, next) ==
    /\ op' = [op EXCEPT ![u] = next]
    /\ at' = [at EXCEPT ![u] = ""]

\* The rest of the call is these stores.
Decide(u, stores) ==
    /\ at' = [at EXCEPT ![u] = "store"]
    /\ todo' = [todo EXCEPT ![u] = stores]
    /\ UNCHANGED <<circuit, op>>

Return(u, next) == Leave(u, next) /\ UNCHANGED <<circuit, todo>>

Ask(u) ==
    /\ op[u] = "none"
    /\ Enter(u, "allow")
    /\ UNCHANGED <<circuit, known, uptime, serving, todo>>

\* The request itself, and the report of its outcome.
Request(u) ==
    /\ op[u] = "request"
    /\ Enter(u, IF serving THEN "success" ELSE "failure")
    /\ UNCHANGED <<circuit, known, uptime, serving, todo>>

\* get_or_create; reset only looks.
Look(u) ==
    /\ at[u] = "look"
    /\ at' = [at EXCEPT ![u] = IF known \/ op[u] = "reset" THEN "get" ELSE "insert"]
    /\ UNCHANGED <<circuit, known, uptime, serving, op, todo>>

\* Replaces the circuit another user may have entered meanwhile.
Insert(u) ==
    /\ at[u] = "insert"
    /\ Nobody
    /\ circuit' = NewCircuit
    /\ known' = TRUE
    /\ at' = [at EXCEPT ![u] = "get"]
    /\ UNCHANGED <<uptime, serving, op, todo>>

\* Unwrapping the missing entry, if clear_all came between, ends the task.
Get(u) ==
    /\ at[u] = "get"
    /\ IF known THEN at' = [at EXCEPT ![u] = "state"] /\ UNCHANGED op
       ELSE Leave(u, "none")
    /\ UNCHANGED <<circuit, known, uptime, serving, todo>>

AllowState(u) ==
    IF circuit.state = "Open"
      THEN at' = [at EXCEPT ![u] = "timeout"] /\ UNCHANGED <<circuit, op, todo>>
      ELSE Return(u, "request")

SuccessState(u) ==
    CASE circuit.state = "HalfOpen" ->
           at' = [at EXCEPT ![u] = "count"] /\ UNCHANGED <<circuit, op, todo>>
      [] circuit.state = "Closed" -> Decide(u, <<<<"failures", 0>>>>)
      [] circuit.state = "Open" -> Return(u, "none")

FailureState(u) ==
    CASE circuit.state = "Closed" ->
           at' = [at EXCEPT ![u] = "window"] /\ UNCHANGED <<circuit, op, todo>>
      [] circuit.state = "HalfOpen" ->
           Decide(u, <<<<"state", "Open">>, <<"openedAt", 0>>, <<"successes", 0>>>>)
      [] circuit.state = "Open" -> Decide(u, <<<<"openedAt", 0>>>>)

\* reset does not look at the state.
ResetState(u) ==
    Decide(u, <<<<"state", "Closed">>, <<"failures", 0>>, <<"successes", 0>>>>)

ReadState(u) ==
    /\ at[u] = "state"
    /\ CASE op[u] = "allow" -> AllowState(u)
         [] op[u] = "success" -> SuccessState(u)
         [] op[u] = "failure" -> FailureState(u)
         [] op[u] = "reset" -> ResetState(u)
    /\ UNCHANGED <<known, uptime, serving>>

\* Slip: the request is let through but the circuit stays open.
SlipReadOpenedAt(u) ==
    /\ at[u] = "timeout"
    /\ IF circuit.openedAt >= ResetTimeout
         THEN Decide(u, <<<<"successes", 0>>>>)
         ELSE Return(u, "none")
    /\ UNCHANGED <<known, uptime, serving>>

\* The end of allow_request for a circuit found open.
ReadOpenedAt(u) ==
    /\ at[u] = "timeout"
    /\ IF circuit.openedAt >= ResetTimeout
         THEN Decide(u, <<<<"state", "HalfOpen">>, <<"successes", 0>>>>)
         ELSE Return(u, "none")
    /\ UNCHANGED <<known, uptime, serving>>

\* Slip: the counters are cleared before the circuit is closed.
SlipCloses == <<<<"failures", 0>>, <<"successes", 0>>, <<"state", "Closed">>>>

Closes == <<<<"state", "Closed">>, <<"failures", 0>>, <<"successes", 0>>>>

CountSuccess(u) ==
    /\ at[u] = "count"
    /\ op[u] = "success"
    /\ circuit' = [circuit EXCEPT !.successes = @ + 1]
    /\ IF circuit'.successes >= SuccessThreshold
         THEN /\ at' = [at EXCEPT ![u] = "store"]
              /\ todo' = [todo EXCEPT ![u] = Closes]
              /\ UNCHANGED op
         ELSE Leave(u, "none") /\ UNCHANGED todo
    /\ UNCHANGED <<known, uptime, serving>>

ReadLastFailure(u) ==
    /\ at[u] = "window"
    /\ IF circuit.lastFailure > FailureWindow
         THEN Decide(u, <<<<"failures", 1>>, <<"lastFailure", 0>>>>)
         ELSE at' = [at EXCEPT ![u] = "count"] /\ UNCHANGED <<circuit, op, todo>>
    /\ UNCHANGED <<known, uptime, serving>>

CountFailure(u) ==
    /\ at[u] = "count"
    /\ op[u] = "failure"
    /\ circuit' = [circuit EXCEPT !.failures = @ + 1]
    /\ at' = [at EXCEPT ![u] = "store"]
    /\ todo' = [todo EXCEPT ![u] =
                 IF circuit'.failures >= FailureThreshold
                 THEN <<<<"state", "Open">>, <<"openedAt", 0>>, <<"lastFailure", 0>>>>
                 ELSE <<<<"lastFailure", 0>>>>]
    /\ UNCHANGED <<known, uptime, serving, op>>

\* One store; after the last one the call returns, and allow has allowed.
Store(u) ==
    /\ at[u] = "store"
    /\ circuit' = [circuit EXCEPT ![Head(todo[u])[1]] = Head(todo[u])[2]]
    /\ todo' = [todo EXCEPT ![u] = Tail(@)]
    /\ IF Len(todo[u]) = 1
         THEN Leave(u, IF op[u] = "allow" THEN "request" ELSE "none")
         ELSE UNCHANGED <<op, at>>
    /\ UNCHANGED <<known, uptime, serving>>

\* An operator closes the circuit by hand.
Reset(u) ==
    /\ op[u] = "none"
    /\ Enter(u, "reset")
    /\ UNCHANGED <<circuit, known, uptime, serving, todo>>

ClearAll ==
    /\ known
    /\ Nobody
    /\ known' = FALSE
    /\ circuit' = NewCircuit
    /\ UNCHANGED <<uptime, serving, op, at, todo>>

\* The backend breaks down or comes back.
Turn ==
    /\ serving' = ~serving
    /\ UNCHANGED <<circuit, known, uptime, op, at, todo>>

Times == {"openedAt", "lastFailure"}

BreakerTick ==
    /\ uptime' = Older(uptime)
    /\ circuit' = [f \in DOMAIN circuit |->
                     IF f \in Times THEN Older(circuit[f]) ELSE circuit[f]]
    /\ todo' = [u \in Users |-> [i \in DOMAIN todo[u] |->
                  IF todo[u][i][1] \in Times
                  THEN <<todo[u][i][1], Older(todo[u][i][2])>> ELSE todo[u][i]]]
    /\ UNCHANGED <<known, serving, op, at>>

Step(u) ==
    \/ Ask(u) \/ Request(u) \/ Look(u) \/ Insert(u) \/ Get(u)
    \/ ReadState(u) \/ ReadOpenedAt(u) \/ CountSuccess(u)
    \/ ReadLastFailure(u) \/ CountFailure(u) \/ Store(u)

BreakerNext ==
    \/ \E u \in Users : Step(u) \/ Reset(u)
    \/ ClearAll \/ Turn \/ BreakerTick

\* Users keep coming and finish their calls, and time passes.
BreakerFairness ==
    /\ \A u \in Users : WF_breakerVars(Step(u))
    /\ WF_breakerVars(BreakerTick)

BreakerSpec == BreakerInit /\ [][BreakerNext]_breakerVars /\ BreakerFairness

----------------------------------------------------------------------------
\* With nobody in a call, a closed circuit has counted fewer failures than the
\* threshold: whoever reached it has opened the circuit, and nobody has closed
\* it again without forgetting them (circuit_breaker.rs:168, :204).
FullCountTrips ==
    (\A u \in Users : at[u] = "") /\ circuit.state = "Closed"
       => circuit.failures < FailureThreshold

\* Once the backend serves for good the circuit closes for good: it is never
\* stuck open or half-open by lost or delayed stores (circuit_breaker.rs:140-176).
BreakerRecovers == <>[]serving => <>[](circuit.state = "Closed")
============================================================================
