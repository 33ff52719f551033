------------------------------ MODULE Metrics ------------------------------
(***************************************************************************)
(* The Prometheus metrics store (prometheus_metrics_store.rs).  Every      *)
(* counter is an atomic of its own, changed with Relaxed ordering: a call  *)
(* owes its additions, and nothing fixes the order in which they take      *)
(* effect.  Only decrement_connections, which must not go below zero, is a *)
(* loop of load and compare_exchange_weak.                                 *)
(***************************************************************************)
EXTENDS Integers, FiniteSets, FiniteSetsExt

CONSTANTS
    Reporters,      \* tasks that report
    Hosts,          \* backends
    RttValues,
    MaxCalls        \* bound: calls that are made in all

ASSUME MetricsConstants ==
    /\ IsFiniteSet(Reporters) /\ IsFiniteSet(Hosts) /\ Hosts # {}
    /\ RttValues \subseteq Nat /\ MaxCalls \in Nat

BackendCounters == {"active", "total", "errors", "rttSum", "rttCount"}
GlobalCounters == {"allTotal", "allErrors", "sent", "received"}

VARIABLES
    entered,        \* backends with an entry
    counter,        \* BackendMetrics, by backend
    aggregate,      \* AggregatedMetrics
    lastRtt,        \* last_rtt_ms
    due,            \* additions a reporter's calls still owe, each at most once
    link,           \* a reporter's connection: none, up, or being taken down
    seen,           \* the value its compare-exchange goes by
    reported        \* history: calls and amounts, by backend

metricsVars == <<entered, counter, aggregate, lastRtt, due, link, seen, reported>>

Kinds == {"up", "error", "rtt", "ms", "bytes"}

\* An addition: to which counter of which backend, and how much.
Addition == [counter : BackendCounters \cup GlobalCounters, host : Hosts, amount : Nat]

MetricsTypeOK ==
    /\ entered \subseteq Hosts
    /\ counter \in [Hosts -> [BackendCounters -> Nat]]
    /\ aggregate \in [GlobalCounters -> Nat]
    /\ lastRtt \in [Hosts -> Nat]
    /\ \A r \in Reporters : due[r] \subseteq Addition
    /\ link \in [Reporters -> [state : {"none", "up", "down"}, host : Hosts]]
    /\ seen \in [Reporters -> Nat]
    /\ reported \in [Hosts -> [Kinds -> Nat]]

Unlinked == [state |-> "none", host |-> CHOOSE h \in Hosts : TRUE]

MetricsInit ==
    /\ entered = {}
    /\ counter = [h \in Hosts |-> [c \in BackendCounters |-> 0]]
    /\ aggregate = [c \in GlobalCounters |-> 0]
    /\ lastRtt = [h \in Hosts |-> 0]
    /\ due = [r \in Reporters |-> {}]
    /\ link = [r \in Reporters |-> Unlinked]
    /\ seen = [r \in Reporters |-> 0]
    /\ reported = [h \in Hosts |-> [k \in Kinds |-> 0]]

Owe(r, names, h, amount) ==
    due' = [due EXCEPT ![r] = {[counter |-> c, host |-> h, amount |-> amount] : c \in names}]

Report(h, kind) == reported' = [reported EXCEPT ![h][kind] = @ + 1]

CallsSoFar ==
    SumFunction([h \in Hosts |-> reported[h]["up"] + reported[h]["error"] + reported[h]["rtt"]
                                  + reported[h]["bytes"]])

\* A reporter makes one call after the other.
MayCall(r) == due[r] = {} /\ link[r].state # "down" /\ CallsSoFar < MaxCalls

IncrementConnections(r, h) ==
    /\ MayCall(r) /\ link[r].state = "none"
    /\ entered' = entered \cup {h}
    /\ link' = [link EXCEPT ![r] = [state |-> "up", host |-> h]]
    /\ Owe(r, {"active", "total", "allTotal"}, h, 1)
    /\ Report(h, "up")
    /\ UNCHANGED <<counter, aggregate, lastRtt, seen>>

RecordError(r, h) ==
    /\ MayCall(r)
    /\ entered' = entered \cup {h}
    /\ Owe(r, {"errors", "allErrors"}, h, 1)
    /\ Report(h, "error")
    /\ UNCHANGED <<counter, aggregate, lastRtt, link, seen>>

\* last_rtt_ms is stored, the other two are added to.
RecordRtt(r, h, ms) ==
    /\ MayCall(r)
    /\ entered' = entered \cup {h}
    /\ lastRtt' = [lastRtt EXCEPT ![h] = ms]
    /\ due' = [due EXCEPT ![r] = {[counter |-> "rttSum", host |-> h, amount |-> ms],
                                  [counter |-> "rttCount", host |-> h, amount |-> 1]}]
    /\ reported' = [reported EXCEPT ![h]["rtt"] = @ + 1, ![h]["ms"] = @ + ms]
    /\ UNCHANGED <<counter, aggregate, link, seen>>

\* Bytes are not counted by backend.
RecordBytes(r, h) ==
    /\ MayCall(r)
    /\ Owe(r, {"sent", "received"}, h, 1)
    /\ Report(h, "bytes")
    /\ UNCHANGED <<entered, counter, aggregate, lastRtt, link, seen>>

\* One fetch_add takes effect.
Add(r) ==
    \E a \in due[r] :
      /\ due' = [due EXCEPT ![r] = @ \ {a}]
      /\ IF a.counter \in BackendCounters
         THEN /\ counter' = [counter EXCEPT ![a.host][a.counter] = @ + a.amount]
              /\ UNCHANGED aggregate
         ELSE /\ aggregate' = [aggregate EXCEPT ![a.counter] = @ + a.amount]
              /\ UNCHANGED counter
      /\ UNCHANGED <<entered, lastRtt, link, seen, reported>>

\* decrement_connections goes by the value n, or ends if there is nothing to
\* take away.
GoBy(r, n) ==
    /\ seen' = [seen EXCEPT ![r] = n]
    /\ link' = [link EXCEPT ![r] = IF n > 0 THEN [@ EXCEPT !.state = "down"] ELSE Unlinked]

Decremented(r) ==
    /\ seen' = [seen EXCEPT ![r] = 0]
    /\ link' = [link EXCEPT ![r] = Unlinked]

\* The load; an unknown backend has none.
Load(r) ==
    /\ link[r].state = "up" /\ due[r] = {}
    /\ GoBy(r, IF link[r].host \in entered THEN counter[link[r].host]["active"] ELSE 0)
    /\ UNCHANGED <<entered, counter, aggregate, lastRtt, due, reported>>

CasOk(r) ==
    /\ link[r].state = "down"
    /\ counter[link[r].host]["active"] = seen[r]
    /\ counter' = [counter EXCEPT ![link[r].host]["active"] = seen[r] - 1]
    /\ Decremented(r)
    /\ UNCHANGED <<entered, aggregate, lastRtt, due, reported>>

\* Slip: a failed exchange is not tried again.
SlipCasFails(r) ==
    /\ link[r].state = "down"
    /\ Decremented(r)
    /\ UNCHANGED <<entered, counter, aggregate, lastRtt, due, reported>>

\* The value has changed, or the weak exchange fails for no reason.
CasFails(r) ==
    /\ link[r].state = "down"
    /\ GoBy(r, counter[link[r].host]["active"])
    /\ UNCHANGED <<entered, counter, aggregate, lastRtt, due, reported>>

\* The store lives and dies with the process.
MetricsRestart ==
    /\ CallsSoFar > 0 /\ \A r \in Reporters : due[r] = {} /\ link[r].state = "none"
    /\ entered' = {} /\ lastRtt' = [h \in Hosts |-> 0]
    /\ counter' = [h \in Hosts |-> [c \in BackendCounters |-> 0]]
    /\ aggregate' = [c \in GlobalCounters |-> 0]
    /\ reported' = [h \in Hosts |-> [k \in Kinds |-> 0]]
    /\ UNCHANGED <<due, link, seen>>

ReporterStep(r) ==
    \/ \E h \in Hosts : \/ IncrementConnections(r, h) \/ RecordError(r, h) \/ RecordBytes(r, h)
                        \/ \E ms \in RttValues : RecordRtt(r, h, ms)
    \/ Add(r) \/ Load(r) \/ CasOk(r) \/ CasFails(r)

MetricsNext == MetricsRestart \/ \E r \in Reporters : ReporterStep(r)

MetricsSpec == MetricsInit /\ [][MetricsNext]_metricsVars

----------------------------------------------------------------------------
\* avg_rtt_ms, as a fraction.
AvgRtt(h) ==
    IF counter[h]["rttCount"] = 0 THEN [num |-> 0, den |-> 1]
    ELSE [num |-> counter[h]["rttSum"], den |-> counter[h]["rttCount"]]

\* export_prometheus: what the text says.
Export ==
    [all |-> aggregate,
     backend |-> [h \in entered |->
                    [active |-> counter[h]["active"], total |-> counter[h]["total"],
                     rtt |-> lastRtt[h], avg |-> AvgRtt(h), errors |-> counter[h]["errors"]]]]

\* The text that a scrape gets while every reporter is between two calls: the
\* totals over all backends are the sums of the backends', a backend's active
\* connections are the open ones, nothing reported is missing or counted
\* twice, and the average is that of the times reported
\* (prometheus_metrics_store.rs:100-112, 130-220, 240-269).
ExportAddsUp ==
    (\A r \in Reporters : due[r] = {} /\ link[r].state # "down") =>
      LET x == Export
      IN  /\ x.all["allTotal"] = SumFunction([h \in entered |-> x.backend[h].total])
          /\ x.all["allErrors"] = SumFunction([h \in entered |-> x.backend[h].errors])
          /\ x.all["sent"] = SumFunction([h \in Hosts |-> reported[h]["bytes"]])
          /\ \A h \in Hosts \ entered : reported[h]["up"] + reported[h]["error"] = 0
          /\ \A h \in entered :
               /\ x.backend[h].active =
                    Cardinality({r \in Reporters : link[r] = [state |-> "up", host |-> h]})
               /\ x.backend[h].total = reported[h]["up"]
               /\ reported[h]["rtt"] > 0 =>
                    x.backend[h].avg.num * reported[h]["rtt"] = reported[h]["ms"] * x.backend[h].avg.den
============================================================================
