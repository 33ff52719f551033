------------------------------ MODULE Routing -------------------------------
(***************************************************************************)
(* ProxyService and the ports behind it, one call at a time: what each     *)
(* operation answers and leaves behind when no other task is between its   *)
(* steps.  Proxy takes the same operations apart into their accesses to    *)
(* shared state; this module is what a caller alone would see, and what    *)
(* the unit tests describe.                                                *)
(*                                                                         *)
(* A service is a record [backends, bindings, metrics, geo, local, now]:   *)
(* the list of the backend repository, the two maps, what the geo resolver *)
(* knows (nothing if there is none), the region of the POP and the time.   *)
(* An Option is the set of what it holds.                                  *)
(***************************************************************************)
EXTENDS Domain, LoadBalancer, SequencesExt

EmptyMap == [k \in {} |-> 0]
Lookup(map, k) == IF k \in DOMAIN map THEN {map[k]} ELSE {}
Put(map, k, v) == (k :> v) @@ map
Drop(map, keys) == [k \in DOMAIN map \ keys |-> map[k]]

(* The backend repositories: a list, searched from its front.              *)
get_by_id(backends, id) ==
    LET at == {i \in DOMAIN backends : backends[i].id = id}
    IN  IF at = {} THEN {} ELSE {backends[Min(at)]}
get_healthy(backends) == SelectSeq(backends, LAMBDA b : b.healthy)

(* The binding repository.                                                 *)
touch(bindings, key, now) ==
    IF key \in DOMAIN bindings THEN [bindings EXCEPT ![key] = Touched(@, now)] ELSE bindings
Stale(bindings, ttl, now) == {k \in DOMAIN bindings : now - bindings[k].last_seen > ttl}
cleanup_expired(bindings, ttl, now) == Drop(bindings, Stale(bindings, ttl, now))

(* The metrics store: an entry comes into being with its first number.     *)
NoMetrics == [conns |-> 0, rtt |-> 0]
MetricsOf(metrics, id) == IF id \in DOMAIN metrics THEN metrics[id] ELSE NoMetrics
get_connection_count(metrics, id) == MetricsOf(metrics, id).conns
increment_connections(metrics, id) ==
    Put(metrics, id, [MetricsOf(metrics, id) EXCEPT !.conns = @ + 1])
decrement_connections(metrics, id) ==
    IF id \in DOMAIN metrics
    THEN [metrics EXCEPT ![id].conns = IF @ > 0 THEN @ - 1 ELSE 0] ELSE metrics
record_rtt(metrics, id, ms) == Put(metrics, id, [MetricsOf(metrics, id) EXCEPT !.rtt = ms])
get_last_rtt(metrics, id) == { m.rtt : m \in Lookup(metrics, id) }

(* The load balancer of a POP in the region given.                         *)
Pop(r) == INSTANCE LoadBalancer WITH LocalRegion <- r

pick_backend(backends, local, client_geo, count) ==
    LET Turn(best, i) ==
            IF backends[i].healthy
            THEN Pop(local)!Consider(backends, best, i, count[backends[i].id], client_geo)
            ELSE best
        best == FoldLeftDomain(Turn, NoBest, backends)
    IN  IF best = NoBest THEN {} ELSE {backends[best.id]}

\* The scores, as fractions, of the healthy backends; limits are not looked at.
calculate_all_scores(backends, local, client_geo, count) ==
    { [id |-> b.id, num |-> Pop(local)!ScoreNum(b, count[b.id], client_geo),
       den |-> Pop(local)!ScoreDen(b)] : b \in Range(get_healthy(backends)) }

(* The proxy service.                                                      *)
Resolved(backend, bindings) == [backend |-> backend, bindings |-> bindings]

resolve_geo(service, ip) == Lookup(service.geo, ip)

resolve_backend_with_geo(service, ip, client_geo) ==
    LET bound == Lookup(service.bindings, ip)
        usable == { b \in UNION { get_by_id(service.backends, x.backend_id) : x \in bound } :
                      b.healthy }
        count == [id \in {b.id : b \in Range(service.backends)} |->
                    get_connection_count(service.metrics, id)]
        picked == pick_backend(get_healthy(service.backends), service.local, client_geo, count)
        cleared == Drop(service.bindings, {ip})
    IN  IF usable # {} THEN Resolved(usable, touch(service.bindings, ip, service.now))
        ELSE IF picked = {} THEN Resolved({}, cleared)
        ELSE LET b == CHOOSE x \in picked : TRUE
             IN  Resolved(picked, Put(cleared, ip, NewBinding(b.id, service.now)))

\* The geo information of an address, as the load balancer takes it.
GeoOrNone(known) == IF known = {} THEN NoGeo ELSE CHOOSE g \in known : TRUE

resolve_backend(service, ip) ==
    resolve_backend_with_geo(service, ip, GeoOrNone(resolve_geo(service, ip)))

clear_binding(service, ip) == [service EXCEPT !.bindings = Drop(@, {ip})]

(***************************************************************************)
(* resolve_localhost_geo of the TCP listener: the answer for the public    *)
(* address of the POP, asked for until it has been given once.  public is  *)
(* that address, if the lookup of it succeeds.                             *)
(***************************************************************************)
resolve_localhost_geo(service, cached, public) ==
    LET asked == UNION { Lookup(service.geo, ip) : ip \in public }
    IN  [geo |-> IF cached # {} THEN cached ELSE asked,
         cached |-> IF cached # {} THEN cached ELSE asked]

(***************************************************************************)
(* The DNS handler.  A name is the sequence of its labels, in lower case   *)
(* and without the dot at its end; so is the domain served.  Ipv4 is the   *)
(* set of addresses that parse as IPv4.                                    *)
(***************************************************************************)
InDomain(name, domain) == IsSuffix(domain, name)

\* The client's own address is resolved unless it is a loopback one.  The
\* application in the name is compared, and the answer is the same either way.
dns_resolve(service, name, domain, ip, loopback, ipv4) ==
    LET client_geo == IF loopback THEN NoGeo ELSE GeoOrNone(resolve_geo(service, ip))
        r == resolve_backend_with_geo(service, ip, client_geo)
    IN  IF ~InDomain(name, domain) THEN Resolved({}, service.bindings)
        ELSE Resolved({ b.wg_ip : b \in r.backend } \cap ipv4, r.bindings)

\* The code of the response; sending it may fail and changes nothing.
handle_request(service, name, type, domain, ip, loopback, ipv4) ==
    IF type # "A" THEN "NotImp"
    ELSE IF dns_resolve(service, name, domain, ip, loopback, ipv4).backend = {}
         THEN "NXDomain" ELSE "NoError"
=============================================================================
