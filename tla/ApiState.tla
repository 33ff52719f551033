------------------------------ MODULE ApiState ------------------------------
(***************************************************************************)
(* The registry of the auto-discovery API (api_server.rs) and its handlers *)
(* as functions.  A registry maps identifiers to entries; the instants of  *)
(* an entry are kept as ages.                                              *)
(***************************************************************************)
EXTENDS Domain, FiniteSets

EmptyRegistry == [id \in {} |-> 0]

\* An entry for the backend just registered.
Entry(req) == [backend |-> from_request(req), registered_at |-> 0, last_heartbeat |-> 0]

\* A new entry replaces the one the identifier had.
register(backends, req) ==
    [id \in DOMAIN backends \cup {req.id} |-> IF id = req.id THEN Entry(req) ELSE backends[id]]

Without(backends, ids) == [id \in DOMAIN backends \ ids |-> backends[id]]

\* The two below answer with a Boolean, and the registry they leave.
heartbeat(backends, id) ==
    [ok |-> id \in DOMAIN backends,
     backends |-> [i \in DOMAIN backends |->
                     IF i = id THEN [backends[i] EXCEPT !.last_heartbeat = 0] ELSE backends[i]]]

deregister(backends, id) ==
    [ok |-> id \in DOMAIN backends, backends |-> Without(backends, {id})]

\* Slip: the comparison is the one for healthy backends.
SlipExpired(backends, ttl) == {id \in DOMAIN backends : backends[id].last_heartbeat < ttl}

\* What cleanup_expired collects, and what is left when it has run alone.
Expired(backends, ttl) == {id \in DOMAIN backends : backends[id].last_heartbeat >= ttl}
cleanup_expired(backends, ttl) == Without(backends, Expired(backends, ttl))

\* Time passes.  A second past `most' makes no difference to anyone.
OneMore(age, most) == IF age < most THEN age + 1 ELSE age
Aged(backends, most) ==
    [id \in DOMAIN backends |->
       [backends[id] EXCEPT !.registered_at = OneMore(@, most), !.last_heartbeat = OneMore(@, most)]]

get_healthy_backends(backends, ttl) ==
    { backends[id].backend : id \in {i \in DOMAIN backends : backends[i].last_heartbeat < ttl} }

Status(entry, ttl) ==
    LET b == entry.backend IN
    [id |-> b.id, app |-> b.app, region |-> as_str(b.region), ip |-> b.wg_ip, port |-> b.port,
     healthy |-> entry.last_heartbeat < ttl,
     last_heartbeat_secs |-> entry.last_heartbeat, registered_secs |-> entry.registered_at]

get_all_backends(backends, ttl) == { Status(backends[id], ttl) : id \in DOMAIN backends }

(* The handlers: the status code, the body, and the registry afterwards.   *)
Reply(code, body, backends) == [code |-> code, body |-> body, backends |-> backends]

health_handler(backends) == Reply(200, Cardinality(DOMAIN backends), backends)
register_handler(backends, req) == Reply(201, req.id, register(backends, req))
heartbeat_handler(backends, id) ==
    LET h == heartbeat(backends, id) IN Reply(IF h.ok THEN 200 ELSE 404, id, h.backends)
deregister_handler(backends, id) ==
    LET d == deregister(backends, id) IN Reply(IF d.ok THEN 200 ELSE 404, id, d.backends)
list_backends_handler(backends, ttl) == Reply(200, get_all_backends(backends, ttl), backends)
get_backend_handler(backends, id, ttl) ==
    IF id \in DOMAIN backends
    THEN Reply(200, {Status(backends[id], ttl)}, backends) ELSE Reply(404, {}, backends)
=============================================================================
