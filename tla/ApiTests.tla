------------------------------ MODULE ApiTests ------------------------------
(***************************************************************************)
(* The unit tests of api_server.rs for ApiState and its handlers,          *)
(* evaluated on the model.  A test that waits lets one second pass.        *)
(***************************************************************************)
EXTENDS ApiState

\* The request most tests send, and the JSON body that leaves fields out.
Req(id) ==
    [id |-> id, app |-> "myapp", region |-> "eu", country |-> {}, ip |-> "10.0.0.1",
     port |-> 8080, weight |-> 2, soft_limit |-> 100, hard_limit |-> 150]
Body(id) ==
    [id |-> id, app |-> "myapp", region |-> "eu", country |-> Defaults.country,
     ip |-> "10.0.0.1", port |-> 8080, weight |-> Defaults.weight,
     soft_limit |-> Defaults.soft_limit, hard_limit |-> Defaults.hard_limit]
From(id, region, country) == [Req(id) EXCEPT !.region = region, !.country = {country}]

One == register(EmptyRegistry, Req("test-1"))

test_register_backend == DOMAIN One = {"test-1"}

test_heartbeat == heartbeat(One, "test-1").ok /\ ~heartbeat(One, "nonexistent").ok

test_deregister ==
    LET d == deregister(One, "test-1") IN
    d.ok /\ ~deregister(d.backends, "test-1").ok /\ d.backends = EmptyRegistry

test_get_healthy_backends ==
    LET both == register(register(EmptyRegistry, From("eu-1", "eu", "DE")), From("us-1", "us", "US"))
    IN  Cardinality(get_healthy_backends(both, 60)) = 2

test_get_all_backends == { s.id : s \in get_all_backends(One, 60) } = {"test-1"}

test_default_values ==
    Defaults.weight = 2 /\ Defaults.soft_limit = 100 /\ Defaults.hard_limit = 150

test_register_with_country ==
    LET b == register(EmptyRegistry, From("test-1", "eu", "FR"))["test-1"].backend
    IN  b.country = "FR" /\ b.region = "Europe"

test_register_updates_existing ==
    LET again == register(One, [Req("test-1") EXCEPT !.ip = "10.0.0.99", !.port = 9090, !.weight = 5])
        b == again["test-1"].backend
    IN  DOMAIN again = {"test-1"} /\ b.wg_ip = "10.0.0.99" /\ b.port = 9090 /\ b.weight = 5

test_get_all_backends_with_multiple_regions ==
    LET both == register(register(EmptyRegistry, From("sa-1", "sa", "BR")),
                         [From("ap-1", "ap", "JP") EXCEPT !.weight = 3])
    IN  { s.region : s \in get_all_backends(both, 60) } = {"sa", "ap"}

test_cleanup_expired_removes_old_backends ==
    cleanup_expired(Aged(One, 3600), 0) = EmptyRegistry
test_cleanup_expired_keeps_fresh_backends == cleanup_expired(One, 3600) = One

test_register_all_regions ==
    \A pair \in {<<"sa", "BR", "SouthAmerica">>, <<"us", "US", "NorthAmerica">>,
                 <<"eu", "DE", "Europe">>, <<"ap", "JP", "AsiaPacific">>} :
        register(EmptyRegistry, From("r-1", pair[1], pair[2]))["r-1"].backend.region = pair[3]

test_backend_status_healthy_reflects_ttl == \A s \in get_all_backends(One, 3600) : s.healthy

test_health_handler == health_handler(EmptyRegistry).code = 200
test_register_handler == register_handler(EmptyRegistry, Body("backend-1")).code = 201
test_heartbeat_handler_success == heartbeat_handler(One, "test-1").code = 200
test_heartbeat_handler_not_found == heartbeat_handler(EmptyRegistry, "nonexistent").code = 404
test_deregister_handler_success == deregister_handler(One, "test-1").code = 200
test_deregister_handler_not_found == deregister_handler(EmptyRegistry, "nonexistent").code = 404
test_list_backends_handler_empty == list_backends_handler(EmptyRegistry, 60).code = 200
test_list_backends_handler_with_backends == list_backends_handler(One, 60).code = 200
test_get_backend_handler_success == get_backend_handler(One, "test-1", 60).code = 200
test_get_backend_handler_not_found ==
    get_backend_handler(EmptyRegistry, "nonexistent", 60).code = 404

\* Each answer of the sequence, and an empty registry at its end.
test_full_lifecycle ==
    LET in == register_handler(EmptyRegistry, Body("test-backend"))
        beat == heartbeat_handler(in.backends, "test-backend")
        out == deregister_handler(beat.backends, "test-backend")
    IN  /\ health_handler(EmptyRegistry).code = 200 /\ in.code = 201
        /\ list_backends_handler(in.backends, 60).code = 200
        /\ get_backend_handler(in.backends, "test-backend", 60).code = 200
        /\ beat.code = 200 /\ out.code = 200 /\ out.backends = EmptyRegistry

ASSUME ApiUnitTests ==
    /\ test_register_backend /\ test_heartbeat /\ test_deregister
    /\ test_get_healthy_backends /\ test_get_all_backends /\ test_default_values
    /\ test_register_with_country /\ test_register_updates_existing
    /\ test_get_all_backends_with_multiple_regions
    /\ test_cleanup_expired_removes_old_backends /\ test_cleanup_expired_keeps_fresh_backends
    /\ test_register_all_regions /\ test_backend_status_healthy_reflects_ttl
    /\ test_health_handler /\ test_register_handler
    /\ test_heartbeat_handler_success /\ test_heartbeat_handler_not_found
    /\ test_deregister_handler_success /\ test_deregister_handler_not_found
    /\ test_list_backends_handler_empty /\ test_list_backends_handler_with_backends
    /\ test_get_backend_handler_success /\ test_get_backend_handler_not_found
    /\ test_full_lifecycle
=============================================================================
