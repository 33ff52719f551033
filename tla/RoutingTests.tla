---------------------------- MODULE RoutingTests ----------------------------
(***************************************************************************)
(* The unit tests of load_balancer.rs, proxy_service.rs, dns_server.rs,    *)
(* dashmap_binding_repo.rs, dashmap_metrics_store.rs and                   *)
(* sqlite_backend_repo.rs that make no use of concurrency, evaluated on    *)
(* Routing: what the repository expects of them is what the model does.    *)
(***************************************************************************)
EXTENDS Routing

(* The helpers of the tests.                                               *)
create_backend_with_limits(id, region, country, weight, soft, hard) ==
    [id |-> id, app |-> "test", region |-> from_str(region), country |-> country,
     wg_ip |-> "10.0.0.1", port |-> 8080, healthy |-> TRUE,
     weight |-> weight, soft_limit |-> soft, hard_limit |-> hard]
create_backend(id, region, country) ==
    create_backend_with_limits(id, region, country, 1, 100, 200)
Unhealthy(b) == [b EXCEPT !.healthy = FALSE]

Br1 == create_backend("br-1", "sa", "BR")
Br2 == create_backend("br-2", "sa", "BR")
Ar1 == create_backend("ar-1", "sa", "AR")
Us1 == create_backend("us-1", "us", "US")
Jp1 == create_backend("jp-1", "ap", "JP")
Eu1 == create_backend("eu-1", "eu", "DE")
BR == GeoInfo("BR", "SouthAmerica")
Every(n) == [id \in {"br-1", "br-2", "br-3", "ar-1", "us-1", "eu-1", "jp-1"} |-> n]
None == Every(0)

\* Who is picked: the identifiers of an Option<Backend>.
Picks(backends, local, geo, count) ==
    { b.id : b \in pick_backend(backends, local, geo, count) }

(* load_balancer.rs                                                        *)
test_pick_backend_same_country_priority ==
    Picks(<<Br1, Ar1, Us1>>, "NorthAmerica", BR, None) = {"br-1"}
test_pick_backend_same_region_when_no_country_match ==
    Picks(<<Ar1, Us1>>, "NorthAmerica", BR, None) = {"ar-1"}
test_pick_backend_local_region_fallback ==
    Picks(<<Us1, Jp1>>, "NorthAmerica", NoGeo, None) = {"us-1"}
test_pick_backend_global_fallback == Picks(<<Jp1>>, "NorthAmerica", BR, None) = {"jp-1"}
test_pick_backend_respects_hard_limit ==
    Picks(<<Br1, Us1>>, "NorthAmerica", BR, [Every(0) EXCEPT !["br-1"] = 200]) = {"us-1"}
test_pick_backend_all_at_hard_limit ==
    Picks(<<Br1, Us1>>, "SouthAmerica", NoGeo, Every(200)) = {}
test_pick_backend_zero_hard_limit_means_unlimited ==
    Picks(<<[Br1 EXCEPT !.hard_limit = 0]>>, "SouthAmerica", NoGeo, Every(1000)) = {"br-1"}
test_pick_backend_skips_unhealthy ==
    Picks(<<Unhealthy(Br1), Us1>>, "NorthAmerica", BR, None) = {"us-1"}
test_pick_backend_all_unhealthy ==
    Picks(<<Unhealthy(Br1), Unhealthy(Us1)>>, "SouthAmerica", NoGeo, None) = {}
test_pick_backend_prefers_lower_load ==
    Picks(<<Br1, Br2>>, "SouthAmerica", BR, [Every(10) EXCEPT !["br-1"] = 50]) = {"br-2"}
test_pick_backend_weight_affects_preference ==
    Picks(<<Br1, [Br2 EXCEPT !.weight = 3]>>, "SouthAmerica", BR, Every(50)) = {"br-2"}
test_pick_backend_zero_weight_treated_as_one ==
    Picks(<<[Br1 EXCEPT !.weight = 0]>>, "SouthAmerica", NoGeo, Every(50)) = {"br-1"}
test_pick_backend_zero_soft_limit_treated_as_one ==
    Picks(<<[Br1 EXCEPT !.soft_limit = 0]>>, "SouthAmerica", NoGeo, None) = {"br-1"}
test_pick_backend_no_backends == Picks(<<>>, "SouthAmerica", BR, None) = {}
test_pick_backend_single_backend == Picks(<<Jp1>>, "SouthAmerica", NoGeo, None) = {"jp-1"}
test_pick_backend_no_client_geo == Picks(<<Br1, Us1>>, "SouthAmerica", NoGeo, None) = {"br-1"}
test_geo_priority_over_load ==
    Picks(<<Br1, Us1>>, "NorthAmerica", BR, [Every(0) EXCEPT !["br-1"] = 90]) = {"br-1"}
test_pick_backend_keeps_best_when_second_is_worse ==
    Picks(<<Br1, Jp1>>, "Europe", BR, None) = {"br-1"}
test_pick_backend_multiple_same_score ==
    Picks(<<Br1, Br2, create_backend("br-3", "sa", "BR")>>, "SouthAmerica", BR, None) = {"br-1"}

\* The score of id is at least `low' and below `high'.
Within(scores, id, low, high) ==
    \E s \in scores : s.id = id /\ low * s.den <= s.num /\ s.num < high * s.den

test_calculate_all_scores ==
    LET scores == calculate_all_scores(<<Br1, Us1, Unhealthy(Jp1)>>, "NorthAmerica", BR, None)
        Of(id) == CHOOSE s \in scores : s.id = id
    IN  /\ { s.id : s \in scores } = {"br-1", "us-1"}
        /\ Of("br-1").num * Of("us-1").den < Of("us-1").num * Of("br-1").den
test_calculate_all_scores_empty_backends ==
    calculate_all_scores(<<>>, "SouthAmerica", NoGeo, None) = {}
test_calculate_all_scores_with_zero_weight ==
    Within(calculate_all_scores(<<[Br1 EXCEPT !.weight = 0]>>, "SouthAmerica", NoGeo, Every(50)),
           "br-1", 200, 300)
test_calculate_all_scores_with_zero_soft_limit ==
    Within(calculate_all_scores(<<[Br1 EXCEPT !.soft_limit = 0]>>, "SouthAmerica", NoGeo, None),
           "br-1", 200, 300)
test_calculate_all_scores_with_client_geo ==
    LET scores == calculate_all_scores(<<Br1, Ar1, Jp1>>, "Europe", BR, None) IN
    /\ Within(scores, "br-1", 0, 100) /\ Within(scores, "ar-1", 100, 200)
    /\ Within(scores, "jp-1", 300, 400)
test_calculate_all_scores_local_region_fallback ==
    LET scores == calculate_all_scores(<<Eu1, Jp1>>, "Europe", NoGeo, None) IN
    Within(scores, "eu-1", 200, 300) /\ Within(scores, "jp-1", 300, 400)

(* proxy_service.rs                                                        *)
Client == "192.168.1.1"
Service(backends, local) ==
    [backends |-> backends, bindings |-> EmptyMap, metrics |-> EmptyMap, geo |-> EmptyMap,
     local |-> local, now |-> 100]
BoundTo(service, id) == [service EXCEPT !.bindings = Put(@, Client, NewBinding(id, 0))]
Full(service, id) == [service EXCEPT !.metrics = increment_connections(@, id)]

\* r resolved to the backend id, and the client is bound to it.
Gives(r, id) ==
    { b.id : b \in r.backend } = {id} /\ r.bindings[Client].backend_id = id
GivesNone(r) == r.backend = {} /\ Client \notin DOMAIN r.bindings

test_resolve_backend_creates_binding ==
    Gives(resolve_backend(Service(<<Br1>>, "SouthAmerica"), Client), "br-1")
test_resolve_backend_uses_existing_binding ==
    Gives(resolve_backend(BoundTo(Service(<<Br1, Br2>>, "SouthAmerica"), "br-2"), Client), "br-2")
test_resolve_backend_removes_stale_binding_for_unhealthy ==
    Gives(resolve_backend(BoundTo(Service(<<Unhealthy(Br1), Br2>>, "SouthAmerica"), "br-1"), Client),
          "br-2")
test_resolve_backend_no_healthy_backends ==
    GivesNone(resolve_backend(Service(<<Unhealthy(Br1), Unhealthy(Br2)>>, "SouthAmerica"), Client))
test_resolve_backend_empty_backends ==
    GivesNone(resolve_backend(Service(<<>>, "SouthAmerica"), Client))
test_resolve_backend_with_geo ==
    Gives(resolve_backend_with_geo(Service(<<Br1, Us1>>, "NorthAmerica"), Client, BR), "br-1")
test_resolve_backend_with_geo_respects_existing_binding ==
    Gives(resolve_backend_with_geo(BoundTo(Service(<<Br1, Us1>>, "NorthAmerica"), "us-1"), Client, BR),
          "us-1")
test_clear_binding ==
    Client \notin DOMAIN clear_binding(BoundTo(Service(<<Br1>>, "SouthAmerica"), "br-1"), Client).bindings
test_resolve_geo_with_resolver ==
    resolve_geo([Service(<<Br1>>, "SouthAmerica") EXCEPT !.geo = Client :> GeoInfo("FR", "Europe")],
                Client) = {GeoInfo("FR", "Europe")}
test_resolve_geo_without_resolver == resolve_geo(Service(<<Br1>>, "SouthAmerica"), Client) = {}
test_resolve_backend_removes_stale_binding_for_missing ==
    Gives(resolve_backend(BoundTo(Service(<<Br2>>, "SouthAmerica"), "deleted-backend"), Client), "br-2")
test_resolve_backend_with_geo_removes_stale_for_unhealthy ==
    Gives(resolve_backend_with_geo(
              BoundTo(Service(<<Unhealthy(Br1), Br2>>, "SouthAmerica"), "br-1"), Client, BR), "br-2")
test_resolve_backend_with_geo_removes_stale_for_missing ==
    Gives(resolve_backend_with_geo(
              BoundTo(Service(<<Br2>>, "SouthAmerica"), "deleted-backend"), Client, BR), "br-2")
test_resolve_backend_with_geo_no_healthy_backends ==
    GivesNone(resolve_backend_with_geo(
                  Service(<<Unhealthy(Br1), Unhealthy(Br2)>>, "SouthAmerica"), Client, BR))
test_multiple_clients_different_backends ==
    LET service == [Service(<<Br1, Us1>>, "Europe") EXCEPT
                      !.geo = Put(Client :> BR, "192.168.1.2", GeoInfo("US", "NorthAmerica"))]
        first == resolve_backend(service, Client)
        second == resolve_backend([service EXCEPT !.bindings = first.bindings], "192.168.1.2")
    IN  /\ Gives(first, "br-1") /\ second.bindings[Client].backend_id = "br-1"
        /\ second.bindings["192.168.1.2"].backend_id = "us-1"
test_run_binding_cleanup == cleanup_expired(Client :> NewBinding("br-1", 0), 0, 1) = EmptyMap
test_run_binding_cleanup_keeps_fresh ==
    DOMAIN cleanup_expired(Client :> NewBinding("br-1", 0), 3600, 1) = {Client}
test_resolve_backend_all_at_hard_limit ==
    GivesNone(resolve_backend(
                  Full(Service(<<[Br1 EXCEPT !.hard_limit = 1]>>, "SouthAmerica"), "br-1"), Client))
test_resolve_backend_with_geo_all_at_hard_limit ==
    GivesNone(resolve_backend_with_geo(
                  Full(Service(<<[Br1 EXCEPT !.hard_limit = 1]>>, "SouthAmerica"), "br-1"), Client, BR))

(* dashmap_metrics_store.rs, and the counts of proxy_service.rs            *)
Times(n, op(_, _), metrics, id) == FoldLeft(LAMBDA m, i : op(m, id), metrics, [i \in 1..n |-> i])
Ups(n) == Times(n, increment_connections, EmptyMap, "backend-1")
Downs(n, metrics) == Times(n, decrement_connections, metrics, "backend-1")
CountIs(metrics, n) == get_connection_count(metrics, "backend-1") = n

test_record_connection_start == CountIs(Ups(2), 2)
test_record_connection_end == CountIs(Downs(1, Ups(2)), 1)
test_connection_count_starts_at_zero == CountIs(EmptyMap, 0)
test_connection_count_increment == \A n \in 1..3 : CountIs(Ups(n), n)
test_connection_count_decrement == CountIs(Downs(1, Ups(2)), 1) /\ CountIs(Downs(2, Ups(2)), 0)
test_decrement_nonexistent_backend == Downs(1, EmptyMap) = EmptyMap
test_decrement_at_zero_saturates == CountIs(Downs(2, Ups(1)), 0)
test_rtt_starts_as_none == get_last_rtt(EmptyMap, "backend-1") = {}
test_rtt_overwrites_previous ==
    get_last_rtt(record_rtt(record_rtt(EmptyMap, "backend-1", 50), "backend-1", 100), "backend-1") = {100}
test_rtt_zero_value == get_last_rtt(record_rtt(EmptyMap, "backend-1", 0), "backend-1") = {0}
test_multiple_backends_isolated ==
    LET m == increment_connections(Ups(2), "backend-2") IN
    CountIs(m, 2) /\ get_connection_count(m, "backend-2") = 1 /\ get_connection_count(m, "backend-3") = 0
test_multiple_backends_rtt_isolated ==
    LET m == record_rtt(record_rtt(EmptyMap, "backend-1", 50), "backend-2", 100) IN
    /\ get_last_rtt(m, "backend-1") = {50} /\ get_last_rtt(m, "backend-2") = {100}
    /\ get_last_rtt(m, "backend-3") = {}
test_get_metrics == record_rtt(Ups(2), "backend-1", 42)["backend-1"] = [conns |-> 2, rtt |-> 42]

(* dashmap_binding_repo.rs                                                 *)
Old == NewBinding("backend-1", 0)
Fresh == NewBinding("backend-2", 100)

test_set_and_get == { b.backend_id : b \in Lookup(Client :> Old, Client) } = {"backend-1"}
test_get_nonexistent == Lookup(EmptyMap, Client) = {}
test_set_overwrites ==
    { b.backend_id : b \in Lookup(Put(Client :> Old, Client, Fresh), Client) } = {"backend-2"}
test_remove == Lookup(Drop(Client :> Old, {Client}), Client) = {}
test_remove_nonexistent_does_not_panic == Drop(EmptyMap, {Client}) = EmptyMap
test_touch_updates_last_seen == touch(Client :> Old, Client, 100)[Client].last_seen > Old.last_seen
test_touch_nonexistent_does_not_panic == touch(EmptyMap, Client, 100) = EmptyMap
test_cleanup_expired == cleanup_expired(Client :> Old, 50, 100) = EmptyMap
test_cleanup_keeps_fresh_bindings == DOMAIN cleanup_expired(Client :> Fresh, 100, 100) = {Client}
test_cleanup_mixed_bindings ==
    DOMAIN cleanup_expired(Put(Client :> Old, "192.168.1.2", Fresh), 50, 100) = {"192.168.1.2"}
test_multiple_clients_isolated ==
    LET m == Put(Put("a" :> Old, "b", Fresh), "c", Old) IN
    { <<k, m[k].backend_id>> : k \in DOMAIN m } =
        {<<"a", "backend-1">>, <<"b", "backend-2">>, <<"c", "backend-1">>}

(* sqlite_backend_repo.rs                                                  *)
Row(id, healthy) == <<id, "myapp", "eu", "DE", "10.50.1.1", 8080, healthy, 2, 100, 150>>

test_get_by_id_found == get_by_id(<<Eu1, Us1>>, "eu-1") = {Eu1}
test_get_by_id_not_found == get_by_id(<<Eu1>>, "nonexistent") = {}
test_get_healthy_filters_unhealthy == get_healthy(<<Br1, Unhealthy(Us1), Br2>>) = <<Br1, Br2>>
test_get_healthy_empty_when_all_unhealthy == get_healthy(<<Unhealthy(Br1), Unhealthy(Us1)>>) = <<>>
test_load_from_sqlite_with_temp_db ==
    LET list == load_from_sqlite({[columns |-> Row("test-1", 1), deleted |-> {0}],
                                  [columns |-> Row("test-2", 0), deleted |-> {0}]})
    IN  { <<b.id, b.region, b.healthy>> : b \in list } =
            {<<"test-1", "Europe", TRUE>>, <<"test-2", "Europe", FALSE>>}
test_load_from_sqlite_excludes_deleted ==
    { b.id : b \in load_from_sqlite({[columns |-> Row("active", 1), deleted |-> {0}],
                                     [columns |-> Row("deleted", 1), deleted |-> {1}]}) } = {"active"}
test_load_from_sqlite_includes_null_deleted ==
    { b.id : b \in load_from_sqlite({[columns |-> Row("null-deleted", 1), deleted |-> {}]}) } =
        {"null-deleted"}
test_row_to_backend_mapping ==
    row_to_backend(<<"b1", "app1", "sa", "BR", "10.1.1.1", 9000, 1, 5, 200, 300>>) =
        [id |-> "b1", app |-> "app1", region |-> "SouthAmerica", country |-> "BR",
         wg_ip |-> "10.1.1.1", port |-> 9000, healthy |-> TRUE, weight |-> 5,
         soft_limit |-> 200, hard_limit |-> 300]

(* dns_server.rs                                                           *)
Internal == <<"internal">>
MyApp == <<"myapp", "internal">>
Ipv4 == {"10.50.1.1"}
App(app, ip) == [Eu1 EXCEPT !.app = app, !.wg_ip = ip]
Resolve(backends, name, loopback) ==
    dns_resolve(Service(backends, "Europe"), name, Internal, Client, loopback, Ipv4).backend
Answer(backends, name, type) ==
    handle_request(Service(backends, "Europe"), name, type, Internal, Client, FALSE, Ipv4)
Mine == <<App("myapp", "10.50.1.1")>>

test_dns_handler_resolve_with_backend == Resolve(Mine, MyApp, FALSE) = {"10.50.1.1"}
test_dns_handler_resolve_no_backend == Resolve(<<>>, MyApp, FALSE) = {}
test_dns_handler_resolve_wrong_domain == Resolve(Mine, <<"myapp", "external">>, FALSE) = {}
test_dns_handler_resolve_root_domain == Resolve(Mine, Internal, FALSE) # {}
test_dns_handler_resolve_ipv6_backend_returns_none ==
    Resolve(<<App("myapp", "2001:db8::1")>>, MyApp, FALSE) = {}
test_dns_handler_resolve_localhost_client == Resolve(Mine, MyApp, TRUE) # {}
test_dns_handler_resolve_different_app_name ==
    Resolve(<<App("api", "10.50.1.1")>>, <<"webapp", "internal">>, FALSE) # {}
test_dns_handler_resolve_with_geo_resolver ==
    dns_resolve([Service(Mine, "Europe") EXCEPT !.geo = "8.8.8.8" :> GeoInfo("DE", "Europe")],
                MyApp, Internal, "8.8.8.8", FALSE, Ipv4).backend # {}
test_dns_handler_nested_subdomain ==
    Resolve(<<App("api.v2", "10.50.1.1")>>, <<"api", "v2", "myapp", "internal">>, FALSE) # {}
test_request_handler_a_record_query_success == Answer(Mine, MyApp, "A") = "NoError"
test_request_handler_a_record_query_nxdomain == Answer(<<>>, MyApp, "A") = "NXDomain"
test_request_handler_non_a_record_query == Answer(Mine, MyApp, "AAAA") = "NotImp"
test_request_handler_mx_record_query == Answer(Mine, MyApp, "MX") = "NotImp"
test_request_handler_wrong_domain_nxdomain == Answer(Mine, <<"myapp", "external">>, "A") = "NXDomain"
test_request_handler_root_domain_query == Answer(Mine, Internal, "A") = "NoError"
test_request_handler_ipv6_backend_nxdomain ==
    Answer(<<App("myapp", "2001:db8::1")>>, MyApp, "A") = "NXDomain"

ASSUME LoadBalancerUnitTests ==
    /\ test_pick_backend_same_country_priority
    /\ test_pick_backend_same_region_when_no_country_match
    /\ test_pick_backend_local_region_fallback /\ test_pick_backend_global_fallback
    /\ test_pick_backend_respects_hard_limit /\ test_pick_backend_all_at_hard_limit
    /\ test_pick_backend_zero_hard_limit_means_unlimited /\ test_pick_backend_skips_unhealthy
    /\ test_pick_backend_all_unhealthy /\ test_pick_backend_prefers_lower_load
    /\ test_pick_backend_weight_affects_preference
    /\ test_pick_backend_zero_weight_treated_as_one
    /\ test_pick_backend_zero_soft_limit_treated_as_one /\ test_pick_backend_no_backends
    /\ test_pick_backend_single_backend /\ test_pick_backend_no_client_geo
    /\ test_geo_priority_over_load /\ test_pick_backend_keeps_best_when_second_is_worse
    /\ test_pick_backend_multiple_same_score /\ test_calculate_all_scores
    /\ test_calculate_all_scores_empty_backends /\ test_calculate_all_scores_with_zero_weight
    /\ test_calculate_all_scores_with_zero_soft_limit
    /\ test_calculate_all_scores_with_client_geo
    /\ test_calculate_all_scores_local_region_fallback

ASSUME ProxyServiceUnitTests ==
    /\ test_resolve_backend_creates_binding /\ test_resolve_backend_uses_existing_binding
    /\ test_resolve_backend_removes_stale_binding_for_unhealthy
    /\ test_resolve_backend_no_healthy_backends /\ test_resolve_backend_empty_backends
    /\ test_resolve_backend_with_geo
    /\ test_resolve_backend_with_geo_respects_existing_binding /\ test_clear_binding
    /\ test_resolve_geo_with_resolver /\ test_resolve_geo_without_resolver
    /\ test_resolve_backend_removes_stale_binding_for_missing
    /\ test_resolve_backend_with_geo_removes_stale_for_unhealthy
    /\ test_resolve_backend_with_geo_removes_stale_for_missing
    /\ test_resolve_backend_with_geo_no_healthy_backends
    /\ test_multiple_clients_different_backends /\ test_run_binding_cleanup
    /\ test_run_binding_cleanup_keeps_fresh /\ test_resolve_backend_all_at_hard_limit
    /\ test_resolve_backend_with_geo_all_at_hard_limit

ASSUME MetricsUnitTests ==
    /\ test_record_connection_start /\ test_record_connection_end
    /\ test_connection_count_starts_at_zero /\ test_connection_count_increment
    /\ test_connection_count_decrement /\ test_decrement_nonexistent_backend
    /\ test_decrement_at_zero_saturates /\ test_rtt_starts_as_none
    /\ test_rtt_overwrites_previous /\ test_rtt_zero_value /\ test_multiple_backends_isolated
    /\ test_multiple_backends_rtt_isolated /\ test_get_metrics

ASSUME BindingUnitTests ==
    /\ test_set_and_get /\ test_get_nonexistent /\ test_set_overwrites /\ test_remove
    /\ test_remove_nonexistent_does_not_panic /\ test_touch_updates_last_seen
    /\ test_touch_nonexistent_does_not_panic /\ test_cleanup_expired
    /\ test_cleanup_keeps_fresh_bindings /\ test_cleanup_mixed_bindings
    /\ test_multiple_clients_isolated

ASSUME RepositoryUnitTests ==
    /\ test_get_by_id_found /\ test_get_by_id_not_found /\ test_get_healthy_filters_unhealthy
    /\ test_get_healthy_empty_when_all_unhealthy /\ test_load_from_sqlite_with_temp_db
    /\ test_load_from_sqlite_excludes_deleted /\ test_load_from_sqlite_includes_null_deleted
    /\ test_row_to_backend_mapping

ASSUME DnsUnitTests ==
    /\ test_dns_handler_resolve_with_backend /\ test_dns_handler_resolve_no_backend
    /\ test_dns_handler_resolve_wrong_domain /\ test_dns_handler_resolve_root_domain
    /\ test_dns_handler_resolve_ipv6_backend_returns_none
    /\ test_dns_handler_resolve_localhost_client
    /\ test_dns_handler_resolve_different_app_name
    /\ test_dns_handler_resolve_with_geo_resolver /\ test_dns_handler_nested_subdomain
    /\ test_request_handler_a_record_query_success
    /\ test_request_handler_a_record_query_nxdomain /\ test_request_handler_non_a_record_query
    /\ test_request_handler_mx_record_query /\ test_request_handler_wrong_domain_nxdomain
    /\ test_request_handler_root_domain_query /\ test_request_handler_ipv6_backend_nxdomain
=============================================================================
