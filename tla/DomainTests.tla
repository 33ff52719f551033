---------------------------- MODULE DomainTests -----------------------------
(***************************************************************************)
(* The unit tests of domain/value_objects.rs, domain/entities.rs and       *)
(* maxmind_geo_resolver.rs, evaluated on Domain.  Tests of what Rust       *)
(* derives (clone, hash, debug output) say nothing of the model and are    *)
(* left out, as are those of the contents of the embedded database.        *)
(***************************************************************************)
EXTENDS Domain

(* domain/value_objects.rs                                                 *)
Parses(inputs, region) == \A s \in inputs : from_str(s) = region
Lies(countries, region) == \A c \in countries : from_country(c) = region

test_region_from_str_lowercase ==
    /\ Parses({"sa"}, "SouthAmerica") /\ Parses({"us"}, "NorthAmerica")
    /\ Parses({"eu"}, "Europe") /\ Parses({"ap"}, "AsiaPacific")
test_region_from_str_uppercase ==
    /\ Parses({"SA"}, "SouthAmerica") /\ Parses({"US"}, "NorthAmerica")
    /\ Parses({"EU"}, "Europe") /\ Parses({"AP"}, "AsiaPacific")
test_region_from_str_mixed_case ==
    /\ Parses({"Sa"}, "SouthAmerica") /\ Parses({"Us"}, "NorthAmerica")
    /\ Parses({"Eu"}, "Europe") /\ Parses({"Ap"}, "AsiaPacific")
test_region_from_str_fallback ==
    Parses({"invalid", "xx", "", "north", "south", "asia"}, "NorthAmerica")
test_region_from_country_south_america ==
    Lies({"BR", "AR", "CL", "PE", "CO", "UY", "PY", "BO", "EC", "VE"}, "SouthAmerica")
test_region_from_country_north_america == Lies({"US", "CA", "MX"}, "NorthAmerica")
test_region_from_country_europe ==
    Lies({"PT", "ES", "FR", "DE", "NL", "IT", "GB", "IE", "BE", "CH", "AT", "PL", "CZ", "SE",
          "NO", "DK", "FI", "RU", "UA"}, "Europe")
test_region_from_country_asia_pacific ==
    Lies({"JP", "KR", "TW", "HK", "SG", "MY", "TH", "VN", "ID", "PH", "AU", "NZ", "CN", "IN"},
         "AsiaPacific")
test_region_from_country_lowercase ==
    /\ Lies({"br"}, "SouthAmerica") /\ Lies({"us"}, "NorthAmerica")
    /\ Lies({"fr"}, "Europe") /\ Lies({"jp"}, "AsiaPacific")
test_region_from_country_unknown_fallback == Lies({"XX", "ZZ", "??", ""}, "NorthAmerica")
test_region_as_str ==
    /\ as_str("SouthAmerica") = "sa" /\ as_str("NorthAmerica") = "us"
    /\ as_str("Europe") = "eu" /\ as_str("AsiaPacific") = "ap"
test_region_default_country ==
    /\ default_country("SouthAmerica") = "BR" /\ default_country("NorthAmerica") = "US"
    /\ default_country("Europe") = "DE" /\ default_country("AsiaPacific") = "JP"
test_region_roundtrip == \A r \in RegionCodes : from_str(as_str(r)) = r

(* domain/entities.rs, with the binding made at time 0.                    *)
test_binding_new == NewBinding("backend-1", 0).backend_id = "backend-1"
test_binding_created_at_equals_last_seen_on_new ==
    LET b == NewBinding("backend-1", 0) IN b.created_at = b.last_seen
test_binding_touch_updates_last_seen ==
    LET b == NewBinding("backend-1", 0) IN Touched(b, 10).last_seen > b.last_seen
test_binding_touch_does_not_update_created_at ==
    LET b == NewBinding("backend-1", 0) IN Touched(b, 10).created_at = b.created_at

(* maxmind_geo_resolver.rs, with the two facts about the database that its *)
(* tests rely on.                                                          *)
Embedded == [ip \in {"8.8.8.8"} |-> {"US"}]
test_resolve_known_ip == resolve_ip(Embedded, "8.8.8.8") = {GeoInfo("US", "NorthAmerica")}
test_resolve_private_ip_returns_none == resolve_ip(Embedded, "192.168.1.1") = {}
test_geoinfo_creation_via_resolve ==
    \A geo \in resolve_ip(Embedded, "8.8.8.8") : geo.region = from_country(geo.country)

ASSUME ValueUnitTests ==
    /\ test_region_from_str_lowercase /\ test_region_from_str_uppercase
    /\ test_region_from_str_mixed_case /\ test_region_from_str_fallback
    /\ test_region_from_country_south_america /\ test_region_from_country_north_america
    /\ test_region_from_country_europe /\ test_region_from_country_asia_pacific
    /\ test_region_from_country_lowercase /\ test_region_from_country_unknown_fallback
    /\ test_region_as_str /\ test_region_default_country /\ test_region_roundtrip

ASSUME EntityUnitTests ==
    /\ test_binding_new /\ test_binding_created_at_equals_last_seen_on_new
    /\ test_binding_touch_updates_last_seen /\ test_binding_touch_does_not_update_created_at
    /\ test_resolve_known_ip /\ test_resolve_private_ip_returns_none
    /\ test_geoinfo_creation_via_resolve
=============================================================================
