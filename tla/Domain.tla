------------------------------- MODULE Domain -------------------------------
(***************************************************************************)
(* The values the program routes with and how they are made from what it   *)
(* is given: region codes (domain/value_objects.rs), backends, bindings    *)
(* and GeoInfo (domain/entities.rs), the answer of the geo database        *)
(* (maxmind_geo_resolver.rs), a row of the routing table                   *)
(* (sqlite_backend_repo.rs) and a registration (api_server.rs).            *)
(*                                                                         *)
(* An Option is the set of what it holds: {} is None.                      *)
(***************************************************************************)
EXTENDS Integers

RegionCodes == {"SouthAmerica", "NorthAmerica", "Europe", "AsiaPacific"}

as_str(region) ==
    CASE region = "SouthAmerica" -> "sa" [] region = "NorthAmerica" -> "us"
      [] region = "Europe" -> "eu"       [] region = "AsiaPacific" -> "ap"

\* The spellings to_lowercase brings to each code.
Spellings(code) ==
    CASE code = "sa" -> {"sa", "SA", "Sa", "sA"} [] code = "us" -> {"us", "US", "Us", "uS"}
      [] code = "eu" -> {"eu", "EU", "Eu", "eU"} [] code = "ap" -> {"ap", "AP", "Ap", "aP"}

\* Whatever is not a code is taken for North America.
from_str(s) ==
    IF \E r \in RegionCodes : s \in Spellings(as_str(r))
    THEN CHOOSE r \in RegionCodes : s \in Spellings(as_str(r))
    ELSE "NorthAmerica"

default_country(region) ==
    CASE region = "SouthAmerica" -> "BR" [] region = "NorthAmerica" -> "US"
      [] region = "Europe" -> "DE"       [] region = "AsiaPacific" -> "JP"

CountriesOf(region) ==
    CASE region = "SouthAmerica" -> {"BR", "AR", "CL", "PE", "CO", "UY", "PY", "BO", "EC", "VE"}
      [] region = "NorthAmerica" -> {"US", "CA", "MX"}
      [] region = "Europe" ->
           {"PT", "ES", "FR", "DE", "NL", "IT", "GB", "IE", "BE", "CH", "AT", "PL", "CZ", "SE",
            "NO", "DK", "FI", "RU", "UA"}
      [] region = "AsiaPacific" ->
           {"JP", "KR", "TW", "HK", "SG", "MY", "TH", "VN", "ID", "PH", "AU", "NZ", "CN", "IN"}

\* to_uppercase, for the country codes written in lower case that the tests and
\* the documentation use; a code in capitals stays as it is.
Capitals ==
    [br |-> "BR", ar |-> "AR", cl |-> "CL", us |-> "US", ca |-> "CA", mx |-> "MX",
     fr |-> "FR", de |-> "DE", pt |-> "PT", gb |-> "GB", jp |-> "JP", kr |-> "KR", au |-> "AU"]
to_uppercase(country) == IF country \in DOMAIN Capitals THEN Capitals[country] ELSE country

\* A country on no list is taken for one of North America.
from_country(country) ==
    IF \E r \in RegionCodes : to_uppercase(country) \in CountriesOf(r)
    THEN CHOOSE r \in RegionCodes : to_uppercase(country) \in CountriesOf(r)
    ELSE "NorthAmerica"

GeoInfo(country, region) == [country |-> country, region |-> region]

\* database maps an address to its iso_code, if it has a record with one.
resolve_ip(database, ip) ==
    { GeoInfo(iso, from_country(iso)) : iso \in IF ip \in DOMAIN database THEN database[ip] ELSE {} }

\* A binding made at `now', and one used again.
NewBinding(backend_id, now) ==
    [backend_id |-> backend_id, created_at |-> now, last_seen |-> now]
Touched(binding, now) == [binding EXCEPT !.last_seen = now]

\* `as u8' and `as u16': the low bits of the i64 of the column.
AsUnsigned(bits, n) == n % 2^bits

(***************************************************************************)
(* The columns of a row, in the order of the SELECT.  The limits are kept  *)
(* within 0..2^31-1, where `as u32' changes nothing; a port or a weight is *)
(* cut to its width whatever it is.                                        *)
(***************************************************************************)
row_to_backend(row) ==
    [id |-> row[1], app |-> row[2], region |-> from_str(row[3]), country |-> row[4],
     wg_ip |-> row[5], port |-> AsUnsigned(16, row[6]), healthy |-> row[7] # 0,
     weight |-> AsUnsigned(8, row[8]), soft_limit |-> row[9], hard_limit |-> row[10]]

\* The rows of the table that are not marked as deleted; NULL does not mark.
load_from_sqlite(rows) ==
    { row_to_backend(r.columns) : r \in {x \in rows : x.deleted \in {{}, {0}}} }

\* What serde puts for a field the registration leaves out.
Defaults == [country |-> {}, weight |-> 2, soft_limit |-> 100, hard_limit |-> 150]

\* The country is the one given or the region's own, as it is written.
from_request(req) ==
    LET region == from_str(req.region)
        country == IF req.country = {} THEN default_country(region)
                   ELSE CHOOSE c \in req.country : TRUE
    IN  [id |-> req.id, app |-> req.app, region |-> region, country |-> country,
         wg_ip |-> req.ip, port |-> req.port, healthy |-> TRUE, weight |-> req.weight,
         soft_limit |-> req.soft_limit, hard_limit |-> req.hard_limit]
=============================================================================
