---------------------------- MODULE Repositories ---------------------------
(***************************************************************************)
(* The backend repositories behind the port of backend_repository.rs: the  *)
(* SQLite one, whose loop loads the table, puts it in place of the list    *)
(* and then counts the version up, and the PostgreSQL one, a stub with the *)
(* list in memory, changed by three calls, and a reload of its own.  A     *)
(* client of the port reads the version, then the list, and later compares *)
(* versions to learn whether its list is out of date.                      *)
(***************************************************************************)
EXTENDS ListOps

CONSTANTS
    BackendIds,
    MaxListed,      \* bound: entries of a list
    MaxVersion      \* bound: changes of the version

ASSUME ReposBounds == MaxListed \in Nat /\ MaxVersion \in Nat

VARIABLES
    engine,         \* which repository it is
    table,          \* what the SQLite file holds
    backends,       \* the list
    revision,       \* version
    initialized,    \* PostgreSQL: initialize has been called
    phase,          \* SQLite: where the loop is
    loaded,         \* SQLite: the load under way
    client,         \* a client of the port: version and list it has read
    wiped           \* history: a PostgreSQL reload has replaced a list

repoVars == <<engine, table, backends, revision, initialized, phase, loaded, client, wiped>>

Entries == [id : BackendIds, healthy : BOOLEAN]
BackendLists == UNION {[1..n -> Entries] : n \in 0..MaxListed}

\* The id is the primary key of the table.
Tables == {t \in BackendLists : \A i, j \in DOMAIN t : t[i].id = t[j].id => i = j}

ReposTypeOK ==
    /\ engine \in {"sqlite", "postgres"}
    /\ table \in Tables /\ backends \in BackendLists /\ loaded \in BackendLists
    /\ revision \in 0..MaxVersion
    /\ initialized \in BOOLEAN /\ wiped \in BOOLEAN
    /\ phase \in {"load", "swap", "bump"}
    /\ client \in [pc : {"version", "list", "holds"}, version : 0..MaxVersion, list : BackendLists]

ReposInit ==
    /\ engine \in {"sqlite", "postgres"}
    /\ table = <<>> /\ backends = <<>> /\ loaded = <<>>
    /\ revision = 0
    /\ initialized = FALSE /\ wiped = FALSE
    /\ phase = "load"
    /\ client = [pc |-> "version", version |-> 0, list |-> <<>>]

\* SQLite: load_from_sqlite, one query.  A load that fails leaves the list as
\* it is until the next one.
LoadFromSqlite ==
    /\ engine = "sqlite" /\ phase = "load" /\ revision < MaxVersion
    /\ loaded' = table
    /\ phase' = "swap"
    /\ UNCHANGED <<engine, table, backends, revision, initialized, client, wiped>>

\* Slip: the version is counted up before the list is in place.
SlipSwapList ==
    /\ engine = "sqlite" /\ phase = "bump"
    /\ backends' = loaded
    /\ phase' = "load"
    /\ UNCHANGED <<engine, table, revision, initialized, loaded, client, wiped>>
SlipBumpVersion ==
    /\ engine = "sqlite" /\ phase = "swap"
    /\ revision' = revision + 1
    /\ phase' = "bump"
    /\ UNCHANGED <<engine, table, backends, initialized, loaded, client, wiped>>
SlipSqliteSync == LoadFromSqlite \/ SlipSwapList \/ SlipBumpVersion

SwapList ==
    /\ engine = "sqlite" /\ phase = "swap"
    /\ backends' = loaded
    /\ phase' = "bump"
    /\ UNCHANGED <<engine, table, revision, initialized, loaded, client, wiped>>

BumpVersion ==
    /\ engine = "sqlite" /\ phase = "bump"
    /\ revision' = revision + 1
    /\ phase' = "load"
    /\ UNCHANGED <<engine, table, backends, initialized, loaded, client, wiped>>

\* The loop of start_sync.
SqliteSync == LoadFromSqlite \/ SwapList \/ BumpVersion

\* Others write the file.
WriteTable(t) ==
    /\ engine = "sqlite"
    /\ table' = t
    /\ UNCHANGED <<engine, backends, revision, initialized, phase, loaded, client, wiped>>

\* PostgreSQL: list and version change under the write lock.  The version is
\* read without it, which is no different from reading it a moment earlier.
Changed(l) ==
    /\ backends' = l
    /\ revision' = revision + 1
    /\ UNCHANGED <<engine, table, initialized, phase, loaded, client, wiped>>

Initialize ==
    /\ engine = "postgres"
    /\ initialized' = TRUE
    /\ UNCHANGED <<engine, table, backends, revision, phase, loaded, client, wiped>>

\* push: an id that is there already is there twice.
AddBackend(e) ==
    /\ engine = "postgres" /\ revision < MaxVersion /\ Len(backends) < MaxListed
    /\ Changed(Append(backends, e))

\* retain: the version moves even if nothing was removed.
RemoveBackend(id) ==
    /\ engine = "postgres" /\ revision < MaxVersion
    /\ Changed(Retained(backends, {e \in Entries : e.id # id}))

\* find: the first entry of the id; none, and the version stays.
UpdateHealth(id, healthy) ==
    /\ engine = "postgres" /\ revision < MaxVersion
    /\ \E i \in DOMAIN backends :
         /\ backends[i].id = id /\ \A j \in 1..(i - 1) : backends[j].id # id
         /\ Changed([backends EXCEPT ![i].healthy = healthy])

\* A turn of its start_sync: the stub loads nothing, and the version that is
\* counted up is a copy that nobody reads.
PostgresReload ==
    /\ engine = "postgres" /\ initialized
    /\ backends # <<>>
    /\ backends' = <<>>
    /\ wiped' = TRUE
    /\ UNCHANGED <<engine, table, revision, initialized, phase, loaded, client>>

\* The client: get_version, get_all.
GetVersion ==
    /\ client.pc = "version"
    /\ client' = [pc |-> "list", version |-> revision, list |-> <<>>]
    /\ UNCHANGED <<engine, table, backends, revision, initialized, phase, loaded, wiped>>

GetAll ==
    /\ client.pc = "list"
    /\ client' = [client EXCEPT !.pc = "holds", !.list = backends]
    /\ UNCHANGED <<engine, table, backends, revision, initialized, phase, loaded, wiped>>

\* It reads again when it finds another version.
Poll ==
    /\ client.pc = "holds"
    /\ client' = IF revision = client.version THEN client
                 ELSE [pc |-> "version", version |-> 0, list |-> <<>>]
    /\ UNCHANGED <<engine, table, backends, revision, initialized, phase, loaded, wiped>>

ReposNext ==
    \/ SqliteSync
    \/ \E t \in Tables : WriteTable(t)
    \/ Initialize \/ PostgresReload
    \/ \E e \in Entries : AddBackend(e)
    \/ \E id \in BackendIds : RemoveBackend(id) \/ \E h \in BOOLEAN : UpdateHealth(id, h)
    \/ GetVersion \/ GetAll \/ Poll

ReposSpec == ReposInit /\ [][ReposNext]_repoVars

----------------------------------------------------------------------------
\* The version tells whether the list has been updated
\* (backend_repository.rs:26): a client that read the version, then the list,
\* and finds the same version now, has the current list, but for the moment
\* in which SQLite's loop has replaced the list and not yet counted, and for
\* PostgreSQL until its first reload (sqlite_backend_repo.rs:56-60,
\* postgres_backend_repo.rs:88, 139-169).
SameVersionSameList ==
    (client.pc = "holds" /\ client.version = revision /\ phase # "bump" /\ ~wiped)
      => client.list = backends
============================================================================
