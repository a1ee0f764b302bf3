------------------------------- MODULE Startup -------------------------------
(***************************************************************************)
(* Starting the connector: main (src/GradidoBlockchainConnector.cpp) reads *)
(* the configuration, VersionsManager::migrate prepares the database, then *)
(* the HTTP server starts.                                                 *)
(*                                                                         *)
(* migrate compares the rows of table migration with the schema versions   *)
(* the binary was built for and creates the tables that have no row.       *)
(* Every statement is on its own: a crash or a lost connection between     *)
(* CREATE TABLE and the INSERT of its row leaves the one without the       *)
(* other, and nothing keeps two instances from starting on one database.   *)
(***************************************************************************)
EXTENDS Integers, Sequences

CONSTANTS
    Instances,   \* the processes that share the database
    Releases,    \* the values of ..._TABLE_LAST_SCHEMA_VERSION they are built with
    MaxStarts    \* bound: how often an instance is started, all together

ASSUME ReleasesAssumption  == Releases \subseteq Nat \ {0}
ASSUME MaxStartsAssumption == MaxStarts \in Nat

(* The tables, in the order migrate creates them. *)
requiredTables == <<"user", "group", "user_backup">>
TableNames     == {"user", "group", "user_backup"}
None           == 0

VARIABLES
    ipc,         \* where each instance is
    build,       \* the schema version of its binary
    existing,    \* its existingTables: what it found in table migration
    next,        \* its position in requiredTables
    outcome,     \* history: why it went down
    tables,      \* the version of each table's schema, None if there is no table
    migrations,  \* table migration, by its unique table_name: the version, None if no row
    starts,      \* history: how many starts there were, of which releases, and
                 \* whether one happened while another instance was up
    failed       \* history: some instance was killed or lost its connection

stVars == <<ipc, build, existing, next, outcome, tables, migrations, starts, failed>>

InstanceSteps == {"down", "crypto", "ssl", "mysql", "migrationTable", "loadAll",
                  "table", "record", "serving"}
Outcomes == {"none", "config", "missing", "duplicate", "failed", "stopped"}
Versions == Releases \cup {None}
Starts   == [count : 0 .. MaxStarts, releases : SUBSET Releases, crowded : BOOLEAN]

StTypeOK ==
    /\ ipc \in [Instances -> InstanceSteps]
    /\ build \in [Instances -> Versions]
    /\ existing \in [Instances -> SUBSET TableNames]
    /\ next \in [Instances -> 1 .. 4]
    /\ outcome \in [Instances -> Outcomes]
    /\ tables \in [TableNames -> Versions]
    /\ migrations \in [TableNames -> Versions]
    /\ starts \in Starts
    /\ failed \in BOOLEAN

StInit ==
    /\ ipc = [i \in Instances |-> "down"]
    /\ build = [i \in Instances |-> None]
    /\ existing = [i \in Instances |-> {}]
    /\ next = [i \in Instances |-> 1]
    /\ outcome = [i \in Instances |-> "none"]
    /\ tables = [t \in TableNames |-> None]
    /\ migrations = [t \in TableNames |-> None]
    /\ starts = [count |-> 0, releases |-> {}, crowded |-> FALSE]
    /\ failed = FALSE

-----------------------------------------------------------------------------
Proceed(i, step) == ipc' = [ipc EXCEPT ![i] = step] /\ UNCHANGED outcome
GoDown(i, why) ==
    /\ ipc' = [ipc EXCEPT ![i] = "down"]
    /\ outcome' = [outcome EXCEPT ![i] = why]
LocalsUnchanged == UNCHANGED <<build, existing, next>>
DatabaseUnchanged == UNCHANGED <<tables, migrations>>

(* The binary of some release is started. *)
Start(i, version) ==
    /\ ipc[i] = "down"
    /\ starts.count < MaxStarts
    /\ ipc' = [ipc EXCEPT ![i] = "crypto"]
    /\ outcome' = [outcome EXCEPT ![i] = "none"]
    /\ build' = [build EXCEPT ![i] = version]
    /\ existing' = [existing EXCEPT ![i] = {}]
    /\ next' = [next EXCEPT ![i] = 1]
    /\ starts' = [count |-> starts.count + 1,
                  releases |-> starts.releases \cup {version},
                  crowded |-> starts.crowded \/ \E j \in Instances : ipc[j] # "down"]
    /\ DatabaseUnchanged /\ UNCHANGED failed

(* initServerCrypto and the word lists: bad keys in the configuration end  *)
(* the process.                                                            *)
InitServerCrypto(i) ==
    /\ ipc[i] = "crypto"
    /\ Proceed(i, "ssl") \/ GoDown(i, "config")
    /\ LocalsUnchanged /\ DatabaseUnchanged /\ UNCHANGED <<starts, failed>>

InitSSLClientContext(i) ==
    /\ ipc[i] = "ssl"
    /\ Proceed(i, "mysql") \/ GoDown(i, "config")
    /\ LocalsUnchanged /\ DatabaseUnchanged /\ UNCHANGED <<starts, failed>>

(* initMysql sets the pool up without connecting, so a database that is    *)
(* not there shows only at the first statement of migrate.                 *)
InitMysql(i) ==
    /\ ipc[i] = "mysql"
    /\ Proceed(i, "migrationTable")
    /\ LocalsUnchanged /\ DatabaseUnchanged /\ UNCHANGED <<starts, failed>>

(* CREATE TABLE IF NOT EXISTS for table migration itself. *)
CreateMigrationTable(i) ==
    /\ ipc[i] = "migrationTable"
    /\ Proceed(i, "loadAll")
    /\ LocalsUnchanged /\ DatabaseUnchanged /\ UNCHANGED <<starts, failed>>

(* Lines 41-51: an older row than the binary expects is a                  *)
(* MissingMigrationException; newer ones are fine.                         *)
Rows == {t \in TableNames : migrations[t] # None}
LoadAllMutant_RowsIgnored(i) ==
    /\ ipc[i] = "loadAll"
    /\ Proceed(i, "table")
    /\ UNCHANGED <<build, existing, next, starts, failed>> /\ DatabaseUnchanged
LoadAll(i) ==
    /\ ipc[i] = "loadAll"
    /\ IF \E t \in Rows : migrations[t] < build[i]
       THEN GoDown(i, "missing") /\ UNCHANGED existing
       ELSE Proceed(i, "table") /\ existing' = [existing EXCEPT ![i] = Rows]
    /\ UNCHANGED <<build, next, starts, failed>> /\ DatabaseUnchanged

(* Lines 53-60.  A table with a row is passed over. *)
SkipTable(i) ==
    /\ ipc[i] = "table"
    /\ next[i] <= 3
    /\ requiredTables[next[i]] \in existing[i]
    /\ next' = [next EXCEPT ![i] = @ + 1]
    /\ UNCHANGED <<ipc, outcome, build, existing, starts, failed>> /\ DatabaseUnchanged

(* CREATE TABLE IF NOT EXISTS leaves a table that is there as it is. *)
Created(t, version) ==
    IF tables[t] = None THEN [tables EXCEPT ![t] = version] ELSE tables
CreateTableMutant_RecordFirst(i) ==
    /\ ipc[i] = "table"
    /\ next[i] <= 3
    /\ requiredTables[next[i]] \notin existing[i]
    /\ migrations' = [migrations EXCEPT ![requiredTables[next[i]]] = build[i]]
    /\ Proceed(i, "record")
    /\ LocalsUnchanged /\ UNCHANGED <<tables, starts, failed>>
CreateTable(i) ==
    /\ ipc[i] = "table"
    /\ next[i] <= 3
    /\ requiredTables[next[i]] \notin existing[i]
    /\ tables' = Created(requiredTables[next[i]], build[i])
    /\ Proceed(i, "record")
    /\ LocalsUnchanged /\ UNCHANGED <<migrations, starts, failed>>

(* Migration::save inserts a row. *)
Saved(t, version) == [migrations EXCEPT ![t] = version]

(* A second row for the table is a duplicate key, and the exception ends   *)
(* the process.                                                            *)
RecordMutant_StopsAfterOne(i) ==
    LET t == requiredTables[next[i]] IN
    /\ ipc[i] = "record"
    /\ IF migrations[t] # None
       THEN GoDown(i, "duplicate") /\ UNCHANGED <<next, migrations>>
       ELSE /\ Proceed(i, "table")
            /\ next' = [next EXCEPT ![i] = 4]
            /\ migrations' = [migrations EXCEPT ![t] = build[i]]
    /\ UNCHANGED <<build, existing, tables, starts, failed>>
RecordMutant_IndexRuns(i) ==
    LET t == requiredTables[next[i]] IN
    /\ ipc[i] = "record"
    /\ Proceed(i, "table")
    /\ next' = [next EXCEPT ![i] = @ + 2]
    /\ migrations' = [migrations EXCEPT ![t] = build[i]]
    /\ UNCHANGED <<build, existing, tables, starts, failed>>
Record(i) ==
    LET t == requiredTables[next[i]] IN
    /\ ipc[i] = "record"
    /\ IF migrations[t] # None
       THEN GoDown(i, "duplicate") /\ UNCHANGED <<next, migrations>>
       ELSE /\ Proceed(i, "table")
            /\ next' = [next EXCEPT ![i] = @ + 1]
            /\ migrations' = Saved(t, build[i])
    /\ UNCHANGED <<build, existing, tables, starts, failed>>

(* The tables are complete and the HTTP server starts. *)
Serve(i) ==
    /\ ipc[i] = "table"
    /\ next[i] = 4
    /\ Proceed(i, "serving")
    /\ LocalsUnchanged /\ DatabaseUnchanged /\ UNCHANGED <<starts, failed>>

(* A termination request. *)
Stop(i) ==
    /\ ipc[i] = "serving"
    /\ GoDown(i, "stopped")
    /\ LocalsUnchanged /\ DatabaseUnchanged /\ UNCHANGED <<starts, failed>>

(* The process is killed, or a statement of migrate fails and nobody       *)
(* catches the exception.                                                  *)
Fail(i) ==
    /\ ipc[i] # "down"
    /\ GoDown(i, "failed")
    /\ failed' = TRUE
    /\ LocalsUnchanged /\ DatabaseUnchanged /\ UNCHANGED starts

StNext ==
    \E i \in Instances :
        \/ \E version \in Releases : Start(i, version)
        \/ InitServerCrypto(i) \/ InitSSLClientContext(i) \/ InitMysql(i)
        \/ CreateMigrationTable(i) \/ LoadAll(i)
        \/ SkipTable(i) \/ CreateTable(i) \/ Record(i)
        \/ Serve(i) \/ Stop(i) \/ Fail(i)

StSpec == StInit /\ [][StNext]_stVars

-----------------------------------------------------------------------------
(* Whatever crashed, failed or started at the same time before, an         *)
(* instance that serves requests has every table, and every table is on    *)
(* record with at least the version the instance was built for (migrate    *)
(* lines 41-60).                                                           *)
ServingIsMigrated ==
    \A i \in Instances : ipc[i] = "serving" =>
        \A t \in TableNames : tables[t] # None /\ migrations[t] >= build[i]

(* A row of table migration is never there without the table it vouches    *)
(* for, at no point at which a crash can strike (lines 56-58).             *)
RecordedIsCreated == \A t \in TableNames : migrations[t] # None => tables[t] # None

(* Instances that start together may cost each other the duplicate key,    *)
(* but unless one is killed or loses its connection, a database that is    *)
(* migrated halfway always has an instance at work on it.                  *)
HalfwayHasWorker ==
    (~failed /\ Rows # {} /\ Rows # TableNames) =>
        \E i \in Instances : ipc[i] \in {"table", "record"}

(* migrate can be repeated: after any crashes and failures a start ends    *)
(* with a duplicate key only if instances ran at the same time, and with   *)
(* MissingMigrationException only if an older release was started before   *)
(* (lines 41-60).                                                          *)
MigrateIsRepeatable ==
    \A i \in Instances :
        /\ outcome[i] = "duplicate" => starts.crowded
        /\ outcome[i] = "missing" => \E v \in starts.releases : v < build[i]
=============================================================================
