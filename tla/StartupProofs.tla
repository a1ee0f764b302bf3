---------------------------- MODULE StartupProofs ----------------------------
(***************************************************************************)
(* The properties of Startup for any number of instances, releases and     *)
(* starts: ServingIsMigrated and RecordedIsCreated from StInv, then        *)
(* HalfwayHasWorker and MigrateIsRepeatable from StHistoryInv on top.      *)
(*                                                                         *)
(* StInv says what an instance knows while it works through        *)
(* requiredTables: the tables behind its position, and the ones it found   *)
(* on record, have a row that is new enough for it.  Rows are only added,  *)
(* never changed, so what it knows stays true whatever the others do.      *)
(***************************************************************************)
EXTENDS Startup, TLAPS

(* The tables an instance has behind it or found on record. *)
Passed(i) == existing[i] \cup {requiredTables[k] : k \in 1 .. next[i] - 1}

(* The steps in which an instance relies on what it knows. *)
Migrating == {"table", "record", "serving"}

(* Each of those tables is on record with a version new enough for it. *)
KnowsItsTables ==
    \A i \in Instances : ipc[i] \in Migrating =>
        \A t \in Passed(i) : migrations[t] >= build[i]

(* A row is about to be inserted only for a table that has been created. *)
RecordingIsCreated ==
    \A i \in Instances : ipc[i] = "record" =>
        next[i] \in 1 .. 3 /\ tables[requiredTables[next[i]]] # None

(* A running instance was built from some release, so its version is not None. *)
BuildIsRelease == \A i \in Instances : ipc[i] # "down" => build[i] \in Releases

(* The walk over requiredTables begins at its first table. *)
FreshIsAtStart ==
    \A i \in Instances :
        ipc[i] \in {"crypto", "ssl", "mysql", "migrationTable", "loadAll"} => next[i] = 1

(* The server is started only at the end of requiredTables. *)
ServingIsDone == \A i \in Instances : ipc[i] = "serving" => next[i] = 4

(* The inductive invariant of the start-up. *)
StInv ==
    /\ StTypeOK
    /\ BuildIsRelease
    /\ RecordedIsCreated
    /\ RecordingIsCreated
    /\ KnowsItsTables
    /\ FreshIsAtStart
    /\ ServingIsDone

(* What requiredTables holds at each position. *)
LEMMA RequiredTables ==
    /\ requiredTables[1] = "user"
    /\ requiredTables[2] = "group"
    /\ requiredTables[3] = "user_backup"
    /\ \A k \in 1 .. 3 : requiredTables[k] \in TableNames
    /\ \A t \in TableNames : \E k \in 1 .. 3 : requiredTables[k] = t
  <1>1. /\ requiredTables[1] = "user"
        /\ requiredTables[2] = "group"
        /\ requiredTables[3] = "user_backup"
    BY DEF requiredTables
  <1>2. \A k \in 1 .. 3 : k = 1 \/ k = 2 \/ k = 3
    OBVIOUS
  <1>3. \A k \in 1 .. 3 : requiredTables[k] \in TableNames
    BY <1>1, <1>2 DEF TableNames
  <1>4. 1 \in 1 .. 3 /\ 2 \in 1 .. 3 /\ 3 \in 1 .. 3
    OBVIOUS
  <1>5. \A t \in TableNames : \E k \in 1 .. 3 : requiredTables[k] = t
    BY <1>1, <1>4 DEF TableNames
  <1> QED
    BY <1>1, <1>3, <1>5

LEMMA VersionsAreNumbers == \A v \in Versions : v \in Nat
  <1>1. None \in Nat
    BY DEF None
  <1> QED
    BY <1>1, ReleasesAssumption DEF Versions

LEMMA StInitInv == StInit => StInv
  <1> SUFFICES ASSUME StInit PROVE StInv
    OBVIOUS
  <1>1. StTypeOK
    <2>1. /\ ipc \in [Instances -> InstanceSteps]
          /\ outcome \in [Instances -> Outcomes]
      BY DEF StInit, InstanceSteps, Outcomes
    <2>2. /\ build \in [Instances -> Versions]
          /\ tables \in [TableNames -> Versions]
          /\ migrations \in [TableNames -> Versions]
      BY DEF StInit, Versions
    <2>3. /\ existing \in [Instances -> SUBSET TableNames]
          /\ next \in [Instances -> 1 .. 4]
      BY DEF StInit
    <2>4. starts \in Starts
      BY MaxStartsAssumption DEF StInit, Starts
    <2>5. failed \in BOOLEAN
      BY DEF StInit
    <2> QED
      BY <2>1, <2>2, <2>3, <2>4, <2>5 DEF StTypeOK
  <1>2. \A i \in Instances : ipc[i] = "down"
    BY DEF StInit
  <1>3. RecordedIsCreated
    BY DEF StInit, RecordedIsCreated
  <1> QED
    BY <1>1, <1>2, <1>3
    DEF StInv, BuildIsRelease, RecordingIsCreated, KnowsItsTables, ServingIsDone,
        FreshIsAtStart, Migrating

(* A step preserves the types. *)
LEMMA StNextType == ASSUME StTypeOK, RecordingIsCreated, [StNext]_stVars
                    PROVE  StTypeOK'
  <1> USE DEF StTypeOK, InstanceSteps, Outcomes, Versions
  <1> USE ReleasesAssumption, MaxStartsAssumption
  <1>1. CASE UNCHANGED stVars
    BY <1>1 DEF stVars
  <1>2. CASE StNext
    <2> PICK i \in Instances :
          \/ \E version \in Releases : Start(i, version)
          \/ InitServerCrypto(i) \/ InitSSLClientContext(i) \/ InitMysql(i)
          \/ CreateMigrationTable(i) \/ LoadAll(i)
          \/ SkipTable(i) \/ CreateTable(i) \/ Record(i)
          \/ Serve(i) \/ Stop(i) \/ Fail(i)
      BY <1>2 DEF StNext
    <2> USE DEF Proceed, GoDown, LocalsUnchanged, DatabaseUnchanged
    <2>1. CASE \E version \in Releases : Start(i, version)
      <3> PICK version \in Releases : Start(i, version)
        BY <2>1
      <3>1. starts' \in Starts
        BY DEF Start, Starts
      <3> QED
        BY <3>1 DEF Start
    <2>2. CASE InitServerCrypto(i)
      BY <2>2 DEF InitServerCrypto
    <2>3. CASE InitSSLClientContext(i)
      BY <2>3 DEF InitSSLClientContext
    <2>4. CASE CreateMigrationTable(i)
      BY <2>4 DEF CreateMigrationTable
    <2>12. CASE InitMysql(i)
      BY <2>12 DEF InitMysql
    <2>5. CASE LoadAll(i)
      <3>1. Rows \in SUBSET TableNames
        BY DEF Rows
      <3> QED
        BY <2>5, <3>1 DEF LoadAll
    <2>6. CASE SkipTable(i)
      BY <2>6 DEF SkipTable
    <2>7. CASE CreateTable(i)
      BY <2>7, RequiredTables DEF CreateTable, Created
    <2>8. CASE Record(i)
      <3>1. next[i] \in 1 .. 3 /\ requiredTables[next[i]] \in TableNames
        BY <2>8, RequiredTables DEF Record, Saved, RecordingIsCreated
      <3> QED
        BY <2>8, <3>1 DEF Record, Saved
    <2>9. CASE Serve(i)
      BY <2>9 DEF Serve
    <2>10. CASE Stop(i)
      BY <2>10 DEF Stop
    <2>11. CASE Fail(i)
      BY <2>11 DEF Fail
    <2> QED
      BY <2>1, <2>2, <2>3, <2>4, <2>5, <2>6, <2>7, <2>8, <2>9, <2>10, <2>11, <2>12
  <1> QED
    BY <1>1, <1>2

(* The database only grows: a table and a row stay as they are. *)
LEMMA DatabaseGrows ==
    ASSUME StTypeOK, RecordingIsCreated, [StNext]_stVars
    PROVE  \A t \in TableNames :
              /\ tables[t] # None => tables'[t] = tables[t]
              /\ migrations[t] # None => migrations'[t] = migrations[t]
  <1>1. CASE UNCHANGED <<tables, migrations>>
    BY <1>1
  <1>2. CASE \E i \in Instances : CreateTable(i)
    <2> PICK i \in Instances : CreateTable(i)
      BY <1>2
    <2> QED
      BY RequiredTables DEF CreateTable, Created, StTypeOK
  <1>3. CASE \E i \in Instances : Record(i)
    <2> PICK i \in Instances : Record(i)
      BY <1>3
    <2> QED
      BY RequiredTables DEF Record, Saved, StTypeOK, RecordingIsCreated
  <1> QED
    BY <1>1, <1>2, <1>3
    DEF StNext, stVars, Start, InitServerCrypto, InitSSLClientContext, InitMysql,
        CreateMigrationTable, LoadAll, SkipTable, Serve, Stop, Fail, DatabaseUnchanged

LEMMA StNextInv == StInv /\ [StNext]_stVars => StInv'
  <1> SUFFICES ASSUME StInv, [StNext]_stVars PROVE StInv'
    OBVIOUS
  <1> USE DEF StInv
  <1>1. StTypeOK'
    BY StNextType
  <1>2. \A t \in TableNames :
           /\ tables[t] # None => tables'[t] = tables[t]
           /\ migrations[t] # None => migrations'[t] = migrations[t]
    BY DatabaseGrows
  <1> DEFINE Still(j) == /\ build'[j] = build[j] /\ existing'[j] = existing[j]
                         /\ next'[j] = next[j] /\ ipc'[j] = ipc[j]
  (* What holds of an instance that does not move still holds. *)
  <1>3. ASSUME NEW j \in Instances, Still(j)
        PROVE  /\ ipc'[j] # "down" => build'[j] \in Releases
               /\ ipc'[j] = "record" => /\ next'[j] \in 1 .. 3
                                        /\ tables'[requiredTables[next'[j]]] # None
               /\ ipc'[j] \in Migrating => \A t \in Passed(j)' : migrations'[t] >= build'[j]
               /\ ipc'[j] = "serving" => next'[j] = 4
               /\ ipc'[j] \in {"crypto", "ssl", "mysql", "migrationTable", "loadAll"} => next'[j] = 1
    <2>1. ipc'[j] # "down" => build'[j] \in Releases
      BY <1>3 DEF BuildIsRelease
    <2>2. ipc'[j] = "record" => /\ next'[j] \in 1 .. 3
                                /\ tables'[requiredTables[next'[j]]] # None
      <3> HAVE ipc'[j] = "record"
      <3>1. next[j] \in 1 .. 3 /\ tables[requiredTables[next[j]]] # None /\ next'[j] = next[j]
        BY <1>3 DEF RecordingIsCreated
      <3>2. requiredTables[next[j]] \in TableNames
        BY <3>1, RequiredTables
      <3>3. tables'[requiredTables[next[j]]] = tables[requiredTables[next[j]]]
        BY <3>1, <3>2, <1>2
      <3> QED
        BY <3>1, <3>3
    <2>3. ASSUME ipc'[j] \in Migrating, NEW t \in Passed(j)'
          PROVE  migrations'[t] >= build'[j]
      <3>1. t \in Passed(j) /\ migrations[t] >= build[j]
        BY <1>3, <2>3 DEF Passed, KnowsItsTables
      <3>2. t \in TableNames
        BY <3>1, RequiredTables DEF Passed, StTypeOK
      <3>3. build[j] \in Nat \ {0} /\ build'[j] = build[j]
        BY <1>3, <2>3, ReleasesAssumption DEF BuildIsRelease, Migrating
      <3>4. migrations[t] \in Nat
        BY <3>2, VersionsAreNumbers DEF StTypeOK
      <3>5. migrations[t] # None
        BY <3>1, <3>3, <3>4 DEF None
      <3> QED
        BY <3>1, <3>2, <3>3, <3>5, <1>2
    <2>4. ipc'[j] = "serving" => next'[j] = 4
      BY <1>3 DEF ServingIsDone
    <2>5. ipc'[j] \in {"crypto", "ssl", "mysql", "migrationTable", "loadAll"} => next'[j] = 1
      BY <1>3 DEF FreshIsAtStart
    <2> QED
      BY <2>1, <2>2, <2>3, <2>4, <2>5
  <1>4. CASE UNCHANGED stVars
    <2>1. \A j \in Instances : Still(j)
      BY <1>4 DEF stVars
    <2>2. RecordedIsCreated'
      BY <1>4 DEF stVars, RecordedIsCreated
    <2> HIDE DEF Still
    <2>3. /\ BuildIsRelease' /\ RecordingIsCreated' /\ KnowsItsTables'
          /\ FreshIsAtStart' /\ ServingIsDone'
      BY <1>3, <2>1
      DEF BuildIsRelease, RecordingIsCreated, KnowsItsTables, FreshIsAtStart, ServingIsDone
    <2> QED
      BY <1>1, <2>2, <2>3
  <1>5. CASE StNext
    <2> PICK i \in Instances :
          \/ \E version \in Releases : Start(i, version)
          \/ InitServerCrypto(i) \/ InitSSLClientContext(i) \/ InitMysql(i)
          \/ CreateMigrationTable(i) \/ LoadAll(i)
          \/ SkipTable(i) \/ CreateTable(i) \/ Record(i)
          \/ Serve(i) \/ Stop(i) \/ Fail(i)
      BY <1>5 DEF StNext
    <2> USE DEF Proceed, GoDown, LocalsUnchanged, DatabaseUnchanged
    <2>1. \A j \in Instances \ {i} : Still(j)
      BY DEF StTypeOK, Start, InitServerCrypto, InitSSLClientContext, InitMysql,
         CreateMigrationTable, LoadAll, SkipTable, CreateTable, Record, Saved, Serve, Stop, Fail
    <2>2. RecordedIsCreated'
      <3>1. CASE Record(i)
        BY <3>1, RequiredTables
        DEF Record, Saved, RecordedIsCreated, RecordingIsCreated, StTypeOK
      <3>2. CASE ~Record(i)
        <4>1. migrations' = migrations
          BY <3>2 DEF Start, InitServerCrypto, InitSSLClientContext, InitMysql,
             CreateMigrationTable, LoadAll, SkipTable, CreateTable, Serve, Stop, Fail
        <4> QED
          BY <4>1, <1>2 DEF RecordedIsCreated
      <3> QED
        BY <3>1, <3>2
    (* The instance that moves. *)
    <2>3. ipc'[i] # "down" => build'[i] \in Releases
      BY DEF BuildIsRelease, StTypeOK, Start, InitServerCrypto, InitSSLClientContext, InitMysql,
         CreateMigrationTable, LoadAll, SkipTable, CreateTable, Record, Saved, Serve, Stop, Fail
    <2>4. ipc'[i] = "record" => /\ next'[i] \in 1 .. 3
                                /\ tables'[requiredTables[next'[i]]] # None
      <3>1. CASE CreateTable(i)
        <4>1. next[i] \in 1 .. 3 /\ requiredTables[next[i]] \in TableNames
          BY <3>1, RequiredTables DEF CreateTable, StTypeOK
        <4>2. build[i] # None
          BY <3>1, ReleasesAssumption DEF CreateTable, BuildIsRelease, None
        <4> QED
          BY <3>1, <4>1, <4>2 DEF CreateTable, Created, StTypeOK
      <3>2. CASE ~CreateTable(i)
        BY <3>2 DEF StTypeOK, Start, InitServerCrypto, InitSSLClientContext, InitMysql,
           CreateMigrationTable, LoadAll, SkipTable, Record, Saved, Serve, Stop, Fail
      <3> QED
        BY <3>1, <3>2
    <2>5. ipc'[i] \in Migrating => \A t \in Passed(i)' : migrations'[t] >= build'[i]
      <3>1. CASE LoadAll(i)
        <4> SUFFICES ASSUME ipc'[i] \in Migrating, NEW t \in Passed(i)'
                     PROVE  migrations'[t] >= build'[i]
          OBVIOUS
        <4>0. ~ \E r \in Rows : migrations[r] < build[i]
          BY <3>1 DEF LoadAll, StTypeOK, Migrating
        <4>1. existing'[i] = Rows /\ migrations' = migrations /\ build' = build
              /\ next' = next
          BY <3>1, <4>0 DEF LoadAll, StTypeOK
        <4>2. next[i] = 1 => t \in Rows
          BY <4>1 DEF Passed
        <4>3. next[i] = 1
          BY <3>1 DEF LoadAll, FreshIsAtStart
        <4>4. migrations[t] \in Nat /\ build[i] \in Nat
          BY <4>2, <4>3, VersionsAreNumbers DEF StTypeOK, Rows
        <4> QED
          BY <4>0, <4>1, <4>2, <4>3, <4>4
      <3>2. CASE SkipTable(i)
        <4> SUFFICES ASSUME NEW t \in Passed(i)'
                     PROVE  migrations'[t] >= build'[i]
          OBVIOUS
        <4>1. ipc[i] = "table" /\ next[i] \in 1 .. 3 /\ next'[i] = next[i] + 1
          BY <3>2 DEF SkipTable, StTypeOK
        <4>2. /\ existing' = existing /\ migrations' = migrations /\ build' = build
              /\ requiredTables[next[i]] \in existing[i]
          BY <3>2 DEF SkipTable
        <4>3. t \in Passed(i)
          BY <4>1, <4>2 DEF Passed
        <4> QED
          BY <4>1, <4>2, <4>3 DEF KnowsItsTables, Migrating
      <3>3. CASE CreateTable(i) \/ Serve(i)
        <4>1. /\ ipc[i] = "table" /\ next' = next /\ existing' = existing
              /\ migrations' = migrations /\ build' = build
          BY <3>3 DEF CreateTable, Serve
        <4> QED
          BY <4>1 DEF KnowsItsTables, Migrating, Passed
      <3>4. CASE Record(i)
        <4> SUFFICES ASSUME ipc'[i] \in Migrating, NEW t \in Passed(i)'
                     PROVE  migrations'[t] >= build'[i]
          OBVIOUS
        <4>1. ipc[i] = "record" /\ next[i] \in 1 .. 3 /\ requiredTables[next[i]] \in TableNames
          BY <3>4, RequiredTables DEF Record, Saved, RecordingIsCreated
        <4>2. migrations[requiredTables[next[i]]] = None
          BY <3>4 DEF Record, Saved, StTypeOK, Migrating
        <4>3. /\ existing' = existing /\ build' = build /\ next'[i] = next[i] + 1
              /\ migrations'[requiredTables[next[i]]] = build[i]
          BY <3>4, <4>1, <4>2 DEF Record, Saved, StTypeOK
        <4>4. build[i] \in Nat \ {0}
          BY <4>1, ReleasesAssumption DEF BuildIsRelease
        <4>5. CASE t = requiredTables[next[i]]
          BY <4>3, <4>4, <4>5
        <4>6. CASE t # requiredTables[next[i]]
          <5>1. t \in Passed(i)
            BY <4>1, <4>3, <4>6 DEF Passed
          <5>2. t \in TableNames
            BY <5>1, RequiredTables DEF Passed, StTypeOK
          <5>3. migrations[t] >= build[i]
            BY <5>1, <4>1 DEF KnowsItsTables, Migrating
          <5>4. migrations[t] \in Nat
            BY <5>2, VersionsAreNumbers DEF StTypeOK
          <5>5. migrations'[t] = migrations[t]
            BY <5>2, <5>3, <5>4, <4>4, <1>2 DEF None
          <5> QED
            BY <5>3, <5>5, <4>3
        <4> QED
          BY <4>5, <4>6
      <3>5. CASE \/ \E version \in Releases : Start(i, version)
                 \/ InitServerCrypto(i) \/ InitSSLClientContext(i) \/ InitMysql(i)
                 \/ CreateMigrationTable(i) \/ Stop(i) \/ Fail(i)
        <4>1. ipc'[i] \in {"down", "crypto", "ssl", "mysql", "migrationTable", "loadAll"}
          BY <3>5 DEF StTypeOK, Start, InitServerCrypto, InitSSLClientContext, InitMysql,
             CreateMigrationTable, Stop, Fail
        <4> QED
          BY <4>1 DEF Migrating
      <3> QED
        BY <3>1, <3>2, <3>3, <3>4, <3>5
    <2>6. ipc'[i] = "serving" => next'[i] = 4
      BY DEF StTypeOK, Start, InitServerCrypto, InitSSLClientContext, InitMysql,
         CreateMigrationTable, LoadAll, SkipTable, CreateTable, Record, Saved, Serve, Stop, Fail
    <2>7. ipc'[i] \in {"crypto", "ssl", "mysql", "migrationTable", "loadAll"} => next'[i] = 1
      BY DEF FreshIsAtStart, StTypeOK, Start, InitServerCrypto, InitSSLClientContext, InitMysql,
         CreateMigrationTable, LoadAll, SkipTable, CreateTable, Record, Saved, Serve, Stop, Fail
    <2> HIDE DEF Still
    <2>8. BuildIsRelease' /\ RecordingIsCreated'
      BY <1>3, <2>1, <2>3, <2>4 DEF BuildIsRelease, RecordingIsCreated
    <2>9. KnowsItsTables'
      BY <1>3, <2>1, <2>5 DEF KnowsItsTables
    <2>10. FreshIsAtStart' /\ ServingIsDone'
      BY <1>3, <2>1, <2>6, <2>7 DEF FreshIsAtStart, ServingIsDone
    <2> QED
      BY <1>1, <2>2, <2>8, <2>9, <2>10
  <1> QED
    BY <1>4, <1>5

(* The inductive invariant holds in every reachable state. *)
LEMMA StInvAlways == StSpec => []StInv
  BY StInitInv, StNextInv, PTL DEF StSpec

-----------------------------------------------------------------------------
(* The types hold in every run of any number of instances: in particular   *)
(* no instance runs past the end of requiredTables (migrate lines 53-60).  *)
THEOREM StTypeCorrect == StSpec => []StTypeOK
  <1>1. StInv => StTypeOK
    BY DEF StInv
  <1> QED
    BY <1>1, StInvAlways, PTL

(* However many instances of however many releases start, crash and        *)
(* restart on one database: one that serves requests has every table, on   *)
(* record with a version that is new enough (VersionsManager::migrate).    *)
THEOREM MigratedBeforeServing == StSpec => []ServingIsMigrated
  <1>1. StInv => ServingIsMigrated
    <2> SUFFICES ASSUME StInv, NEW i \in Instances, ipc[i] = "serving",
                        NEW t \in TableNames
                 PROVE  tables[t] # None /\ migrations[t] >= build[i]
      BY DEF ServingIsMigrated
    <2>1. next[i] = 4
      BY DEF StInv, ServingIsDone
    <2>2. t \in Passed(i)
      BY <2>1, RequiredTables DEF Passed
    <2>3. migrations[t] >= build[i]
      BY <2>2 DEF StInv, KnowsItsTables, Migrating
    <2>4. build[i] \in Nat \ {0}
      BY ReleasesAssumption DEF StInv, BuildIsRelease
    <2>5. migrations[t] # None
      BY <2>3, <2>4 DEF None
    <2> QED
      BY <2>3, <2>5 DEF StInv, RecordedIsCreated
  <1> QED
    BY <1>1, StInvAlways, PTL

(* No crash finds a migration row without its table (CREATE TABLE comes    *)
(* first, lines 56-58).                                                    *)
THEOREM RowsVouchForTables == StSpec => []RecordedIsCreated
  <1>1. StInv => RecordedIsCreated
    BY DEF StInv
  <1> QED
    BY <1>1, StInvAlways, PTL

-----------------------------------------------------------------------------
(* What the migrations of the past allow.  HalfwayHasWorker and            *)
(* MigrateIsRepeatable are about what happened before: who inserted the    *)
(* rows, and whether somebody else was up meanwhile.                       *)

(* Whether there is a row for the k-th required table. *)
HasRow(k) == migrations[requiredTables[k]] # None

(* Rows are inserted in the order of requiredTables. *)
RowsInOrder == \A k \in 1 .. 3 : \A l \in 1 .. k : HasRow(k) => HasRow(l)

(* An instance inserts rows only for tables it did not find on record. *)
RecordsOnlyNew ==
    \A i \in Instances :
        ipc[i] = "record" => requiredTables[next[i]] \notin existing[i]

(* Somebody is at work at the front: at a table that has no row yet. *)
FrontHasWorker ==
    (~failed /\ Rows # {} /\ Rows # TableNames) =>
        \E i \in Instances :
            /\ ipc[i] \in {"table", "record"}
            /\ next[i] \in 1 .. 3 /\ ~HasRow(next[i])

(* As long as no start met another instance, at most one is up. *)
AloneUnlessCrowded ==
    ~starts.crowded =>
        \A i, j \in Instances : ipc[i] # "down" /\ ipc[j] # "down" => i = j

(* Then the one that migrates knows of every row that lies ahead of it. *)
AloneKnowsRows ==
    ~starts.crowded =>
        \A i \in Instances : ipc[i] \in {"table", "record"} =>
            \A k \in next[i] .. 3 : HasRow(k) => requiredTables[k] \in existing[i]

(* Rows carry versions of releases that were started. *)
RowsAreStarted ==
    /\ \A t \in TableNames : migrations[t] # None => migrations[t] \in starts.releases
    /\ \A i \in Instances : ipc[i] # "down" => build[i] \in starts.releases

(* The inductive invariant for what the migrations of the past allow. *)
StHistoryInv ==
    /\ RowsInOrder
    /\ RecordsOnlyNew
    /\ FrontHasWorker
    /\ AloneUnlessCrowded
    /\ AloneKnowsRows
    /\ RowsAreStarted
    /\ MigrateIsRepeatable

(* The positions of requiredTables are pairwise different tables. *)
LEMMA RequiredDistinct ==
    \A k, l \in 1 .. 3 : requiredTables[k] = requiredTables[l] => k = l
  <1>1. \A k \in 1 .. 3 : k = 1 \/ k = 2 \/ k = 3
    OBVIOUS
  <1> QED
    BY <1>1, RequiredTables

(* An instance's own tables have rows, because a release is not None. *)
LEMMA PassedHasRow ==
    ASSUME StInv, NEW i \in Instances, ipc[i] \in Migrating
    PROVE  /\ \A t \in existing[i] : t \in TableNames /\ migrations[t] # None
           /\ \A k \in 1 .. next[i] - 1 : k \in 1 .. 3 /\ HasRow(k)
  <1>1. build[i] \in Nat \ {0}
    BY ReleasesAssumption DEF StInv, BuildIsRelease, Migrating
  <1>2. \A t \in Passed(i) : t \in TableNames => migrations[t] # None
    <2> SUFFICES ASSUME NEW t \in Passed(i), t \in TableNames PROVE migrations[t] # None
      OBVIOUS
    <2>1. migrations[t] >= build[i]
      BY DEF StInv, KnowsItsTables
    <2>2. migrations[t] \in Nat
      BY VersionsAreNumbers DEF StInv, StTypeOK
    <2> QED
      BY <1>1, <2>1, <2>2 DEF None
  <1>3. existing[i] \subseteq TableNames /\ next[i] \in 1 .. 4
    BY DEF StInv, StTypeOK
  <1>4. \A k \in 1 .. next[i] - 1 : k \in 1 .. 3
    BY <1>3
  <1> QED
    BY <1>2, <1>3, <1>4, RequiredTables DEF Passed, HasRow

(* On an empty database with nothing started there is no history yet. *)
LEMMA StHistoryInit == StInit => StHistoryInv
  <1> SUFFICES ASSUME StInit PROVE StHistoryInv
    OBVIOUS
  <1>1. \A t \in TableNames : migrations[t] = None
    BY DEF StInit
  <1>2. \A k \in 1 .. 3 : ~HasRow(k)
    BY <1>1, RequiredTables DEF HasRow
  <1>3. \A i \in Instances : ipc[i] = "down" /\ outcome[i] = "none"
    BY DEF StInit
  <1>4. Rows = {}
    BY <1>1 DEF Rows
  <1>5. RowsInOrder /\ RowsAreStarted
    BY <1>1, <1>2, <1>3 DEF RowsInOrder, RowsAreStarted
  <1> QED
    BY <1>3, <1>4, <1>5
    DEF StHistoryInv, RecordsOnlyNew, FrontHasWorker, AloneUnlessCrowded, AloneKnowsRows,
        MigrateIsRepeatable

(* What a step of instance i changes at most: the other instances stand    *)
(* still, rows appear only by Record, and the histories only grow.         *)
OneMoves(i) ==
    /\ \A j \in Instances \ {i} :
          /\ ipc'[j] = ipc[j] /\ build'[j] = build[j] /\ existing'[j] = existing[j]
          /\ next'[j] = next[j] /\ outcome'[j] = outcome[j]
    /\ migrations' = migrations \/ Record(i)
    /\ starts.crowded => starts'.crowded
    /\ starts.releases \subseteq starts'.releases
    /\ failed => failed'

(* The step of an instance. *)
Move(i) ==
    \/ \E version \in Releases : Start(i, version)
    \/ InitServerCrypto(i) \/ InitSSLClientContext(i) \/ InitMysql(i)
    \/ CreateMigrationTable(i) \/ LoadAll(i)
    \/ SkipTable(i) \/ CreateTable(i) \/ Record(i)
    \/ Serve(i) \/ Stop(i) \/ Fail(i)

(* Start takes note of whether another instance is up. *)
LEMMA StartIsCounted ==
    ASSUME NEW i \in Instances, NEW version \in Releases, Start(i, version)
    PROVE  /\ starts'.releases = starts.releases \cup {version}
           /\ starts'.crowded <=> \/ starts.crowded
                                 \/ \E j \in Instances : ipc[j] # "down"
  <1>1. starts' = [count |-> starts.count + 1,
                   releases |-> starts.releases \cup {version},
                   crowded |-> starts.crowded \/ \E j \in Instances : ipc[j] # "down"]
    BY DEF Start
  <1>2. starts'.crowded = (starts.crowded \/ \E j \in Instances : ipc[j] # "down")
    BY <1>1, Zenon
  <1>3. starts'.releases = starts.releases \cup {version}
    BY <1>1
  <1> QED
    BY <1>2, <1>3, Zenon

(* The step of an instance changes no more than OneMoves allows. *)
LEMMA OneMovesLemma ==
    ASSUME StTypeOK, NEW i \in Instances, Move(i)
    PROVE  OneMoves(i)
  <1> USE DEF StTypeOK, OneMoves, Proceed, GoDown, LocalsUnchanged, DatabaseUnchanged
  <1>1. CASE \E version \in Releases : Start(i, version)
    <2>1. starts.crowded => starts'.crowded
      BY <1>1, StartIsCounted
    <2>2. starts.releases \subseteq starts'.releases
      BY <1>1, StartIsCounted
    <2> QED
      BY <1>1, <2>1, <2>2 DEF Start
  <1>2. CASE InitServerCrypto(i) \/ InitSSLClientContext(i) \/ InitMysql(i)
    BY <1>2 DEF InitServerCrypto, InitSSLClientContext, InitMysql
  <1>3. CASE CreateMigrationTable(i) \/ LoadAll(i) \/ SkipTable(i)
    BY <1>3 DEF CreateMigrationTable, LoadAll, SkipTable
  <1>4. CASE CreateTable(i) \/ Serve(i) \/ Stop(i) \/ Fail(i)
    BY <1>4 DEF CreateTable, Serve, Stop, Fail
  <1>5. CASE Record(i)
    BY <1>5 DEF Record
  <1> QED
    BY <1>1, <1>2, <1>3, <1>4, <1>5 DEF Move

(* A row is inserted at the front: all rows before it are there, none from *)
(* it on (migrate lines 53-60).                                            *)
LEMMA RecordAtFront ==
    ASSUME StInv, RowsInOrder, NEW i \in Instances, Record(i),
           migrations[requiredTables[next[i]]] = None
    PROVE  /\ next[i] \in 1 .. 3 /\ ipc[i] = "record" /\ ipc'[i] = "table"
           /\ next'[i] = next[i] + 1 /\ existing'[i] = existing[i]
           /\ build[i] \in Releases /\ build[i] # None
           /\ migrations'[requiredTables[next[i]]] = build[i]
           /\ \A t \in TableNames :
                 t # requiredTables[next[i]] => migrations'[t] = migrations[t]
           /\ \A k \in 1 .. next[i] - 1 : HasRow(k)
           /\ \A k \in next[i] .. 3 : ~HasRow(k)
           /\ starts' = starts /\ failed' = failed /\ outcome' = outcome
  <1>1. next[i] \in 1 .. 3 /\ ipc[i] = "record"
    BY DEF StInv, RecordingIsCreated, Record
  <1>2. requiredTables[next[i]] \in TableNames
    BY <1>1, RequiredTables
  <1>3. build[i] \in Releases /\ build[i] # None
    BY <1>1, ReleasesAssumption DEF StInv, BuildIsRelease, None
  <1>4. /\ ipc'[i] = "table" /\ next'[i] = next[i] + 1 /\ existing' = existing
        /\ migrations' = [migrations EXCEPT ![requiredTables[next[i]]] = build[i]]
        /\ starts' = starts /\ failed' = failed /\ outcome' = outcome
    BY DEF Record, Saved, Proceed, StInv, StTypeOK
  <1>5. \A k \in 1 .. next[i] - 1 : HasRow(k)
    BY <1>1, PassedHasRow DEF Migrating
  <1>6. \A k \in next[i] .. 3 : ~HasRow(k)
    <2>1. ~HasRow(next[i])
      BY DEF HasRow
    <2> QED
      BY <2>1, <1>1 DEF RowsInOrder
  <1> QED
    BY <1>1, <1>2, <1>3, <1>4, <1>5, <1>6 DEF StInv, StTypeOK

(* Rows stay in the order of requiredTables. *)
LEMMA KeepsRowsInOrder ==
    ASSUME StInv, StHistoryInv, NEW i \in Instances, Move(i)
    PROVE  RowsInOrder'
  <1>1. OneMoves(i)
    BY OneMovesLemma DEF StInv
  <1>2. CASE migrations' = migrations
    BY <1>2 DEF StHistoryInv, RowsInOrder, HasRow
  <1>3. CASE migrations' # migrations
    <2>1. Record(i) /\ migrations[requiredTables[next[i]]] = None
      BY <1>1, <1>3 DEF OneMoves, Record
    <2> DEFINE n == next[i]
    <2>2. n \in 1 .. 3
      BY <2>1, RecordAtFront DEF StHistoryInv
    <2>3. ASSUME NEW k \in 1 .. 3 PROVE HasRow(k)' <=> k <= n
      <3>1. CASE k = n
        BY <3>1, <2>1, <2>2, RecordAtFront DEF StHistoryInv, HasRow
      <3>2. CASE k # n
        <4>1. migrations'[requiredTables[k]] = migrations[requiredTables[k]]
          BY <3>2, <2>1, <2>2, RecordAtFront, RequiredTables, RequiredDistinct DEF StHistoryInv
        <4>2. HasRow(k)' <=> HasRow(k)
          BY <4>1 DEF HasRow
        <4>3. HasRow(k) <=> k <= n
          <5>1. k \in 1 .. n - 1 \/ k \in n .. 3
            BY <2>2
          <5> QED
            BY <5>1, <3>2, <2>1, <2>2, RecordAtFront DEF StHistoryInv
        <4> QED
          BY <4>2, <4>3
      <3> QED
        BY <3>1, <3>2
    <2> SUFFICES ASSUME NEW k \in 1 .. 3, NEW l \in 1 .. k, HasRow(k)' PROVE HasRow(l)'
      BY DEF RowsInOrder
    <2>4. l \in 1 .. 3 /\ l <= k
      OBVIOUS
    <2> QED
      BY <2>2, <2>3, <2>4
  <1> QED
    BY <1>2, <1>3

(* A database that is migrated halfway keeps somebody at its front: the    *)
(* worker there cannot skip the table, cannot meet the duplicate key and   *)
(* cannot serve yet, and whoever inserts the row moves to the new front.   *)
LEMMA KeepsFrontWorker ==
    ASSUME StInv, StHistoryInv, NEW i \in Instances, Move(i)
    PROVE  FrontHasWorker'
  <1>1. OneMoves(i)
    BY OneMovesLemma DEF StInv
  <1> SUFFICES ASSUME ~failed', Rows' # {}, Rows' # TableNames
               PROVE  \E j \in Instances :
                         /\ ipc'[j] \in {"table", "record"}
                         /\ next'[j] \in 1 .. 3 /\ HasRow(next[j])' = FALSE
    BY DEF FrontHasWorker
  <1>2. CASE migrations' = migrations
    <2>1. ~failed /\ Rows # {} /\ Rows # TableNames
      BY <1>1, <1>2 DEF OneMoves, Rows, StInv, StTypeOK
    <2>2. PICK j \in Instances : /\ ipc[j] \in {"table", "record"}
                                 /\ next[j] \in 1 .. 3 /\ ~HasRow(next[j])
      BY <2>1 DEF StHistoryInv, FrontHasWorker
    <2>3. CASE j # i
      <3>1. ipc'[j] = ipc[j] /\ next'[j] = next[j]
        BY <2>3, <1>1 DEF OneMoves
      <3> QED
        BY <3>1, <2>2, <1>2 DEF HasRow
    <2>4. CASE j = i
      <3>1. requiredTables[next[i]] \notin existing[i]
        BY <2>2, <2>4, PassedHasRow DEF Migrating, HasRow
      <3>2. CASE CreateTable(i)
        BY <3>2, <2>2, <2>4, <1>2
        DEF CreateTable, Proceed, LocalsUnchanged, HasRow, StInv, StTypeOK
      <3>3. CASE Record(i)
        <4>1. migrations'[requiredTables[next[i]]] # None
          BY <3>3, <2>2, <2>4, RecordAtFront DEF StHistoryInv, HasRow
        <4> QED
          BY <4>1, <1>2, <2>2, <2>4 DEF HasRow
      <3>4. CASE SkipTable(i) \/ Serve(i)
        BY <3>4, <3>1, <2>2, <2>4 DEF SkipTable, Serve
      <3>5. CASE Fail(i)
        BY <3>5 DEF Fail
      <3>6. CASE \/ \E version \in Releases : Start(i, version)
                 \/ InitServerCrypto(i) \/ InitSSLClientContext(i) \/ InitMysql(i)
                 \/ CreateMigrationTable(i) \/ LoadAll(i) \/ Stop(i)
        BY <3>6, <2>2, <2>4
        DEF Start, InitServerCrypto, InitSSLClientContext, InitMysql, CreateMigrationTable,
            LoadAll, Stop
      <3> QED
        BY <3>2, <3>3, <3>4, <3>5, <3>6 DEF Move
    <2> QED
      BY <2>3, <2>4
  <1>3. CASE migrations' # migrations
    <2>1. Record(i) /\ migrations[requiredTables[next[i]]] = None
      BY <1>1, <1>3 DEF OneMoves, Record
    <2> DEFINE n == next[i]
    <2>2. n \in 1 .. 3 /\ ipc'[i] = "table" /\ next'[i] = n + 1
      BY <2>1, RecordAtFront DEF StHistoryInv
    <2>3. CASE n = 3
      <3>1. \A t \in TableNames : migrations'[t] # None
        <4> SUFFICES ASSUME NEW t \in TableNames PROVE migrations'[t] # None
          OBVIOUS
        <4>1. PICK k \in 1 .. 3 : requiredTables[k] = t
          BY RequiredTables
        <4>2. CASE k = n
          BY <4>1, <4>2, <2>1, RecordAtFront DEF StHistoryInv
        <4>3. CASE k # n
          <5>1. k \in 1 .. n - 1
            BY <4>1, <4>3, <2>3
          <5>2. HasRow(k)
            BY <5>1, <2>1, RecordAtFront DEF StHistoryInv
          <5>3. t # requiredTables[n]
            BY <4>1, <4>3, <2>2, RequiredDistinct
          <5> QED
            BY <5>2, <5>3, <4>1, <2>1, RecordAtFront DEF StHistoryInv, HasRow
        <4> QED
          BY <4>2, <4>3
      <3>2. Rows' = TableNames
        BY <3>1 DEF Rows
      <3> QED
        BY <3>2
    <2>4. CASE n # 3
      <3>1. n + 1 \in 1 .. 3 /\ n + 1 \in n .. 3
        BY <2>2, <2>4
      <3>2. requiredTables[n + 1] # requiredTables[n] /\ requiredTables[n + 1] \in TableNames
        BY <3>1, <2>2, RequiredDistinct, RequiredTables
      <3>3. migrations'[requiredTables[n + 1]] = None
        BY <3>1, <3>2, <2>1, RecordAtFront DEF StHistoryInv, HasRow
      <3> QED
        BY <3>1, <3>3, <2>2 DEF HasRow
    <2> QED
      BY <2>3, <2>4
  <1> QED
    BY <1>2, <1>3

(* While nobody was started beside another instance, the one that migrates *)
(* is alone and knows of every row ahead of it.                            *)
LEMMA KeepsAlone ==
    ASSUME StInv, StHistoryInv, NEW i \in Instances, Move(i)
    PROVE  AloneUnlessCrowded' /\ AloneKnowsRows' /\ RecordsOnlyNew'
  <1> USE DEF Proceed, GoDown, LocalsUnchanged, DatabaseUnchanged
  <1>1. OneMoves(i)
    BY OneMovesLemma DEF StInv
  <1>2. RecordsOnlyNew'
    <2>1. ipc'[i] = "record" => requiredTables[next'[i]] \notin existing'[i]
      BY DEF StHistoryInv, RecordsOnlyNew, StInv, StTypeOK, Move, Start, InitServerCrypto,
         InitSSLClientContext, InitMysql, CreateMigrationTable, LoadAll, SkipTable,
         CreateTable, Record, Serve, Stop, Fail
    <2> QED
      BY <2>1, <1>1 DEF OneMoves, StHistoryInv, RecordsOnlyNew
  <1>3. ASSUME ~starts'.crowded, NEW j \in Instances, ipc'[j] # "down" PROVE j = i
    <2>1. CASE \E version \in Releases : Start(i, version)
      <3>1. \A k \in Instances : ipc[k] = "down"
        BY <1>3, <2>1, StartIsCounted
      <3> QED
        BY <3>1, <1>1, <1>3 DEF OneMoves
    <2>2. CASE ~ \E version \in Releases : Start(i, version)
      <3>1. ipc[i] # "down"
        BY <2>2 DEF Move, InitServerCrypto, InitSSLClientContext, InitMysql,
           CreateMigrationTable, LoadAll, SkipTable, CreateTable, Record, Serve, Stop, Fail
      <3>2. j # i => ipc[j] # "down"
        BY <1>1, <1>3 DEF OneMoves
      <3>3. ~starts.crowded
        BY <1>1, <1>3 DEF OneMoves
      <3> QED
        BY <3>1, <3>2, <3>3 DEF StHistoryInv, AloneUnlessCrowded
    <2> QED
      BY <2>1, <2>2
  <1>4. AloneUnlessCrowded'
    BY <1>3 DEF AloneUnlessCrowded
  <1>5. AloneKnowsRows'
    <2> SUFFICES ASSUME ~starts'.crowded, ipc'[i] \in {"table", "record"},
                        NEW k \in next'[i] .. 3, HasRow(k)'
                 PROVE  requiredTables[k] \in existing'[i]
      BY <1>3 DEF AloneKnowsRows
    <2>0. next[i] \in 1 .. 4 /\ next'[i] \in 1 .. 4
      BY StNextType DEF StInv, StTypeOK, StNext, Move
    <2>1. ~starts.crowded /\ k \in 1 .. 3 /\ requiredTables[k] \in TableNames
      BY <1>1, <2>0, RequiredTables DEF OneMoves
    <2>2. CASE LoadAll(i)
      <3>1. existing'[i] = Rows /\ migrations' = migrations
        BY <2>2 DEF LoadAll, StInv, StTypeOK
      <3> QED
        BY <3>1, <2>1 DEF Rows, HasRow
    <2>3. CASE SkipTable(i) \/ CreateTable(i)
      <3>1. /\ existing' = existing /\ migrations' = migrations /\ next'[i] >= next[i]
            /\ ipc[i] = "table"
        BY <2>3, <2>0 DEF SkipTable, CreateTable, StInv, StTypeOK
      <3>2. k \in next[i] .. 3 /\ HasRow(k)
        BY <3>1, <2>0 DEF HasRow
      <3> QED
        BY <3>1, <3>2, <2>1 DEF StHistoryInv, AloneKnowsRows
    <2>4. CASE Record(i)
      <3>1. migrations[requiredTables[next[i]]] = None
        BY <2>4 DEF Record, StInv, StTypeOK
      <3>2. k > next[i] /\ k \in next[i] .. 3
        BY <3>1, <2>4, <2>0, <2>1, RecordAtFront DEF StHistoryInv
      <3>3. requiredTables[k] # requiredTables[next[i]]
        BY <3>1, <3>2, <2>1, <2>4, RecordAtFront, RequiredDistinct DEF StHistoryInv
      <3>4. HasRow(k)
        BY <3>1, <3>3, <2>1, <2>4, RecordAtFront DEF StHistoryInv, HasRow
      <3> QED
        BY <3>1, <3>2, <3>4, <2>4, RecordAtFront DEF StHistoryInv
    <2>5. CASE \/ \E version \in Releases : Start(i, version)
               \/ InitServerCrypto(i) \/ InitSSLClientContext(i) \/ InitMysql(i)
               \/ CreateMigrationTable(i) \/ Serve(i) \/ Stop(i) \/ Fail(i)
      BY <2>5 DEF StInv, StTypeOK, Start, InitServerCrypto, InitSSLClientContext, InitMysql,
         CreateMigrationTable, Serve, Stop, Fail
    <2> QED
      BY <2>2, <2>3, <2>4, <2>5 DEF Move
  <1> QED
    BY <1>2, <1>4, <1>5

(* A start ends with the duplicate key only beside another instance, and   *)
(* with MissingMigrationException only after an older release.             *)
LEMMA KeepsRepeatable ==
    ASSUME StInv, StHistoryInv, NEW i \in Instances, Move(i)
    PROVE  RowsAreStarted' /\ MigrateIsRepeatable'
  <1> USE DEF Proceed, GoDown, LocalsUnchanged, DatabaseUnchanged
  <1>1. OneMoves(i)
    BY OneMovesLemma DEF StInv
  <1>2. ASSUME NEW t \in TableNames, migrations'[t] # None
        PROVE  migrations'[t] \in starts'.releases
    <2>1. CASE migrations' = migrations
      BY <2>1, <1>1, <1>2 DEF OneMoves, StHistoryInv, RowsAreStarted
    <2>2. CASE migrations' # migrations
      <3>1. Record(i) /\ migrations[requiredTables[next[i]]] = None
        BY <1>1, <2>2 DEF OneMoves, Record
      <3>2. CASE t = requiredTables[next[i]]
        BY <3>1, <3>2, <1>1, RecordAtFront DEF StHistoryInv, RowsAreStarted, OneMoves
      <3>3. CASE t # requiredTables[next[i]]
        BY <3>1, <3>3, <1>1, <1>2, RecordAtFront DEF StHistoryInv, RowsAreStarted, OneMoves
      <3> QED
        BY <3>2, <3>3
    <2> QED
      BY <2>1, <2>2
  <1>3. ipc'[i] # "down" => build'[i] \in starts'.releases
    <2>1. CASE \E version \in Releases : Start(i, version)
      BY <2>1 DEF Start, StInv, StTypeOK
    <2>2. CASE ~ \E version \in Releases : Start(i, version)
      <3>1. ipc[i] # "down" /\ build'[i] = build[i]
        BY <2>2 DEF Move, InitServerCrypto, InitSSLClientContext, InitMysql,
           CreateMigrationTable, LoadAll, SkipTable, CreateTable, Record, Serve, Stop, Fail
      <3> QED
        BY <3>1, <1>1 DEF StHistoryInv, RowsAreStarted, OneMoves
    <2> QED
      BY <2>1, <2>2
  <1>4. RowsAreStarted'
    BY <1>1, <1>2, <1>3 DEF RowsAreStarted, OneMoves, StHistoryInv
  <1>5. outcome'[i] = "duplicate" => starts'.crowded
    <2>1. CASE Record(i) /\ migrations[requiredTables[next[i]]] # None
      <3>1. ipc[i] = "record" /\ next[i] \in 1 .. 3 /\ requiredTables[next[i]] \notin existing[i]
        BY <2>1 DEF Record, StInv, RecordingIsCreated, StHistoryInv, RecordsOnlyNew
      <3>2. next[i] \in next[i] .. 3 /\ HasRow(next[i])
        BY <3>1, <2>1 DEF HasRow
      <3>3. starts.crowded
        BY <3>1, <3>2 DEF StHistoryInv, AloneKnowsRows
      <3> QED
        BY <3>3, <1>1 DEF OneMoves
    <2>2. CASE ~(Record(i) /\ migrations[requiredTables[next[i]]] # None)
      <3>1. outcome'[i] = "duplicate" => outcome[i] = "duplicate"
        BY <2>2 DEF StInv, StTypeOK, Move, Start, InitServerCrypto, InitSSLClientContext,
           InitMysql, CreateMigrationTable, LoadAll, SkipTable, CreateTable, Record, Serve,
           Stop, Fail
      <3> QED
        BY <3>1, <1>1 DEF OneMoves, StHistoryInv, MigrateIsRepeatable
    <2> QED
      BY <2>1, <2>2
  <1>6. outcome'[i] = "missing" => \E v \in starts'.releases : v < build'[i]
    <2>1. CASE LoadAll(i) /\ \E t \in Rows : migrations[t] < build[i]
      <3>1. PICK t \in Rows : migrations[t] < build[i]
        BY <2>1
      <3>2. migrations[t] \in starts.releases
        BY <3>1 DEF Rows, StHistoryInv, RowsAreStarted
      <3>3. build' = build
        BY <2>1 DEF LoadAll
      <3> QED
        BY <3>1, <3>2, <3>3, <1>1 DEF OneMoves
    <2>2. CASE \E version \in Releases : Start(i, version)
      BY <2>2 DEF Start, StInv, StTypeOK
    <2>3. CASE /\ ~(LoadAll(i) /\ \E t \in Rows : migrations[t] < build[i])
               /\ ~ \E version \in Releases : Start(i, version)
      <3>1. outcome'[i] = "missing" => outcome[i] = "missing"
        BY <2>3 DEF StInv, StTypeOK, Move, InitServerCrypto, InitSSLClientContext,
           InitMysql, CreateMigrationTable, LoadAll, SkipTable, CreateTable, Record, Serve,
           Stop, Fail
      <3>2. build' = build
        BY <2>3 DEF Move, InitServerCrypto, InitSSLClientContext,
           InitMysql, CreateMigrationTable, LoadAll, SkipTable, CreateTable, Record, Serve,
           Stop, Fail
      <3> QED
        BY <3>1, <3>2, <1>1 DEF OneMoves, StHistoryInv, MigrateIsRepeatable
    <2> QED
      BY <2>1, <2>2, <2>3
  <1>7. MigrateIsRepeatable'
    <2> SUFFICES ASSUME NEW j \in Instances
                 PROVE  /\ outcome'[j] = "duplicate" => starts'.crowded
                        /\ outcome'[j] = "missing" =>
                              \E v \in starts'.releases : v < build'[j]
      BY DEF MigrateIsRepeatable
    <2>1. CASE j = i
      BY <2>1, <1>5, <1>6
    <2>2. CASE j # i
      BY <2>2, <1>1 DEF OneMoves, StHistoryInv, MigrateIsRepeatable
    <2> QED
      BY <2>1, <2>2
  <1> QED
    BY <1>4, <1>7

(* Every step keeps the history invariant. *)
LEMMA StHistoryNext == StInv /\ StHistoryInv /\ [StNext]_stVars => StHistoryInv'
  <1> SUFFICES ASSUME StInv, StHistoryInv, [StNext]_stVars PROVE StHistoryInv'
    OBVIOUS
  <1>1. ASSUME NEW i \in Instances, Move(i) PROVE StHistoryInv'
    BY <1>1, KeepsRowsInOrder, KeepsFrontWorker, KeepsAlone, KeepsRepeatable DEF StHistoryInv
  <1>2. ASSUME UNCHANGED stVars PROVE StHistoryInv'
    BY <1>2 DEF stVars, StHistoryInv, RowsInOrder, RecordsOnlyNew, FrontHasWorker,
       AloneUnlessCrowded, AloneKnowsRows, RowsAreStarted, MigrateIsRepeatable, HasRow, Rows
  <1> QED
    BY <1>1, <1>2 DEF StNext, Move

(* The history invariant holds in every reachable state. *)
LEMMA StHistoryAlways == StSpec => []StHistoryInv
  BY StInvAlways, StHistoryInit, StHistoryNext, PTL DEF StSpec

(* Unless an instance is killed or loses its connection, a database that   *)
(* is migrated halfway has an instance at work on it, however many start   *)
(* at the same time and cost each other the duplicate key.                 *)
THEOREM HalfwayIsWorkedOn == StSpec => []HalfwayHasWorker
  <1>1. StHistoryInv => HalfwayHasWorker
    BY DEF StHistoryInv, FrontHasWorker, HalfwayHasWorker
  <1> QED
    BY <1>1, StHistoryAlways, PTL

(* migrate can be repeated after any crash: a start fails only beside      *)
(* another instance or after an older release (migrate lines 41-60).       *)
THEOREM MigrationRepeats == StSpec => []MigrateIsRepeatable
  <1>1. StHistoryInv => MigrateIsRepeatable
    BY DEF StHistoryInv
  <1> QED
    BY <1>1, StHistoryAlways, PTL
=============================================================================
