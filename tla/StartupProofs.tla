--------------------------- MODULE StartupProofs ---------------------------
(***************************************************************************)
(* Theorems of Startup, for any tables, seeds and number of attempts, and  *)
(* however often a start-up is cut off.                                    *)
(***************************************************************************)
EXTENDS Startup, TLAPS

-----------------------------------------------------------------------------
(* Types.                                                                  *)

LEMMA OrderOfTables ==
  /\ Len(SeedOrder) \in Nat \ {0}
  /\ DOMAIN SeedOrder = 1 .. Len(SeedOrder)
  /\ \A i \in DOMAIN SeedOrder : SeedOrder[i] \in Tables
BY TablesAssumption DEF Tables

\* The types that are no switches.
DataTypes ==
  /\ stored \in [Rows -> {"never", "live", "deleted", "purged"}]
  /\ phase \in Phases
  /\ attempt \in Nat
  /\ phase \in Connecting => attempt \in 1 .. MaxAttempts
  /\ phase \in {"counting", "inserting"} => attempt \in DOMAIN SeedOrder
  /\ faults \in 0 .. MaxFaults

Switches == expired \in BOOLEAN /\ db \in BOOLEAN /\ redis \in BOOLEAN

LEMMA TypesSplit == TypeOK <=> DataTypes /\ Switches
BY Zenon DEF TypeOK, DataTypes, Switches

LEMMA NextTableType ==
  ASSUME DataTypes, phase \in {"counting", "inserting"}, NextTable
  PROVE  /\ phase' \in {"counting", "redis"} /\ attempt' \in Nat
         /\ phase' = "counting" => attempt' \in DOMAIN SeedOrder
BY OrderOfTables DEF DataTypes, NextTable, GoOn

\* Every step leaves a switch alone or sets it.
LEMMA NextKeepsSwitches ==
  ASSUME Switches, [Next]_vars
  PROVE  Switches'
<1> USE DEF Switches, services, process
<1>1. CASE OpenDatabase \/ PingDatabase \/ PingAgain
  BY <1>1, Zenon DEF OpenDatabase, PingDatabase, PingAgain, GoOn
<1>2. CASE NextAttempt \/ Migrate \/ CountTable
  BY <1>2, Zenon DEF NextAttempt, Migrate, CountTable, GoOn, Exit, NextTable
<1>3. CASE InsertSeed \/ ConnectRedis
  BY <1>3, Zenon DEF InsertSeed, ConnectRedis, GoOn, Exit, NextTable
<1>4. CASE Boot \/ Expire \/ Stop
  BY <1>4, Zenon DEF Boot, Expire, Stop, Exit
<1>5. CASE Outage \/ Recover \/ UNCHANGED vars
  BY <1>5, Zenon DEF Outage, Recover, vars
<1>6. ASSUME NEW r, StoreRow(r) \/ EraseRow(r) \/ PurgeRow(r) PROVE Switches'
  BY <1>6, Zenon DEF StoreRow, EraseRow, PurgeRow
<1> QED
  BY <1>1, <1>2, <1>3, <1>4, <1>5, <1>6, Zenon DEF Next, Step, Surroundings

LEMMA NextKeepsDataTypes ==
  ASSUME DataTypes, [Next]_vars
  PROVE  DataTypes'
<1> USE OrderOfTables, BoundAssumption DEF DataTypes, Phases, Connecting, services, process
<1>1. CASE OpenDatabase \/ PingDatabase \/ PingAgain
  BY <1>1 DEF OpenDatabase, PingDatabase, PingAgain, GoOn
<1>2. CASE NextAttempt \/ Migrate
  BY <1>2 DEF NextAttempt, Migrate, GoOn, Exit
<1>3. CASE CountTable
  BY <1>3, NextTableType DEF CountTable, GoOn, Exit
<1>4. CASE InsertSeed
  <2>1. stored' \in [Rows -> {"never", "live", "deleted", "purged"}]
    BY <1>4 DEF InsertSeed
  <2> QED
    BY <1>4, <2>1, NextTableType DEF InsertSeed, Exit
<1>5. CASE ConnectRedis \/ Boot
  BY <1>5 DEF ConnectRedis, Boot, GoOn, Exit
<1>6. CASE Expire \/ Stop \/ Outage
  BY <1>6 DEF Expire, Stop, Outage, Fault, Exit
<1>7. CASE Recover \/ UNCHANGED vars
  BY <1>7 DEF Recover, vars
<1>8. ASSUME NEW r \in Rows, StoreRow(r) \/ EraseRow(r) \/ PurgeRow(r) PROVE DataTypes'
  BY <1>8 DEF StoreRow, EraseRow, PurgeRow
<1>9. Erasable \subseteq Rows /\ Purgeable \subseteq Rows
  BY TablesAssumption
<1> QED
  BY <1>1, <1>2, <1>3, <1>4, <1>5, <1>6, <1>7, <1>8, <1>9 DEF Next, Step, Surroundings

\* The database and the process keep their types; in particular, a start-up
\* never makes more than MaxAttempts attempts to connect.
THEOREM TypeCorrect == Spec => []TypeOK
<1>1. Init => TypeOK
  <2>1. Init => DataTypes
    BY BoundAssumption DEF Init, DataTypes, Phases, Connecting
  <2>2. Init => Switches
    BY Zenon DEF Init, Switches
  <2> QED
    BY <2>1, <2>2, TypesSplit
<1>2. TypeOK /\ [Next]_vars => TypeOK'
  <2>1. DataTypes' /\ Switches' => TypeOK'
    BY Zenon DEF TypeOK, DataTypes, Switches
  <2> QED
    BY <2>1, NextKeepsDataTypes, NextKeepsSwitches, TypesSplit
<1> QED
  BY <1>1, <1>2, PTL DEF Spec

-----------------------------------------------------------------------------
(* What has been stored.                                                   *)

Seeded(t) == \A r \in SeedOf(t) : stored[r] # "never"

\* Seeding has come as far as the process believes.
SeededSoFar ==
  /\ phase \in {"counting", "inserting"} => \A i \in 1 .. attempt - 1 : Seeded(SeedOrder[i])
  /\ phase \in {"redis", "serving"} => \A t \in Tables : Seeded(t)

\* A row that is no seed was stored by a request, so after all the seeds.
OthersComeLater ==
  (\E r \in Rows \ SeedRows : stored[r] # "never") => \A t \in Tables : Seeded(t)

StoredSound == DataTypes /\ SeededAsAWhole /\ SeededSoFar /\ OthersComeLater

LEMMA SeedsAreRows ==
  /\ \A t \in Tables : SeedOf(t) \subseteq Rows /\ SeedOf(t) \subseteq SeedRows /\ RowsOf[t] \subseteq Rows
  /\ \A r \in SeedRows : \E t \in Tables : r \in SeedOf(t)
  /\ \A t, u \in Tables : t # u => SeedOf(t) \intersect SeedOf(u) = {}
<1>1. SeedRows \subseteq Rows /\ \A t, u \in Tables : t = u \/ RowsOf[t] \intersect RowsOf[u] = {}
  BY TablesAssumption
<1> QED
  BY <1>1 DEF SeedOf, Rows

\* A stored row leaves a trace for ever: deleted or purged, it is not as if
\* it had never been there.
LEMMA TracesRemain ==
  ASSUME DataTypes, [Next]_vars
  PROVE  \A r \in Rows : stored[r] # "never" => stored'[r] # "never"
<1>1. CASE UNCHANGED stored
  BY <1>1
<1>2. ASSUME NEW q \in Rows, StoreRow(q) \/ EraseRow(q) \/ PurgeRow(q)
      PROVE  \A r \in Rows : stored[r] # "never" => stored'[r] # "never"
  BY <1>2 DEF StoreRow, EraseRow, PurgeRow, DataTypes
<1>3. Erasable \subseteq Rows /\ Purgeable \subseteq Rows
  BY TablesAssumption
<1>4. CASE InsertSeed
  BY <1>4 DEF InsertSeed, DataTypes
<1>5. CASE Boot \/ (Step /\ ~InsertSeed)
  BY <1>1, <1>5 DEF Boot, Step, OpenDatabase, PingDatabase, PingAgain, NextAttempt, Migrate,
     CountTable, ConnectRedis
<1>6. CASE Expire \/ Stop \/ Outage \/ Recover \/ UNCHANGED vars
  BY <1>1, <1>6 DEF Expire, Stop, Outage, Recover, Fault, vars
<1> QED
  BY <1>2, <1>3, <1>4, <1>5, <1>6 DEF Next, Surroundings

LEMMA SeededStays ==
  ASSUME DataTypes, [Next]_vars, NEW t \in Tables, Seeded(t)
  PROVE  Seeded(t)'
BY TracesRemain, SeedsAreRows DEF Seeded, SeedOf

\* A seeded row is stored for the first time with all of its table or not at
\* all, and another row only while the server is serving.
LEMMA FirstStored ==
  ASSUME DataTypes, [Next]_vars,
         NEW r \in Rows, stored[r] = "never", stored'[r] # "never"
  PROVE  \/ phase = "serving" /\ r \notin SeedRows
         \/ /\ phase = "inserting" /\ r \in SeedOf(Table)
            /\ stored' = [q \in Rows |-> IF q \in SeedOf(Table) THEN "live" ELSE stored[q]]
<1>1. stored' # stored
  OBVIOUS
<1>2. ASSUME NEW q \in Rows, StoreRow(q) PROVE phase = "serving" /\ r \notin SeedRows
  BY <1>2 DEF StoreRow, DataTypes
<1>3. ASSUME NEW q \in Rows, EraseRow(q) \/ PurgeRow(q) PROVE FALSE
  BY <1>3 DEF EraseRow, PurgeRow, DataTypes
<1>4. Erasable \subseteq Rows /\ Purgeable \subseteq Rows
  BY TablesAssumption
<1>5. CASE InsertSeed
  BY <1>1, <1>5 DEF InsertSeed, DataTypes
<1>6. CASE Boot \/ (Step /\ ~InsertSeed)
  BY <1>1, <1>6 DEF Boot, Step, OpenDatabase, PingDatabase, PingAgain, NextAttempt, Migrate,
     CountTable, ConnectRedis
<1>7. CASE Expire \/ Stop \/ Outage \/ Recover \/ UNCHANGED vars
  BY <1>1, <1>7 DEF Expire, Stop, Outage, Recover, Fault, vars
<1> QED
  BY <1>2, <1>3, <1>4, <1>5, <1>6, <1>7 DEF Next, Surroundings

LEMMA NextKeepsWhole ==
  ASSUME StoredSound, [Next]_vars
  PROVE  SeededAsAWhole'
<1> SUFFICES ASSUME NEW t \in Tables, NEW q \in SeedOf(t), stored'[q] = "never",
                    NEW r \in SeedOf(t)
             PROVE  stored'[r] = "never"
  BY DEF SeededAsAWhole, SeedOf
<1>1. q \in Rows /\ r \in Rows /\ r \in SeedRows
  BY SeedsAreRows
<1>2. stored[q] = "never" /\ stored[r] = "never"
  BY <1>1, TracesRemain DEF StoredSound, SeededAsAWhole
<1>3. SUFFICES ASSUME stored'[r] # "never" PROVE FALSE
  OBVIOUS
<1>4. /\ phase = "inserting" /\ r \in SeedOf(Table)
      /\ stored' = [p \in Rows |-> IF p \in SeedOf(Table) THEN "live" ELSE stored[p]]
  BY <1>1, <1>2, <1>3, FirstStored DEF StoredSound
<1>5. Table \in Tables
  BY <1>4, OrderOfTables DEF Table, StoredSound, DataTypes
<1>6. Table = t
  BY <1>4, <1>5, SeedsAreRows
<1> QED
  BY <1>1, <1>4, <1>6

\* Count finds a row of the table: then the seed has been there, because it
\* is one of the seed or one that a request has stored.
LEMMA CountedIsSeeded ==
  ASSUME StoredSound, NEW t \in Tables, Counted(t) # {}
  PROVE  Seeded(t)
<1>1. PICK r \in RowsOf[t] : stored[r] = "live"
  BY DEF Counted
<1>2. r \in Rows
  BY SeedsAreRows
<1>3. CASE r \in SeedRows
  BY <1>1, <1>3 DEF StoredSound, SeededAsAWhole, Seeded, SeedOf
<1>4. CASE r \notin SeedRows
  BY <1>1, <1>2, <1>4 DEF StoredSound, OthersComeLater
<1> QED
  BY <1>3, <1>4

\* With its table seeded, a start-up may go on to the next one.
LEMMA NextTableKeepsSeeded ==
  ASSUME StoredSound, [Next]_vars, phase \in {"counting", "inserting"},
         NEW table, table = Table, Seeded(table)', NextTable
  PROVE  SeededSoFar'
<1>1. attempt \in Nat \ {0} /\ attempt \in DOMAIN SeedOrder /\ attempt <= Len(SeedOrder)
  BY OrderOfTables DEF StoredSound, DataTypes
<1>2. ASSUME NEW i \in 1 .. attempt PROVE Seeded(SeedOrder[i])'
  <2>1. CASE i = attempt
    BY <2>1 DEF Table
  <2>2. CASE i \in 1 .. attempt - 1
    <3>1. SeedOrder[i] \in Tables /\ Seeded(SeedOrder[i])
      BY <1>1, <2>2, OrderOfTables DEF StoredSound, SeededSoFar
    <3> QED
      BY <3>1, SeededStays DEF StoredSound
  <2> QED
    BY <1>1, <2>1, <2>2
<1>3. CASE attempt < Len(SeedOrder)
  BY <1>1, <1>2, <1>3 DEF NextTable, SeededSoFar
<1>4. CASE ~(attempt < Len(SeedOrder))
  <2>1. ASSUME NEW t \in Tables PROVE Seeded(t)'
    <3>1. PICK i \in 1 .. attempt : t = SeedOrder[i]
      BY <1>1, <1>4, OrderOfTables DEF Tables
    <3> QED
      BY <1>2, <3>1
  <2> QED
    BY <1>4, <2>1 DEF NextTable, GoOn, SeededSoFar, Tables
<1> QED
  BY <1>3, <1>4

LEMMA NextKeepsSeeded ==
  ASSUME StoredSound, [Next]_vars
  PROVE  SeededSoFar'
<1>1. CASE phase' \notin {"counting", "inserting", "redis", "serving"}
  BY <1>1 DEF SeededSoFar
<1>2. CASE UNCHANGED <<phase, attempt>>
  <2>1. ASSUME NEW t \in Tables, Seeded(t) PROVE Seeded(t)'
    BY <2>1, SeededStays DEF StoredSound
  <2>2. phase \in {"counting", "inserting"} => \A i \in 1 .. attempt - 1 : SeedOrder[i] \in Tables
    BY OrderOfTables DEF StoredSound, DataTypes
  <2> QED
    BY <1>2, <2>1, <2>2 DEF StoredSound, SeededSoFar, Tables
<1>3. CASE Migrate
  BY <1>1, <1>3 DEF Migrate, Exit, SeededSoFar
<1>4. CASE CountTable
  <2>1. CASE NextTable /\ Counted(Table) # {}
    <3>1. PICK table \in Tables : table = Table
      BY <1>4, OrderOfTables DEF CountTable, Table, StoredSound, DataTypes
    <3>2. Seeded(table)
      BY <2>1, <3>1, CountedIsSeeded
    <3>3. Seeded(table)'
      BY <3>2, SeededStays DEF StoredSound
    <3> QED
      BY <1>4, <2>1, <3>1, <3>3, NextTableKeepsSeeded DEF CountTable
  <2>2. CASE GoOn("inserting")
    BY <1>4, <2>2 DEF CountTable, GoOn, StoredSound, SeededSoFar, Seeded, Tables, SeedOf
  <2>3. CASE Exit
    BY <1>1, <2>3 DEF Exit
  <2> QED
    BY <1>4, <2>1, <2>2, <2>3 DEF CountTable
<1>5. CASE InsertSeed
  <2>1. CASE Exit
    BY <1>1, <2>1 DEF Exit
  <2>2. CASE NextTable /\ stored' = [r \in Rows |-> IF r \in SeedOf(Table) THEN "live" ELSE stored[r]]
    <3>1. PICK table \in Tables : table = Table
      BY <1>5, OrderOfTables DEF InsertSeed, Table, StoredSound, DataTypes
    <3>2. Seeded(table)'
      BY <2>2, <3>1, SeedsAreRows DEF Seeded, SeedOf
    <3> QED
      BY <1>5, <2>2, <3>1, <3>2, NextTableKeepsSeeded DEF InsertSeed
  <2> QED
    BY <1>5, <2>1, <2>2 DEF InsertSeed
<1>6. CASE ConnectRedis
  BY <1>1, <1>6 DEF ConnectRedis, GoOn, Exit, StoredSound, SeededSoFar, Seeded, Tables, SeedOf
<1>7. CASE Boot \/ OpenDatabase \/ PingDatabase \/ PingAgain \/ NextAttempt \/ Stop
  BY <1>1, <1>7 DEF Boot, OpenDatabase, PingDatabase, PingAgain, NextAttempt, Stop, GoOn, Exit
<1>8. ASSUME NEW r, StoreRow(r) \/ EraseRow(r) \/ PurgeRow(r) PROVE SeededSoFar'
  BY <1>2, <1>8 DEF StoreRow, EraseRow, PurgeRow, process
<1>9. CASE Expire \/ Outage \/ Recover \/ UNCHANGED vars
  BY <1>2, <1>9 DEF Expire, Outage, Recover, process, vars
<1> QED
  BY <1>3, <1>4, <1>5, <1>6, <1>7, <1>8, <1>9 DEF Next, Step, Surroundings

LEMMA NextKeepsOthersLater ==
  ASSUME StoredSound, [Next]_vars
  PROVE  OthersComeLater'
<1> SUFFICES ASSUME NEW r \in Rows \ SeedRows, stored'[r] # "never", NEW t \in Tables
             PROVE  Seeded(t)'
  BY DEF OthersComeLater, Rows, Tables
<1>1. CASE stored[r] # "never"
  BY <1>1, SeededStays DEF StoredSound, OthersComeLater
<1>2. CASE stored[r] = "never"
  <2>1. phase = "serving"
    BY <1>2, FirstStored DEF StoredSound, SeedOf
  <2> QED
    BY <2>1, SeededStays DEF StoredSound, SeededSoFar
<1> QED
  BY <1>1, <1>2

LEMMA AlwaysStoredSound == Spec => []StoredSound
<1>1. Init => StoredSound
  <2> SUFFICES ASSUME Init PROVE StoredSound
    OBVIOUS
  <2>1. DataTypes
    BY BoundAssumption DEF Init, DataTypes, Phases, Connecting
  <2>2. \A r \in Rows : stored[r] = "never"
    BY DEF Init
  <2>3. SeededAsAWhole
    BY <2>2, SeedsAreRows DEF SeededAsAWhole
  <2> QED
    BY <2>1, <2>2, <2>3 DEF Init, StoredSound, SeededSoFar, OthersComeLater
<1>2. StoredSound /\ [Next]_vars => StoredSound'
  <2> SUFFICES ASSUME StoredSound, [Next]_vars PROVE StoredSound'
    OBVIOUS
  <2> QED
    BY NextKeepsDataTypes, NextKeepsWhole, NextKeepsSeeded, NextKeepsOthersLater DEF StoredSound
<1> QED
  BY <1>1, <1>2, PTL DEF Spec

-----------------------------------------------------------------------------
(* What may be relied on.                                                  *)

\* Wherever a start-up is cut off, a table has all of its seeded rows or none.
THEOREM TablesAreSeededWhole == Spec => []SeededAsAWhole
<1>1. StoredSound => SeededAsAWhole
  BY DEF StoredSound
<1> QED
  BY <1>1, AlwaysStoredSound, PTL

\* Nobody is served before every table has been seeded.
THEOREM SeededBeforeServing == Spec => []ServedAfterSeeding
<1>1. StoredSound => ServedAfterSeeding
  BY SeedsAreRows DEF StoredSound, SeededSoFar, Seeded, ServedAfterSeeding
<1> QED
  BY <1>1, AlwaysStoredSound, PTL

\* A soft-deleted record stays deleted through restarts and seeding.
THEOREM DeletedForGood == Spec => DeletedStaysDeleted
<1>1. ASSUME StoredSound, [Next]_vars, NEW r \in Rows, stored[r] = "deleted"
      PROVE  stored'[r] = "deleted"
  <2>1. CASE UNCHANGED stored
    BY <1>1, <2>1
  <2>2. ASSUME NEW q \in Rows, StoreRow(q) \/ EraseRow(q) \/ PurgeRow(q)
        PROVE  stored'[r] = "deleted"
    BY <1>1, <2>2 DEF StoreRow, EraseRow, PurgeRow, StoredSound, DataTypes
  <2>3. Erasable \subseteq Rows /\ Purgeable \subseteq Rows
    BY TablesAssumption
  <2>4. CASE InsertSeed
    BY <1>1, <2>4 DEF InsertSeed, Insertable
  <2>5. CASE Boot \/ (Step /\ ~InsertSeed)
    BY <2>1, <2>5 DEF Boot, Step, OpenDatabase, PingDatabase, PingAgain, NextAttempt, Migrate,
       CountTable, ConnectRedis
  <2>6. CASE Expire \/ Stop \/ Outage \/ Recover \/ UNCHANGED vars
    BY <2>1, <2>6 DEF Expire, Stop, Outage, Recover, Fault, vars
  <2> QED
    BY <1>1, <2>2, <2>3, <2>4, <2>5, <2>6 DEF Next, Surroundings
<1>2. StoredSound /\ [Next]_vars
        => [\A r \in Rows : stored[r] = "deleted" => stored'[r] = "deleted"]_vars
  BY <1>1
<1> QED
  BY <1>2, AlwaysStoredSound, PTL DEF Spec, DeletedStaysDeleted
=============================================================================
