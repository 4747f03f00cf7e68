------------------------------ MODULE Startup ------------------------------
(***************************************************************************)
(* One life after the other of the server process (cmd/server/main.go):    *)
(* database.Open connects in at most MaxAttempts attempts, migrates, seeds *)
(* the tables in a fixed order and connects to Redis; only then does the   *)
(* server serve.  Any error ends the process, the container is restarted,  *)
(* and the database keeps what was committed.                              *)
(*                                                                         *)
(* stored[r] is what the database has kept of row r: "never" inserted,     *)
(* "live", "deleted" (softly: the row is there with a deleted_at) or       *)
(* "purged" (removed by the operator of the database, as README.md tells   *)
(* for the demonstration accounts).                                        *)
(***************************************************************************)
EXTENDS Naturals, Sequences, FiniteSets

CONSTANTS
  SeedOrder,    \* the tables, in the order in which Seed fills them
  RowsOf,       \* table -> rows it may hold
  SeedRows,     \* the rows that Seed inserts
  Purgeable,    \* rows the operator removes in the database (seeded accounts)
  Erasable,     \* rows that requests may soft-delete
  MaxAttempts,  \* attempts to connect (20 in the code)
  MaxFaults     \* bound: outages, expired start-ups and stops

VARIABLES
  stored,   \* the database
  phase,    \* what the process does
  attempt,  \* attempt to connect, then the position in SeedOrder
  expired,  \* startupCtx is past its deadline
  db, redis,\* the service answers
  faults    \* outages, expired start-ups and stops so far

vars == <<stored, phase, attempt, expired, db, redis, faults>>
process == <<phase, attempt, expired>>
services == <<db, redis, faults>>

Tables == {SeedOrder[i] : i \in DOMAIN SeedOrder}
Rows == UNION {RowsOf[t] : t \in Tables}
SeedOf(t) == RowsOf[t] \intersect SeedRows

ASSUME TablesAssumption ==
  /\ SeedOrder \in Seq(DOMAIN RowsOf) /\ SeedOrder # <<>>
  /\ \A t \in Tables : SeedOf(t) # {} /\ IsFiniteSet(RowsOf[t])
  /\ \A t, u \in Tables : t = u \/ RowsOf[t] \intersect RowsOf[u] = {}
  /\ SeedRows \subseteq Rows /\ Purgeable \subseteq Rows /\ Erasable \subseteq Rows \ Purgeable

ASSUME BoundAssumption == MaxAttempts \in Nat \ {0} /\ MaxFaults \in Nat

Init ==
  /\ stored = [r \in Rows |-> "never"]
  /\ phase = "down" /\ attempt = 0 /\ expired = FALSE
  /\ db = TRUE /\ redis = TRUE /\ faults = 0

-----------------------------------------------------------------------------
(* Steps of the process.                                                   *)

GoOn(next) == phase' = next /\ UNCHANGED <<attempt, expired>>

\* os.Exit(1): the locals of the process are gone.
Exit == phase' = "down" /\ attempt' = 0 /\ expired' = FALSE

\* The container starts the process (again).
Boot ==
  /\ phase = "down"
  /\ phase' = "opening" /\ attempt' = 1 /\ expired' = FALSE
  /\ UNCHANGED <<stored, services>>

\* A statement that runs under startupCtx succeeds.
Answers == db /\ ~expired

\* gorm.Open, which pings without startupCtx.
OpenDatabase ==
  /\ phase = "opening"
  /\ GoOn(IF db THEN "pinging" ELSE "failed")
  /\ UNCHANGED <<stored, services>>

\* The ping that decides whether the attempt ends the loop.
PingDatabase ==
  /\ phase = "pinging"
  /\ GoOn(IF Answers THEN "migrating" ELSE "repinging")
  /\ UNCHANGED <<stored, services>>

\* The second ping, whose result becomes the error of the attempt: it may be
\* no error at all, and still the loop goes round once more.
PingAgain ==
  /\ phase = "repinging"
  /\ GoOn(IF Answers THEN "flapped" ELSE "failed")
  /\ UNCHANGED <<stored, services>>

\* Mutant: the bound of the loop is one too high.
NextAttemptOnceMore ==
  /\ phase \in {"failed", "flapped"}
  /\ IF expired THEN Exit
     ELSE IF attempt <= MaxAttempts
       THEN phase' = "opening" /\ attempt' = attempt + 1 /\ UNCHANGED expired
     ELSE IF phase = "flapped" THEN GoOn("migrating") ELSE Exit
  /\ UNCHANGED <<stored, services>>

\* The select after an attempt; past the last one the error decides.
NextAttempt ==
  /\ phase \in {"failed", "flapped"}
  /\ IF expired THEN Exit
     ELSE IF attempt < MaxAttempts
       THEN phase' = "opening" /\ attempt' = attempt + 1 /\ UNCHANGED expired
     ELSE IF phase = "flapped" THEN GoOn("migrating") ELSE Exit
  /\ UNCHANGED <<stored, services>>

\* AutoMigrate, without startupCtx.
Migrate ==
  /\ phase = "migrating"
  /\ IF db THEN phase' = "counting" /\ attempt' = 1 /\ UNCHANGED expired ELSE Exit
  /\ UNCHANGED <<stored, services>>

Table == SeedOrder[attempt]
Counted(t) == {r \in RowsOf[t] : stored[r] = "live"}

\* On to the table after this one.
NextTable ==
  IF attempt < Len(SeedOrder)
    THEN phase' = "counting" /\ attempt' = attempt + 1 /\ UNCHANGED expired
    ELSE GoOn("redis")

\* Count, which does not see the soft-deleted rows.
CountTable ==
  /\ phase = "counting"
  /\ IF ~Answers THEN Exit
     ELSE IF Counted(Table) = {} THEN GoOn("inserting") ELSE NextTable
  /\ UNCHANGED <<stored, services>>

\* Mutant: a conflict is taken for a row to be updated.
InsertableAnew(t) == \A r \in SeedOf(t) : stored[r] # "live"

\* The unique index on code sees them.
Insertable(t) == \A r \in SeedOf(t) : stored[r] \in {"never", "purged"}

\* Mutant: the error of the insertion is dropped.
InsertSeedAnyway ==
  /\ phase = "inserting"
  /\ IF Answers /\ Insertable(Table)
       THEN stored' = [r \in Rows |-> IF r \in SeedOf(Table) THEN "live" ELSE stored[r]]
       ELSE UNCHANGED stored
  /\ NextTable
  /\ UNCHANGED services

\* Mutant: the rows of a table are inserted one at a time.
InsertSeedRowByRow ==
  /\ phase = "inserting"
  /\ IF ~Answers THEN Exit /\ UNCHANGED stored
     ELSE IF Insertable(Table)
       THEN \E r \in SeedOf(Table) : stored' = [stored EXCEPT ![r] = "live"] /\ GoOn("counting")
     ELSE Exit /\ UNCHANGED stored
  /\ UNCHANGED services

\* Create(&items): one INSERT with every row of the table, in a transaction.
InsertSeed ==
  /\ phase = "inserting"
  /\ IF Answers /\ Insertable(Table)
       THEN /\ stored' = [r \in Rows |-> IF r \in SeedOf(Table) THEN "live" ELSE stored[r]]
            /\ NextTable
       ELSE Exit /\ UNCHANGED stored
  /\ UNCHANGED services

\* Mutant: a Redis that does not answer leaves the process waiting.
ConnectRedisWaiting ==
  /\ phase = "redis"
  /\ redis /\ ~expired
  /\ GoOn("serving")
  /\ UNCHANGED <<stored, services>>

ConnectRedis ==
  /\ phase = "redis"
  /\ IF redis /\ ~expired THEN GoOn("serving") ELSE Exit
  /\ UNCHANGED <<stored, services>>

Step ==
  \/ OpenDatabase \/ PingDatabase \/ PingAgain \/ NextAttempt \/ Migrate
  \/ CountTable \/ InsertSeed \/ ConnectRedis

-----------------------------------------------------------------------------
(* What happens around the process.                                        *)

\* A request creates a record (an account cannot be created by a request).
StoreRow(r) ==
  /\ phase = "serving" /\ db
  /\ stored[r] = "never" /\ r \notin SeedRows
  /\ stored' = [stored EXCEPT ![r] = "live"]
  /\ UNCHANGED <<process, services>>

\* An administrator's request soft-deletes one.
EraseRow(r) ==
  /\ phase = "serving" /\ db
  /\ stored[r] = "live"
  /\ stored' = [stored EXCEPT ![r] = "deleted"]
  /\ UNCHANGED <<process, services>>

\* The operator removes a demonstration account in the database.
PurgeRow(r) ==
  /\ db
  /\ stored[r] = "live"
  /\ stored' = [stored EXCEPT ![r] = "purged"]
  /\ UNCHANGED <<process, services>>

Fault == faults < MaxFaults /\ faults' = faults + 1 /\ UNCHANGED stored

\* The deadline of the start-up passes.
Expire ==
  /\ Fault
  /\ phase \notin {"down", "serving"} /\ ~expired
  /\ expired' = TRUE
  /\ UNCHANGED <<phase, attempt, db, redis>>

\* The process is killed or stopped; requests under way are cut off.
Stop == Fault /\ phase # "down" /\ Exit /\ UNCHANGED <<db, redis>>

Outage ==
  /\ Fault
  /\ \/ db /\ db' = FALSE /\ UNCHANGED redis
     \/ redis /\ redis' = FALSE /\ UNCHANGED db
  /\ UNCHANGED process

Recover ==
  /\ ~(db /\ redis)
  /\ db' = TRUE /\ redis' = TRUE
  /\ UNCHANGED <<stored, process, faults>>

Surroundings ==
  \/ \E r \in Rows : StoreRow(r)
  \/ \E r \in Erasable : EraseRow(r)
  \/ \E r \in Purgeable : PurgeRow(r)
  \/ Expire \/ Stop \/ Outage \/ Recover

Next == Boot \/ Step \/ Surroundings

Spec == Init /\ [][Next]_vars

\* Compose restarts the process (restart: unless-stopped) and the services it
\* depends on, and a running process takes its next step.
FairSpec == Spec /\ WF_vars(Boot) /\ WF_vars(Step) /\ WF_vars(Recover)

-----------------------------------------------------------------------------
(* What must hold of every run.                                            *)

Phases == {"down", "opening", "pinging", "repinging", "failed", "flapped",
           "migrating", "counting", "inserting", "redis", "serving"}

\* The phases of database.Open's loop.
Connecting == {"opening", "pinging", "repinging", "failed", "flapped"}

\* Type invariant: in particular, a start-up tries to connect at most
\* MaxAttempts times, and a position in SeedOrder is one while seeding.
TypeOK ==
  /\ stored \in [Rows -> {"never", "live", "deleted", "purged"}]
  /\ phase \in Phases
  /\ attempt \in Nat /\ expired \in BOOLEAN
  /\ phase \in Connecting => attempt \in 1 .. MaxAttempts
  /\ phase \in {"counting", "inserting"} => attempt \in DOMAIN SeedOrder
  /\ db \in BOOLEAN /\ redis \in BOOLEAN /\ faults \in 0 .. MaxFaults

\* Wherever a start-up is cut off, a table has all of its seeded rows or none.
SeededAsAWhole ==
  \A t \in Tables :
    (\E r \in SeedOf(t) : stored[r] = "never") => \A r \in SeedOf(t) : stored[r] = "never"

\* Nobody is served before every table has been seeded, in this life of the
\* process or in an earlier one.
ServedAfterSeeding == phase = "serving" => \A r \in SeedRows : stored[r] # "never"

\* A soft-deleted record stays deleted through restarts and seeding.
DeletedStaysDeleted ==
  [][\A r \in Rows : stored[r] = "deleted" => stored'[r] = "deleted"]_vars

\* A table whose seed can be stored neither now nor later: nothing is left in
\* it for Count, and the unique index refuses the seeded codes.
Blocked(t) == Counted(t) = {} /\ ~Insertable(t)

\* The server is serving again and again, whatever fails a bounded number of
\* times, unless the records of a table have all been soft-deleted: then every
\* start-up ends in the insertion of its seed, for ever.
ServesUnlessBlocked == []<>(phase = "serving" \/ \E t \in Tables : Blocked(t))

\* An account that was removed from the database stays removed.
RemovedAccountsStayRemoved ==
  [][\A r \in Purgeable : stored[r] = "purged" => stored'[r] = "purged"]_vars
=============================================================================
