------------------------------ MODULE Startup -------------------------------
(***************************************************************************)
(* How main starts a replica of the server: connect, RunMigrations,        *)
(* seedDefaultData, listen.  All replicas share one database and start, or *)
(* start again after they died, whenever the cluster likes.                *)
(***************************************************************************)
EXTENDS Integers, FiniteSets

CONSTANTS Replica,     \* processes of the server
          Migrations,  \* number of entries of the migration list
          MaxFaults,   \* bound: statements or connections that fail
          MaxDeaths    \* bound: processes that die

ASSUME StartupAssumption ==
    /\ Migrations \in Nat
    /\ MaxFaults \in Nat
    /\ MaxDeaths \in Nat

VARIABLES phase,    \* where main of each replica is
          db,       \* its handle: nil, open or closed
          applied,  \* migrations this process has run
          tables,   \* the migrations whose tables exist
          admin,    \* users has the seeded row (and with it any row at all)
          policy,   \* policies has the seeded row
          faults,   \* failures so far
          deaths    \* deaths so far

schema == <<tables, admin, policy>>
bootvars == <<phase, db, applied, schema, faults, deaths>>

Starting == {"migrating", "seedCount", "seedUser", "seedPolicy"}
Phase == Starting \cup
    {"down", "serving", "signalled", "dbClosed", "draining", "stopped"}

BootInit ==
    /\ phase = [r \in Replica |-> "down"]
    /\ db = [r \in Replica |-> "nil"]
    /\ applied = [r \in Replica |-> 0]
    /\ tables = {} /\ admin = FALSE /\ policy = FALSE
    /\ faults = 0 /\ deaths = 0

Goto(r, p) == phase' = [phase EXCEPT ![r] = p]

Fault == faults < MaxFaults /\ faults' = faults + 1 /\ UNCHANGED deaths

NoFault == UNCHANGED <<faults, deaths>>

AllTables == 1 .. Migrations

-----------------------------------------------------------------------------
Connect(r) ==
    /\ phase[r] = "down"
    /\ db' = [db EXCEPT ![r] = "open"]
    /\ Goto(r, "migrating")
    /\ NoFault
    /\ UNCHANGED <<applied, schema>>

\* "database connection failed, running in limited mode".
ConnectError(r) ==
    /\ phase[r] = "down"
    /\ Goto(r, "serving")
    /\ Fault
    /\ UNCHANGED <<db, applied, schema>>

(* Mutated form of MigrationsLeft: the last migration is forgotten. *)
MigrationsLeftButOne(r) == applied[r] < Migrations - 1

(* Mutated form of MigrationsLeft: one entry too many is looked for. *)
MigrationsLeftOneMore(r) == applied[r] <= Migrations

MigrationsLeft(r) == applied[r] < Migrations

\* One Exec per entry of the list, in its order: the statements of an entry
\* take effect together, and CREATE ... IF NOT EXISTS on what exists does
\* nothing.
Migrate(r) ==
    /\ phase[r] = "migrating" /\ MigrationsLeft(r)
    /\ tables' = tables \cup {applied[r] + 1}
    /\ applied' = [applied EXCEPT ![r] = @ + 1]
    /\ NoFault
    /\ UNCHANGED <<phase, db, admin, policy>>

Migrated(r) ==
    /\ phase[r] = "migrating" /\ ~MigrationsLeft(r)
    /\ Goto(r, "seedCount")
    /\ NoFault
    /\ UNCHANGED <<db, applied, schema>>

\* A migration fails (two replicas creating one table at once included): the
\* rest of RunMigrations is skipped, and main only logs it.
MigrateError(r) ==
    /\ phase[r] = "migrating"
    /\ Goto(r, "serving")
    /\ Fault
    /\ UNCHANGED <<db, applied, schema>>

\* SELECT COUNT(*) FROM users.  Only a logged-in user can create another, so
\* there is a row exactly when the seeded one is there.
SeedCount(r) ==
    /\ phase[r] = "seedCount"
    /\ Goto(r, IF admin THEN "serving" ELSE "seedUser")
    /\ NoFault
    /\ UNCHANGED <<db, applied, schema>>

(* Mutated form of SeedUser: the seeding ends after the first row. *)
SeedUserOnly(r) ==
    /\ phase[r] = "seedUser"
    /\ admin' = TRUE
    /\ Goto(r, "serving")
    /\ NoFault
    /\ UNCHANGED <<db, applied, tables, policy>>

\* username is UNIQUE: of several replicas that counted no user one inserts
\* the row, and the others give up with an error that is only logged.
SeedUser(r) ==
    /\ phase[r] = "seedUser"
    /\ admin' = TRUE
    /\ Goto(r, IF admin THEN "serving" ELSE "seedPolicy")
    /\ NoFault
    /\ UNCHANGED <<db, applied, tables, policy>>

SeedPolicy(r) ==
    /\ phase[r] = "seedPolicy"
    /\ policy' = TRUE
    /\ Goto(r, "serving")
    /\ NoFault
    /\ UNCHANGED <<db, applied, tables, admin>>

\* A seeding statement returns an error, before or after it took effect.
SeedError(r) ==
    /\ \/ phase[r] = "seedCount" /\ UNCHANGED <<admin, policy>>
       \/ phase[r] = "seedUser" /\ admin' \in {admin, TRUE} /\ UNCHANGED policy
       \/ phase[r] = "seedPolicy" /\ policy' \in {policy, TRUE} /\ UNCHANGED admin
    /\ Goto(r, "serving")
    /\ Fault
    /\ UNCHANGED <<db, applied, tables>>

Boot(r) ==
    \/ Connect(r) \/ ConnectError(r)
    \/ Migrate(r) \/ Migrated(r) \/ MigrateError(r)
    \/ SeedCount(r) \/ SeedUser(r) \/ SeedPolicy(r) \/ SeedError(r)
=============================================================================
