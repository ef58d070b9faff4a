------------------------------ MODULE Migration ------------------------------
(***************************************************************************)
(* The versioned migrations of the control database (the migrate command)  *)
(* and of the target's metadata (at the start of every job), which follow  *)
(* the same protocol, and the check that serve makes before it starts.     *)
(*                                                                         *)
(* Processes of several releases migrate one database at the same time and *)
(* crash.  A release knows the migrations up to some version; at most one  *)
(* of them was edited after it had been released, and has another          *)
(* checksum.  The SQL of a migration is not represented: its transaction   *)
(* commits it together with its row, or neither.                           *)
(***************************************************************************)
EXTENDS Naturals, FiniteSets

CONSTANTS
  Migrator,      \* processes
  LatestVersion  \* CONTROL_SCHEMA_VERSION of the newest release

VARIABLES
  rows,    \* schema_migrations: checksum per applied version
  builds,  \* release of each process
  lock,    \* holder of MIGRATION_LOCK_ID, as a set of at most one process
  steps    \* what each process does

migrationVars == <<rows, builds, lock, steps>>

\* MIGRATIONS of a release: its latest version, and the edited one (0: none).
Build == [latest : 1 .. LatestVersion, edited : 0 .. LatestVersion]
Checksum(m, v) == IF v = builds[m].edited THEN "edited" ELSE "released"

Down == [step |-> "down", version |-> 0]
Step(m, step, v) == steps' = [steps EXCEPT ![m] = [step |-> step, version |-> v]]

MigrationInit ==
  /\ rows = <<>> /\ lock = {}
  /\ builds \in [Migrator -> Build]
  /\ steps = [m \in Migrator |-> Down]

\* The command, or the job, starts: the loop over MIGRATIONS.
Launch(m) ==
  /\ steps[m] = Down
  /\ Step(m, "begun", 1)
  /\ UNCHANGED <<rows, builds, lock>>

\* pg_advisory_xact_lock waits for the other transaction.
LockIgnored(m) ==
  /\ steps[m].step = "begun"
  /\ Step(m, "locked", steps[m].version)
  /\ UNCHANGED <<rows, builds, lock>>
TakeLock(m) ==
  /\ steps[m].step = "begun" /\ lock = {}
  /\ lock' = {m}
  /\ Step(m, "locked", steps[m].version)
  /\ UNCHANGED <<rows, builds>>

\* The transaction ends, and with it the lock; the loop goes on or returns.
Unlocks(m) == lock' = lock \ {m}
GoesOn(m, v) ==
  IF v < builds[m].latest THEN Step(m, "begun", v + 1) ELSE Step(m, "migrated", v)

\* The version has a row: its checksum must be this release's.
FindApplied(m) ==
  LET v == steps[m].version IN
  /\ steps[m].step = "locked" /\ v \in DOMAIN rows
  /\ IF rows[v] = Checksum(m, v) THEN GoesOn(m, v) ELSE Step(m, "mismatch", v)
  /\ Unlocks(m)
  /\ UNCHANGED <<rows, builds>>

\* It has none: the SQL runs, in the open transaction.
RunSql(m) ==
  /\ steps[m].step = "locked" /\ steps[m].version \notin DOMAIN rows
  /\ Step(m, "executed", steps[m].version)
  /\ UNCHANGED <<rows, builds, lock>>

\* The row is inserted and the transaction commits; a second row for the
\* version would violate the primary key.
CommitMigration(m) ==
  LET v == steps[m].version IN
  /\ steps[m].step = "executed"
  /\ IF v \in DOMAIN rows
     THEN Step(m, "conflict", v) /\ UNCHANGED rows
     ELSE /\ GoesOn(m, v)
          /\ rows' = [w \in DOMAIN rows \cup {v} |-> IF w = v THEN Checksum(m, v) ELSE rows[w]]
  /\ Unlocks(m)
  /\ UNCHANGED builds

\* serve: ensure_control_database_migrated compares the highest version.
SchemaVersion == IF rows = <<>> THEN 0 ELSE CHOOSE v \in DOMAIN rows : \A w \in DOMAIN rows : w <= v
Serve(m) ==
  /\ steps[m] = Down
  /\ SchemaVersion = builds[m].latest
  /\ Step(m, "serving", SchemaVersion)
  /\ UNCHANGED <<rows, builds, lock>>

\* The process ends, at any point; the database rolls its transaction back.
Crash(m) ==
  /\ steps[m] # Down
  /\ steps' = [steps EXCEPT ![m] = Down]
  /\ Unlocks(m)
  /\ UNCHANGED <<rows, builds>>

MigrationNext ==
  \E m \in Migrator :
    \/ Launch(m) \/ TakeLock(m) \/ FindApplied(m) \/ RunSql(m) \/ CommitMigration(m)
    \/ Serve(m) \/ Crash(m)

MigrationSpec == MigrationInit /\ [][MigrationNext]_migrationVars

-----------------------------------------------------------------------------
(* Property. *)

\* Whatever processes migrate together and crash, no migration is left out
\* (so the highest version, which is all serve compares, stands for all
\* before it), a process that was told its database is migrated finds its own
\* migrations as the first ones (those of a newer release may follow), and one
\* is turned away only because a recorded checksum differs from its own, never
\* by running into another process.
MigrationsAgree ==
  /\ DOMAIN rows = 1 .. Cardinality(DOMAIN rows)
  /\ \A m \in Migrator :
       LET v == steps[m].version IN
       CASE steps[m].step = "migrated" -> \A w \in 1 .. v : rows[w] = Checksum(m, w)
         [] steps[m].step = "serving" -> 1 .. v \subseteq DOMAIN rows
         [] steps[m].step = "mismatch" -> rows[v] # Checksum(m, v)
         [] OTHER -> steps[m].step # "conflict"
=============================================================================
