----------------------------- MODULE SchemaLock -----------------------------
(***************************************************************************)
(* Opening the store at startup: the advisory schema lock (shared for      *)
(* every open store, exclusive for a migration), the bounded waits for it, *)
(* the backup and the migration, and the follower that finds the migration *)
(* done by somebody else.  Processes may be different builds: each knows   *)
(* one schema version.                                                     *)
(***************************************************************************)
EXTENDS Naturals, FiniteSets

CONSTANTS Procs,        \* processes
          Supported,    \* process -> SUPPORTED_SCHEMA_VERSION of its build
          Adopters,     \* processes admitted with requires_exclusive_store
          Found,        \* the schema version on disk at first
          MaxStarts     \* bound on process starts

VARIABLES
    stage,      \* process -> where it is in RuntimeContext::open
    shared,     \* holders of the shared schema lease
    exclusive,  \* holders of the exclusive schema lease
    database,   \* schema_meta.schema_version
    backups,    \* versions for which a backup file was written
    starts

vars == <<stage, shared, exclusive, database, backups, starts>>

Init ==
    /\ stage = [p \in Procs |-> "down"]
    /\ shared = {}
    /\ exclusive = {}
    /\ database = Found
    /\ backups = {}
    /\ starts = MaxStarts

Goto(p, s) == stage' = [stage EXCEPT ![p] = s]

\* FileSchemaLease::drop, and what the system does for a dead process.
Release(p) == shared' = shared \ {p} /\ exclusive' = exclusive \ {p}

\* Any error return ends the process and drops its leases.
Fail(p) == Goto(p, "down") /\ Release(p) /\ UNCHANGED <<database, backups>>

-----------------------------------------------------------------------------
(* schema_lock::acquire and try_acquire                                    *)

SharedFree == exclusive = {}
ExclusiveFree == exclusive = {} /\ shared = {}

\* The wait ended: the lease is taken, or the deadline passed first.
AcquireShared(p, next) ==
    \/ /\ SharedFree
       /\ shared' = shared \cup {p}
       /\ Goto(p, next)
       /\ UNCHANGED <<exclusive, database, backups>>
    \/ ~SharedFree /\ Fail(p)

AcquireExclusive(p, next, busy) ==
    \/ /\ ExclusiveFree
       /\ exclusive' = {p}
       /\ Goto(p, next)
       /\ UNCHANGED <<shared, database, backups>>
    \/ /\ ~ExclusiveFree
       /\ IF busy = "down" THEN Fail(p)
          ELSE Goto(p, busy) /\ UNCHANGED <<shared, exclusive, database, backups>>

-----------------------------------------------------------------------------
(* SqliteStore::open                                                       *)

\* MigrationMode::Refuse
Opens(p) == database = Supported[p]
MigrationRequired(p) == database < Supported[p]
UnsupportedSchema(p) == database > Supported[p]

\* create_backup and quick_check, before the migration touches anything; an
\* empty database has nothing to back up.
Backup(p) ==
    /\ stage[p] \in {"backup", "adopt_backup"}
    /\ \/ /\ backups' = IF database = 0 THEN backups ELSE backups \cup {database}
          /\ Goto(p, IF stage[p] = "backup" THEN "migrate" ELSE "adopt_migrate")
          /\ UNCHANGED <<shared, exclusive, database>>
       \/ Fail(p)
    /\ UNCHANGED starts

\* migrate: every step and the new version in one exclusive transaction.
ApplyMigrations(p) == database' = Supported[p]

-----------------------------------------------------------------------------
(* open_store                                                              *)

Start(p) ==
    /\ stage[p] = "down"
    /\ starts > 0
    /\ starts' = starts - 1
    /\ Goto(p, IF p \in Adopters THEN "adopt" ELSE "first")
    /\ UNCHANGED <<shared, exclusive, database, backups>>

First(p) ==
    /\ stage[p] = "first"
    /\ AcquireShared(p, "open_first")
    /\ UNCHANGED starts

\* The shared lease is dropped before the exclusive one is asked for.
OpenFirst(p) ==
    /\ stage[p] = "open_first"
    /\ \/ Opens(p) /\ Goto(p, "ready") /\ UNCHANGED <<shared, exclusive, database, backups>>
       \/ MigrationRequired(p) /\ Goto(p, "exclusive") /\ Release(p) /\ UNCHANGED <<database, backups>>
       \/ UnsupportedSchema(p) /\ Fail(p)
    /\ UNCHANGED starts

\* finish_required_migration
RequireExclusive(p) ==
    /\ stage[p] = "exclusive"
    /\ AcquireExclusive(p, "recheck", "follow")
    /\ UNCHANGED starts

\* Mutated form: the version read under the shared lease is believed.
RecheckSkipped(p) ==
    /\ stage[p] = "recheck"
    /\ Goto(p, "backup")
    /\ UNCHANGED <<shared, exclusive, database, backups, starts>>

\* Under the exclusive lease the version is read again: somebody else may
\* have migrated in between.
Recheck(p) ==
    /\ stage[p] = "recheck"
    /\ \/ Opens(p) /\ Goto(p, "again") /\ Release(p) /\ UNCHANGED <<database, backups>>
       \/ MigrationRequired(p) /\ Goto(p, "backup") /\ UNCHANGED <<shared, exclusive, database, backups>>
       \/ UnsupportedSchema(p) /\ Fail(p)
    /\ UNCHANGED starts

Migrate(p) ==
    /\ stage[p] = "migrate"
    /\ \/ ApplyMigrations(p) /\ Goto(p, "again") /\ Release(p) /\ UNCHANGED backups
       \/ Fail(p)
    /\ UNCHANGED starts

\* After the exclusive lease: a shared one, and the store opened under it.
Again(p) ==
    /\ stage[p] = "again"
    /\ AcquireShared(p, "open_again")
    /\ UNCHANGED starts

OpenAgain(p) ==
    /\ stage[p] = "open_again"
    /\ \/ Opens(p) /\ Goto(p, "ready") /\ UNCHANGED <<shared, exclusive, database, backups>>
       \/ ~Opens(p) /\ Fail(p)
    /\ UNCHANGED starts

\* Mutated form: the loser of the race opens the store with no lease.
FollowUnleased(p) ==
    /\ stage[p] = "follow"
    /\ Goto(p, "open_again")
    /\ UNCHANGED <<shared, exclusive, database, backups, starts>>

\* revalidate_completed_migration: one attempt at the shared lease.
Follow(p) ==
    /\ stage[p] = "follow"
    /\ AcquireShared(p, "open_again")
    /\ UNCHANGED starts

-----------------------------------------------------------------------------
(* open_store_for_external_adoption: the admission holds the exclusive     *)
(* lease from before the store is opened until the update cache follows.   *)

\* RuntimeExternalUpgradeAuthority::acquire
Adopt(p) ==
    /\ stage[p] = "adopt"
    /\ AcquireExclusive(p, "adopt_open", "down")
    /\ UNCHANGED starts

AdoptOpen(p) ==
    /\ stage[p] = "adopt_open"
    /\ \/ Opens(p) /\ Goto(p, "adopt_finish") /\ UNCHANGED <<shared, exclusive, database, backups>>
       \/ MigrationRequired(p) /\ Goto(p, "adopt_backup") /\ UNCHANGED <<shared, exclusive, database, backups>>
       \/ UnsupportedSchema(p) /\ Fail(p)
    /\ UNCHANGED starts

AdoptMigrate(p) ==
    /\ stage[p] = "adopt_migrate"
    /\ \/ ApplyMigrations(p) /\ Goto(p, "adopt_finish") /\ UNCHANGED <<shared, exclusive, backups>>
       \/ Fail(p)
    /\ UNCHANGED starts

\* finish_after_store_ready: the cache transition, then the lease is dropped.
AdoptFinish(p) ==
    /\ stage[p] = "adopt_finish"
    /\ \/ Goto(p, "again") /\ Release(p) /\ UNCHANGED <<database, backups>>
       \/ Fail(p)
    /\ UNCHANGED starts

\* The process ends, or dies at any point; a transaction under way is undone.
Exit(p) ==
    /\ stage[p] # "down"
    /\ Fail(p)
    /\ UNCHANGED starts

Step(p) ==
    \/ First(p) \/ OpenFirst(p) \/ RequireExclusive(p) \/ Recheck(p) \/ Backup(p) \/ Migrate(p)
    \/ Again(p) \/ OpenAgain(p) \/ Follow(p)
    \/ Adopt(p) \/ AdoptOpen(p) \/ AdoptMigrate(p) \/ AdoptFinish(p)

Next == \E p \in Procs : Start(p) \/ Step(p) \/ Exit(p)

Fairness == \A p \in Procs : WF_vars(Step(p))
Spec == Init /\ [][Next]_vars /\ Fairness

-----------------------------------------------------------------------------
Stages == {"down", "first", "open_first", "exclusive", "recheck", "backup", "migrate", "again",
           "open_again", "follow", "ready", "adopt", "adopt_open", "adopt_backup", "adopt_migrate",
           "adopt_finish"}

TypeOK ==
    /\ stage \in [Procs -> Stages]
    /\ shared \subseteq Procs
    /\ exclusive \subseteq Procs
    /\ database \in Nat
    /\ backups \subseteq Nat
    /\ starts \in 0..MaxStarts

\* While a process has the store open, the schema is the one it opened,
\* whatever other builds start, migrate, give up or die meanwhile.
StoreKeepsSchema == \A p \in Procs : stage[p] = "ready" => database = Supported[p]

\* A migration never runs on contents of which there is no backup, and no
\* two processes are ever in one.
MigratesBackedUp ==
    \A p \in Procs : stage[p] \in {"migrate", "adopt_migrate"} =>
        /\ database < Supported[p]
        /\ database = 0 \/ database \in backups

\* A start never hangs on the schema lock: every process is admitted or gives
\* up, whoever holds the lock.
StartSettles == \A p \in Procs : (stage[p] = "first") ~> (stage[p] \in {"ready", "down"})

\* The schema lock (adapters/runtime/schema_lock): no process works on a schema it does not know,
\* and a migration has its backup.
SchemaLockSafe == TypeOK /\ StoreKeepsSchema /\ MigratesBackedUp
=============================================================================
