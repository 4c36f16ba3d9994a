----------------------------- MODULE Migrations -----------------------------
(***************************************************************************)
(* Schema migrations of the three proposal stores, the approval channel    *)
(* and the Stripe ledger: several migrators started by operators or by     *)
(* deployments, the offline PostgreSQL script, the grants of the two       *)
(* access lanes, and the writers that the readiness gate lets start.       *)
(*                                                                         *)
(* PostgreSQL and SQLite migrate in one transaction; MySQL commits every   *)
(* DDL statement, so a lost migrator leaves part of a migration behind.    *)
(* The SQL is abstracted to the objects that each statement creates,       *)
(* replaces or drops and the migration whose definition they then have.    *)
(***************************************************************************)
EXTENDS Integers, Sequences, FiniteSets

CONSTANTS
  Adapters,      \* the databases a behaviour may be about
  Migrators,     \* processes that migrate
  Scripts,       \* of these, the ones that apply a rendered script
  MaxFaults      \* bound of lost migrators, lock timeouts and restarts of old writers

AllAdapters == {"postgresql", "mysql", "sqlite", "approvals", "stripe"}
Lanes == {"runtime", "retention"}
None == "none"

ASSUME MigrationAssumption ==
  /\ Adapters \subseteq AllAdapters
  /\ None \notin Migrators
  /\ Scripts \subseteq Migrators
  /\ MaxFaults \in Nat

VARIABLES
  adapter,    \* the database of this behaviour, fixed
  old,        \* the last migration that the older package knows, fixed; 0: there is none
  db,         \* committed migration history and catalog
  grants,     \* routines that each lane may execute
  retired,    \* proposals in a retired lifecycle state exist
  lock,       \* the migrator that holds the migration lock, or none
  mig,        \* the state of each migrator
  writers,    \* the runtime that writes in each lane: none, old, late or new
  reported,   \* a migrator has reported success
  faults      \* migrators lost and old writers restarted so far

mvars == <<adapter, old, db, grants, retired, lock, mig, writers, reported, faults>>
-----------------------------------------------------------------------------
(* Statements.  A catalog maps each object to the migration that defined it, *)
(* 0 when it is absent.                                                      *)

Create(o, v)  == [op |-> "create", obj |-> o, ver |-> v]    \* an error if it exists
Ensure(o, v)  == [op |-> "ensure", obj |-> o, ver |-> v]    \* IF NOT EXISTS, or guarded
Replace(o, v) == [op |-> "replace", obj |-> o, ver |-> v]   \* OR REPLACE
DropIfExists(o) == [op |-> "remove", obj |-> o, ver |-> 0]    \* IF EXISTS, or guarded
Drop(o)       == [op |-> "drop", obj |-> o, ver |-> 0]      \* an error if it is absent
Call(o, r, v) == [op |-> "call", obj |-> o, ver |-> v, routine |-> r]
Recreate(o, v) == <<DropIfExists(o), Create(o, v)>>

Executes(s, catalog) ==
  CASE s.op = "create" -> catalog[s.obj] = 0
    [] s.op = "drop" -> catalog[s.obj] # 0
    [] s.op = "call" -> catalog[s.routine] # 0
    [] OTHER -> TRUE
After(s, catalog) ==
  IF s.op = "ensure" /\ catalog[s.obj] # 0 THEN catalog ELSE [catalog EXCEPT ![s.obj] = s.ver]

LifecycleGuard(v) == <<Drop("lifecycle_check"), Create("lifecycle_check", v),
                       Replace("guard_function", v)>>
Postgres001 == <<Create("tables", 1), Create("lifecycle_check", 1), Create("transfer", 1),
                 Create("mark_erasure", 1), Create("complete_erasure", 1),
                 Create("guard_function", 1)>>
Postgres002 == <<Replace("transfer", 2), Replace("guard_function", 2)>>
Postgres003 == <<Replace("guard_function", 3)>>
Postgres004 == LifecycleGuard(4)
Postgres005 == LifecycleGuard(5)

SQLite001 == <<Create("tables", 1), Create("guard_trigger", 1)>>
SQLite002 == Recreate("guard_trigger", 2)

MySQL001 ==
  <<Ensure("proposals", 1), Ensure("effect_claims", 1)>>
    \o Recreate("guard_trigger", 1) \o Recreate("runtime_update", 1)
    \o Recreate("transfer", 1) \o Recreate("mark_erasure", 1)
    \o Recreate("complete_erasure", 1)

GuardedDropsOfForeignKey == <<DropIfExists("claim_fk"), DropIfExists("claim_fk_index")>>

GuardedDrops ==
  <<DropIfExists("claim_fk"), DropIfExists("json_created"), DropIfExists("json_expires"),
    DropIfExists("claim_fk_index"), DropIfExists("identity_digest"), DropIfExists("required_shape")>>
MySQL002Keys ==
  <<Ensure("effect_identity", 2), Replace("claim_identities", 2), Ensure("identity_unique", 2),
    Ensure("claim_fk_index", 2), Ensure("claim_fk", 2), Create("identity_digest", 2)>>
MySQL002Datetimes ==
  <<DropIfExists("guard_trigger"), DropIfExists("migrate_datetime"), Create("migrate_datetime", 2),
    DropIfExists("canonicalize"), Create("canonicalize", 2), Call("datetimes", "canonicalize", 2),
    Drop("canonicalize"), Drop("migrate_datetime")>>
MySQL002Guards ==
  <<Create("required_shape", 2), Create("json_created", 2), Create("json_expires", 2),
    Create("guard_trigger", 2)>>
MySQL002Routines ==
  Recreate("validate", 2) \o Recreate("create_proposal", 2) \o Recreate("claim_effect", 2)
    \o Recreate("runtime_update", 2) \o Recreate("transfer", 2)
    \o Recreate("mark_erasure", 2) \o Recreate("complete_erasure", 2)
MySQL002 == GuardedDrops \o MySQL002Keys \o MySQL002Datetimes
              \o MySQL002Guards \o MySQL002Routines
MySQL003 == Recreate("guard_trigger", 3) \o Recreate("validate", 3) \o Recreate("runtime_update", 3)
MySQL004 == Recreate("validate", 4) \o Recreate("runtime_update", 4)

approval_postgres_migration == <<Create("tables", 1)>>
stripe_postgres_migration == <<Create("tables", 1)>>

Applied(statements, catalog) ==
  LET run[i \in 0..Len(statements)] ==
        IF i = 0 THEN catalog ELSE After(statements[i], run[i - 1])
  IN  run[Len(statements)]
-----------------------------------------------------------------------------
(* Packaged migrations and their declared compatibility. *)

Packaged ==
  [ postgresql |-> <<Postgres001, Postgres002, Postgres003, Postgres004, Postgres005>>,
    mysql |-> <<MySQL001, MySQL002, MySQL003, MySQL004>>,
    sqlite |-> <<SQLite001, SQLite002>>,
    approvals |-> <<approval_postgres_migration>>,
    stripe |-> <<stripe_postgres_migration>> ]
Latest == Len(Packaged[adapter])
Versions == 1..Latest

postgres_migration_compatibility == {1, 2}
mysql_migration_compatibility == {1}
sqlite_migration_compatibility == {1}
Compatible ==
  CASE adapter = "postgresql" -> postgres_migration_compatibility
    [] adapter = "mysql" -> mysql_migration_compatibility
    [] adapter = "sqlite" -> sqlite_migration_compatibility
    [] OTHER -> {1}

NeverRequired(applied, pending) == {}

migrations_requiring_writer_quiescence(applied, pending) ==
  IF applied = {} THEN {} ELSE pending \ Compatible

\* Catalogs[a][n]: the catalog after the first n migrations of a.
Catalogs ==
  [a \in AllAdapters |->
     LET scripts == Packaged[a]
         objects == UNION { { scripts[v][i].obj : i \in DOMAIN scripts[v] } : v \in DOMAIN scripts }
         at[v \in 0..Len(scripts)] ==
           IF v = 0 THEN [o \in objects |-> 0] ELSE Applied(scripts[v], at[v - 1])
     IN  [n \in 0..Len(scripts) |-> at[n]]]
CatalogAt(n) == Catalogs[adapter][n]
Transactional == adapter # "mysql"
-----------------------------------------------------------------------------
(* Migration history: rows ordered by version, each with the checksum of     *)
(* this package ("ours") or of another one.                                  *)

Row(v) == [version |-> v, checksum |-> "ours"]
Ours(n) == [v \in 1..n |-> Row(v)]

Histories ==
  { Ours(n) : n \in 0..Latest }
    \cup { Append(Ours(Latest), Row(Latest + 1)),
           <<[version |-> 1, checksum |-> "other"]>>,
           <<Row(2)>> }

IgnoresChecksum(rows) ==
  \A i \in DOMAIN rows : rows[i].version = i /\ i \in Versions

\* No gap, no unknown version, no other checksum: otherwise the status raises.
MigrationStatus(rows) ==
  \A i \in DOMAIN rows : /\ rows[i].version = i
                         /\ i \in Versions
                         /\ rows[i].checksum = "ours"
SQLiteMigrationStatus(rows) == MigrationStatus(rows)
MySQLMigrationStatus(rows) == MigrationStatus(rows)

\* The two single migrations look only for what they know.
ApprovalHistory(rows) ==
  \A i \in DOMAIN rows : rows[i].version = 1 /\ rows[i].checksum = "ours"
StripeHistory(rows) ==
  \A i \in DOMAIN rows : rows[i].version = 1 => rows[i].checksum = "ours"

Accepts(rows) ==
  CASE adapter = "postgresql" -> MigrationStatus(rows)
    [] adapter = "mysql" -> MySQLMigrationStatus(rows)
    [] adapter = "sqlite" -> SQLiteMigrationStatus(rows)
    [] adapter = "approvals" -> ApprovalHistory(rows)
    [] adapter = "stripe" -> StripeHistory(rows)
AppliedVersions(rows) == { rows[i].version : i \in DOMAIN rows } \cap Versions
Pending(rows) == Versions \ AppliedVersions(rows)

\* What the rendered script asserts before any DDL; the two single scripts assert nothing.
HistoryAssertion(rows, from) == adapter = "postgresql" => rows = Ours(from)
-----------------------------------------------------------------------------
(* The MySQL catalog assertion, one comparison per kind of object. *)

\* The objects are as migration n of the package that looks left them.
Current(objs, n, catalog) == \A o \in objs : catalog[o] = CatalogAt(n)[o]

AssertEngines(n, c)     == Current({"proposals", "effect_claims"}, n, c)
AssertColumns(n, c)     == Current({"proposals", "effect_claims", "effect_identity"}, n, c)
AssertGenerated(n, c)   == Current({"effect_identity"}, n, c)
AssertIndexes(n, c)     == Current({"identity_unique", "claim_fk_index"}, n, c)
AssertForeignKeys(n, c) == Current({"claim_fk"}, n, c)
AssertChecks(n, c)      == Current({"identity_digest", "required_shape",
                                    "json_created", "json_expires"}, n, c)
AssertTrigger(n, c)     == Current({"guard_trigger"}, n, c)
AssertRoutines(n, c)    == Current({"claim_effect", "runtime_update", "transfer", "mark_erasure",
                                    "complete_erasure", "create_proposal", "validate",
                                    "canonicalize", "migrate_datetime"}, n, c)
AssertParameters(n, c)  == Current({"create_proposal", "claim_effect", "runtime_update",
                                    "transfer", "mark_erasure", "complete_erasure"}, n, c)

AssertCurrentSchema(n, c) ==
  /\ AssertEngines(n, c) /\ AssertColumns(n, c) /\ AssertGenerated(n, c) /\ AssertIndexes(n, c)
  /\ AssertForeignKeys(n, c) /\ AssertChecks(n, c) /\ AssertTrigger(n, c)
  /\ AssertRoutines(n, c) /\ AssertParameters(n, c)
-----------------------------------------------------------------------------
(* Grants and readiness. *)

PostgresRoutines(lane) ==
  IF lane = "runtime" THEN {"transfer"} ELSE {"mark_erasure", "complete_erasure"}
MySQLRoutines(lane) ==
  IF lane = "runtime" THEN {"create_proposal", "claim_effect", "runtime_update", "transfer"}
  ELSE {"mark_erasure", "complete_erasure"}
Granted(lane) ==
  CASE adapter = "postgresql" -> PostgresRoutines(lane)
    [] adapter = "mysql" -> MySQLRoutines(lane)
    [] OTHER -> {}

NoPending == Accepts(db.history) /\ Pending(db.history) = {}

\* Every privilege is compared with the lane's: neither missing nor in excess.
PostgresReadiness(lane) == NoPending /\ grants[lane] = PostgresRoutines(lane)
MySQLReadiness(lane) == NoPending /\ grants[lane] = MySQLRoutines(lane)
InspectMySQL == NoPending /\ AssertCurrentSchema(Latest, db.catalog)
InspectSQLite == NoPending

\* The gate that the guides describe before writers are resumed.
Ready(lane) ==
  CASE adapter = "postgresql" -> PostgresReadiness(lane)
    [] adapter = "mysql" -> MySQLReadiness(lane) /\ InspectMySQL
    [] adapter = "sqlite" -> InspectSQLite
    [] OTHER -> reported

\* The same gate in the older package: a later migration is unknown to it.
OldReady(lane) ==
  /\ old # 0 /\ db.history = Ours(old)
  /\ grants[lane] = {o \in Granted(lane) : CatalogAt(old)[o] # 0}
  /\ adapter = "mysql" => AssertCurrentSchema(old, db.catalog)
-----------------------------------------------------------------------------
Idle == [pc |-> "idle"]

\* A complete MySQL catalog in which one object was lost or put back, after a restore.
Drifted == { [CatalogAt(Latest) EXCEPT ![o] = 0] : o \in {"guard_trigger", "claim_fk", "validate"} }

\* An older package may have left any prefix, and its writers may run on it if it
\* is not empty.
MigrationInit ==
  /\ adapter \in Adapters
  /\ \E rows \in Histories :
       LET n == IF Accepts(rows) /\ Len(rows) <= Latest THEN Len(rows) ELSE Latest
           drifted == IF adapter = "mysql" /\ rows = Ours(Latest) THEN Drifted ELSE {}
       IN  /\ old = IF n \in 1..(Latest - 1) /\ Accepts(rows) THEN n ELSE 0
           /\ db \in [history : {rows}, catalog : {CatalogAt(n)} \cup drifted]
           /\ writers \in [Lanes -> IF old # 0 THEN {None, "old"} ELSE {None}]
           /\ retired \in (IF adapter = "postgresql" /\ n \in 1..3 THEN BOOLEAN ELSE {FALSE})
  /\ grants \in { [lane \in Lanes |-> {o \in Granted(lane) : db.catalog[o] # 0}],
                  [lane \in Lanes |-> {}] }
  /\ lock = None
  /\ mig = [m \in Migrators |-> Idle]
  /\ reported = FALSE
  /\ faults = 0

\* No writers of the older package run.
Stopped == \A lane \in Lanes : writers[lane] \notin {"old", "late"}

\* None run but those who started under a declaration that they are stopped.
Drained == \A lane \in Lanes : writers[lane] # "old"

\* Somebody has declared the writers stopped and is not done.
Declared == \E m \in Migrators : mig[m] # Idle /\ mig[m].quiesced

\* The operator declares the writers stopped only when they are.
Invoke(m, quiesced) ==
  /\ mig[m] = Idle /\ m \notin Scripts
  /\ quiesced => Stopped
  /\ mig' = [mig EXCEPT ![m] = [pc |-> "lock", quiesced |-> quiesced, from |-> -1]]
  /\ UNCHANGED <<adapter, old, db, grants, retired, lock, writers, reported, faults>>

\* The script is rendered without a connection for a version the operator names.
RenderScript(m, from, quiesced) ==
  /\ mig[m] = Idle /\ m \in Scripts
  /\ adapter \in {"postgresql", "approvals", "stripe"}
  /\ from = 0 \/ adapter = "postgresql"
  /\ quiesced => Stopped
  /\ migrations_requiring_writer_quiescence(1..from, (from + 1)..Latest) # {} => quiesced
  /\ mig' = [mig EXCEPT ![m] = [pc |-> "lock", quiesced |-> quiesced, from |-> from]]
  /\ UNCHANGED <<adapter, old, db, grants, retired, lock, writers, reported, faults>>

Fail(m) ==
  /\ mig' = [mig EXCEPT ![m] = Idle]
  /\ lock' = IF lock = m THEN None ELSE lock

TakeLock(m) ==
  /\ mig[m].pc = "lock" /\ lock = None
  /\ lock' = m
  /\ mig' = [mig EXCEPT ![m].pc = "status"]
  /\ UNCHANGED <<adapter, old, db, grants, retired, writers, reported, faults>>

\* The approval and Stripe migrations set no lock timeout.
LockTimeout(m) ==
  /\ faults < MaxFaults
  /\ mig[m].pc = "lock" /\ lock # None
  /\ adapter \in {"postgresql", "mysql", "sqlite"}
  /\ faults' = faults + 1
  /\ Fail(m)
  /\ UNCHANGED <<adapter, old, db, grants, retired, writers, reported>>

FirstOf(versions) == CHOOSE v \in versions : \A w \in versions : v <= w

\* Under the lock: read the history, refuse or start at the first pending migration.
ReadStatus(m) ==
  LET rows == db.history
      from == mig[m].from
      pending == IF from = -1 THEN Pending(rows) ELSE (from + 1)..Latest
      required == migrations_requiring_writer_quiescence(AppliedVersions(rows), pending)
      refused == IF from = -1 THEN ~Accepts(rows) \/ (required # {} /\ ~mig[m].quiesced)
                 ELSE ~HistoryAssertion(rows, from)
  IN  /\ mig[m].pc = "status"
      /\ IF refused THEN Fail(m)
         ELSE /\ mig' = [mig EXCEPT ![m] =
                   [pc |-> IF pending = {} THEN "finish" ELSE "run", from |-> from,
                    quiesced |-> mig[m].quiesced, work |-> db, pending |-> pending, next |-> 1]]
              /\ UNCHANGED lock
      /\ UNCHANGED <<adapter, old, db, grants, retired, writers, reported, faults>>

AssertsNoRetiredStates(m, v) ==
  /\ adapter = "postgresql"
  /\ v \in IF mig[m].from = -1 THEN {4} ELSE {4, 5}

\* The history row follows the last statement of its migration.
Statements(v) == Packaged[adapter][v] \o <<[op |-> "record", ver |-> v]>>

\* MySQL drops the grants of a routine with the routine; nobody else replaces one by dropping it.
Revoked(s) ==
  IF adapter = "mysql" /\ s.op = "remove" THEN [lane \in Lanes |-> grants[lane] \ {s.obj}]
  ELSE grants

Execute(m) ==
  LET v == FirstOf(mig[m].pending)
      s == Statements(v)[mig[m].next]
      seen == IF Transactional THEN mig[m].work ELSE db
      record == s.op = "record"
      last == mig[m].next = Len(Statements(v))
      rest == IF last THEN mig[m].pending \ {v} ELSE mig[m].pending
      after == IF record THEN [seen EXCEPT !.history = Append(seen.history, Row(v))]
               ELSE [seen EXCEPT !.catalog = After(s, seen.catalog)]
      fails == \/ mig[m].next = 1 /\ AssertsNoRetiredStates(m, v) /\ retired
               \/ IF record THEN v \in AppliedVersions(seen.history)
                  ELSE ~Executes(s, seen.catalog)
  IN  /\ mig[m].pc = "run"
      /\ IF fails THEN Fail(m) /\ UNCHANGED <<db, grants>>
         ELSE /\ mig' = [mig EXCEPT ![m] =
                   [mig[m] EXCEPT !.pc = IF rest = {} THEN "finish" ELSE "run", !.pending = rest,
                                  !.next = IF last THEN 1 ELSE mig[m].next + 1,
                                  !.work = IF Transactional THEN after ELSE mig[m].work]]
              /\ db' = IF Transactional THEN db ELSE after
              /\ grants' = Revoked(s)
              /\ UNCHANGED lock
      /\ UNCHANGED <<adapter, old, retired, writers, reported, faults>>

\* Commit, or for MySQL the final assertions; the lock is released either way.
Finish(m) ==
  /\ mig[m].pc = "finish"
  /\ db' = IF Transactional THEN mig[m].work ELSE db
  /\ reported' = (reported \/ Transactional \/ InspectMySQL)
  /\ Fail(m)
  /\ UNCHANGED <<adapter, old, grants, retired, writers, faults>>

\* The connection is lost: its transaction and its lock end with it.
Crash(m) ==
  /\ faults < MaxFaults
  /\ mig[m].pc # "idle"
  /\ faults' = faults + 1
  /\ Fail(m)
  /\ UNCHANGED <<adapter, old, db, grants, retired, writers, reported>>
-----------------------------------------------------------------------------
(* Operators. *)

Drain ==
  /\ ~Stopped
  /\ writers' = [lane \in Lanes |-> IF writers[lane] = "new" THEN "new" ELSE None]
  /\ UNCHANGED <<adapter, old, db, grants, retired, lock, mig, reported, faults>>

Remediate ==
  /\ retired /\ Stopped
  /\ retired' = FALSE
  /\ UNCHANGED <<adapter, old, db, grants, lock, mig, writers, reported, faults>>

\* A grant on a routine that does not exist fails, and with it the rest.
RenderGrants ==
  /\ Granted("runtime") # {}
  /\ \A lane \in Lanes : \A o \in Granted(lane) : db.catalog[o] # 0
  /\ grants' = [lane \in Lanes |-> Granted(lane)]
  /\ UNCHANGED <<adapter, old, db, retired, lock, mig, writers, reported, faults>>

\* The startup gate of an application that runs this package.
StartWriters(lane) ==
  /\ writers[lane] = None
  /\ Ready(lane)
  /\ writers' = [writers EXCEPT ![lane] = "new"]
  /\ UNCHANGED <<adapter, old, db, grants, retired, lock, mig, reported, faults>>

\* Old writers start again behind the gate of their package.  Nothing that the
\* migrators check tells a declaration that was true when it was made, or when the
\* script was rendered, from one that still is: those who start under one are late.
\* They may write lifecycle states that a later migration retires.
RestartOldWriters(lane) ==
  /\ faults < MaxFaults
  /\ writers[lane] = None
  /\ OldReady(lane)
  /\ writers' = [writers EXCEPT ![lane] = IF Declared THEN "late" ELSE "old"]
  /\ retired' \in IF adapter = "postgresql" /\ old <= 3 THEN {retired, TRUE} ELSE {retired}
  /\ faults' = faults + 1
  /\ UNCHANGED <<adapter, old, db, grants, lock, mig, reported>>

(* The five migrators run the same steps; where they differ is said above. *)
Runs(m) == TakeLock(m) \/ ReadStatus(m) \/ Execute(m) \/ Finish(m)
migrate_postgres(m) == adapter = "postgresql" /\ Runs(m)
migrate_mysql(m) == adapter = "mysql" /\ Runs(m)
migrate_sqlite(m) == adapter = "sqlite" /\ Runs(m)
migrate_approval_postgres(m) == adapter = "approvals" /\ Runs(m)
migrate_stripe_postgres(m) == adapter = "stripe" /\ Runs(m)
Step(m) == \/ migrate_postgres(m) \/ migrate_mysql(m) \/ migrate_sqlite(m)
           \/ migrate_approval_postgres(m) \/ migrate_stripe_postgres(m)

MigrationNext ==
  \/ \E m \in Migrators :
       \/ \E quiesced \in BOOLEAN :
            Invoke(m, quiesced) \/ \E from \in 0..Latest : RenderScript(m, from, quiesced)
       \/ Step(m) \/ LockTimeout(m) \/ Crash(m)
  \/ Drain \/ Remediate \/ RenderGrants
  \/ \E lane \in Lanes : StartWriters(lane) \/ RestartOldWriters(lane)

-----------------------------------------------------------------------------
(* Writers of this package run only on the catalog of its last migration     *)
(* and with exactly the grants of their lane.  Writers of an older package   *)
(* run only on whole migrations: those it knows, and beyond them only ones   *)
(* that are declared compatible with it.  The exception is the one the       *)
(* library leaves to the operator: writers that were started while a         *)
(* declaration that they are stopped was still being acted on.               *)
WritersRunOnCurrentSchema ==
  \A lane \in Lanes :
    /\ writers[lane] = "new" => /\ db.catalog = CatalogAt(Latest)
                                /\ grants[lane] = Granted(lane)
    /\ writers[lane] = "old" => /\ db.catalog = CatalogAt(Len(db.history))
                                /\ (old + 1)..Len(db.history) \subseteq Compatible

(* A history with a gap, a newer version or another checksum is never        *)
(* extended and its catalog is never touched, by a migrator or by a script.  *)
ForeignHistoryIsLeftAlone ==
  [][db.history \notin { Ours(n) : n \in 0..Latest } => db' = db]_mvars

(* Whatever migrator is lost at whatever statement, calling again brings the *)
(* schema up to date: the rerun of an interrupted MySQL migration meets no   *)
(* statement that fails on what the first one left behind.                   *)
InterruptedMigrationRecovers ==
  (Accepts(db.history) /\ Len(db.history) < Latest)
    ~> (db = [history |-> Ours(Latest), catalog |-> CatalogAt(Latest)])
=============================================================================
