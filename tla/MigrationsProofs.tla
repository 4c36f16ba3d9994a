-------------------------- MODULE MigrationsProofs --------------------------
(***************************************************************************)
(* Proofs, for any number of migrators, scripts and faults, that writers   *)
(* run only on the schema they were written for, that a foreign history is *)
(* left alone and that the rerun of an interrupted MySQL migration meets   *)
(* no failing statement, while kits qualify migrated databases.            *)
(*                                                                         *)
(* A catalog is what a recursive function makes of the packaged            *)
(* statements.  Induction over it is by the least counterexample.          *)
(***************************************************************************)
EXTENDS Qualification, WellFoundedInduction, SequenceTheorems, TLAPS

Single == adapter \in {"approvals", "stripe"}

\* The catalog after each of the first statements.
Prefix(statements, catalog) ==
  LET run[i \in 0..Len(statements)] ==
        IF i = 0 THEN catalog ELSE After(statements[i], run[i - 1])
  IN  run

Names ==
  {"tables", "lifecycle_check", "transfer", "mark_erasure", "complete_erasure", "guard_function",
   "guard_trigger", "proposals", "effect_claims", "runtime_update", "claim_fk", "claim_fk_index",
   "json_created", "json_expires", "identity_digest", "required_shape", "effect_identity",
   "claim_identities", "identity_unique", "migrate_datetime", "canonicalize", "datetimes",
   "validate", "create_proposal", "claim_effect"}
Objects == DOMAIN CatalogAt(0)
HistoryRow == [version : Nat, checksum : {"ours", "other"}]
Schema == [history : Seq(HistoryRow), catalog : [Objects -> Nat]]

\* Where a migrator can be.
Waiting == [pc : {"lock", "status"}, quiesced : BOOLEAN, from : Int]
Working == [pc : {"run", "finish"}, from : Int, quiesced : BOOLEAN,
            work : Schema, pending : SUBSET Nat, next : Nat]
Migrator == {Idle} \union Waiting \union Working

Types ==
  /\ adapter \in AllAdapters
  /\ db \in Schema
  /\ mig \in [Migrators -> Migrator]
  /\ writers \in [Lanes -> {None, "old", "late", "new"}]
  /\ reported \in BOOLEAN

\* The objects of the MySQL catalog that its assertions look at, and the migrated data.
Asserted ==
  {"proposals", "effect_claims", "effect_identity", "identity_unique", "claim_fk_index",
   "claim_fk", "identity_digest", "required_shape", "json_created", "json_expires",
   "guard_trigger", "claim_effect", "runtime_update", "transfer", "mark_erasure",
   "complete_erasure", "create_proposal", "validate", "canonicalize", "migrate_datetime"}
Unasserted == {"claim_identities", "datetimes"}

Complete == IF Single THEN db.history # <<>> ELSE db.history = Ours(Latest)

\* A transaction commits whole migrations.
CatalogAgrees ==
  /\ Transactional => \A n \in 0..Latest : db.history = Ours(n) => db.catalog = CatalogAt(n)
  /\ Single /\ db.history # <<>> => db.catalog = CatalogAt(Latest)

\* A MySQL migration that is recorded has migrated the data.
DataAgrees ==
  adapter = "mysql" =>
    \A n \in 2..Latest : db.history = Ours(n) =>
      \A o \in Unasserted : db.catalog[o] = CatalogAt(Latest)[o]

\* A script was rendered for writers that were stopped, unless it is the first.
InvocationAgrees(g) ==
  /\ g.quiesced => Drained
  /\ g.from # -1 => /\ adapter \in {"postgresql", "approvals", "stripe"}
                    /\ g.from \in 0..Latest
                    /\ adapter # "postgresql" => g.from = 0
                    /\ g.from \in 1..(Latest - 1) => g.quiesced

\* Under way from a history of this package.
Advances(g) ==
  \E v \in Versions :
    /\ g.pending = v..Latest
    /\ g.next \in 1..(Len(Packaged[adapter][v]) + 1)
    /\ Drained
    /\ Transactional =>
         /\ \E n \in 0..(v - 1) : db.history = Ours(n)
         /\ g.work = [history |-> Ours(v - 1),
                      catalog |-> Prefix(Packaged[adapter][v], CatalogAt(v - 1))[g.next - 1]]
    /\ ~Transactional =>
         /\ db.history = Ours(v - 1)
         /\ \A j \in 1..(g.next - 1) :
              Packaged[adapter][v][j].obj \in Unasserted =>
                db.catalog[Packaged[adapter][v][j].obj] = Packaged[adapter][v][j].ver

\* About to create a table that is there already.
Collides(g) ==
  /\ Single /\ db.history # <<>>
  /\ g.pending = {1} /\ g.next = 1 /\ g.work = db

\* Nothing was pending, or everything is done.
Commits(g) ==
  Transactional =>
    \/ g.work = db /\ Complete
    \/ /\ g.work = [history |-> Ours(Latest), catalog |-> CatalogAt(Latest)]
       /\ \E n \in 0..(Latest - 1) : db.history = Ours(n)
       /\ Drained

MigratorAgrees(m) ==
  /\ mig[m].pc # "idle" => InvocationAgrees(mig[m])
  /\ mig[m].pc \in {"status", "run", "finish"} => lock = m
  /\ mig[m].pc = "run" => Advances(mig[m]) \/ Collides(mig[m])
  /\ mig[m].pc = "finish" => Commits(mig[m])

\* Old writers run on a migration that was completed before they started.
OldWritersAgree ==
  ~Drained => \E n \in 1..(Latest - 1) : db.history = Ours(n) /\ db.catalog = CatalogAt(n)

\* New writers run on the last one, with their grants.
NewWritersAgree ==
  \A lane \in Lanes : writers[lane] = "new" =>
    Complete /\ db.catalog = CatalogAt(Latest) /\ grants[lane] = Granted(lane)

\* Only two databases have grants, and only the single migrations believe a report.
ReportsAgree ==
  /\ adapter \notin {"postgresql", "mysql"} => \A lane \in Lanes : grants[lane] = {}
  /\ Single /\ reported => Complete

\* All that is about the database and its writers.
Settled ==
  CatalogAgrees /\ DataAgrees /\ OldWritersAgree /\ NewWritersAgree /\ ReportsAgree

MigrationInvariant ==
  /\ Types
  /\ Settled
  /\ \A m \in Migrators : MigratorAgrees(m)

\* A MySQL migrator that is past the column of the effect's identity has it.
IdentityDone(g) ==
  adapter = "mysql" =>
    \A v \in Versions : g.pending = v..Latest =>
      \A j \in 1..(g.next - 1) :
        Packaged[adapter][v][j].obj = "effect_identity" => db.catalog["effect_identity"] # 0

\* The older package's writers were declared stopped, or there are none.
Declares(g) == g.quiesced \/ old = 0

OldAgrees(m) ==
  /\ mig[m].pc = "run" => IdentityDone(mig[m]) /\ Declares(mig[m])
  /\ mig[m].pc = "finish" /\ ~Complete => Declares(mig[m])

\* Before that column there is no migrated data, which the older gate does not look at.
DataFollows ==
  adapter = "mysql" /\ old # 0 /\ db.history = Ours(1) /\ db.catalog["effect_identity"] = 0
    => \A o \in Unasserted : db.catalog[o] = 0

\* What lets old writers start again: nobody changes the schema while they may run.
OldInvariant ==
  /\ old \in 0..(Latest - 1)
  /\ db.history = Ours(0) => old = 0
  /\ ~Drained => old # 0 /\ db.history = Ours(old)
  /\ DataFollows
  /\ \A m \in Migrators : OldAgrees(m)

-----------------------------------------------------------------------------
(* Induction, and what the recursive functions compute. *)

\* A set of naturals that is not empty has a least element.
LEMMA LeastNatural ==
  ASSUME NEW T \in SUBSET Nat, T # {}
  PROVE  \E x \in T : \A y \in T : x <= y
  <1> DEFINE R == {ss \in Nat \X Nat : ss[1] < ss[2]}
  <1>1. IsWellFoundedOn(R, Nat)
    BY NatLessThanWellFounded DEF OpToRel
  <1>2. ASSUME NEW x \in Nat, NEW y \in Nat, x < y
        PROVE  <<x, y>> \in R
    <2>1. PICK t : t = <<x, y>>
      OBVIOUS
    <2>2. t \in Nat \X Nat /\ t[1] = x /\ t[2] = y
      BY <2>1
    <2>3. t \in R
      BY <1>2, <2>2
    <2> QED BY <2>1, <2>3
  <1> HIDE DEF R
  <1>3. PICK x \in T : \A y \in T : ~(<<y, x>> \in R)
    BY <1>1, WFMin
  <1>4. \A y \in T : ~(y < x)
    BY <1>2, <1>3
  <1> QED BY <1>4

\* g is the catalog after each of the first n statements of s on c.
StepsFrom(g, s, c, n) ==
  g = [i \in 0..n |-> IF i = 0 THEN c ELSE After(s[i], g[i - 1])]

\* Statements can be applied one after the other.
LEMMA PrefixExists ==
  ASSUME NEW s, NEW c, NEW N \in Nat
  PROVE  \E g : StepsFrom(g, s, c, N)
  <1> DEFINE T == {n \in Nat : ~\E g : StepsFrom(g, s, c, n)}
  <1>1. SUFFICES ASSUME T # {} PROVE FALSE
    OBVIOUS
  <1>2. PICK n \in T : \A k \in T : n <= k
    BY <1>1, LeastNatural
  <1>3. CASE n = 0
    <2> DEFINE g == [i \in 0..0 |-> c]
    <2>1. StepsFrom(g, s, c, 0)
      BY DEF StepsFrom
    <2> QED BY <1>2, <1>3, <2>1
  <1>4. CASE n # 0
    <2>1. n \in Nat /\ n - 1 \in Nat /\ n - 1 \notin T
      BY <1>2, <1>4
    <2>2. PICK g : StepsFrom(g, s, c, n - 1)
      BY <2>1
    <2>3. \A i \in 0..(n - 1) : g[i] = IF i = 0 THEN c ELSE After(s[i], g[i - 1])
      BY ONLY <2>2 DEF StepsFrom
    <2> DEFINE h == [i \in 0..n |-> IF i = n THEN After(s[n], g[n - 1]) ELSE g[i]]
    <2>4. ASSUME NEW i \in 0..n
          PROVE  h[i] = IF i = 0 THEN c ELSE After(s[i], h[i - 1])
      <3>1. CASE i = n
        BY <1>4, <2>1, <3>1
      <3>2. CASE i = 0
        BY <1>4, <2>1, <2>3, <3>2
      <3>3. CASE i # 0 /\ i # n
        BY <1>4, <2>1, <2>3, <3>3
      <3> QED BY <3>1, <3>2, <3>3
    <2>5. StepsFrom(h, s, c, n)
      BY <2>4 DEF StepsFrom
    <2> HIDE DEF h
    <2> QED BY <1>2, <2>5
  <1> QED BY <1>3, <1>4

\* Prefix is what its definition says, and Applied is its last value.
LEMMA PrefixEquation ==
  ASSUME NEW s, NEW c, Len(s) \in Nat
  PROVE  /\ Prefix(s, c)[0] = c
         /\ \A i \in 1..Len(s) : Prefix(s, c)[i] = After(s[i], Prefix(s, c)[i - 1])
         /\ Applied(s, c) = Prefix(s, c)[Len(s)]
  <1> DEFINE f == CHOOSE g : g = [i \in 0..Len(s) |-> IF i = 0 THEN c ELSE After(s[i], g[i - 1])]
  <1>1. PICK N \in Nat : N = Len(s)
    OBVIOUS
  <1>2. PICK h : StepsFrom(h, s, c, N)
    BY PrefixExists
  <1>3. h = [i \in 0..Len(s) |-> IF i = 0 THEN c ELSE After(s[i], h[i - 1])]
    BY <1>1, <1>2 DEF StepsFrom
  <1>4. f = [i \in 0..Len(s) |-> IF i = 0 THEN c ELSE After(s[i], f[i - 1])]
    BY <1>3
  <1>5. Prefix(s, c) = f /\ Applied(s, c) = f[Len(s)]
    BY DEF Prefix, Applied
  <1> HIDE DEF f
  <1>6. f[0] = c /\ \A i \in 1..Len(s) : f[i] = After(s[i], f[i - 1])
    BY <1>1, <1>4
  <1> QED BY <1>5, <1>6

\* g is the catalog after each of the first n migrations of s on c.
LeadsFrom(g, s, c, n) ==
  g = [i \in 0..n |-> IF i = 0 THEN c ELSE Applied(s[i], g[i - 1])]

\* Migrations can be applied one after the other.
LEMMA CatalogsExist ==
  ASSUME NEW s, NEW c, NEW N \in Nat
  PROVE  \E g : LeadsFrom(g, s, c, N)
  <1> DEFINE T == {n \in Nat : ~\E g : LeadsFrom(g, s, c, n)}
  <1>1. SUFFICES ASSUME T # {} PROVE FALSE
    OBVIOUS
  <1>2. PICK n \in T : \A k \in T : n <= k
    BY <1>1, LeastNatural
  <1>3. CASE n = 0
    <2> DEFINE g == [i \in 0..0 |-> c]
    <2>1. LeadsFrom(g, s, c, 0)
      BY DEF LeadsFrom
    <2> QED BY <1>2, <1>3, <2>1
  <1>4. CASE n # 0
    <2>1. n \in Nat /\ n - 1 \in Nat /\ n - 1 \notin T
      BY <1>2, <1>4
    <2>2. PICK g : LeadsFrom(g, s, c, n - 1)
      BY <2>1
    <2>3. \A i \in 0..(n - 1) : g[i] = IF i = 0 THEN c ELSE Applied(s[i], g[i - 1])
      BY ONLY <2>2 DEF LeadsFrom
    <2> DEFINE h == [i \in 0..n |-> IF i = n THEN Applied(s[n], g[n - 1]) ELSE g[i]]
    <2>4. ASSUME NEW i \in 0..n
          PROVE  h[i] = IF i = 0 THEN c ELSE Applied(s[i], h[i - 1])
      <3>1. CASE i = n
        BY <1>4, <2>1, <3>1
      <3>2. CASE i = 0
        BY <1>4, <2>1, <2>3, <3>2
      <3>3. CASE i # 0 /\ i # n
        BY <1>4, <2>1, <2>3, <3>3
      <3> QED BY <3>1, <3>2, <3>3
    <2>5. LeadsFrom(h, s, c, n)
      BY <2>4 DEF LeadsFrom
    <2> HIDE DEF h
    <2> QED BY <1>2, <2>5
  <1> QED BY <1>3, <1>4

\* The objects that the packaged statements name.
ObjectsOf(a) ==
  UNION { { Packaged[a][v][i].obj : i \in DOMAIN Packaged[a][v] } : v \in DOMAIN Packaged[a] }

\* The catalog after each migration, from the one before.
LEMMA CatalogEquation ==
  ASSUME NEW a \in AllAdapters, Len(Packaged[a]) \in Nat
  PROVE  /\ Catalogs[a][0] = [o \in ObjectsOf(a) |-> 0]
         /\ \A v \in 1..Len(Packaged[a]) :
              Catalogs[a][v] = Applied(Packaged[a][v], Catalogs[a][v - 1])
  <1> DEFINE s == Packaged[a]
             c == [o \in ObjectsOf(a) |-> 0]
             f == CHOOSE g : g = [v \in 0..Len(s) |-> IF v = 0 THEN c ELSE Applied(s[v], g[v - 1])]
  <1>1. Catalogs[a] = [n \in 0..Len(s) |-> f[n]]
    BY DEF Catalogs, ObjectsOf
  <1> HIDE DEF s, c
  <1>2. PICK N \in Nat : N = Len(s)
    BY DEF s
  <1>3. PICK h : LeadsFrom(h, s, c, N)
    BY CatalogsExist
  <1>4. h = [v \in 0..Len(s) |-> IF v = 0 THEN c ELSE Applied(s[v], h[v - 1])]
    BY <1>2, <1>3 DEF LeadsFrom
  <1>5. f = [v \in 0..Len(s) |-> IF v = 0 THEN c ELSE Applied(s[v], f[v - 1])]
    BY <1>4
  <1> HIDE DEF f
  <1>6. f[0] = c /\ \A v \in 1..Len(s) : f[v] = Applied(s[v], f[v - 1])
    BY <1>2, <1>5
  <1>7. \A n \in 0..Len(s) : Catalogs[a][n] = f[n]
    BY <1>1
  <1>8. Catalogs[a][0] = c
    BY <1>2, <1>6, <1>7
  <1>9. \A v \in 1..Len(s) : Catalogs[a][v] = Applied(s[v], Catalogs[a][v - 1])
    <2> SUFFICES ASSUME NEW v \in 1..Len(s)
                 PROVE  Catalogs[a][v] = Applied(s[v], Catalogs[a][v - 1])
      OBVIOUS
    <2>1. v \in 0..Len(s) /\ v - 1 \in 0..Len(s)
      BY <1>2
    <2>2. Catalogs[a][v] = f[v] /\ Catalogs[a][v - 1] = f[v - 1]
      BY <1>7, <2>1
    <2> QED BY <1>6, <2>2
  <1> QED BY <1>8, <1>9 DEF s, c

-----------------------------------------------------------------------------
(* The packaged statements. *)

\* Statements on given objects; the history row comes on top of them.
StatementsOn(N) ==
  [op : {"create", "ensure", "replace", "remove", "drop"}, obj : N, ver : Nat]
    \union [op : {"call"}, obj : N, ver : Nat, routine : Names]
Statement == StatementsOn(Names)
AssertedStatement == StatementsOn(Asserted)

\* The two that migrate data.
DataStatements == {Replace("claim_identities", 2), Call("datetimes", "canonicalize", 2)}

\* The constructors build statements.
LEMMA StatementTypes ==
  ASSUME NEW o \in Names, NEW v \in Nat, NEW r \in Names
  PROVE  /\ Create(o, v) \in Statement /\ Ensure(o, v) \in Statement
         /\ Replace(o, v) \in Statement /\ DropIfExists(o) \in Statement
         /\ Drop(o) \in Statement /\ Call(o, r, v) \in Statement
  BY DEF Create, Ensure, Replace, DropIfExists, Drop, Call, Statement, StatementsOn

\* And of asserted objects, statements on them.
LEMMA AssertedStatementTypes ==
  ASSUME NEW o \in Asserted, NEW v \in Nat
  PROVE  /\ Create(o, v) \in AssertedStatement /\ Ensure(o, v) \in AssertedStatement
         /\ Replace(o, v) \in AssertedStatement /\ DropIfExists(o) \in AssertedStatement
         /\ Drop(o) \in AssertedStatement
  BY DEF Create, Ensure, Replace, DropIfExists, Drop, AssertedStatement, StatementsOn

\* A routine is recreated by two statements.
LEMMA RecreateTypes ==
  ASSUME NEW v \in Nat
  PROVE  /\ \A o \in Names : Recreate(o, v) \in Seq(Statement)
         /\ \A o \in Asserted : Recreate(o, v) \in Seq(AssertedStatement)
  <1>1. "canonicalize" \in Names
    BY DEF Names
  <1>2. \A o \in Names : Recreate(o, v) \in Seq(Statement)
    BY <1>1, StatementTypes DEF Recreate
  <1>3. \A o \in Asserted : Recreate(o, v) \in Seq(AssertedStatement)
    BY AssertedStatementTypes DEF Recreate
  <1> QED BY <1>2, <1>3

\* The lifecycle guard is replaced by three.
LEMMA GuardTypes ==
  ASSUME NEW v \in Nat
  PROVE  LifecycleGuard(v) \in Seq(Statement)
  BY StatementTypes DEF LifecycleGuard, Names

\* Fewer statements make fewer scripts.
LEMMA SeqMonotone ==
  ASSUME NEW S, NEW T, S \subseteq T, NEW s \in Seq(S)
  PROVE  s \in Seq(T)
  OBVIOUS

\* A script made of two.
LEMMA Concatenation ==
  ASSUME NEW S, NEW s \in Seq(S), NEW t \in Seq(S)
  PROVE  /\ s \o t \in Seq(S)
         /\ Len(s \o t) = Len(s) + Len(t)
         /\ \A i \in 1..Len(s) : (s \o t)[i] = s[i]
         /\ \A i \in 1..Len(t) : (s \o t)[Len(s) + i] = t[i]
  OBVIOUS

\* The scripts of the transactional databases.
LEMMA ScriptTypes ==
  /\ Postgres001 \in Seq(Statement) /\ Postgres002 \in Seq(Statement)
  /\ Postgres003 \in Seq(Statement) /\ Postgres004 \in Seq(Statement)
  /\ Postgres005 \in Seq(Statement)
  /\ SQLite001 \in Seq(Statement) /\ SQLite002 \in Seq(Statement)
  /\ approval_postgres_migration \in Seq(Statement)
  /\ stripe_postgres_migration \in Seq(Statement)
  <1>1. Postgres001 \in Seq(Statement)
    BY StatementTypes DEF Postgres001, Names
  <1>2. Postgres002 \in Seq(Statement) /\ Postgres003 \in Seq(Statement)
    BY StatementTypes DEF Postgres002, Postgres003, Names
  <1>3. Postgres004 \in Seq(Statement) /\ Postgres005 \in Seq(Statement)
    BY GuardTypes DEF Postgres004, Postgres005
  <1>4. SQLite001 \in Seq(Statement) /\ SQLite002 \in Seq(Statement)
    BY StatementTypes, RecreateTypes DEF SQLite001, SQLite002, Names
  <1>5. approval_postgres_migration \in Seq(Statement) /\ stripe_postgres_migration \in Seq(Statement)
    BY StatementTypes DEF approval_postgres_migration, stripe_postgres_migration, Names
  <1> QED BY <1>1, <1>2, <1>3, <1>4, <1>5

\* The MySQL scripts; only the second migrates data, in two of its parts.
LEMMA MySQLParts ==
  /\ MySQL001 \in Seq(AssertedStatement)
  /\ MySQL003 \in Seq(AssertedStatement)
  /\ MySQL004 \in Seq(AssertedStatement)
  /\ GuardedDrops \in Seq(AssertedStatement \union DataStatements)
  /\ MySQL002Keys \in Seq(AssertedStatement \union DataStatements)
  /\ MySQL002Datetimes \in Seq(AssertedStatement \union DataStatements)
  /\ MySQL002Guards \in Seq(AssertedStatement \union DataStatements)
  /\ MySQL002Routines \in Seq(AssertedStatement \union DataStatements)
  <1> DEFINE S == AssertedStatement
             D == S \union DataStatements
  <1>1. /\ "guard_trigger" \in Asserted /\ "runtime_update" \in Asserted /\ "transfer" \in Asserted
        /\ "mark_erasure" \in Asserted /\ "complete_erasure" \in Asserted
        /\ "validate" \in Asserted /\ "create_proposal" \in Asserted /\ "claim_effect" \in Asserted
    BY DEF Asserted
  <1>2. \A v \in Nat :
          /\ Recreate("guard_trigger", v) \in Seq(S) /\ Recreate("runtime_update", v) \in Seq(S)
          /\ Recreate("transfer", v) \in Seq(S) /\ Recreate("mark_erasure", v) \in Seq(S)
          /\ Recreate("complete_erasure", v) \in Seq(S) /\ Recreate("validate", v) \in Seq(S)
          /\ Recreate("create_proposal", v) \in Seq(S) /\ Recreate("claim_effect", v) \in Seq(S)
    BY ONLY <1>1, RecreateTypes DEF S
  <1>3. <<Ensure("proposals", 1), Ensure("effect_claims", 1)>> \in Seq(S)
    BY AssertedStatementTypes DEF Asserted
  <1>4. GuardedDrops \in Seq(S)
    BY AssertedStatementTypes DEF GuardedDrops, Asserted
  <1>5. MySQL002Guards \in Seq(S)
    BY AssertedStatementTypes DEF MySQL002Guards, Asserted
  <1>6. MySQL002Keys \in Seq(D)
    <2>1. /\ Ensure("effect_identity", 2) \in D /\ Replace("claim_identities", 2) \in D
          /\ Ensure("identity_unique", 2) \in D /\ Ensure("claim_fk_index", 2) \in D
          /\ Ensure("claim_fk", 2) \in D /\ Create("identity_digest", 2) \in D
      BY AssertedStatementTypes DEF Asserted, DataStatements
    <2> HIDE DEF D
    <2> QED BY <2>1 DEF MySQL002Keys
  <1>7. MySQL002Datetimes \in Seq(D)
    <2>1. /\ DropIfExists("guard_trigger") \in D /\ DropIfExists("migrate_datetime") \in D
          /\ Create("migrate_datetime", 2) \in D /\ DropIfExists("canonicalize") \in D
          /\ Create("canonicalize", 2) \in D /\ Call("datetimes", "canonicalize", 2) \in D
          /\ Drop("canonicalize") \in D /\ Drop("migrate_datetime") \in D
      BY AssertedStatementTypes DEF Asserted, DataStatements
    <2> HIDE DEF D
    <2> QED BY <2>1 DEF MySQL002Datetimes
  <1> HIDE DEF S
  <1>8. MySQL001 \in Seq(S)
    BY <1>2, <1>3 DEF MySQL001
  <1>9. MySQL002Routines \in Seq(S)
    BY <1>2 DEF MySQL002Routines
  <1>10. MySQL003 \in Seq(S) /\ MySQL004 \in Seq(S)
    BY <1>2 DEF MySQL003, MySQL004
  <1>11. S \subseteq D
    OBVIOUS
  <1> HIDE DEF D
  <1>12. GuardedDrops \in Seq(D) /\ MySQL002Guards \in Seq(D) /\ MySQL002Routines \in Seq(D)
    BY <1>4, <1>5, <1>9, <1>11, SeqMonotone
  <1> QED BY <1>6, <1>7, <1>8, <1>10, <1>12 DEF S, D

\* The second script as a whole.
LEMMA MySQLScriptTypes ==
  MySQL002 \in Seq(AssertedStatement \union DataStatements)
  <1> DEFINE D == AssertedStatement \union DataStatements
  <1>1. /\ GuardedDrops \in Seq(D) /\ MySQL002Keys \in Seq(D) /\ MySQL002Datetimes \in Seq(D)
        /\ MySQL002Guards \in Seq(D) /\ MySQL002Routines \in Seq(D)
    BY MySQLParts
  <1> HIDE DEF D
  <1>2. MySQL002 \in Seq(D)
    BY <1>1 DEF MySQL002
  <1> QED BY <1>2 DEF D

\* All of them are scripts.
LEMMA MySQLScripts ==
  /\ MySQL001 \in Seq(Statement) /\ MySQL002 \in Seq(Statement)
  /\ MySQL003 \in Seq(Statement) /\ MySQL004 \in Seq(Statement)
  <1>0. Asserted \subseteq Names
    BY DEF Asserted, Names
  <1>1. AssertedStatement \subseteq Statement
    BY <1>0 DEF StatementsOn, Statement, AssertedStatement
  <1>2. DataStatements \subseteq Statement
    BY StatementTypes DEF DataStatements, Names
  <1>3. AssertedStatement \union DataStatements \subseteq Statement
    BY <1>1, <1>2
  <1> HIDE DEF Statement
  <1> QED BY <1>1, <1>3, MySQLParts, MySQLScriptTypes, SeqMonotone

\* Every database has its migrations, and each is a script.
LEMMA PackagedTypes ==
  ASSUME NEW a \in AllAdapters
  PROVE  /\ Packaged[a] \in Seq(Seq(Statement))
         /\ a = "postgresql" => Len(Packaged[a]) = 5
         /\ a = "mysql" => Len(Packaged[a]) = 4
         /\ a = "sqlite" => Len(Packaged[a]) = 2
         /\ a \in {"approvals", "stripe"} => Len(Packaged[a]) = 1
  <1>1. CASE a = "postgresql"
    <2>1. Packaged[a] = <<Postgres001, Postgres002, Postgres003, Postgres004, Postgres005>>
      BY <1>1 DEF Packaged
    <2> QED BY <1>1, <2>1, ScriptTypes
  <1>2. CASE a = "mysql"
    <2>1. Packaged[a] = <<MySQL001, MySQL002, MySQL003, MySQL004>>
      BY <1>2 DEF Packaged
    <2> QED BY <1>2, <2>1, MySQLScripts
  <1>3. CASE a = "sqlite"
    <2>1. Packaged[a] = <<SQLite001, SQLite002>>
      BY <1>3 DEF Packaged
    <2> QED BY <1>3, <2>1, ScriptTypes
  <1>4. CASE a = "approvals"
    <2>1. Packaged[a] = <<approval_postgres_migration>>
      BY <1>4 DEF Packaged
    <2> QED BY <1>4, <2>1, ScriptTypes
  <1>5. CASE a = "stripe"
    <2>1. Packaged[a] = <<stripe_postgres_migration>>
      BY <1>5 DEF Packaged
    <2> QED BY <1>5, <2>1, ScriptTypes
  <1> QED BY <1>1, <1>2, <1>3, <1>4, <1>5 DEF AllAdapters

\* A script and its statements.
LEMMA ScriptsOf ==
  ASSUME NEW a \in AllAdapters, NEW v \in 1..Len(Packaged[a])
  PROVE  /\ Packaged[a][v] \in Seq(Statement)
         /\ Len(Packaged[a][v]) \in Nat
         /\ \A i \in 1..Len(Packaged[a][v]) :
              /\ Packaged[a][v][i] \in Statement
              /\ Packaged[a][v][i].obj \in ObjectsOf(a)
              /\ Packaged[a][v][i].ver \in Nat
              /\ Packaged[a][v][i].op # "record"
  <1>1. PICK p \in Seq(Seq(Statement)) : p = Packaged[a]
    BY PackagedTypes
  <1>2. PICK s \in Seq(Statement) : s = p[v]
    BY <1>1
  <1>3. Len(s) \in Nat /\ \A i \in 1..Len(s) : s[i] \in Statement
    BY <1>2
  <1>4. ASSUME NEW i \in 1..Len(s)
        PROVE  s[i].obj \in ObjectsOf(a)
    <2>1. v \in DOMAIN p /\ i \in DOMAIN p[v]
      BY <1>1, <1>2
    <2> QED BY <1>1, <1>2, <2>1 DEF ObjectsOf
  <1>5. \A t \in Statement : t.ver \in Nat /\ t.op # "record"
    BY DEF Statement, StatementsOn
  <1> QED BY <1>1, <1>2, <1>3, <1>4, <1>5
-----------------------------------------------------------------------------
(* Catalogs. *)

\* A statement changes the entry of its object.
LEMMA AfterType ==
  ASSUME NEW O, NEW c \in [O -> Nat], NEW s \in Statement, s.obj \in O
  PROVE  /\ After(s, c) \in [O -> Nat]
         /\ \A o \in O : o # s.obj => After(s, c)[o] = c[o]
         /\ s.op # "ensure" => After(s, c)[s.obj] = s.ver
  <1>1. s.ver \in Nat
    BY DEF Statement, StatementsOn
  <1> QED BY <1>1 DEF After

\* Statements lead from catalog to catalog.
LEMMA PrefixType ==
  ASSUME NEW O, NEW c \in [O -> Nat], NEW s \in Seq(Statement),
         \A i \in 1..Len(s) : s[i].obj \in O
  PROVE  \A i \in 0..Len(s) : Prefix(s, c)[i] \in [O -> Nat]
  <1> DEFINE T == {i \in 0..Len(s) : Prefix(s, c)[i] \notin [O -> Nat]}
  <1>1. SUFFICES ASSUME T # {} PROVE FALSE
    OBVIOUS
  <1>2. PICK i \in T : \A k \in T : i <= k
    <2>1. T \in SUBSET Nat
      OBVIOUS
    <2> QED BY <1>1, <2>1, LeastNatural
  <1>3. Len(s) \in Nat /\ i \in 0..Len(s) /\ Prefix(s, c)[i] \notin [O -> Nat]
    BY <1>2
  <1>4. i # 0
    BY <1>3, PrefixEquation
  <1>5. i \in 1..Len(s) /\ i - 1 \in 0..Len(s) /\ i - 1 \notin T
    BY <1>2, <1>3, <1>4
  <1>6. Prefix(s, c)[i] = After(s[i], Prefix(s, c)[i - 1]) /\ Prefix(s, c)[i - 1] \in [O -> Nat]
    BY <1>3, <1>5, PrefixEquation
  <1>7. PICK q \in Statement : q = s[i] /\ q.obj \in O
    BY <1>5
  <1>8. PICK d \in [O -> Nat] : d = Prefix(s, c)[i - 1]
    BY <1>6
  <1>9. After(q, d) \in [O -> Nat]
    BY ONLY <1>7, <1>8, AfterType
  <1> QED BY <1>3, <1>6, <1>7, <1>8, <1>9

\* Which objects a script names, and how it defines one.
Concerns(s, O) == \A i \in 1..Len(s) : s[i].obj \in O
Mentions(s, o) == \E i \in 1..Len(s) : s[i].obj = o
Defines(s, o, ver) == \A i \in 1..Len(s) : s[i].obj = o => s[i].op # "ensure" /\ s[i].ver = ver

\* An object has the definition that the last migration to name it gave it.
LEMMA LastDefinition ==
  ASSUME NEW O, NEW c \in [O -> Nat], NEW s \in Seq(Statement), NEW o \in O, NEW ver,
         Concerns(s, O), Defines(s, o, ver)
  PROVE  Applied(s, c)[o] = IF Mentions(s, o) THEN ver ELSE c[o]
  <1> DEFINE Right(n) == IF \E i \in 1..n : s[i].obj = o
                         THEN Prefix(s, c)[n][o] = ver ELSE Prefix(s, c)[n][o] = c[o]
             T == {n \in 0..Len(s) : ~Right(n)}
  <1>1. Len(s) \in Nat /\ Applied(s, c) = Prefix(s, c)[Len(s)]
    BY PrefixEquation
  <1>2. SUFFICES ASSUME T # {} PROVE FALSE
    BY <1>1 DEF Mentions
  <1>3. PICK n \in T : \A k \in T : n <= k
    <2>1. T \in SUBSET Nat
      BY <1>1
    <2> QED BY <1>2, <2>1, LeastNatural
  <1>4. n # 0
    BY <1>3, <1>1, PrefixEquation
  <1>5. n \in 1..Len(s) /\ n - 1 \in 0..Len(s) /\ n - 1 \notin T
    BY <1>1, <1>3, <1>4
  <1>6. PICK d : d = Prefix(s, c)[n - 1]
    OBVIOUS
  <1>7. d \in [O -> Nat] /\ Prefix(s, c)[n] = After(s[n], d)
    <2>1. \A i \in 1..Len(s) : s[i].obj \in O
      BY DEF Concerns
    <2>2. \A i \in 0..Len(s) : Prefix(s, c)[i] \in [O -> Nat]
      BY <2>1, PrefixType
    <2>3. \A i \in 1..Len(s) : Prefix(s, c)[i] = After(s[i], Prefix(s, c)[i - 1])
      BY <1>1, PrefixEquation
    <2> QED BY <1>5, <1>6, <2>2, <2>3
  <1>8. PICK q \in Statement : q = s[n] /\ q.obj \in O
    BY <1>5 DEF Concerns
  <1>9. IF \E i \in 1..(n - 1) : s[i].obj = o THEN d[o] = ver ELSE d[o] = c[o]
    BY <1>5, <1>6
  <1>10. CASE s[n].obj = o
    <2>1. q.obj = o /\ q.op # "ensure" /\ q.ver = ver
      BY <1>5, <1>8, <1>10 DEF Defines
    <2>2. After(q, d)[q.obj] = q.ver
      BY ONLY <1>7, <1>8, <2>1, AfterType
    <2>3. Prefix(s, c)[n][o] = ver
      BY <1>7, <1>8, <2>1, <2>2
    <2> QED BY <1>3, <1>5, <1>10, <2>3
  <1>11. CASE s[n].obj # o
    <2>0. After(q, d)[o] = d[o]
      <3>1. o \in O /\ o # q.obj /\ q.obj \in O /\ d \in [O -> Nat] /\ q \in Statement
        BY <1>7, <1>8, <1>11
      <3> QED BY ONLY <3>1, AfterType
    <2>1. Prefix(s, c)[n][o] = d[o]
      BY <1>7, <1>8, <2>0
    <2>2. (\E i \in 1..n : s[i].obj = o) <=> (\E i \in 1..(n - 1) : s[i].obj = o)
      BY <1>5, <1>11
    <2> QED BY <1>3, <1>9, <2>1, <2>2
  <1> QED BY <1>10, <1>11

-----------------------------------------------------------------------------
(* The packaged migrations of one database. *)

HasStatement(s, x) == \E i \in 1..Len(s) : s[i] = x

\* A statement of one part is a statement of the whole.
LEMMA Occurrence ==
  ASSUME NEW S, NEW s \in Seq(S), NEW t \in Seq(S), NEW x, HasStatement(s, x) \/ HasStatement(t, x)
  PROVE  HasStatement(s \o t, x)
  <1>1. CASE HasStatement(s, x)
    <2>1. PICK i \in 1..Len(s) : s[i] = x
      BY <1>1 DEF HasStatement
    <2> QED BY <2>1, Concatenation DEF HasStatement
  <1>2. CASE HasStatement(t, x)
    <2>1. PICK i \in 1..Len(t) : t[i] = x
      BY <1>2 DEF HasStatement
    <2>2. Len(s) + i \in 1..Len(s \o t) /\ (s \o t)[Len(s) + i] = x
      BY <2>1, Concatenation
    <2> QED BY <2>2 DEF HasStatement
  <1> QED BY <1>1, <1>2

\* The second MySQL migration does migrate data.
LEMMA DataIsMigrated ==
  \A x \in DataStatements : HasStatement(MySQL002, x)
  <1> DEFINE D == AssertedStatement \union DataStatements
  <1>1. /\ GuardedDrops \in Seq(D) /\ MySQL002Keys \in Seq(D) /\ MySQL002Datetimes \in Seq(D)
        /\ MySQL002Guards \in Seq(D) /\ MySQL002Routines \in Seq(D)
    BY MySQLParts
  <1> HIDE DEF D
  <1>2. PICK g \in Seq(D) : g = GuardedDrops
    BY <1>1
  <1>3. PICK k \in Seq(D) : k = MySQL002Keys
    BY <1>1
  <1>4. PICK d \in Seq(D) : d = MySQL002Datetimes
    BY <1>1
  <1>5. PICK q \in Seq(D) : q = MySQL002Guards
    BY <1>1
  <1>6. PICK r \in Seq(D) : r = MySQL002Routines
    BY <1>1
  <1>7. MySQL002 = (((g \o k) \o d) \o q) \o r
    BY <1>2, <1>3, <1>4, <1>5, <1>6 DEF MySQL002
  <1>8. g \o k \in Seq(D) /\ (g \o k) \o d \in Seq(D) /\ ((g \o k) \o d) \o q \in Seq(D)
    OBVIOUS
  <1>9. HasStatement(k, Replace("claim_identities", 2))
    <2>1. Len(k) = 6 /\ k[2] = Replace("claim_identities", 2)
      BY <1>3 DEF MySQL002Keys
    <2> QED BY <2>1 DEF HasStatement
  <1>10. HasStatement(d, Call("datetimes", "canonicalize", 2))
    <2>1. Len(d) = 8 /\ d[6] = Call("datetimes", "canonicalize", 2)
      BY <1>4 DEF MySQL002Datetimes
    <2> QED BY <2>1 DEF HasStatement
  <1>11. SUFFICES ASSUME NEW x \in DataStatements PROVE HasStatement(MySQL002, x)
    OBVIOUS
  <1>12. HasStatement(k, x) \/ HasStatement(d, x)
    BY <1>9, <1>10 DEF DataStatements
  <1>13. HasStatement(g \o k, x) \/ HasStatement(d, x)
    BY <1>12, Occurrence
  <1>14. HasStatement((g \o k) \o d, x)
    BY <1>8, <1>13, Occurrence
  <1>15. HasStatement(((g \o k) \o d) \o q, x)
    BY <1>8, <1>14, Occurrence
  <1>16. HasStatement((((g \o k) \o d) \o q) \o r, x)
    BY <1>8, <1>15, Occurrence
  <1> QED BY <1>7, <1>16

\* The part of the second MySQL script that comes before its routines.
MySQL002Tables == GuardedDrops \o MySQL002Keys \o MySQL002Datetimes \o MySQL002Guards

\* Its statements, in order.
LEMMA MySQL002TablesList ==
  ASSUME NEW c, c = MySQL002Tables
  PROVE  /\ Len(c) = 24 /\ c \in Seq(AssertedStatement \union DataStatements)
         /\ c[1] = DropIfExists("claim_fk") /\ c[2] = DropIfExists("json_created")
         /\ c[3] = DropIfExists("json_expires") /\ c[4] = DropIfExists("claim_fk_index")
         /\ c[5] = DropIfExists("identity_digest") /\ c[6] = DropIfExists("required_shape")
         /\ c[7] = Ensure("effect_identity", 2) /\ c[8] = Replace("claim_identities", 2)
         /\ c[9] = Ensure("identity_unique", 2) /\ c[10] = Ensure("claim_fk_index", 2)
         /\ c[11] = Ensure("claim_fk", 2) /\ c[12] = Create("identity_digest", 2)
         /\ c[13] = DropIfExists("guard_trigger") /\ c[14] = DropIfExists("migrate_datetime")
         /\ c[15] = Create("migrate_datetime", 2) /\ c[16] = DropIfExists("canonicalize")
         /\ c[17] = Create("canonicalize", 2) /\ c[18] = Call("datetimes", "canonicalize", 2)
         /\ c[19] = Drop("canonicalize") /\ c[20] = Drop("migrate_datetime")
         /\ c[21] = Create("required_shape", 2) /\ c[22] = Create("json_created", 2)
         /\ c[23] = Create("json_expires", 2) /\ c[24] = Create("guard_trigger", 2)
  <1> DEFINE D == AssertedStatement \union DataStatements
  <1>1. PICK g : g = GuardedDrops
    OBVIOUS
  <1>2. PICK k : k = MySQL002Keys
    OBVIOUS
  <1>3. PICK d : d = MySQL002Datetimes
    OBVIOUS
  <1>4. PICK q : q = MySQL002Guards
    OBVIOUS
  <1>5. g \in Seq(D) /\ k \in Seq(D) /\ d \in Seq(D) /\ q \in Seq(D)
    BY <1>1, <1>2, <1>3, <1>4, MySQLParts
  <1>6. /\ Len(g) = 6
        /\ g[1] = DropIfExists("claim_fk") /\ g[2] = DropIfExists("json_created")
        /\ g[3] = DropIfExists("json_expires") /\ g[4] = DropIfExists("claim_fk_index")
        /\ g[5] = DropIfExists("identity_digest") /\ g[6] = DropIfExists("required_shape")
    BY <1>1 DEF GuardedDrops
  <1>7. /\ Len(k) = 6
        /\ k[1] = Ensure("effect_identity", 2) /\ k[2] = Replace("claim_identities", 2)
        /\ k[3] = Ensure("identity_unique", 2) /\ k[4] = Ensure("claim_fk_index", 2)
        /\ k[5] = Ensure("claim_fk", 2) /\ k[6] = Create("identity_digest", 2)
    BY <1>2 DEF MySQL002Keys
  <1>8. /\ Len(d) = 8
        /\ d[1] = DropIfExists("guard_trigger") /\ d[2] = DropIfExists("migrate_datetime")
        /\ d[3] = Create("migrate_datetime", 2) /\ d[4] = DropIfExists("canonicalize")
        /\ d[5] = Create("canonicalize", 2) /\ d[6] = Call("datetimes", "canonicalize", 2)
        /\ d[7] = Drop("canonicalize") /\ d[8] = Drop("migrate_datetime")
    BY <1>3 DEF MySQL002Datetimes
  <1>9. /\ Len(q) = 4
        /\ q[1] = Create("required_shape", 2) /\ q[2] = Create("json_created", 2)
        /\ q[3] = Create("json_expires", 2) /\ q[4] = Create("guard_trigger", 2)
    BY <1>4 DEF MySQL002Guards
  <1> HIDE DEF D
  <1>10. Len(g) = 6 /\ Len(k) = 6 /\ Len(d) = 8 /\ Len(q) = 4
    BY ONLY <1>6, <1>7, <1>8, <1>9
  <1>11. PICK x : x = g \o k
    OBVIOUS
  <1>12. /\ x \in Seq(D) /\ Len(x) = 6 + 6
         /\ \A i \in 1..6 : x[i] = g[i]
         /\ \A i \in 1..6 : x[6 + i] = k[i]
    <2>1. g \in Seq(D) /\ k \in Seq(D) /\ Len(g) = 6 /\ Len(k) = 6
      BY ONLY <1>5, <1>10
    <2>2. /\ g \o k \in Seq(D)
          /\ Len(g \o k) = Len(g) + Len(k)
          /\ \A i \in 1..Len(g) : (g \o k)[i] = g[i]
          /\ \A i \in 1..Len(k) : (g \o k)[Len(g) + i] = k[i]
      <3>1. g \in Seq(D) /\ k \in Seq(D)
        BY ONLY <1>5
      <3> QED BY ONLY <3>1, Concatenation
    <2>3. /\ x \in Seq(D) /\ Len(x) = Len(g) + Len(k)
          /\ \A i \in 1..Len(g) : x[i] = g[i]
          /\ \A i \in 1..Len(k) : x[Len(g) + i] = k[i]
      BY ONLY <1>11, <2>2
    <2> QED BY ONLY <2>1, <2>3
  <1>13. PICK y : y = x \o d
    OBVIOUS
  <1>14. /\ y \in Seq(D) /\ Len(y) = 12 + 8
         /\ \A i \in 1..12 : y[i] = x[i]
         /\ \A i \in 1..8 : y[12 + i] = d[i]
    <2>1. x \in Seq(D) /\ d \in Seq(D) /\ Len(x) = 12 /\ Len(d) = 8
      BY ONLY <1>5, <1>10, <1>12
    <2>2. /\ x \o d \in Seq(D)
          /\ Len(x \o d) = Len(x) + Len(d)
          /\ \A i \in 1..Len(x) : (x \o d)[i] = x[i]
          /\ \A i \in 1..Len(d) : (x \o d)[Len(x) + i] = d[i]
      <3>1. x \in Seq(D) /\ d \in Seq(D)
        BY ONLY <1>5, <1>12
      <3> QED BY ONLY <3>1, Concatenation
    <2>3. /\ y \in Seq(D) /\ Len(y) = Len(x) + Len(d)
          /\ \A i \in 1..Len(x) : y[i] = x[i]
          /\ \A i \in 1..Len(d) : y[Len(x) + i] = d[i]
      BY ONLY <1>13, <2>2
    <2> QED BY ONLY <2>1, <2>3
  <1>15. c = y \o q
    BY ONLY <1>1, <1>2, <1>3, <1>4, <1>11, <1>13, c = MySQL002Tables DEF MySQL002Tables
  <1>16. /\ c \in Seq(D) /\ Len(c) = 20 + 4
         /\ \A i \in 1..20 : c[i] = y[i]
         /\ \A i \in 1..4 : c[20 + i] = q[i]
    <2>1. y \in Seq(D) /\ q \in Seq(D) /\ Len(y) = 20 /\ Len(q) = 4
      BY ONLY <1>5, <1>10, <1>14
    <2>2. /\ y \o q \in Seq(D)
          /\ Len(y \o q) = Len(y) + Len(q)
          /\ \A i \in 1..Len(y) : (y \o q)[i] = y[i]
          /\ \A i \in 1..Len(q) : (y \o q)[Len(y) + i] = q[i]
      <3>1. y \in Seq(D) /\ q \in Seq(D)
        BY ONLY <1>5, <1>14
      <3> QED BY ONLY <3>1, Concatenation
    <2>3. /\ c \in Seq(D) /\ Len(c) = Len(y) + Len(q)
          /\ \A i \in 1..Len(y) : c[i] = y[i]
          /\ \A i \in 1..Len(q) : c[Len(y) + i] = q[i]
      BY ONLY <1>15, <2>2
    <2> QED BY ONLY <2>1, <2>3
  <1>17. \A i \in 1..6 : c[i] = g[i] /\ c[6 + i] = k[i]
    <2>1. SUFFICES ASSUME NEW i \in 1..6 PROVE c[i] = g[i] /\ c[6 + i] = k[i]
      OBVIOUS
    <2>2. i \in 1..12 /\ 6 + i \in 1..12 /\ i \in 1..20 /\ 6 + i \in 1..20
      OBVIOUS
    <2> QED BY ONLY i \in 1..6, <1>12, <1>14, <1>16, <2>2
  <1>18. \A i \in 1..8 : c[12 + i] = d[i]
    <2>1. SUFFICES ASSUME NEW i \in 1..8 PROVE c[12 + i] = d[i]
      OBVIOUS
    <2>2. 12 + i \in 1..20
      OBVIOUS
    <2> QED BY ONLY i \in 1..8, <1>14, <1>16, <2>2
  <1>19. /\ c[1] = g[1] /\ c[2] = g[2] /\ c[3] = g[3] /\ c[4] = g[4] /\ c[5] = g[5] /\ c[6] = g[6]
    BY ONLY <1>17
  <1>20. /\ c[7] = k[1] /\ c[8] = k[2] /\ c[9] = k[3] /\ c[10] = k[4] /\ c[11] = k[5] /\ c[12] = k[6]
    <2>1. \A i \in 1..6 : c[6 + i] = k[i]
      BY ONLY <1>17
    <2>2. /\ c[6 + 1] = k[1] /\ c[6 + 2] = k[2] /\ c[6 + 3] = k[3]
          /\ c[6 + 4] = k[4] /\ c[6 + 5] = k[5] /\ c[6 + 6] = k[6]
      BY ONLY <2>1
    <2> QED BY ONLY <2>2
  <1>21. /\ c[13] = d[1] /\ c[14] = d[2] /\ c[15] = d[3] /\ c[16] = d[4]
         /\ c[17] = d[5] /\ c[18] = d[6] /\ c[19] = d[7] /\ c[20] = d[8]
    <2>1. /\ c[12 + 1] = d[1] /\ c[12 + 2] = d[2] /\ c[12 + 3] = d[3] /\ c[12 + 4] = d[4]
          /\ c[12 + 5] = d[5] /\ c[12 + 6] = d[6] /\ c[12 + 7] = d[7] /\ c[12 + 8] = d[8]
      BY ONLY <1>18
    <2> QED BY ONLY <2>1
  <1>22. c[21] = q[1] /\ c[22] = q[2] /\ c[23] = q[3] /\ c[24] = q[4]
    <2>1. c[20 + 1] = q[1] /\ c[20 + 2] = q[2] /\ c[20 + 3] = q[3] /\ c[20 + 4] = q[4]
      BY ONLY <1>16
    <2> QED BY ONLY <2>1
  <1>23. Len(c) = 24 /\ c \in Seq(AssertedStatement \union DataStatements)
    BY ONLY <1>16 DEF D
  <1> QED BY ONLY <1>6, <1>7, <1>8, <1>9, <1>19, <1>20, <1>21, <1>22, <1>23

\* What the statements are.
LEMMA StatementFields ==
  /\ \A o, v : /\ Create(o, v).op = "create" /\ Create(o, v).obj = o /\ Create(o, v).ver = v
               /\ Ensure(o, v).op = "ensure" /\ Ensure(o, v).obj = o /\ Ensure(o, v).ver = v
               /\ Replace(o, v).op = "replace" /\ Replace(o, v).obj = o /\ Replace(o, v).ver = v
  /\ \A o : /\ DropIfExists(o).op = "remove" /\ DropIfExists(o).obj = o /\ DropIfExists(o).ver = 0
            /\ Drop(o).op = "drop" /\ Drop(o).obj = o /\ Drop(o).ver = 0
  /\ \A o, r, v : /\ Call(o, r, v).op = "call" /\ Call(o, r, v).obj = o
                  /\ Call(o, r, v).ver = v /\ Call(o, r, v).routine = r
  BY DEF Create, Ensure, Replace, DropIfExists, Drop, Call

\* How many migrations each database has.
LEMMA Sizes ==
  ASSUME adapter \in AllAdapters
  PROVE  /\ adapter = "postgresql" => Latest = 5
         /\ adapter = "mysql" => Latest = 4
         /\ adapter = "sqlite" => Latest = 2
         /\ Single => Latest = 1
         /\ Latest \in Nat /\ Latest >= 1
  <1>1. PICK a \in AllAdapters : a = adapter
    OBVIOUS
  <1>2. /\ a = "postgresql" => Len(Packaged[a]) = 5
        /\ a = "mysql" => Len(Packaged[a]) = 4
        /\ a = "sqlite" => Len(Packaged[a]) = 2
        /\ a \in {"approvals", "stripe"} => Len(Packaged[a]) = 1
    BY PackagedTypes
  <1>3. Len(Packaged[a]) = Latest
    BY <1>1 DEF Latest
  <1> HIDE DEF Latest
  <1> QED BY <1>1, <1>2, <1>3 DEF Single, AllAdapters

\* The catalogs of a database, each from the one before.
LEMMA CatalogFacts ==
  ASSUME adapter \in AllAdapters
  PROVE  /\ Objects = ObjectsOf(adapter)
         /\ CatalogAt(0) = [o \in Objects |-> 0]
         /\ \A v \in Versions : CatalogAt(v) = Applied(Packaged[adapter][v], CatalogAt(v - 1))
         /\ \A n \in 0..Latest : CatalogAt(n) \in [Objects -> Nat]
  <1>1. PICK a \in AllAdapters : a = adapter
    OBVIOUS
  <1>2. PICK N \in Nat : N = Latest /\ N = Len(Packaged[a])
    BY <1>1, Sizes DEF Latest
  <1>3. /\ Catalogs[a][0] = [o \in ObjectsOf(a) |-> 0]
        /\ \A v \in 1..N : Catalogs[a][v] = Applied(Packaged[a][v], Catalogs[a][v - 1])
    BY <1>2, CatalogEquation
  <1>4. CatalogAt(0) = [o \in ObjectsOf(adapter) |-> 0] /\ Objects = ObjectsOf(adapter)
    BY <1>1, <1>3 DEF CatalogAt, Objects
  <1>5. \A v \in Versions : CatalogAt(v) = Applied(Packaged[adapter][v], CatalogAt(v - 1))
    BY <1>1, <1>2, <1>3 DEF CatalogAt, Versions
  <1> DEFINE T == {n \in 0..N : CatalogAt(n) \notin [Objects -> Nat]}
  <1>6. ASSUME T # {} PROVE FALSE
    <2>1. T \in SUBSET Nat
      OBVIOUS
    <2>2. PICK n \in T : \A k \in T : n <= k
      BY <1>6, <2>1, LeastNatural
    <2>3. n \in 0..N /\ CatalogAt(n) \notin [Objects -> Nat]
      BY <2>2
    <2>4. n # 0
      BY <1>4, <2>3
    <2>5. n \in 1..N /\ n - 1 \in 0..N /\ n - 1 \notin T
      BY <2>2, <2>3, <2>4
    <2>6. PICK c \in [Objects -> Nat] : c = CatalogAt(n - 1)
      BY <2>5
    <2>7. PICK s \in Seq(Statement) : s = Packaged[adapter][n] /\ \A i \in 1..Len(s) : s[i].obj \in Objects
      BY <1>1, <1>2, <1>4, <2>5, ScriptsOf
    <2>8. Len(s) \in Nat /\ \A i \in 0..Len(s) : Prefix(s, c)[i] \in [Objects -> Nat]
      BY <2>7, PrefixType
    <2>9. Applied(s, c) \in [Objects -> Nat]
      BY <2>8, PrefixEquation
    <2> QED BY <1>2, <1>5, <2>3, <2>5, <2>6, <2>7, <2>9 DEF Versions
  <1> QED BY <1>2, <1>4, <1>5, <1>6

\* MySQL: what is not asserted is the data that the second migration migrates.
LEMMA MySQLData ==
  ASSUME adapter = "mysql"
  PROVE  /\ Objects \subseteq Asserted \union Unasserted
         /\ Unasserted \subseteq Objects
         /\ \A v \in Versions : \A i \in 1..Len(Packaged[adapter][v]) :
              Packaged[adapter][v][i].obj \in Unasserted =>
                v = 2 /\ Packaged[adapter][v][i].ver = 2 /\ Packaged[adapter][v][i].op # "ensure"
         /\ \A o \in Unasserted : \E i \in 1..Len(Packaged[adapter][2]) :
              Packaged[adapter][2][i].obj = o
  <1>1. adapter \in AllAdapters /\ Latest = 4 /\ Versions = 1..4
    BY Sizes DEF AllAdapters, Versions
  <1>2. /\ Packaged[adapter][1] = MySQL001 /\ Packaged[adapter][2] = MySQL002
        /\ Packaged[adapter][3] = MySQL003 /\ Packaged[adapter][4] = MySQL004
        /\ Len(Packaged[adapter]) = 4 /\ DOMAIN Packaged[adapter] = 1..4
    <2>1. Packaged[adapter] = <<MySQL001, MySQL002, MySQL003, MySQL004>>
      BY DEF Packaged
    <2> QED BY <2>1
  <1>3. \A t \in AssertedStatement : t.obj \in Asserted /\ t.obj \notin Unasserted
    BY DEF AssertedStatement, StatementsOn, Asserted, Unasserted
  <1>4. \A t \in DataStatements : t.obj \in Unasserted /\ t.ver = 2 /\ t.op # "ensure"
    BY DEF DataStatements, Replace, Call, Unasserted
  <1>5. ASSUME NEW v \in 1..4, NEW i \in 1..Len(Packaged[adapter][v])
        PROVE  /\ i \in DOMAIN Packaged[adapter][v] /\ Len(Packaged[adapter][v]) \in Nat
               /\ \/ Packaged[adapter][v][i] \in AssertedStatement
                  \/ v = 2 /\ Packaged[adapter][v][i] \in DataStatements
    <2>1. CASE v = 1
      BY <1>2, <2>1, MySQLParts
    <2>2. CASE v = 2
      BY <1>2, <2>2, MySQLScriptTypes
    <2>3. CASE v = 3
      BY <1>2, <2>3, MySQLParts
    <2>4. CASE v = 4
      BY <1>2, <2>4, MySQLParts
    <2> QED BY <2>1, <2>2, <2>3, <2>4
  <1>6. \A v \in 1..4 : \A i \in 1..Len(Packaged[adapter][v]) :
          Packaged[adapter][v][i].obj \in Asserted \union Unasserted
    BY <1>3, <1>4, <1>5
  <1>7. \A v \in 1..4 : DOMAIN Packaged[adapter][v] = 1..Len(Packaged[adapter][v])
    BY <1>1, ScriptsOf DEF Latest
  <1>8. Objects = ObjectsOf(adapter)
    BY <1>1, CatalogFacts
  <1>9. Objects \subseteq Asserted \union Unasserted
    BY <1>2, <1>6, <1>7, <1>8 DEF ObjectsOf
  <1>10. \A o \in Unasserted : \E i \in 1..Len(Packaged[adapter][2]) : Packaged[adapter][2][i].obj = o
    <2>1. HasStatement(MySQL002, Replace("claim_identities", 2)) /\ HasStatement(MySQL002, Call("datetimes", "canonicalize", 2))
      BY DataIsMigrated DEF DataStatements
    <2>2. Replace("claim_identities", 2).obj = "claim_identities" /\ Call("datetimes", "canonicalize", 2).obj = "datetimes"
      BY DEF Replace, Call
    <2> QED BY <1>2, <2>1, <2>2 DEF HasStatement, Unasserted
  <1>11. Unasserted \subseteq Objects
    BY <1>2, <1>7, <1>8, <1>10 DEF ObjectsOf
  <1>12. \A v \in Versions : \A i \in 1..Len(Packaged[adapter][v]) :
           Packaged[adapter][v][i].obj \in Unasserted =>
             v = 2 /\ Packaged[adapter][v][i].ver = 2 /\ Packaged[adapter][v][i].op # "ensure"
    BY <1>1, <1>3, <1>4, <1>5
  <1> QED BY <1>9, <1>10, <1>11, <1>12

\* It has the second migration's definition from then on.
LEMMA DataCatalog ==
  ASSUME adapter = "mysql", NEW o \in Unasserted
  PROVE  Latest = 4 /\ \A n \in 2..Latest : CatalogAt(n)[o] = 2
  <1>1. adapter \in AllAdapters /\ Latest = 4 /\ Versions = 1..4 /\ o \in Objects
    BY Sizes, MySQLData DEF AllAdapters, Versions
  <1>2. PICK a \in AllAdapters : a = adapter
    BY <1>1
  <1>3. ASSUME NEW v \in 2..4
        PROVE  /\ v = 2 => CatalogAt(v)[o] = 2
               /\ v # 2 => CatalogAt(v)[o] = CatalogAt(v - 1)[o]
    <2>0. Len(Packaged[a]) = Latest
      BY <1>2 DEF Latest
    <2>1. v \in 1..Len(Packaged[a]) /\ v \in Versions /\ v - 1 \in 0..Latest
      BY <1>1, <2>0
    <2>2. PICK c \in [Objects -> Nat] : c = CatalogAt(v - 1)
      BY <1>1, <2>1, CatalogFacts
    <2>3. PICK s \in Seq(Statement) : s = Packaged[adapter][v] /\ \A i \in 1..Len(s) : s[i].obj \in Objects
      BY <1>1, <1>2, <2>1, ScriptsOf, CatalogFacts
    <2>4. CatalogAt(v) = Applied(s, c)
      BY <1>1, <2>1, <2>2, <2>3, CatalogFacts
    <2>5. Defines(s, o, 2) /\ (Mentions(s, o) => v = 2)
      BY <2>1, <2>3, MySQLData DEF Defines, Mentions
    <2>6. v = 2 => Mentions(s, o)
      BY <2>3, MySQLData DEF Mentions
    <2>7. Applied(s, c)[o] = IF Mentions(s, o) THEN 2 ELSE c[o]
      <3>1. Concerns(s, Objects)
        BY <2>3 DEF Concerns
      <3> QED BY <1>1, <2>5, <3>1, LastDefinition
    <2> QED BY <2>2, <2>4, <2>5, <2>6, <2>7
  <1>4. CatalogAt(2)[o] = 2 /\ CatalogAt(3)[o] = CatalogAt(2)[o] /\ CatalogAt(4)[o] = CatalogAt(3)[o]
    <2>1. CatalogAt(2)[o] = 2
      BY <1>3
    <2>2. CatalogAt(3)[o] = CatalogAt(3 - 1)[o] /\ CatalogAt(4)[o] = CatalogAt(4 - 1)[o]
      BY <1>3
    <2>3. 3 - 1 = 2 /\ 4 - 1 = 3
      OBVIOUS
    <2> QED BY <2>1, <2>2, <2>3
  <1>5. \A n \in 2..4 : n = 2 \/ n = 3 \/ n = 4
    OBVIOUS
  <1> QED BY <1>1, <1>4, <1>5

\* The statements that leave the column of the effect's identity alone.
IdentityFree == StatementsOn(Asserted \ {"effect_identity"})

\* Recreating a routine does, and so do all scripts but the second and the routines of that.
LEMMA IdentityFreeScripts ==
  /\ MySQL001 \in Seq(IdentityFree) /\ MySQL003 \in Seq(IdentityFree)
  /\ MySQL004 \in Seq(IdentityFree) /\ MySQL002Routines \in Seq(IdentityFree)
  <1>1. ASSUME NEW o \in Asserted \ {"effect_identity"}, NEW v \in Nat
        PROVE  Recreate(o, v) \in Seq(IdentityFree) /\ Ensure(o, v) \in IdentityFree
    <2>1. /\ Create(o, v) \in IdentityFree /\ DropIfExists(o) \in IdentityFree
          /\ Ensure(o, v) \in IdentityFree
      BY DEF Create, DropIfExists, Ensure, IdentityFree, StatementsOn
    <2> HIDE DEF IdentityFree
    <2> QED BY <2>1 DEF Recreate
  <1>2. \A o \in {"guard_trigger", "runtime_update", "transfer", "mark_erasure",
                  "complete_erasure", "validate", "create_proposal", "claim_effect",
                  "proposals", "effect_claims"} : o \in Asserted \ {"effect_identity"}
    BY DEF Asserted
  <1>3. \A v \in Nat :
          /\ Recreate("guard_trigger", v) \in Seq(IdentityFree)
          /\ Recreate("runtime_update", v) \in Seq(IdentityFree)
          /\ Recreate("transfer", v) \in Seq(IdentityFree)
          /\ Recreate("mark_erasure", v) \in Seq(IdentityFree)
          /\ Recreate("complete_erasure", v) \in Seq(IdentityFree)
          /\ Recreate("validate", v) \in Seq(IdentityFree)
          /\ Recreate("create_proposal", v) \in Seq(IdentityFree)
          /\ Recreate("claim_effect", v) \in Seq(IdentityFree)
    BY ONLY <1>1, <1>2
  <1>4. Ensure("proposals", 1) \in IdentityFree /\ Ensure("effect_claims", 1) \in IdentityFree
    BY <1>1, <1>2
  <1>5. MySQL001 \in Seq(IdentityFree)
    BY ONLY <1>3, <1>4 DEF MySQL001
  <1>6. MySQL002Routines \in Seq(IdentityFree)
    BY ONLY <1>3 DEF MySQL002Routines
  <1>7. MySQL003 \in Seq(IdentityFree) /\ MySQL004 \in Seq(IdentityFree)
    BY ONLY <1>3 DEF MySQL003, MySQL004
  <1> QED BY <1>5, <1>6, <1>7

\* Of the objects of its statements one is the column of the effect's identity and
\* two are migrated data.
LEMMA MySQL002TablesObjects ==
  ASSUME NEW c, c = MySQL002Tables
  PROVE  /\ c[7].obj = "effect_identity"
         /\ \A k \in 1..24 : c[k].obj = "effect_identity" => k = 7
         /\ \A k \in 1..24 : c[k].obj \in Unasserted => k = 8 \/ k = 18
  <1>1. /\ c[1] = DropIfExists("claim_fk") /\ c[2] = DropIfExists("json_created")
        /\ c[3] = DropIfExists("json_expires") /\ c[4] = DropIfExists("claim_fk_index")
        /\ c[5] = DropIfExists("identity_digest") /\ c[6] = DropIfExists("required_shape")
        /\ c[7] = Ensure("effect_identity", 2) /\ c[8] = Replace("claim_identities", 2)
        /\ c[9] = Ensure("identity_unique", 2) /\ c[10] = Ensure("claim_fk_index", 2)
        /\ c[11] = Ensure("claim_fk", 2) /\ c[12] = Create("identity_digest", 2)
        /\ c[13] = DropIfExists("guard_trigger") /\ c[14] = DropIfExists("migrate_datetime")
        /\ c[15] = Create("migrate_datetime", 2) /\ c[16] = DropIfExists("canonicalize")
        /\ c[17] = Create("canonicalize", 2) /\ c[18] = Call("datetimes", "canonicalize", 2)
        /\ c[19] = Drop("canonicalize") /\ c[20] = Drop("migrate_datetime")
        /\ c[21] = Create("required_shape", 2) /\ c[22] = Create("json_created", 2)
        /\ c[23] = Create("json_expires", 2) /\ c[24] = Create("guard_trigger", 2)
    BY ONLY c = MySQL002Tables, MySQL002TablesList
  <1>2. /\ c[1].obj = "claim_fk" /\ c[2].obj = "json_created" /\ c[3].obj = "json_expires"
        /\ c[4].obj = "claim_fk_index" /\ c[5].obj = "identity_digest" /\ c[6].obj = "required_shape"
        /\ c[7].obj = "effect_identity" /\ c[8].obj = "claim_identities" /\ c[9].obj = "identity_unique"
        /\ c[10].obj = "claim_fk_index" /\ c[11].obj = "claim_fk" /\ c[12].obj = "identity_digest"
        /\ c[13].obj = "guard_trigger" /\ c[14].obj = "migrate_datetime"
        /\ c[15].obj = "migrate_datetime" /\ c[16].obj = "canonicalize"
        /\ c[17].obj = "canonicalize" /\ c[18].obj = "datetimes"
        /\ c[19].obj = "canonicalize" /\ c[20].obj = "migrate_datetime"
        /\ c[21].obj = "required_shape" /\ c[22].obj = "json_created"
        /\ c[23].obj = "json_expires" /\ c[24].obj = "guard_trigger"
    BY ONLY <1>1, StatementFields
  <1>3. \A k \in 1..24 : \/ k = 1 \/ k = 2 \/ k = 3 \/ k = 4 \/ k = 5 \/ k = 6 \/ k = 7 \/ k = 8 \/ k = 9
                       \/ k = 10 \/ k = 11 \/ k = 12 \/ k = 13 \/ k = 14 \/ k = 15 \/ k = 16 \/ k = 17
                       \/ k = 18 \/ k = 19 \/ k = 20 \/ k = 21 \/ k = 22 \/ k = 23 \/ k = 24
    BY ONLY TRUE
  <1>4. \A k \in 1..24 : c[k].obj = "effect_identity" => k = 7
    BY ONLY <1>2, <1>3
  <1>5. \A k \in 1..24 : c[k].obj \in Unasserted => k = 8 \/ k = 18
    BY ONLY <1>2, <1>3 DEF Unasserted
  <1> QED BY ONLY <1>2, <1>4, <1>5

\* In the second script that column comes before the data that is migrated.
LEMMA IdentityComesFirst ==
  ASSUME NEW i \in 1..Len(MySQL002)
  PROVE  /\ MySQL002[i].obj = "effect_identity" => MySQL002[i].ver = 2
         /\ MySQL002[i].obj \in Unasserted =>
              \E j \in 1..(i - 1) : MySQL002[j].obj = "effect_identity"
  <1> DEFINE D == AssertedStatement \union DataStatements
  <1>1. PICK c : c = MySQL002Tables
    OBVIOUS
  <1>2. PICK r : r = MySQL002Routines
    OBVIOUS
  <1>3. Len(c) = 24 /\ c \in Seq(D) /\ r \in Seq(D) /\ r \in Seq(IdentityFree)
    BY <1>1, <1>2, MySQL002TablesList, MySQLParts, IdentityFreeScripts
  <1>4. c[7].obj = "effect_identity"
    BY <1>1, MySQL002TablesObjects
  <1>0. c[7].ver = 2
    <2>1. c[7] = Ensure("effect_identity", 2)
      BY ONLY <1>1, MySQL002TablesList
    <2> QED BY ONLY <2>1, StatementFields
  <1> HIDE DEF D
  <1>5. MySQL002 = c \o r
    BY ONLY <1>1, <1>2 DEF MySQL002, MySQL002Tables
  <1>6. /\ Len(c \o r) = 24 + Len(r) /\ Len(r) \in Nat
        /\ \A k \in 1..24 : (c \o r)[k] = c[k]
        /\ \A k \in 1..Len(r) : (c \o r)[24 + k] = r[k]
    <2>1. c \in Seq(D) /\ r \in Seq(D)
      BY ONLY <1>3
    <2>2. /\ Len(c \o r) = Len(c) + Len(r) /\ Len(r) \in Nat
          /\ \A k \in 1..Len(c) : (c \o r)[k] = c[k]
          /\ \A k \in 1..Len(r) : (c \o r)[Len(c) + k] = r[k]
      BY ONLY <2>1, Concatenation
    <2>3. Len(c) = 24
      BY ONLY <1>3
    <2> QED BY ONLY <2>2, <2>3
  <1>7. PICK t : t = MySQL002
    OBVIOUS
  <1>8. /\ i \in 1..(24 + Len(r)) /\ Len(r) \in Nat
        /\ \A k \in 1..24 : t[k] = c[k]
        /\ \A k \in 1..Len(r) : t[24 + k] = r[k]
    BY <1>5, <1>6, <1>7
  <1>9. CASE i \in 1..24
    <2>1. t[i] = c[i]
      BY ONLY <1>8, <1>9
    <2>2. t[i].obj = "effect_identity" => i = 7
      <3>1. \A k \in 1..24 : c[k].obj = "effect_identity" => k = 7
        BY ONLY <1>1, MySQL002TablesObjects
      <3> QED BY ONLY <1>9, <2>1, <3>1
    <2>3. t[i].obj \in Unasserted => i = 8 \/ i = 18
      BY ONLY <1>1, <1>9, <2>1, MySQL002TablesObjects
    <2>4. 7 \in 1..24 /\ 7 \in 1..(8 - 1) /\ 7 \in 1..(18 - 1)
      BY ONLY TRUE
    <2>5. t[7].obj = "effect_identity" /\ t[7].ver = 2
      BY ONLY <1>0, <1>4, <1>8, <2>4
    <2> QED BY ONLY <1>7, <2>2, <2>3, <2>4, <2>5
  <1>10. CASE i \notin 1..24
    <2>1. PICK k \in 1..Len(r) : i = 24 + k
      <3>0. PICK L \in Nat : L = Len(r)
        BY ONLY <1>8
      <3>2. i \in 1..(24 + L)
        BY ONLY <1>8, <3>0
      <3>3. i - 24 \in 1..L /\ i = 24 + (i - 24)
        BY ONLY <1>10, <3>2
      <3>1. i - 24 \in 1..Len(r) /\ i = 24 + (i - 24)
        BY ONLY <3>0, <3>3
      <3> QED BY ONLY <3>1
    <2>2. r[k] \in IdentityFree
      BY ONLY <1>3, <2>1
    <2>3. r[k].obj \in Asserted \ {"effect_identity"}
      BY ONLY <2>2 DEF IdentityFree, StatementsOn
    <2>4. r[k].obj # "effect_identity" /\ r[k].obj \notin Unasserted
      BY ONLY <2>3 DEF Asserted, Unasserted
    <2> QED BY ONLY <1>7, <1>8, <2>1, <2>4
  <1> QED BY <1>9, <1>10

\* So with every packaged MySQL script.
LEMMA MySQLIdentity ==
  ASSUME adapter = "mysql", NEW v \in Versions, NEW i \in 1..Len(Packaged[adapter][v])
  PROVE  /\ Packaged[adapter][v][i].obj = "effect_identity" =>
              v = 2 /\ Packaged[adapter][v][i].ver = 2
         /\ Packaged[adapter][v][i].obj \in Unasserted =>
              v = 2 /\ \E j \in 1..(i - 1) : Packaged[adapter][v][j].obj = "effect_identity"
  <1>1. Versions = 1..4
    BY Sizes DEF AllAdapters, Versions
  <1>2. Packaged[adapter] = <<MySQL001, MySQL002, MySQL003, MySQL004>>
    BY DEF Packaged
  <1>3. /\ Packaged[adapter][1] = MySQL001 /\ Packaged[adapter][2] = MySQL002
        /\ Packaged[adapter][3] = MySQL003 /\ Packaged[adapter][4] = MySQL004
    BY <1>2
  <1>4. CASE v = 2
    BY <1>3, <1>4, IdentityComesFirst
  <1>5. CASE v # 2
    <2>1. v = 1 \/ v = 3 \/ v = 4
      BY <1>1, <1>5
    <2>2. PICK p \in Seq(IdentityFree) : p = Packaged[adapter][v]
      BY <1>3, <2>1, IdentityFreeScripts
    <2>3. p[i] \in IdentityFree
      BY <2>2
    <2>4. p[i].obj \in Asserted \ {"effect_identity"}
      BY <2>3 DEF IdentityFree, StatementsOn
    <2>5. p[i].obj # "effect_identity" /\ p[i].obj \notin Unasserted
      BY <2>4 DEF Asserted, Unasserted
    <2> QED BY <2>2, <2>5
  <1> QED BY <1>4, <1>5

\* After the first migration there is neither the column nor the data.
LEMMA FirstCatalog ==
  ASSUME adapter = "mysql"
  PROVE  /\ "effect_identity" \in Objects
         /\ \A o \in Unasserted \union {"effect_identity"} : CatalogAt(0)[o] = 0 /\ CatalogAt(1)[o] = 0
  <1>1. adapter \in AllAdapters /\ Latest = 4 /\ Versions = 1..4 /\ Unasserted \subseteq Objects
    BY Sizes, MySQLData DEF AllAdapters, Versions
  <1>2. PICK a \in AllAdapters : a = adapter
    BY <1>1
  <1>3. 1 \in Versions /\ 2 \in Versions /\ 1 \in 1..Len(Packaged[a]) /\ 2 \in 1..Len(Packaged[a])
    <2>1. Len(Packaged[a]) = 4
      BY ONLY <1>1, <1>2 DEF Latest
    <2>2. 1 \in 1..4 /\ 2 \in 1..4
      BY ONLY TRUE
    <2> QED BY ONLY <1>1, <2>1, <2>2
  <1>4. "effect_identity" \in Objects
    <2>1. PICK i \in 1..Len(Packaged[adapter][2]) : Packaged[adapter][2][i].obj = "datetimes"
      BY MySQLData DEF Unasserted
    <2>2. PICK j \in 1..(i - 1) : Packaged[adapter][2][j].obj = "effect_identity"
      BY <1>3, <2>1, MySQLIdentity DEF Unasserted
    <2>3. Len(Packaged[adapter][2]) \in Nat
      BY <1>2, <1>3, ScriptsOf
    <2>4. j \in 1..Len(Packaged[adapter][2])
      BY <2>1, <2>2, <2>3
    <2>5. \A k \in 1..Len(Packaged[adapter][2]) : Packaged[adapter][2][k].obj \in Objects
      BY <1>1, <1>2, <1>3, ScriptsOf, CatalogFacts
    <2> QED BY <2>2, <2>4, <2>5
  <1>5. ASSUME NEW o \in Unasserted \union {"effect_identity"}
        PROVE  CatalogAt(0)[o] = 0 /\ CatalogAt(1)[o] = 0
    <2>1. o \in Objects
      BY <1>1, <1>4
    <2>2. PICK c \in [Objects -> Nat] : c = CatalogAt(0) /\ c[o] = 0
      BY <1>1, <2>1, CatalogFacts
    <2>3. PICK s \in Seq(Statement) : s = Packaged[adapter][1] /\ \A i \in 1..Len(s) : s[i].obj \in Objects
      BY <1>1, <1>2, <1>3, ScriptsOf, CatalogFacts
    <2>4. \A i \in 1..Len(s) : s[i].obj # o
      <3>1. SUFFICES ASSUME NEW i \in 1..Len(s), s[i].obj = o PROVE FALSE
        OBVIOUS
      <3>2. i \in 1..Len(Packaged[adapter][1]) /\ Packaged[adapter][1][i].obj = o
        BY <2>3, <3>1
      <3> QED BY <1>3, <3>2, MySQLIdentity
    <2>5. ~Mentions(s, o) /\ Defines(s, o, 0) /\ Concerns(s, Objects)
      BY <2>3, <2>4 DEF Mentions, Defines, Concerns
    <2>6. Applied(s, c)[o] = c[o]
      BY <2>1, <2>5, LastDefinition
    <2>7. CatalogAt(1) = Applied(s, c)
      <3>1. CatalogAt(1) = Applied(Packaged[adapter][1], CatalogAt(1 - 1))
        BY <1>1, <1>3, CatalogFacts
      <3>2. 1 - 1 = 0
        OBVIOUS
      <3> QED BY <2>2, <2>3, <3>1, <3>2
    <2> QED BY <2>2, <2>6, <2>7
  <1> QED BY <1>4, <1>5

\* The single migrations create tables.
LEMMA SingleMigration ==
  ASSUME adapter \in AllAdapters, Single
  PROVE  /\ Len(Packaged[adapter][1]) = 1
         /\ Packaged[adapter][1][1] = Create("tables", 1)
         /\ CatalogAt(1)["tables"] # 0
  <1>1. Packaged[adapter] = <<<<Create("tables", 1)>>>>
    BY DEF Single, Packaged, approval_postgres_migration, stripe_postgres_migration
  <1>2. Packaged[adapter][1] = <<Create("tables", 1)>> /\ DOMAIN Packaged[adapter] = {1}
    BY <1>1
  <1>3. PICK s : s = <<Create("tables", 1)>>
    OBVIOUS
  <1>4. Len(s) = 1 /\ s[1] = Create("tables", 1) /\ Len(s) \in Nat
    BY <1>3
  <1>5. Latest = 1 /\ 1 \in Versions
    BY Sizes DEF Versions
  <1>6. CatalogAt(1) = Applied(s, CatalogAt(0))
    <2>1. CatalogAt(1) = Applied(Packaged[adapter][1], CatalogAt(1 - 1))
      BY <1>5, CatalogFacts
    <2>2. 1 - 1 = 0
      OBVIOUS
    <2> QED BY <1>2, <1>3, <2>1, <2>2
  <1>7. CatalogAt(1) = After(Create("tables", 1), CatalogAt(0))
    <2>1. PICK c : c = CatalogAt(0)
      OBVIOUS
    <2>2. Applied(s, c) = Prefix(s, c)[1] /\ Prefix(s, c)[1] = After(s[1], Prefix(s, c)[1 - 1])
      <3>1. 1 \in 1..Len(s) /\ Len(s) \in Nat
        BY <1>4
      <3>2. \A i \in 1..Len(s) : Prefix(s, c)[i] = After(s[i], Prefix(s, c)[i - 1])
        BY ONLY <3>1, PrefixEquation
      <3>3. Applied(s, c) = Prefix(s, c)[Len(s)]
        BY ONLY <3>1, PrefixEquation
      <3> QED BY <1>4, <3>1, <3>2, <3>3
    <2>3. Prefix(s, c)[1 - 1] = c
      BY <1>4, PrefixEquation
    <2> QED BY <1>4, <1>6, <2>1, <2>2, <2>3
  <1>8. "tables" \in Objects /\ CatalogAt(0) \in [Objects -> Nat]
    <2>1. Packaged[adapter][1][1].obj = "tables" /\ 1 \in DOMAIN Packaged[adapter][1]
      BY <1>2 DEF Create
    <2>2. 1 \in DOMAIN Packaged[adapter]
      BY <1>2
    <2>3. "tables" \in ObjectsOf(adapter)
      BY <2>1, <2>2 DEF ObjectsOf
    <2> QED BY <1>5, <2>3, CatalogFacts
  <1>9. CatalogAt(1)["tables"] = 1
    BY <1>7, <1>8 DEF After, Create
  <1> QED BY <1>2, <1>3, <1>4, <1>9

-----------------------------------------------------------------------------
(* Migration histories. *)

\* The history of this package's first migrations.
LEMMA OursFacts ==
  ASSUME NEW n \in Nat
  PROVE  /\ Ours(n) \in Seq(HistoryRow)
         /\ Len(Ours(n)) = n
         /\ \A i \in 1..n : Ours(n)[i] = Row(i)
         /\ DOMAIN Ours(n) = 1..n
         /\ (Ours(n) = <<>>) <=> (n = 0)
  <1>1. \A i \in 1..n : Row(i) \in HistoryRow
    BY DEF Row, HistoryRow
  <1> HIDE DEF HistoryRow
  <1>2. Ours(n) \in Seq(HistoryRow) /\ Len(Ours(n)) = n /\ DOMAIN Ours(n) = 1..n
    BY <1>1 DEF Ours
  <1>3. \A i \in 1..n : Ours(n)[i] = Row(i)
    BY DEF Ours
  <1>4. (Ours(n) = <<>>) <=> (n = 0)
    <2>1. n # 0 => Ours(n) # <<>>
      BY <1>2
    <2>2. n = 0 => Ours(n) = <<>>
      BY <1>2
    <2> QED BY <2>1, <2>2
  <1> QED BY <1>2, <1>3, <1>4

\* It tells how many they are.
LEMMA OursInjective ==
  ASSUME NEW n \in Nat, NEW k \in Nat, Ours(n) = Ours(k)
  PROVE  n = k
  <1>1. Len(Ours(n)) = n /\ Len(Ours(k)) = k
    BY OursFacts
  <1> QED BY <1>1

\* A row is added for the next.
LEMMA OursAppend ==
  ASSUME NEW v \in Nat, v >= 1
  PROVE  Append(Ours(v - 1), Row(v)) = Ours(v)
  <1> DEFINE s == Ours(v - 1)
             t == Ours(v)
  <1>1. v - 1 \in Nat
    OBVIOUS
  <1>2. s \in Seq(HistoryRow) /\ Len(s) = v - 1 /\ \A i \in 1..(v - 1) : s[i] = Row(i)
    BY <1>1, OursFacts
  <1>3. t \in Seq(HistoryRow) /\ Len(t) = v /\ \A i \in 1..v : t[i] = Row(i)
    BY OursFacts
  <1>4. Row(v) \in HistoryRow
    BY DEF Row, HistoryRow
  <1> HIDE DEF s, t
  <1>5. PICK u \in Seq(HistoryRow) : u = Append(s, Row(v))
    <2>1. PICK r \in HistoryRow : r = Row(v)
      BY <1>4
    <2>2. Append(s, r) \in Seq(HistoryRow)
      BY <1>2
    <2> QED BY <2>1, <2>2
  <1>6. Len(u) = v /\ \A i \in 1..v : u[i] = Row(i)
    BY <1>1, <1>2, <1>5
  <1>7. u = t
    <2>1. Len(u) = Len(t) /\ \A i \in 1..Len(u) : u[i] = t[i]
      BY <1>3, <1>6
    <2> QED BY <1>3, <2>1, SeqEqual
  <1> QED BY <1>5, <1>7 DEF s, t

\* The three stores accept no other history.
LEMMA AcceptedHistory ==
  ASSUME adapter \in {"postgresql", "mysql", "sqlite"},
         NEW rows \in Seq(HistoryRow), Accepts(rows)
  PROVE  Len(rows) \in 0..Latest /\ rows = Ours(Len(rows))
  <1>1. Latest \in Nat /\ Versions = 1..Latest
    BY Sizes DEF AllAdapters, Versions
  <1>2. MigrationStatus(rows)
    BY DEF Accepts, MySQLMigrationStatus, SQLiteMigrationStatus
  <1>3. Len(rows) \in Nat /\ DOMAIN rows = 1..Len(rows)
    OBVIOUS
  <1>4. \A i \in 1..Len(rows) : rows[i].version = i /\ i \in 1..Latest /\ rows[i].checksum = "ours"
    BY <1>1, <1>2, <1>3 DEF MigrationStatus
  <1>5. Len(rows) \in 0..Latest
    BY <1>1, <1>3, <1>4
  <1>6. ASSUME NEW i \in 1..Len(rows)
        PROVE  rows[i] = Row(i)
    <2>1. PICK r \in HistoryRow : r = rows[i]
      OBVIOUS
    <2>2. r.version = i /\ r.checksum = "ours"
      BY <1>4, <2>1
    <2> QED BY <2>1, <2>2 DEF HistoryRow, Row
  <1>7. PICK n \in Nat : n = Len(rows)
    BY <1>3
  <1>8. PICK t \in Seq(HistoryRow) : t = Ours(n) /\ Len(t) = n /\ \A i \in 1..n : t[i] = Row(i)
    BY OursFacts
  <1>9. rows = t
    <2>1. Len(rows) = Len(t) /\ \A i \in 1..Len(rows) : rows[i] = t[i]
      BY <1>6, <1>7, <1>8
    <2> QED BY <2>1, SeqEqual
  <1> QED BY <1>5, <1>7, <1>8, <1>9

\* What such a history has applied and what it leaves.
LEMMA PendingOfOurs ==
  ASSUME adapter \in AllAdapters, NEW n \in 0..Latest
  PROVE  AppliedVersions(Ours(n)) = 1..n /\ Pending(Ours(n)) = (n + 1)..Latest
  <1>1. Latest \in Nat /\ Versions = 1..Latest /\ n \in Nat
    BY Sizes DEF Versions
  <1>2. DOMAIN Ours(n) = 1..n /\ \A i \in 1..n : Ours(n)[i].version = i
    <2>1. DOMAIN Ours(n) = 1..n /\ \A i \in 1..n : Ours(n)[i] = Row(i)
      BY <1>1, OursFacts
    <2>2. \A i : Row(i).version = i
      BY DEF Row
    <2> QED BY <2>1, <2>2
  <1>3. AppliedVersions(Ours(n)) = 1..n
    BY <1>1, <1>2 DEF AppliedVersions
  <1>4. Pending(Ours(n)) = (1..Latest) \ (1..n)
    BY <1>1, <1>3 DEF Pending
  <1>5. (1..Latest) \ (1..n) = (n + 1)..Latest
    BY <1>1
  <1> QED BY <1>3, <1>4, <1>5

\* The first of the migrations that are left.
LEMMA FirstOfRange ==
  ASSUME NEW v \in Nat, NEW N \in Nat, v <= N
  PROVE  FirstOf(v..N) = v
  <1>1. v \in v..N /\ \A w \in v..N : v <= w
    OBVIOUS
  <1>2. \A x \in v..N : (\A w \in v..N : x <= w) => x = v
    OBVIOUS
  <1> QED BY <1>1, <1>2 DEF FirstOf

\* Writers of an older package must stop before the last migration.
LEMMA LastIsIncompatible ==
  ASSUME adapter \in {"postgresql", "mysql", "sqlite"}
  PROVE  Latest \notin Compatible
  <1>1. /\ adapter = "postgresql" => Latest = 5
        /\ adapter = "mysql" => Latest = 4
        /\ adapter = "sqlite" => Latest = 2
    BY Sizes DEF AllAdapters
  <1> QED BY <1>1 DEF Compatible, postgres_migration_compatibility,
                      mysql_migration_compatibility, sqlite_migration_compatibility

-----------------------------------------------------------------------------
(* What a step leaves alone. *)

\* The database of a behaviour does not change, and with it all that depends on it.
LEMMA Rigid ==
  ASSUME adapter' = adapter
  PROVE  /\ Latest' = Latest /\ Versions' = Versions /\ Objects' = Objects
         /\ Schema' = Schema /\ Waiting' = Waiting /\ Working' = Working /\ Migrator' = Migrator
         /\ Single' = Single /\ Transactional' = Transactional
         /\ \A n : CatalogAt(n)' = CatalogAt(n)
         /\ \A lane : Granted(lane)' = Granted(lane)
  BY DEF Latest, Versions, Objects, Schema, Waiting, Working, Migrator, Single, Transactional,
         CatalogAt, Granted

\* A migrator is idle, waits with what it was called with, or works.
LEMMA MigratorCases ==
  ASSUME NEW g \in Migrator
  PROVE  /\ g.pc \in {"idle", "lock", "status", "run", "finish"}
         /\ g.pc = "idle" => g = Idle
         /\ g.pc \in {"lock", "status"} => g \in Waiting
         /\ g.pc \in {"run", "finish"} => g \in Working
  BY DEF Migrator, Waiting, Working, Idle

\* Where a migrator is does not depend on others' steps that leave the database alone.
LEMMA SameMigrator ==
  ASSUME NEW k, MigratorAgrees(k), UNCHANGED <<adapter, db, writers, lock>>, mig'[k] = mig[k]
  PROVE  MigratorAgrees(k)'
  <1>1. PICK g : g = mig[k]
    OBVIOUS
  <1>2. Drained' = Drained
    BY DEF Drained
  <1>3. InvocationAgrees(g)' = InvocationAgrees(g)
    BY <1>2, Rigid DEF InvocationAgrees
  <1>4. Advances(g)' = Advances(g)
    BY <1>2, Rigid DEF Advances
  <1>5. Collides(g)' = Collides(g)
    BY Rigid DEF Collides
  <1>6. Complete' = Complete
    BY Rigid DEF Complete
  <1>7. Commits(g)' = Commits(g)
    BY <1>2, <1>6, Rigid DEF Commits
  <1> QED BY <1>1, <1>3, <1>4, <1>5, <1>7 DEF MigratorAgrees

\* Nor, while it waits, on steps that change it.
LEMMA WaitingMigrator ==
  ASSUME NEW k, MigratorAgrees(k), mig[k].pc \in {"idle", "lock"}, adapter' = adapter,
         Drained => Drained', mig'[k] = mig[k]
  PROVE  MigratorAgrees(k)'
  <1>1. PICK g : g = mig[k]
    OBVIOUS
  <1>2. InvocationAgrees(g) => InvocationAgrees(g)'
    BY Rigid DEF InvocationAgrees
  <1> QED BY <1>1, <1>2 DEF MigratorAgrees

\* What holds of the database does not depend on a report that is true.
LEMMA ReportFrame ==
  ASSUME Settled, UNCHANGED <<adapter, db, grants, writers>>, Single /\ reported' => Complete
  PROVE  Settled'
  <1>1. Drained' = Drained
    BY DEF Drained
  <1>2. Complete' = Complete
    BY Rigid DEF Complete
  <1>3. CatalogAgrees'
    BY Rigid DEF Settled, CatalogAgrees
  <1>4. DataAgrees'
    BY Rigid DEF Settled, DataAgrees
  <1>5. OldWritersAgree'
    BY <1>1, Rigid DEF Settled, OldWritersAgree
  <1>6. NewWritersAgree'
    BY <1>2, Rigid DEF Settled, NewWritersAgree
  <1>7. ReportsAgree'
    BY <1>2, Rigid DEF Settled, ReportsAgree
  <1> QED BY <1>3, <1>4, <1>5, <1>6, <1>7 DEF Settled

\* It holds until the database or its writers change.
LEMMA SettledFrame ==
  ASSUME Settled, UNCHANGED <<adapter, db, grants, writers, reported>>
  PROVE  Settled'
  BY ReportFrame DEF Settled, ReportsAgree

\* Types hold in a step of one migrator that keeps them.
LEMMA TypesFrame ==
  ASSUME Types, adapter' = adapter, NEW m \in Migrators, NEW g \in Migrator,
         mig' = [mig EXCEPT ![m] = g], db' \in Schema,
         writers' = writers, reported' \in BOOLEAN
  PROVE  /\ Types'
         /\ mig'[m] = g
         /\ \A k \in Migrators \ {m} : mig'[k] = mig[k]
  BY Rigid DEF Types

-----------------------------------------------------------------------------
(* The steps. *)

\* Only one migrator is past the lock.
LEMMA OneHolder ==
  ASSUME Types, NEW m \in Migrators, NEW k \in Migrators, k # m, lock = m \/ lock = None,
         MigratorAgrees(k)
  PROVE  mig[k].pc \in {"idle", "lock"}
  <1>1. mig[k] \in Migrator
    BY DEF Types
  <1>2. mig[k].pc \in {"idle", "lock", "status", "run", "finish"}
    BY <1>1, MigratorCases
  <1>3. lock # k
    BY MigrationAssumption
  <1> QED BY <1>2, <1>3 DEF MigratorAgrees

\* A step of the lock's holder leaves the others where they wait.
LEMMA OthersWait ==
  ASSUME MigrationInvariant, NEW m \in Migrators, lock = m \/ lock = None,
         adapter' = adapter, writers' = writers,
         NEW k \in Migrators \ {m}, mig'[k] = mig[k]
  PROVE  MigratorAgrees(k)'
  <1>1. Drained => Drained'
    BY DEF Drained
  <1>2. MigratorAgrees(k) /\ Types
    BY DEF MigrationInvariant
  <1>3. mig[k].pc \in {"idle", "lock"}
    BY <1>2, OneHolder
  <1> QED BY <1>1, <1>2, <1>3, WaitingMigrator

\* A migrator that gives up leaves everything as it was.
LEMMA FailStep ==
  ASSUME MigrationInvariant, NEW m \in Migrators, Fail(m),
         UNCHANGED <<adapter, db, grants, writers, reported>>
  PROVE  MigrationInvariant'
  <1>1. Types /\ Settled /\ \A k \in Migrators : MigratorAgrees(k)
    BY DEF MigrationInvariant
  <1>2. Idle \in Migrator /\ mig' = [mig EXCEPT ![m] = Idle] /\ db' \in Schema /\ reported' \in BOOLEAN
    BY <1>1 DEF Fail, Migrator, Types
  <1>3. Types' /\ mig'[m] = Idle /\ \A k \in Migrators \ {m} : mig'[k] = mig[k]
    <2>1. PICK g \in Migrator : g = Idle
      BY <1>2
    <2> QED BY <1>1, <1>2, <2>1, TypesFrame
  <1>4. Settled'
    BY <1>1, SettledFrame
  <1>5. ASSUME NEW k \in Migrators
        PROVE  MigratorAgrees(k)'
    <2>1. CASE k = m
      <3>1. mig'[k].pc = "idle"
        BY <1>3, <2>1 DEF Idle
      <3> QED BY <3>1 DEF MigratorAgrees
    <2>2. CASE k # m /\ lock = m
      BY <1>3, <2>2, OthersWait
    <2>3. CASE k # m /\ lock # m
      BY <1>1, <1>3, <2>3, SameMigrator DEF Fail
    <2> QED BY <2>1, <2>2, <2>3
  <1> QED BY <1>3, <1>4, <1>5 DEF MigrationInvariant

\* A migrator that waits is called with what the operator could say.
LEMMA CallStep ==
  ASSUME MigrationInvariant, NEW m \in Migrators, NEW g \in Waiting, g.pc = "lock",
         InvocationAgrees(g), mig' = [mig EXCEPT ![m] = g],
         UNCHANGED <<adapter, db, grants, lock, writers, reported>>
  PROVE  MigrationInvariant'
  <1>1. Types /\ Settled /\ \A k \in Migrators : MigratorAgrees(k)
    BY DEF MigrationInvariant
  <1>2. g \in Migrator /\ db' \in Schema /\ reported' \in BOOLEAN
    BY <1>1 DEF Migrator, Types
  <1>3. Types' /\ mig'[m] = g /\ \A k \in Migrators \ {m} : mig'[k] = mig[k]
    BY <1>1, <1>2, TypesFrame
  <1>4. Settled'
    BY <1>1, SettledFrame
  <1>5. ASSUME NEW k \in Migrators
        PROVE  MigratorAgrees(k)'
    <2>1. CASE k = m
      <3>1. InvocationAgrees(g)'
        BY Rigid DEF InvocationAgrees, Drained
      <3> QED BY <1>3, <2>1, <3>1 DEF MigratorAgrees
    <2>2. CASE k # m
      BY <1>1, <1>3, <2>2, SameMigrator
    <2> QED BY <2>1, <2>2
  <1> QED BY <1>3, <1>4, <1>5 DEF MigrationInvariant

\* Writers that are stopped are not among those that a migration must not overlook.
LEMMA StoppedIsDrained ==
  ASSUME Stopped
  PROVE  Drained
  BY DEF Stopped, Drained

\* Called online.
LEMMA InvokeStep ==
  ASSUME MigrationInvariant, NEW m \in Migrators, NEW q \in BOOLEAN, Invoke(m, q)
  PROVE  MigrationInvariant'
  <1>1. PICK g : g = [pc |-> "lock", quiesced |-> q, from |-> -1]
    OBVIOUS
  <1>2. g \in Waiting /\ g.pc = "lock" /\ g.quiesced = q /\ g.from = -1
    BY <1>1 DEF Waiting
  <1>3. InvocationAgrees(g)
    BY <1>2, StoppedIsDrained DEF Invoke, InvocationAgrees
  <1>4. mig' = [mig EXCEPT ![m] = g] /\ UNCHANGED <<adapter, db, grants, lock, writers, reported>>
    BY <1>1 DEF Invoke
  <1> QED BY <1>2, <1>3, <1>4, CallStep

\* A script rendered for a version that needs the writers stopped says that they are.
LEMMA RenderScriptStep ==
  ASSUME MigrationInvariant, NEW m \in Migrators, NEW q \in BOOLEAN, NEW from \in 0..Latest,
         RenderScript(m, from, q)
  PROVE  MigrationInvariant'
  <1>1. PICK g : g = [pc |-> "lock", quiesced |-> q, from |-> from]
    OBVIOUS
  <1>2. adapter \in AllAdapters /\ Latest \in Nat
    BY Sizes DEF MigrationInvariant, Types
  <1>3. g \in Waiting /\ g.pc = "lock" /\ g.quiesced = q /\ g.from = from
    BY <1>1, <1>2 DEF Waiting
  <1>4. from \in 1..(Latest - 1) => q
    <2>1. SUFFICES ASSUME from \in 1..(Latest - 1) PROVE q
      OBVIOUS
    <2>2. adapter = "postgresql"
      BY <2>1 DEF RenderScript
    <2>3. Latest \notin Compatible
      BY <2>2, LastIsIncompatible
    <2>4. 1..from # {} /\ Latest \in (from + 1)..Latest
      BY <1>2, <2>1
    <2>5. migrations_requiring_writer_quiescence(1..from, (from + 1)..Latest) # {}
      BY <2>3, <2>4 DEF migrations_requiring_writer_quiescence
    <2> QED BY <2>5 DEF RenderScript
  <1>5. InvocationAgrees(g)
    BY <1>3, <1>4, StoppedIsDrained DEF RenderScript, InvocationAgrees
  <1>6. mig' = [mig EXCEPT ![m] = g] /\ UNCHANGED <<adapter, db, grants, lock, writers, reported>>
    BY <1>1 DEF RenderScript
  <1> QED BY <1>3, <1>5, <1>6, CallStep

\* One takes the lock.
LEMMA TakeLockStep ==
  ASSUME MigrationInvariant, NEW m \in Migrators, TakeLock(m)
  PROVE  MigrationInvariant'
  <1>1. Types /\ Settled /\ \A k \in Migrators : MigratorAgrees(k)
    BY DEF MigrationInvariant
  <1>2. mig[m] \in Waiting
    BY <1>1, MigratorCases DEF Types, TakeLock
  <1>3. PICK h \in Waiting : h = mig[m]
    BY <1>2
  <1>4. PICK g : g = [h EXCEPT !.pc = "status"]
    OBVIOUS
  <1>5. g \in Waiting /\ g.pc = "status" /\ g.quiesced = h.quiesced /\ g.from = h.from
    BY <1>4 DEF Waiting
  <1>6. mig' = [mig EXCEPT ![m] = g] /\ g \in Migrator /\ db' \in Schema /\ reported' \in BOOLEAN
    BY <1>1, <1>3, <1>4, <1>5 DEF TakeLock, Migrator, Types
  <1>7. Types' /\ mig'[m] = g /\ \A k \in Migrators \ {m} : mig'[k] = mig[k]
    BY <1>1, <1>6, TypesFrame DEF TakeLock
  <1>8. Settled'
    BY <1>1, SettledFrame DEF TakeLock
  <1>9. ASSUME NEW k \in Migrators
        PROVE  MigratorAgrees(k)'
    <2>1. CASE k = m
      <3>1. InvocationAgrees(h)
        BY <1>1, <1>3 DEF MigratorAgrees, TakeLock
      <3>2. InvocationAgrees(g)'
        BY <1>5, <3>1, Rigid DEF InvocationAgrees, Drained, TakeLock
      <3> QED BY <1>5, <1>7, <2>1, <3>2 DEF MigratorAgrees, TakeLock
    <2>2. CASE k # m
      BY <1>7, <2>2, OthersWait DEF TakeLock
    <2> QED BY <2>1, <2>2
  <1> QED BY <1>7, <1>8, <1>9 DEF MigrationInvariant

\* One is lost, or waits too long.
LEMMA LostStep ==
  ASSUME MigrationInvariant, NEW m \in Migrators, Crash(m) \/ LockTimeout(m)
  PROVE  MigrationInvariant'
  BY FailStep DEF Crash, LockTimeout

\* From a history of this package a migrator goes on where it ends.
LEMMA StartFromOurs ==
  ASSUME MigrationInvariant, NEW n \in 0..Latest, db.history = Ours(n),
         NEW g, g.pending = (n + 1)..Latest, g.next = 1, g.work = db,
         n \in 1..(Latest - 1) => Drained
  PROVE  IF g.pending = {} THEN Commits(g) ELSE Advances(g)
  <1>1. Types /\ Settled
    BY DEF MigrationInvariant
  <1>2. adapter \in AllAdapters /\ Latest \in Nat /\ Versions = 1..Latest /\ n \in Nat
    BY <1>1, Sizes DEF Types, Versions
  <1>3. CASE n = Latest
    <2>1. g.pending = {}
      BY <1>2, <1>3
    <2>2. Complete
      BY <1>2, <1>3, Sizes, OursFacts DEF Complete
    <2> QED BY <2>1, <2>2 DEF Commits
  <1>4. CASE n # Latest
    <2>1. g.pending # {} /\ n + 1 \in Versions /\ (n + 1) - 1 = n
      <3>1. n + 1 \in 1..Latest /\ n + 1 \in (n + 1)..Latest /\ (n + 1) - 1 = n
        <4>1. n \in 0..Latest /\ n # Latest /\ Latest \in Nat
          BY <1>2, <1>4
        <4> QED BY ONLY <4>1
      <3> QED BY <1>2, <3>1
    <2>2. Drained
      <3>1. SUFFICES ASSUME ~Drained PROVE FALSE
        OBVIOUS
      <3>2. PICK k \in 1..(Latest - 1) : db.history = Ours(k)
        BY <1>1, <3>1 DEF Settled, OldWritersAgree
      <3>3. n = k
        <4>1. k \in Nat /\ Ours(n) = Ours(k)
          BY <1>2, <3>2
        <4> QED BY <1>2, <4>1, OursInjective
      <3> QED BY <3>1, <3>2, <3>3
    <2>3. PICK s : s = Packaged[adapter][n + 1]
      OBVIOUS
    <2>4. Len(s) \in Nat
      <3>1. PICK a \in AllAdapters : a = adapter
        BY <1>2
      <3>2. n + 1 \in 1..Len(Packaged[a])
        BY <1>2, <2>1, <3>1 DEF Latest
      <3> QED BY <2>3, <3>1, <3>2, ScriptsOf
    <2>5. g.next \in 1..(Len(s) + 1) /\ g.next - 1 = 0
      BY <2>4
    <2>6. ASSUME Transactional
          PROVE  g.work = [history |-> Ours(n), catalog |-> Prefix(s, CatalogAt(n))[g.next - 1]]
      <3>1. db.catalog = CatalogAt(n)
        BY <1>1, <2>6 DEF Settled, CatalogAgrees
      <3>2. Prefix(s, CatalogAt(n))[0] = CatalogAt(n)
        BY <2>4, PrefixEquation
      <3>3. db = [history |-> db.history, catalog |-> db.catalog]
        BY <1>1 DEF Types, Schema
      <3> QED BY <2>5, <3>1, <3>2, <3>3
    <2>7. \A j \in 1..(g.next - 1) : FALSE
      BY <2>5
    <2>8. \E k \in 0..n : db.history = Ours(k)
      BY <1>2
    <2>9. Advances(g)
      <3> DEFINE v == n + 1
      <3>1. v - 1 = n /\ v \in Versions /\ Packaged[adapter][v] = s
        BY <2>1, <2>3
      <3>2. g.pending = v..Latest
        OBVIOUS
      <3> HIDE DEF v
      <3> QED BY <2>2, <2>5, <2>6, <2>7, <2>8, <3>1, <3>2 DEF Advances
    <2> QED BY <2>1, <2>9
  <1> QED BY <1>3, <1>4

\* What a migrator that is not refused sets out to do.
LEMMA StartAgrees ==
  ASSUME MigrationInvariant, NEW h \in Waiting, InvocationAgrees(h),
         NEW g, NEW pending, g.pending = pending, g.next = 1, g.work = db,
         pending = IF h.from = -1 THEN Pending(db.history) ELSE (h.from + 1)..Latest,
         h.from = -1 =>
           /\ Accepts(db.history)
           /\ migrations_requiring_writer_quiescence(AppliedVersions(db.history), pending) # {}
                => h.quiesced,
         h.from # -1 => HistoryAssertion(db.history, h.from)
  PROVE  IF pending = {} THEN Commits(g) ELSE Advances(g) \/ Collides(g)
  <1>1. Types /\ Settled
    BY DEF MigrationInvariant
  <1>2. adapter \in AllAdapters /\ Latest \in Nat /\ Versions = 1..Latest
    BY <1>1, Sizes DEF Types, Versions
  <1>3. PICK rows \in Seq(HistoryRow) : rows = db.history
    BY <1>1 DEF Types, Schema
  <1>4. CASE adapter \in {"postgresql", "mysql", "sqlite"} /\ h.from = -1
    <2>1. PICK n \in 0..Latest : db.history = Ours(n)
      BY <1>3, <1>4, AcceptedHistory
    <2>2. AppliedVersions(db.history) = 1..n /\ pending = (n + 1)..Latest
      BY <1>2, <1>4, <2>1, PendingOfOurs
    <2>3. n \in 1..(Latest - 1) => Drained
      <3>1. SUFFICES ASSUME n \in 1..(Latest - 1) PROVE Drained
        OBVIOUS
      <3>2. 1 \in 1..n /\ Latest \in (n + 1)..Latest
        BY ONLY <1>2, <3>1
      <3>3. Latest \notin Compatible
        BY <1>4, LastIsIncompatible
      <3>4. migrations_requiring_writer_quiescence(AppliedVersions(db.history), pending) # {}
        BY <2>2, <3>2, <3>3 DEF migrations_requiring_writer_quiescence
      <3> QED BY <1>4, <3>4 DEF InvocationAgrees
    <2> QED BY <2>1, <2>2, <2>3, StartFromOurs
  <1>5. CASE adapter \in {"postgresql", "mysql", "sqlite"} /\ h.from # -1
    <2>1. adapter = "postgresql" /\ h.from \in 0..Latest
      BY <1>5 DEF InvocationAgrees
    <2>2. PICK n \in 0..Latest : n = h.from
      BY <2>1
    <2>3. db.history = Ours(n)
      BY <1>5, <2>1, <2>2 DEF HistoryAssertion
    <2>4. pending = (n + 1)..Latest
      BY <1>5, <2>2
    <2>5. n \in 1..(Latest - 1) => Drained
      BY <1>5, <2>2 DEF InvocationAgrees
    <2> QED BY <2>3, <2>4, <2>5, StartFromOurs
  <1>6. CASE adapter \notin {"postgresql", "mysql", "sqlite"}
    <2>1. Single /\ Latest = 1
      BY <1>2, <1>6, Sizes DEF Single, AllAdapters
    <2>2. CASE rows = <<>>
      <3>1. db.history = Ours(0)
        BY <1>3, <2>2, OursFacts
      <3>2. pending = (0 + 1)..Latest
        <4>1. CASE h.from = -1
          BY <1>2, <3>1, <4>1, PendingOfOurs
        <4>2. CASE h.from # -1
          BY <1>6, <4>2 DEF InvocationAgrees
        <4> QED BY <4>1, <4>2
      <3>3. 0 \in 0..Latest /\ ~(0 \in 1..(Latest - 1))
        BY <1>2
      <3>4. IF g.pending = {} THEN Commits(g) ELSE Advances(g)
        BY <3>1, <3>2, <3>3, StartFromOurs
      <3> QED BY <3>4
    <2>3. CASE rows # <<>>
      <3>1. pending \subseteq {1}
        <4>1. CASE h.from = -1
          BY <1>2, <2>1, <4>1 DEF Pending
        <4>2. CASE h.from # -1
          BY <1>6, <2>1, <4>2 DEF InvocationAgrees
        <4> QED BY <4>1, <4>2
      <3>2. CASE pending = {}
        BY <1>3, <2>1, <2>3, <3>2 DEF Commits, Complete
      <3>3. CASE pending = {1}
        BY <1>3, <2>1, <2>3, <3>3 DEF Collides
      <3> QED BY <3>1, <3>2, <3>3
    <2> QED BY <2>2, <2>3
  <1> QED BY <1>4, <1>5, <1>6

\* Under the lock a migrator reads the history and is refused, or starts.
LEMMA ReadStatusStep ==
  ASSUME MigrationInvariant, NEW m \in Migrators, ReadStatus(m)
  PROVE  MigrationInvariant'
  <1>1. Types /\ Settled /\ \A k \in Migrators : MigratorAgrees(k)
    BY DEF MigrationInvariant
  <1>2. adapter \in AllAdapters /\ Latest \in Nat
    BY <1>1, Sizes DEF Types
  <1>3. mig[m].pc = "status" /\ lock = m /\ mig[m] \in Waiting
    BY <1>1, MigratorCases DEF Types, ReadStatus, MigratorAgrees
  <1>4. PICK h \in Waiting : h = mig[m]
    BY <1>3
  <1>5. InvocationAgrees(h) /\ h.from \in Int /\ h.quiesced \in BOOLEAN
    BY <1>1, <1>3, <1>4 DEF MigratorAgrees, Waiting
  <1>6. PICK pending : pending = IF h.from = -1 THEN Pending(db.history) ELSE (h.from + 1)..Latest
    OBVIOUS
  <1>7. PICK refused : refused =
          IF h.from = -1
          THEN \/ ~Accepts(db.history)
               \/ /\ migrations_requiring_writer_quiescence(AppliedVersions(db.history), pending) # {}
                  /\ ~h.quiesced
          ELSE ~HistoryAssertion(db.history, h.from)
    OBVIOUS
  <1>8. UNCHANGED <<adapter, db, grants, writers, reported>>
    BY DEF ReadStatus
  <1>9. CASE refused
    <2>1. Fail(m)
      BY <1>4, <1>6, <1>7, <1>9 DEF ReadStatus
    <2> QED BY <1>8, <2>1, FailStep
  <1>10. CASE ~refused
    <2>1. PICK g : g = [pc |-> IF pending = {} THEN "finish" ELSE "run", from |-> h.from,
                        quiesced |-> h.quiesced, work |-> db, pending |-> pending, next |-> 1]
      OBVIOUS
    <2>2. mig' = [mig EXCEPT ![m] = g] /\ lock' = lock
      BY <1>4, <1>6, <1>7, <1>10, <2>1 DEF ReadStatus
    <2>3. /\ g.pc = IF pending = {} THEN "finish" ELSE "run"
          /\ g.from = h.from /\ g.quiesced = h.quiesced
          /\ g.work = db /\ g.pending = pending /\ g.next = 1
      BY <2>1
    <2>4. pending \in SUBSET Nat
      <3>1. CASE h.from = -1
        BY <1>2, <1>6, <3>1 DEF Pending, Versions
      <3>2. CASE h.from # -1
        BY <1>2, <1>5, <1>6, <3>2 DEF InvocationAgrees
      <3> QED BY <3>1, <3>2
    <2>5. g \in Working
      BY <1>1, <1>5, <2>1, <2>4 DEF Working, Types
    <2>6. g \in Migrator /\ db' \in Schema /\ reported' \in BOOLEAN
      BY <1>1, <1>8, <2>5 DEF Migrator, Types
    <2>7. Types' /\ mig'[m] = g /\ \A k \in Migrators \ {m} : mig'[k] = mig[k]
      BY <1>1, <1>8, <2>2, <2>6, TypesFrame
    <2>8. Settled'
      BY <1>1, <1>8, SettledFrame
    <2>9. IF pending = {} THEN Commits(g) ELSE Advances(g) \/ Collides(g)
      BY <1>5, <1>6, <1>7, <1>10, <2>3, StartAgrees
    <2>10. InvocationAgrees(g)
      BY <1>5, <2>3 DEF InvocationAgrees
    <2>11. ASSUME NEW k \in Migrators
           PROVE  MigratorAgrees(k)'
      <3>1. CASE k = m
        <4>1. Drained' = Drained /\ Complete' = Complete
          BY <1>8, Rigid DEF Drained, Complete
        <4>2. /\ InvocationAgrees(g)' = InvocationAgrees(g) /\ Advances(g)' = Advances(g)
              /\ Collides(g)' = Collides(g) /\ Commits(g)' = Commits(g)
          BY <1>8, <4>1, Rigid DEF InvocationAgrees, Advances, Collides, Commits
        <4> QED BY <1>3, <2>2, <2>3, <2>7, <2>9, <2>10, <3>1, <4>2 DEF MigratorAgrees
      <3>2. CASE k # m
        BY <1>3, <1>8, <2>7, <3>2, OthersWait
      <3> QED BY <3>1, <3>2
    <2> QED BY <2>7, <2>8, <2>11 DEF MigrationInvariant
  <1> QED BY <1>9, <1>10

\* The lock's holder goes on.
LEMMA HolderStep ==
  ASSUME MigrationInvariant, NEW m \in Migrators, lock = m, lock' = lock,
         UNCHANGED <<adapter, writers, reported>>, db' \in Schema, Settled',
         NEW g \in Working, mig' = [mig EXCEPT ![m] = g], InvocationAgrees(g),
         g.pc = "run" => Advances(g)',
         g.pc = "finish" => Commits(g)'
  PROVE  MigrationInvariant'
  <1>1. Types /\ \A k \in Migrators : MigratorAgrees(k)
    BY DEF MigrationInvariant
  <1>2. g \in Migrator /\ reported' \in BOOLEAN
    BY <1>1 DEF Migrator, Types
  <1>3. Types' /\ mig'[m] = g /\ \A k \in Migrators \ {m} : mig'[k] = mig[k]
    BY <1>1, <1>2, TypesFrame
  <1>4. ASSUME NEW k \in Migrators
        PROVE  MigratorAgrees(k)'
    <2>1. CASE k = m
      <3>1. InvocationAgrees(g)'
        BY Rigid DEF InvocationAgrees, Drained
      <3>2. g.pc \in {"run", "finish"}
        BY DEF Working
      <3> QED BY <1>3, <2>1, <3>1, <3>2 DEF MigratorAgrees
    <2>2. CASE k # m
      BY <1>3, <2>2, OthersWait
    <2> QED BY <2>1, <2>2
  <1> QED BY <1>3, <1>4 DEF MigrationInvariant

\* The statements of a migration, and the row that records it.
LEMMA StatementsOf ==
  ASSUME adapter \in AllAdapters, NEW v \in Versions
  PROVE  /\ Len(Packaged[adapter][v]) \in Nat
         /\ Len(Statements(v)) = Len(Packaged[adapter][v]) + 1
         /\ \A i \in 1..Len(Packaged[adapter][v]) :
              Statements(v)[i] = Packaged[adapter][v][i] /\ Statements(v)[i].op # "record"
         /\ Statements(v)[Len(Packaged[adapter][v]) + 1] = [op |-> "record", ver |-> v]
  <1>1. PICK a \in AllAdapters : a = adapter
    OBVIOUS
  <1>2. v \in 1..Len(Packaged[a])
    BY <1>1 DEF Versions, Latest
  <1>3. PICK s \in Seq(Statement) : s = Packaged[adapter][v] /\ \A i \in 1..Len(s) : s[i].op # "record"
    BY <1>1, <1>2, ScriptsOf
  <1>4. PICK r : r = [op |-> "record", ver |-> v]
    OBVIOUS
  <1> DEFINE S == Statement \union {r}
  <1>5. s \in Seq(S) /\ <<r>> \in Seq(S)
    <2>1. Statement \subseteq S /\ r \in S
      OBVIOUS
    <2> HIDE DEF S
    <2> QED BY <2>1, SeqMonotone
  <1> HIDE DEF S
  <1>6. PICK t \in Seq(S) : t = <<r>> /\ Len(t) = 1 /\ t[1] = r
    BY <1>5
  <1>7. Statements(v) = s \o t
    BY <1>3, <1>4, <1>6 DEF Statements
  <1>8. /\ Len(s \o t) = Len(s) + Len(t)
        /\ \A i \in 1..Len(s) : (s \o t)[i] = s[i]
        /\ \A i \in 1..Len(t) : (s \o t)[Len(s) + i] = t[i]
    BY <1>5, Concatenation
  <1>9. (s \o t)[Len(s) + 1] = r
    BY <1>6, <1>8
  <1>10. Len(s) \in Nat
    OBVIOUS
  <1> QED BY <1>3, <1>4, <1>6, <1>7, <1>8, <1>9, <1>10

\* Where a statement leaves its migrator.
Onward(g, v, after) ==
  LET last == g.next = Len(Statements(v))
      rest == IF last THEN g.pending \ {v} ELSE g.pending
  IN  [g EXCEPT !.pc = IF rest = {} THEN "finish" ELSE "run", !.pending = rest,
                !.next = IF last THEN 1 ELSE g.next + 1,
                !.work = IF Transactional THEN after ELSE g.work]

Written(s, v, seen) ==
  IF s.op = "record" THEN [seen EXCEPT !.history = Append(seen.history, Row(v))]
  ELSE [seen EXCEPT !.catalog = After(s, seen.catalog)]

\* A statement fails, or changes what its migrator sees.
LEMMA ExecuteCases ==
  ASSUME NEW m, Execute(m), NEW g, g = mig[m], NEW v, v = FirstOf(g.pending),
         NEW s, s = Statements(v)[g.next],
         NEW seen, seen = IF Transactional THEN g.work ELSE db
  PROVE  /\ UNCHANGED <<adapter, retired, writers, reported, faults>>
         /\ g.pc = "run"
         /\ \/ Fail(m) /\ UNCHANGED <<db, grants>>
            \/ /\ s.op # "record" => Executes(s, seen.catalog)
               /\ mig' = [mig EXCEPT ![m] = Onward(g, v, Written(s, v, seen))]
               /\ db' = IF Transactional THEN db ELSE Written(s, v, seen)
               /\ grants' = Revoked(s)
               /\ lock' = lock
  BY DEF Execute, Onward, Written

\* To the next statement, or to the next migration after the row.
LEMMA OnwardFacts ==
  ASSUME adapter \in AllAdapters, NEW g \in Working, NEW v \in Versions, g.pending = v..Latest,
         g.next \in 1..(Len(Packaged[adapter][v]) + 1), NEW after \in Schema,
         NEW h, h = Onward(g, v, after)
  PROVE  /\ h \in Working /\ h.from = g.from /\ h.quiesced = g.quiesced
         /\ h.work = IF Transactional THEN after ELSE g.work
         /\ g.next # Len(Packaged[adapter][v]) + 1 =>
              h.pc = "run" /\ h.pending = g.pending /\ h.next = g.next + 1
         /\ g.next = Len(Packaged[adapter][v]) + 1 =>
              /\ h.pc = IF v = Latest THEN "finish" ELSE "run"
              /\ h.pending = (v + 1)..Latest /\ h.next = 1
  <1>1. Latest \in Nat /\ v \in 1..Latest
    BY Sizes DEF Versions
  <1>2. PICK N \in Nat : N = Len(Packaged[adapter][v]) /\ Len(Statements(v)) = N + 1
    BY StatementsOf
  <1>3. PICK rest : rest = IF g.next = N + 1 THEN g.pending \ {v} ELSE g.pending
    OBVIOUS
  <1>4. (g.next = N + 1 => rest = (v + 1)..Latest) /\ (g.next # N + 1 => rest = v..Latest)
    <2>1. (v..Latest) \ {v} = (v + 1)..Latest
      BY ONLY <1>1
    <2> QED BY ONLY <1>3, <2>1, g.pending = v..Latest
  <1>5. (rest = {}) <=> (g.next = N + 1 /\ v = Latest)
    <2>1. v \in v..Latest
      BY <1>1
    <2>2. v = Latest => (v + 1)..Latest = {}
      BY <1>1
    <2>3. v # Latest => v + 1 \in (v + 1)..Latest
      BY <1>1
    <2> QED BY <1>4, <2>1, <2>2, <2>3
  <1>6. rest \in SUBSET Nat
    BY <1>1, <1>4
  <1>7. g.next \in Nat /\ g.next + 1 \in Nat
    BY <1>2
  <1>8. h = [g EXCEPT !.pc = IF rest = {} THEN "finish" ELSE "run", !.pending = rest,
                      !.next = IF g.next = N + 1 THEN 1 ELSE g.next + 1,
                      !.work = IF Transactional THEN after ELSE g.work]
    BY <1>2, <1>3 DEF Onward
  <1>9. PICK at \in {"run", "finish"} : at = IF rest = {} THEN "finish" ELSE "run"
    OBVIOUS
  <1>10. PICK next \in Nat : next = IF g.next = N + 1 THEN 1 ELSE g.next + 1
    BY <1>7
  <1>11. PICK work \in Schema : work = IF Transactional THEN after ELSE g.work
    BY DEF Working
  <1>12. h = [g EXCEPT !.pc = at, !.pending = rest, !.next = next, !.work = work]
    BY ONLY <1>8, <1>9, <1>10, <1>11
  <1>13. /\ h \in Working /\ h.from = g.from /\ h.quiesced = g.quiesced
         /\ h.pc = at /\ h.pending = rest /\ h.next = next /\ h.work = work
    BY ONLY <1>6, <1>12, g \in Working, at \in {"run", "finish"}, next \in Nat, work \in Schema
       DEF Working
  <1> QED BY <1>2, <1>4, <1>5, <1>9, <1>10, <1>11, <1>13

\* A transaction builds the next catalog from the last.
LEMMA TransactionAdvances ==
  ASSUME adapter \in AllAdapters, Transactional, NEW g \in Working, Advances(g),
         NEW v, v = FirstOf(g.pending), NEW s, s = Statements(v)[g.next],
         NEW h, h = Onward(g, v, Written(s, v, g.work))
  PROVE  /\ h \in Working /\ h.from = g.from /\ h.quiesced = g.quiesced
         /\ h.pc = "run" => Advances(h)
         /\ h.pc = "finish" => Commits(h)
  <1>1. Latest \in Nat /\ Versions = 1..Latest
    BY Sizes DEF Versions
  <1>2. PICK w \in Versions :
          /\ g.pending = w..Latest
          /\ g.next \in 1..(Len(Packaged[adapter][w]) + 1)
          /\ Drained
          /\ \E n \in 0..(w - 1) : db.history = Ours(n)
          /\ g.work = [history |-> Ours(w - 1),
                       catalog |-> Prefix(Packaged[adapter][w], CatalogAt(w - 1))[g.next - 1]]
    BY DEF Advances
  <1>3. v = w
    BY <1>1, <1>2, FirstOfRange
  <1>4. PICK p : p = Packaged[adapter][w]
    OBVIOUS
  <1>5. PICK N \in Nat : N = Len(p)
    BY <1>2, <1>4, StatementsOf
  <1>6. PICK c : c = CatalogAt(w - 1)
    OBVIOUS
  <1>7. /\ Prefix(p, c)[0] = c
        /\ \A i \in 1..N : Prefix(p, c)[i] = After(p[i], Prefix(p, c)[i - 1])
        /\ Applied(p, c) = Prefix(p, c)[N]
    BY <1>5, PrefixEquation
  <1>8. CatalogAt(w) = Applied(p, c) /\ c \in [Objects -> Nat] /\ CatalogAt(w) \in [Objects -> Nat]
    BY <1>1, <1>4, <1>6, CatalogFacts
  <1>9. PICK before : before = Prefix(p, c)[g.next - 1]
    OBVIOUS
  <1>10. g.work = [history |-> Ours(w - 1), catalog |-> before]
    BY <1>2, <1>4, <1>6, <1>9
  <1>11. w \in Nat /\ w >= 1 /\ w - 1 \in Nat
    BY <1>1
  <1>12. CASE g.next # N + 1
    <2>1. g.next \in 1..N
      BY <1>2, <1>4, <1>5, <1>12
    <2>2. s = p[g.next] /\ s.op # "record"
      <3>1. \A i \in 1..N : Statements(w)[i] = p[i] /\ Statements(w)[i].op # "record"
        BY <1>4, <1>5, StatementsOf
      <3> QED BY <1>3, <2>1, <3>1
    <2>3. PICK after : after = [history |-> Ours(w - 1), catalog |-> After(s, before)]
      OBVIOUS
    <2>4. Written(s, v, g.work) = after
      BY <1>10, <2>2, <2>3 DEF Written
    <2>5. After(s, before) = Prefix(p, c)[g.next]
      BY <1>7, <1>9, <2>1, <2>2
    <2>6. after \in Schema
      <3>1. Prefix(p, c)[g.next] \in [Objects -> Nat]
        <4>1. PICK a \in AllAdapters : a = adapter
          OBVIOUS
        <4>2. w \in 1..Len(Packaged[a])
          BY <4>1 DEF Versions, Latest
        <4>3. p \in Seq(Statement) /\ \A i \in 1..Len(p) : p[i].obj \in Objects
          BY <1>4, <4>1, <4>2, ScriptsOf, CatalogFacts
        <4>4. \A i \in 0..Len(p) : Prefix(p, c)[i] \in [Objects -> Nat]
          BY <1>8, <4>3, PrefixType
        <4> QED BY <1>5, <2>1, <4>4
      <3>2. Ours(w - 1) \in Seq(HistoryRow)
        BY <1>11, OursFacts
      <3> QED BY <2>3, <2>5, <3>1, <3>2 DEF Schema
    <2>7. /\ h \in Working /\ h.from = g.from /\ h.quiesced = g.quiesced
          /\ h.work = after /\ h.pc = "run" /\ h.pending = g.pending /\ h.next = g.next + 1
      <3>1. /\ h = Onward(g, w, after) /\ g.pending = w..Latest
            /\ g.next \in 1..(Len(Packaged[adapter][w]) + 1)
            /\ g.next # Len(Packaged[adapter][w]) + 1
        BY <1>2, <1>3, <1>4, <1>5, <1>12, <2>4
      <3> QED BY <2>6, <3>1, OnwardFacts
    <2>8. h.next \in 1..(N + 1) /\ h.next - 1 = g.next
      BY <2>1, <2>7
    <2>9. Advances(h)
      <3>1. /\ h.pending = w..Latest
            /\ h.next \in 1..(Len(Packaged[adapter][w]) + 1)
            /\ h.work = [history |-> Ours(w - 1),
                         catalog |-> Prefix(Packaged[adapter][w], CatalogAt(w - 1))[h.next - 1]]
        BY <1>2, <1>4, <1>5, <1>6, <2>3, <2>5, <2>7, <2>8
      <3> QED BY <1>2, <3>1 DEF Advances
    <2> QED BY <2>7, <2>9
  <1>13. CASE g.next = N + 1
    <2>1. s = [op |-> "record", ver |-> v]
      BY <1>3, <1>4, <1>5, <1>13, StatementsOf
    <2>2. before = CatalogAt(w)
      BY <1>7, <1>8, <1>9, <1>13
    <2>3. PICK after : after = [history |-> Ours(w), catalog |-> CatalogAt(w)]
      OBVIOUS
    <2>4. Append(Ours(w - 1), Row(w)) = Ours(w)
      BY <1>11, OursAppend
    <2>5. Written(s, v, g.work) = after
      <3>1. PICK seen : seen = g.work
        OBVIOUS
      <3>2. PICK past : past = Ours(w - 1)
        OBVIOUS
      <3>3. seen = [history |-> past, catalog |-> before] /\ Append(past, Row(v)) = Ours(w)
        BY ONLY <1>3, <1>10, <2>4, <3>1, <3>2
      <3>4. [seen EXCEPT !.history = Append(seen.history, Row(v))]
              = [history |-> Ours(w), catalog |-> before]
        BY ONLY <3>3
      <3>5. s.op = "record"
        BY ONLY <2>1
      <3> QED BY ONLY <2>2, <2>3, <3>1, <3>4, <3>5 DEF Written
    <2>6. after \in Schema
      BY <1>8, <1>11, <2>3, OursFacts DEF Schema
    <2>7. /\ h \in Working /\ h.from = g.from /\ h.quiesced = g.quiesced /\ h.work = after
          /\ h.pc = (IF w = Latest THEN "finish" ELSE "run")
          /\ h.pending = (w + 1)..Latest /\ h.next = 1
      BY <1>2, <1>3, <1>4, <1>5, <1>13, <2>5, <2>6, OnwardFacts
    <2>8. CASE w = Latest
      <3>1. \E n \in 0..(Latest - 1) : db.history = Ours(n)
        BY <1>2, <2>8
      <3>2. Commits(h)
        BY <1>2, <2>3, <2>7, <2>8, <3>1 DEF Commits
      <3> QED BY <2>7, <2>8, <3>2
    <2>9. CASE w # Latest
      <3>1. PICK u \in Versions : u = w + 1 /\ u - 1 = w
        BY <1>1, <2>9
      <3>2. PICK q : q = Packaged[adapter][u]
        OBVIOUS
      <3>3. Len(q) \in Nat
        BY <3>2, StatementsOf
      <3>4. Prefix(q, CatalogAt(w))[0] = CatalogAt(w)
        BY <3>3, PrefixEquation
      <3>5. h.next \in 1..(Len(q) + 1) /\ h.next - 1 = 0
        BY <2>7, <3>3
      <3>6. \E n \in 0..(u - 1) : db.history = Ours(n)
        BY <1>1, <1>2, <3>1
      <3>7. h.work = [history |-> Ours(u - 1),
                      catalog |-> Prefix(Packaged[adapter][u], CatalogAt(u - 1))[h.next - 1]]
        BY <2>3, <2>7, <3>1, <3>2, <3>4, <3>5
      <3>8. Advances(h)
        BY <1>2, <2>7, <3>1, <3>2, <3>5, <3>6, <3>7 DEF Advances
      <3> QED BY <2>7, <2>9, <3>8
    <2> QED BY <2>8, <2>9
  <1> QED BY <1>12, <1>13

\* While MySQL is being migrated nobody writes, and what holds is what a record promises.
LEMMA MySQLSettles ==
  ASSUME MigrationInvariant, adapter = "mysql", UNCHANGED <<adapter, writers>>, Drained,
         NEW v \in Versions, db.history = Ours(v - 1), DataAgrees'
  PROVE  Settled'
  <1>1. Latest = 4 /\ Versions = 1..4 /\ ~Single /\ ~Transactional
    BY Sizes DEF AllAdapters, Versions, Single, Transactional
  <1>2. \A lane \in Lanes : writers[lane] # "new"
    <2>1. SUFFICES ASSUME NEW lane \in Lanes, writers[lane] = "new" PROVE FALSE
      OBVIOUS
    <2>2. db.history = Ours(Latest)
      BY <1>1, <2>1 DEF MigrationInvariant, Settled, NewWritersAgree, Complete
    <2>3. v - 1 \in Nat /\ Latest \in Nat /\ v - 1 # Latest
      BY <1>1
    <2> QED BY <2>2, <2>3, OursInjective
  <1>3. ~Single' /\ ~Transactional' /\ adapter' = "mysql" /\ Drained'
    BY <1>1, Rigid DEF Drained
  <1>4. CatalogAgrees'
    BY <1>3 DEF CatalogAgrees
  <1>5. OldWritersAgree'
    BY <1>3 DEF OldWritersAgree
  <1>6. NewWritersAgree'
    BY <1>2 DEF NewWritersAgree
  <1>7. ReportsAgree'
    BY <1>3 DEF ReportsAgree
  <1> QED BY <1>4, <1>5, <1>6, <1>7 DEF Settled

\* MySQL commits each statement, and the row when all have been executed.
LEMMA MySQLAdvances ==
  ASSUME MigrationInvariant, adapter = "mysql", UNCHANGED <<adapter, writers>>,
         NEW g \in Working, Advances(g),
         NEW v, v = FirstOf(g.pending), NEW s, s = Statements(v)[g.next],
         db' = Written(s, v, db), NEW h, h = Onward(g, v, Written(s, v, db))
  PROVE  /\ h \in Working /\ h.from = g.from /\ h.quiesced = g.quiesced
         /\ db' \in Schema /\ Settled'
         /\ h.pc = "run" => Advances(h)'
         /\ h.pc = "finish" => Commits(h)'
  <1>1. /\ adapter \in AllAdapters /\ Latest = 4 /\ Versions = 1..4
        /\ ~Single /\ ~Transactional /\ Types /\ DataAgrees
    BY Sizes DEF AllAdapters, Versions, Single, Transactional, MigrationInvariant, Settled
  <1>2. PICK w \in Versions :
          /\ g.pending = w..Latest
          /\ g.next \in 1..(Len(Packaged[adapter][w]) + 1)
          /\ Drained
          /\ db.history = Ours(w - 1)
          /\ \A j \in 1..(g.next - 1) :
               Packaged[adapter][w][j].obj \in Unasserted =>
                 db.catalog[Packaged[adapter][w][j].obj] = Packaged[adapter][w][j].ver
    BY <1>1 DEF Advances
  <1>3. v = w
    <2>1. w \in Nat /\ Latest \in Nat /\ w <= Latest
      BY <1>1
    <2> QED BY <1>2, <2>1, FirstOfRange
  <1>4. PICK p : p = Packaged[adapter][w]
    OBVIOUS
  <1>5. PICK N \in Nat : N = Len(p)
    BY <1>1, <1>2, <1>4, StatementsOf
  <1>6. PICK hist, cat : /\ db = [history |-> hist, catalog |-> cat]
                         /\ hist \in Seq(HistoryRow) /\ cat \in [Objects -> Nat]
    BY <1>1 DEF Types, Schema
  <1>7. hist = Ours(w - 1) /\ w \in Nat /\ w >= 1 /\ w - 1 \in Nat
    BY <1>1, <1>2, <1>6
  <1>8. /\ Unasserted \subseteq Objects
        /\ \A i \in 1..N : p[i].obj \in Unasserted => w = 2 /\ p[i].ver = 2 /\ p[i].op # "ensure"
        /\ w = 2 => \A o \in Unasserted : \E i \in 1..N : p[i].obj = o
    BY <1>1, <1>4, <1>5, MySQLData
  <1>9. ASSUME NEW o \in Unasserted PROVE CatalogAt(Latest)[o] = 2
    BY <1>9, DataCatalog
  <1>10. ASSUME NEW n \in 2..Latest, Ours(w - 1) = Ours(n)
         PROVE  w >= 3 /\ \A o \in Unasserted : cat[o] = CatalogAt(Latest)[o]
    <2>1. n \in Nat
      BY <1>1
    <2>2. w - 1 = n
      BY <1>7, <1>10, <2>1, OursInjective
    <2>3. \A o \in Unasserted : db.catalog[o] = CatalogAt(Latest)[o]
      BY <1>1, <1>2, <1>10 DEF DataAgrees
    <2> QED BY <1>1, <1>6, <2>2, <2>3
  <1>11. Latest' = Latest /\ Versions' = Versions /\ Drained' /\ ~Transactional' /\ adapter' = "mysql"
    BY <1>1, <1>2, Rigid DEF Drained
  <1>12. \A o : CatalogAt(Latest)'[o] = CatalogAt(Latest)[o]
    BY Rigid DEF CatalogAt, Latest
  <1>13. CASE g.next # N + 1
    <2>1. g.next \in 1..N
      BY <1>2, <1>4, <1>5, <1>13
    <2>2. s = p[g.next] /\ s.op # "record"
      <3>1. \A i \in 1..N : Statements(w)[i] = p[i] /\ Statements(w)[i].op # "record"
        <4>1. \A i \in 1..Len(Packaged[adapter][w]) :
                Statements(w)[i] = Packaged[adapter][w][i] /\ Statements(w)[i].op # "record"
          BY ONLY <1>1, w \in Versions, StatementsOf
        <4> QED BY ONLY <1>4, <1>5, <4>1
      <3> QED BY <1>3, <2>1, <3>1
    <2>3. s \in Statement /\ s.obj \in Objects
      <3>1. PICK a \in AllAdapters : a = adapter
        BY <1>1
      <3>2. w \in 1..Len(Packaged[a])
        BY <1>2, <3>1 DEF Versions, Latest
      <3>3. \A i \in 1..Len(p) : p[i] \in Statement /\ p[i].obj \in Objects
        BY <1>1, <1>4, <3>1, <3>2, ScriptsOf, CatalogFacts
      <3> QED BY <1>5, <2>1, <2>2, <3>3
    <2>4. PICK new : new = After(s, cat)
      OBVIOUS
    <2>5. /\ new \in [Objects -> Nat]
          /\ \A o \in Objects : o # s.obj => new[o] = cat[o]
          /\ s.op # "ensure" => new[s.obj] = s.ver
      BY <1>6, <2>3, <2>4, AfterType
    <2>6. PICK after : after = [history |-> hist, catalog |-> new]
      OBVIOUS
    <2>7. Written(s, v, db) = after /\ after \in Schema
      BY <1>6, <2>2, <2>4, <2>5, <2>6 DEF Written, Schema
    <2>8. db' = after /\ db'.history = hist /\ db'.catalog = new /\ db' \in Schema
      BY <2>6, <2>7
    <2>9. /\ h \in Working /\ h.from = g.from /\ h.quiesced = g.quiesced
          /\ h.pc = "run" /\ h.pending = g.pending /\ h.next = g.next + 1
      <3>1. /\ h = Onward(g, w, after) /\ g.pending = w..Latest
            /\ g.next \in 1..(Len(Packaged[adapter][w]) + 1)
            /\ g.next # Len(Packaged[adapter][w]) + 1
        BY <1>2, <1>3, <1>4, <1>5, <1>13, <2>7
      <3>2. adapter \in AllAdapters /\ after \in Schema
        BY <1>1, <2>7
      <3> QED BY ONLY g \in Working, w \in Versions, <3>1, <3>2, OnwardFacts
    <2>10. s.obj \in Unasserted => w = 2 /\ s.ver = 2 /\ s.op # "ensure"
      BY <1>8, <2>1, <2>2
    <2>11. DataAgrees'
      <3>1. SUFFICES ASSUME NEW n \in 2..Latest, db'.history = Ours(n), NEW o \in Unasserted
                     PROVE  db'.catalog[o] = CatalogAt(Latest)[o]
        BY <1>11, <1>12 DEF DataAgrees
      <3>2. w >= 3 /\ cat[o] = CatalogAt(Latest)[o]
        BY <1>7, <1>10, <2>8, <3>1
      <3>3. s.obj # o /\ o \in Objects
        BY <1>8, <2>10, <3>2
      <3> QED BY <2>5, <2>8, <3>2, <3>3
    <2>12. Settled'
      BY <1>2, <2>11, MySQLSettles
    <2>13. ASSUME NEW j \in 1..(h.next - 1), p[j].obj \in Unasserted
           PROVE  db'.catalog[p[j].obj] = p[j].ver
      <3>1. j \in 1..N /\ (j = g.next \/ j \in 1..(g.next - 1))
        BY <2>1, <2>9
      <3>2. p[j].ver = 2 /\ p[j].obj \in Objects
        BY <1>8, <2>13, <3>1
      <3>3. CASE p[j].obj = s.obj
        BY <2>5, <2>8, <2>10, <2>13, <3>2, <3>3
      <3>4. CASE p[j].obj # s.obj
        <4>1. j \in 1..(g.next - 1)
          BY <2>2, <3>1, <3>4
        <4>2. cat[p[j].obj] = p[j].ver
          BY <1>2, <1>4, <1>6, <2>13, <4>1
        <4> QED BY <2>5, <2>8, <3>2, <3>4, <4>2
      <3> QED BY <3>3, <3>4
    <2>14. h.next \in 1..(N + 1)
      BY <2>1, <2>9
    <2>15. Advances(h)'
      <3>1. /\ h.pending = w..Latest' /\ w \in Versions'
            /\ h.next \in 1..(Len(Packaged[adapter'][w]) + 1)
            /\ db'.history = Ours(w - 1)
        BY <1>2, <1>4, <1>5, <1>7, <1>11, <2>8, <2>9, <2>14
      <3>2. \A j \in 1..(h.next - 1) :
              Packaged[adapter'][w][j].obj \in Unasserted =>
                db'.catalog[Packaged[adapter'][w][j].obj] = Packaged[adapter'][w][j].ver
        BY <1>4, <2>13
      <3> QED BY <1>11, <3>1, <3>2 DEF Advances
    <2> QED BY <2>8, <2>9, <2>12, <2>15
  <1>14. CASE g.next = N + 1
    <2>1. s = [op |-> "record", ver |-> v]
      <3>1. Statements(w)[Len(Packaged[adapter][w]) + 1] = [op |-> "record", ver |-> w]
        BY <1>1, StatementsOf
      <3> QED BY <1>3, <1>4, <1>5, <1>14, <3>1
    <2>2. PICK after : after = [history |-> Ours(w), catalog |-> cat]
      OBVIOUS
    <2>3. Append(Ours(w - 1), Row(w)) = Ours(w) /\ Ours(w) \in Seq(HistoryRow)
      BY <1>7, OursAppend, OursFacts
    <2>4. Written(s, v, db) = after /\ after \in Schema
      <3>1. s.op = "record"
        BY <2>1
      <3>2. Written(s, v, db) = [db EXCEPT !.history = Append(db.history, Row(v))]
        BY <3>1 DEF Written
      <3>3. Append(db.history, Row(v)) = Ours(w)
        BY <1>3, <1>6, <1>7, <2>3
      <3>4. Written(s, v, db) = after
        BY <1>6, <2>2, <3>2, <3>3
      <3>5. after \in Schema
        BY <1>6, <2>2, <2>3 DEF Schema
      <3> QED BY <3>4, <3>5
    <2>5. db' = after /\ db'.history = Ours(w) /\ db'.catalog = cat /\ db' \in Schema
      BY <2>2, <2>4
    <2>6. /\ h \in Working /\ h.from = g.from /\ h.quiesced = g.quiesced
          /\ h.pc = (IF w = Latest THEN "finish" ELSE "run")
          /\ h.pending = (w + 1)..Latest /\ h.next = 1
      <3>1. /\ h = Onward(g, w, after) /\ g.pending = w..Latest
            /\ g.next \in 1..(Len(Packaged[adapter][w]) + 1)
            /\ g.next = Len(Packaged[adapter][w]) + 1
        BY <1>2, <1>3, <1>4, <1>5, <1>14, <2>4
      <3>2. adapter \in AllAdapters /\ after \in Schema
        BY <1>1, <2>4
      <3> QED BY ONLY g \in Working, w \in Versions, <3>1, <3>2, OnwardFacts
    <2>7. DataAgrees'
      <3>1. SUFFICES ASSUME NEW n \in 2..Latest, db'.history = Ours(n), NEW o \in Unasserted
                     PROVE  db'.catalog[o] = CatalogAt(Latest)[o]
        BY <1>11, <1>12 DEF DataAgrees
      <3>2. n = w
        <4>1. n \in Nat /\ Ours(n) = Ours(w)
          BY <1>1, <2>5, <3>1
        <4> QED BY <1>7, <4>1, OursInjective
      <3>3. CASE w = 2
        <4>1. PICK i \in 1..N : p[i].obj = o
          BY <1>8, <3>3
        <4>2. i \in 1..(g.next - 1) /\ p[i].ver = 2
          BY <1>8, <1>14, <4>1
        <4>3. cat[o] = 2
          BY <1>2, <1>4, <1>6, <4>1, <4>2
        <4> QED BY <1>9, <2>5, <4>3
      <3>4. CASE w # 2
        <4>1. w - 1 \in 2..Latest
          BY <1>1, <3>1, <3>2, <3>4
        <4> QED BY <1>10, <2>5, <4>1
      <3> QED BY <3>3, <3>4
    <2>8. Settled'
      BY <1>2, <2>7, MySQLSettles
    <2>9. Commits(h)'
      BY <1>11 DEF Commits
    <2>10. ASSUME w # Latest PROVE Advances(h)'
      <3>1. PICK u \in Versions : u = w + 1 /\ u - 1 = w
        BY <1>1, <2>10
      <3>2. Len(Packaged[adapter][u]) \in Nat
        BY <1>1, <3>1, StatementsOf
      <3>3. h.next \in 1..(Len(Packaged[adapter][u]) + 1) /\ \A j \in 1..(h.next - 1) : FALSE
        BY <2>6, <3>2
      <3>4. /\ h.pending = u..Latest /\ db.history' = Ours(u - 1)
            /\ \A j \in 1..(h.next - 1) :
                 Packaged[adapter][u][j].obj \in Unasserted =>
                   db'.catalog[Packaged[adapter][u][j].obj] = Packaged[adapter][u][j].ver
        BY <2>5, <2>6, <3>1, <3>3
      <3> QED BY <1>11, <3>1, <3>3, <3>4 DEF Advances
    <2> QED BY <2>5, <2>6, <2>8, <2>9, <2>10
  <1> QED BY <1>13, <1>14

\* The table that a single migration would create is there.
LEMMA CollisionFails ==
  ASSUME MigrationInvariant, NEW m, Execute(m), Collides(mig[m])
  PROVE  Fail(m) /\ UNCHANGED <<db, grants>>
  <1>1. adapter \in AllAdapters /\ Transactional /\ Latest = 1 /\ Single /\ db.history # <<>>
    BY Sizes DEF MigrationInvariant, Types, Collides, Single, Transactional
  <1>2. db.catalog = CatalogAt(1)
    BY <1>1 DEF MigrationInvariant, Settled, CatalogAgrees
  <1>3. PICK g : g = mig[m]
    OBVIOUS
  <1>4. g.pending = {1} /\ g.next = 1 /\ g.work = db
    BY <1>3 DEF Collides
  <1>5. FirstOf(g.pending) = 1
    <2>1. 1..1 = {1}
      OBVIOUS
    <2>2. FirstOf(1..1) = 1
      BY FirstOfRange
    <2> QED BY <1>4, <2>1, <2>2
  <1>6. PICK s : s = Statements(1)[1]
    OBVIOUS
  <1>7. s = Create("tables", 1)
    <2>1. 1 \in Versions /\ Len(Packaged[adapter][1]) = 1 /\ Packaged[adapter][1][1] = Create("tables", 1)
      BY <1>1, SingleMigration DEF Versions
    <2>2. \A i \in 1..Len(Packaged[adapter][1]) : Statements(1)[i] = Packaged[adapter][1][i]
      BY <1>1, <2>1, StatementsOf
    <2>3. 1 \in 1..Len(Packaged[adapter][1])
      BY <2>1
    <2> QED BY <1>6, <2>1, <2>2, <2>3
  <1>8. s.op = "create" /\ s.obj = "tables"
    BY <1>7 DEF Create
  <1>9. ~Executes(s, db.catalog)
    BY <1>1, <1>2, <1>8, SingleMigration DEF Executes
  <1>10. \/ Fail(m) /\ UNCHANGED <<db, grants>>
         \/ s.op # "record" => Executes(s, db.catalog)
    <2>1. PICK v : v = FirstOf(g.pending)
      OBVIOUS
    <2>2. v = 1 /\ s = Statements(v)[g.next]
      BY <1>4, <1>5, <1>6, <2>1
    <2>3. PICK seen : seen = IF Transactional THEN g.work ELSE db
      OBVIOUS
    <2>4. seen = db
      BY <1>1, <1>4, <2>3
    <2>5. \/ Fail(m) /\ UNCHANGED <<db, grants>>
          \/ s.op # "record" => Executes(s, seen.catalog)
      BY <1>3, <2>1, <2>2, <2>3, ExecuteCases
    <2> QED BY <2>4, <2>5
  <1> QED BY <1>8, <1>9, <1>10

\* A statement is executed.
LEMMA ExecuteStep ==
  ASSUME MigrationInvariant, NEW m \in Migrators, Execute(m)
  PROVE  MigrationInvariant'
  <1>1. Types /\ Settled /\ MigratorAgrees(m) /\ adapter \in AllAdapters
    BY DEF MigrationInvariant, Types
  <1>2. PICK g : g = mig[m]
    OBVIOUS
  <1>3. PICK v : v = FirstOf(g.pending)
    OBVIOUS
  <1>4. PICK s : s = Statements(v)[g.next]
    OBVIOUS
  <1>5. PICK seen : seen = IF Transactional THEN g.work ELSE db
    OBVIOUS
  <1>6. /\ UNCHANGED <<adapter, writers, reported>>
        /\ g.pc = "run"
        /\ \/ Fail(m) /\ UNCHANGED <<db, grants>>
           \/ /\ mig' = [mig EXCEPT ![m] = Onward(g, v, Written(s, v, seen))]
              /\ db' = IF Transactional THEN db ELSE Written(s, v, seen)
              /\ grants' = Revoked(s)
              /\ lock' = lock
    BY <1>2, <1>3, <1>4, <1>5, ExecuteCases
  <1>7. g \in Working /\ lock = m /\ InvocationAgrees(g) /\ (Advances(g) \/ Collides(g))
    BY <1>1, <1>2, <1>6, MigratorCases DEF Types, MigratorAgrees
  <1>8. CASE Fail(m) /\ UNCHANGED <<db, grants>>
    BY <1>6, <1>8, FailStep
  <1>9. CASE Collides(g)
    BY <1>2, <1>6, <1>9, CollisionFails, FailStep
  <1>10. CASE Advances(g) /\ ~(Fail(m) /\ UNCHANGED <<db, grants>>)
    <2>1. PICK h : h = Onward(g, v, Written(s, v, seen))
      OBVIOUS
    <2>2. mig' = [mig EXCEPT ![m] = h] /\ lock' = lock /\ grants' = Revoked(s)
      BY <1>6, <1>10, <2>1
    <2>3. CASE Transactional
      <3>1. db' = db /\ seen = g.work
        BY <1>5, <1>6, <1>10, <2>3
      <3>2. grants' = grants
        BY <2>2, <2>3 DEF Revoked, Transactional
      <3>3. Settled' /\ db' \in Schema
        BY <1>1, <1>6, <3>1, <3>2, SettledFrame DEF Types
      <3>4. /\ h \in Working /\ h.from = g.from /\ h.quiesced = g.quiesced
            /\ h.pc = "run" => Advances(h)
            /\ h.pc = "finish" => Commits(h)
        BY <1>1, <1>3, <1>4, <1>7, <1>10, <2>1, <2>3, <3>1, TransactionAdvances
      <3>5. InvocationAgrees(h)
        BY <1>7, <3>4 DEF InvocationAgrees
      <3>6. Advances(h)' = Advances(h) /\ Commits(h)' = Commits(h)
        <4>1. Drained' = Drained /\ Complete' = Complete
          BY <1>6, <3>1, Rigid DEF Drained, Complete
        <4> QED BY <1>6, <3>1, <4>1, Rigid DEF Advances, Commits
      <3> QED BY <1>6, <1>7, <2>2, <3>3, <3>4, <3>5, <3>6, HolderStep
    <2>4. CASE ~Transactional
      <3>1. seen = db /\ db' = Written(s, v, db) /\ adapter = "mysql"
        BY <1>5, <1>6, <1>10, <2>4 DEF Transactional
      <3>2. /\ h \in Working /\ h.from = g.from /\ h.quiesced = g.quiesced
            /\ db' \in Schema /\ Settled'
            /\ h.pc = "run" => Advances(h)'
            /\ h.pc = "finish" => Commits(h)'
        BY <1>3, <1>4, <1>6, <1>7, <1>10, <2>1, <3>1, MySQLAdvances
      <3>3. InvocationAgrees(h)
        BY <1>7, <3>2 DEF InvocationAgrees
      <3> QED BY <1>6, <1>7, <2>2, <3>2, <3>3, HolderStep
    <2> QED BY <2>3, <2>4
  <1> QED BY <1>7, <1>8, <1>9, <1>10

\* A migrator that has nothing left commits, or looks at what it left, and reports.
LEMMA FinishStep ==
  ASSUME MigrationInvariant, NEW m \in Migrators, Finish(m)
  PROVE  MigrationInvariant'
  <1>1. Types /\ Settled /\ MigratorAgrees(m) /\ adapter \in AllAdapters
    BY DEF MigrationInvariant, Types
  <1>2. PICK g : g = mig[m]
    OBVIOUS
  <1>3. g \in Working /\ lock = m /\ Commits(g)
    BY <1>1, <1>2, MigratorCases DEF Types, MigratorAgrees, Finish
  <1>4. UNCHANGED <<adapter, grants, writers>> /\ mig' = [mig EXCEPT ![m] = Idle]
    BY DEF Finish, Fail
  <1>5. reported' \in BOOLEAN
    BY DEF Finish
  <1>6. Settled' /\ db' \in Schema
    <2>1. CASE ~Transactional
      <3>1. db' = db /\ ~Single
        BY <2>1 DEF Finish, Transactional, Single
      <3> QED BY <1>1, <1>4, <3>1, ReportFrame DEF Types
    <2>2. CASE Transactional /\ g.work = db /\ Complete
      <3>1. db' = db
        BY <1>2, <2>2 DEF Finish
      <3> QED BY <1>1, <1>4, <2>2, <3>1, ReportFrame DEF Types
    <2>3. CASE /\ Transactional
               /\ g.work = [history |-> Ours(Latest), catalog |-> CatalogAt(Latest)]
               /\ \E n \in 0..(Latest - 1) : db.history = Ours(n)
               /\ Drained
      <3>1. db' = g.work /\ db' \in Schema
        BY <1>2, <1>3, <2>3 DEF Finish, Working
      <3>2. db'.history = Ours(Latest) /\ db'.catalog = CatalogAt(Latest) /\ Latest \in Nat /\ Latest >= 1
        BY <1>1, <2>3, <3>1, Sizes
      <3>3. PICK n \in 0..(Latest - 1) : db.history = Ours(n)
        BY <2>3
      <3>4. ~Complete
        <4>1. n \in Nat /\ n # Latest
          BY <3>2, <3>3
        <4>2. CASE Single
          <5>1. n = 0
            BY <1>1, <3>3, <4>2, Sizes
          <5>2. db.history = <<>>
            BY <3>3, <5>1, OursFacts
          <5> QED BY <4>2, <5>2 DEF Complete
        <4>3. CASE ~Single
          BY <3>2, <3>3, <4>1, <4>3, OursInjective DEF Complete
        <4> QED BY <4>2, <4>3
      <3>5. \A lane \in Lanes : writers[lane] # "new"
        BY <1>1, <3>4 DEF Settled, NewWritersAgree
      <3>6. Complete'
        <4>1. Ours(Latest) # <<>>
          BY <3>2, OursFacts
        <4> QED BY <1>4, <3>2, <4>1, Rigid DEF Complete
      <3>7. CatalogAgrees'
        <4>1. ASSUME NEW k \in 0..Latest, db'.history = Ours(k) PROVE k = Latest
          <5>1. k \in Nat /\ Latest \in Nat /\ Ours(k) = Ours(Latest)
            BY <3>2, <4>1
          <5> QED BY ONLY <5>1, OursInjective
        <4>2. \A k \in 0..Latest : db'.history = Ours(k) => db'.catalog = CatalogAt(k)
          BY <3>2, <4>1
        <4> QED BY <1>4, <3>2, <4>2, Rigid DEF CatalogAgrees
      <3>8. DataAgrees'
        BY <1>4, <2>3 DEF DataAgrees, Transactional
      <3>9. OldWritersAgree'
        BY <1>4, <2>3 DEF OldWritersAgree, Drained
      <3>10. NewWritersAgree'
        BY <1>4, <3>5 DEF NewWritersAgree
      <3>11. ReportsAgree'
        BY <1>1, <1>4, <3>6 DEF ReportsAgree, Settled
      <3> QED BY <3>1, <3>7, <3>8, <3>9, <3>10, <3>11 DEF Settled
    <2> QED BY <1>3, <2>1, <2>2, <2>3 DEF Commits
  <1>7. Types' /\ mig'[m] = Idle /\ \A k \in Migrators \ {m} : mig'[k] = mig[k]
    <2>1. PICK h \in Migrator : h = Idle
      BY DEF Migrator
    <2> QED BY <1>1, <1>4, <1>5, <1>6, <2>1, TypesFrame
  <1>8. ASSUME NEW k \in Migrators
        PROVE  MigratorAgrees(k)'
    <2>1. CASE k = m
      <3>1. mig'[k].pc = "idle"
        BY <1>7, <2>1 DEF Idle
      <3> QED BY <3>1 DEF MigratorAgrees
    <2>2. CASE k # m
      BY <1>3, <1>4, <1>7, <2>2, OthersWait
    <2> QED BY <2>1, <2>2
  <1> QED BY <1>6, <1>7, <1>8 DEF MigrationInvariant

\* What a migrator relies on survives writers that stop and new ones that start.
LEMMA WritersMigrator ==
  ASSUME NEW k, MigratorAgrees(k), UNCHANGED <<adapter, db, lock, mig>>, Drained => Drained'
  PROVE  MigratorAgrees(k)'
  <1>1. PICK g : g = mig[k]
    OBVIOUS
  <1>2. InvocationAgrees(g) => InvocationAgrees(g)'
    BY Rigid DEF InvocationAgrees
  <1>3. Advances(g) => Advances(g)'
    BY Rigid DEF Advances
  <1>4. Collides(g)' = Collides(g)
    BY Rigid DEF Collides
  <1>5. Complete' = Complete
    BY Rigid DEF Complete
  <1>6. Commits(g) => Commits(g)'
    BY <1>5, Rigid DEF Commits
  <1> QED BY <1>1, <1>2, <1>3, <1>4, <1>6 DEF MigratorAgrees

\* The old writers are stopped.
LEMMA DrainStep ==
  ASSUME MigrationInvariant, Drain
  PROVE  MigrationInvariant'
  <1>1. Types /\ Settled /\ \A k \in Migrators : MigratorAgrees(k)
    BY DEF MigrationInvariant
  <1>2. UNCHANGED <<adapter, db, grants, lock, mig, reported>>
    BY DEF Drain
  <1>3. \A lane \in Lanes : writers'[lane] = IF writers[lane] = "new" THEN "new" ELSE None
    BY DEF Drain
  <1>4. Drained'
    BY <1>3 DEF Drained, None
  <1>5. Types'
    BY <1>1, <1>2, Rigid DEF Types, Drain
  <1>6. Complete' = Complete
    BY <1>2, Rigid DEF Complete
  <1>7. CatalogAgrees' /\ DataAgrees' /\ ReportsAgree'
    BY <1>1, <1>2, <1>6, Rigid DEF Settled, CatalogAgrees, DataAgrees, ReportsAgree
  <1>8. OldWritersAgree'
    BY <1>4 DEF OldWritersAgree
  <1>9. NewWritersAgree'
    <2>1. \A lane \in Lanes : writers'[lane] = "new" => writers[lane] = "new"
      BY <1>3 DEF None
    <2> QED BY <1>1, <1>2, <1>6, <2>1, Rigid DEF Settled, NewWritersAgree
  <1>10. \A k \in Migrators : MigratorAgrees(k)'
    BY <1>1, <1>2, <1>4, WritersMigrator
  <1> QED BY <1>5, <1>7, <1>8, <1>9, <1>10 DEF MigrationInvariant, Settled

\* Retired proposals are repaired.
LEMMA RemediateStep ==
  ASSUME MigrationInvariant, Remediate
  PROVE  MigrationInvariant'
  <1>1. Types /\ Settled /\ \A k \in Migrators : MigratorAgrees(k)
    BY DEF MigrationInvariant
  <1>2. UNCHANGED <<adapter, db, grants, lock, mig, writers, reported>>
    BY DEF Remediate
  <1>3. Types'
    BY <1>1, <1>2, Rigid DEF Types
  <1>4. Settled'
    BY <1>1, <1>2, SettledFrame
  <1>5. \A k \in Migrators : MigratorAgrees(k)'
    BY <1>1, <1>2, SameMigrator
  <1> QED BY <1>3, <1>4, <1>5 DEF MigrationInvariant

\* The lanes are granted their routines.
LEMMA RenderGrantsStep ==
  ASSUME MigrationInvariant, RenderGrants
  PROVE  MigrationInvariant'
  <1>1. Types /\ Settled /\ \A k \in Migrators : MigratorAgrees(k)
    BY DEF MigrationInvariant
  <1>2. UNCHANGED <<adapter, db, lock, mig, writers, reported>>
    BY DEF RenderGrants
  <1>3. adapter \in {"postgresql", "mysql"}
    BY DEF RenderGrants, Granted
  <1>4. Types'
    BY <1>1, <1>2, Rigid DEF Types
  <1>5. Complete' = Complete /\ Drained' = Drained
    BY <1>2, Rigid DEF Complete, Drained
  <1>6. CatalogAgrees' /\ DataAgrees' /\ OldWritersAgree'
    BY <1>1, <1>2, <1>5, Rigid DEF Settled, CatalogAgrees, DataAgrees, OldWritersAgree
  <1>7. NewWritersAgree'
    <2>1. \A lane \in Lanes : grants'[lane] = Granted(lane)
      BY DEF RenderGrants
    <2> QED BY <1>1, <1>2, <1>5, <2>1, Rigid DEF Settled, NewWritersAgree
  <1>8. ReportsAgree'
    BY <1>1, <1>2, <1>3, <1>5, Rigid DEF Settled, ReportsAgree
  <1>9. \A k \in Migrators : MigratorAgrees(k)'
    BY <1>1, <1>2, SameMigrator
  <1> QED BY <1>4, <1>6, <1>7, <1>8, <1>9 DEF MigrationInvariant, Settled

\* The readiness gate opens only on the last migration.
LEMMA ReadyIsCurrent ==
  ASSUME MigrationInvariant, NEW lane \in Lanes, Ready(lane)
  PROVE  Complete /\ db.catalog = CatalogAt(Latest) /\ grants[lane] = Granted(lane)
  <1>1. Types /\ Settled /\ adapter \in AllAdapters /\ Latest \in Nat /\ Latest >= 1
    BY Sizes DEF MigrationInvariant, Types
  <1>2. ASSUME adapter \in {"postgresql", "mysql", "sqlite"}, NoPending
        PROVE  db.history = Ours(Latest) /\ Complete
    <2>1. PICK rows \in Seq(HistoryRow) : rows = db.history
      BY <1>1 DEF Types, Schema
    <2>2. PICK n \in 0..Latest : rows = Ours(n)
      BY <1>2, <2>1, AcceptedHistory DEF NoPending
    <2>3. (n + 1)..Latest = {}
      BY <1>1, <1>2, <2>1, <2>2, PendingOfOurs DEF NoPending
    <2>4. n = Latest
      BY <1>1, <2>3
    <2> QED BY <1>2, <2>1, <2>2, <2>4 DEF Complete, Single
  <1>3. CASE adapter = "postgresql"
    <2>1. NoPending /\ grants[lane] = Granted(lane)
      BY <1>3 DEF Ready, PostgresReadiness, Granted
    <2>2. db.history = Ours(Latest) /\ Complete
      BY <1>2, <1>3, <2>1
    <2>3. db.catalog = CatalogAt(Latest)
      BY <1>1, <1>3, <2>2 DEF Settled, CatalogAgrees, Transactional
    <2> QED BY <2>1, <2>2, <2>3
  <1>4. CASE adapter = "sqlite"
    <2>1. NoPending /\ Granted(lane) = {} /\ grants[lane] = {}
      BY <1>1, <1>4 DEF Ready, InspectSQLite, Granted, Settled, ReportsAgree
    <2>2. db.history = Ours(Latest) /\ Complete
      BY <1>2, <1>4, <2>1
    <2>3. db.catalog = CatalogAt(Latest)
      BY <1>1, <1>4, <2>2 DEF Settled, CatalogAgrees, Transactional
    <2> QED BY <2>1, <2>2, <2>3
  <1>5. CASE adapter = "mysql"
    <2>1. NoPending /\ grants[lane] = Granted(lane) /\ AssertCurrentSchema(Latest, db.catalog)
      BY <1>5 DEF Ready, MySQLReadiness, InspectMySQL, Granted
    <2>2. db.history = Ours(Latest) /\ Complete
      BY <1>2, <1>5, <2>1
    <2>3. \A o \in Asserted : db.catalog[o] = CatalogAt(Latest)[o]
      BY <2>1 DEF Asserted, AssertCurrentSchema, AssertEngines, AssertColumns, AssertIndexes,
                  AssertForeignKeys, AssertChecks, AssertTrigger, AssertRoutines, Current
    <2>4. \A o \in Unasserted : db.catalog[o] = CatalogAt(Latest)[o]
      <3>1. Latest \in 2..Latest
        BY <1>1, <1>5, Sizes
      <3> QED BY <1>1, <1>5, <2>2, <3>1 DEF Settled, DataAgrees
    <2>5. PICK c \in [Objects -> Nat] : c = db.catalog
      BY <1>1 DEF Types, Schema
    <2>6. PICK d \in [Objects -> Nat] : d = CatalogAt(Latest)
      BY <1>1, CatalogFacts
    <2>7. \A o \in Objects : c[o] = d[o]
      BY <1>5, <2>3, <2>4, <2>5, <2>6, MySQLData
    <2>8. c = d
      BY <2>7
    <2> QED BY <2>1, <2>2, <2>5, <2>6, <2>8
  <1>6. CASE Single
    <2>1. reported /\ Granted(lane) = {} /\ grants[lane] = {}
      BY <1>1, <1>6 DEF Ready, Granted, Single, Settled, ReportsAgree
    <2>2. Complete
      BY <1>1, <1>6, <2>1 DEF Settled, ReportsAgree
    <2>3. db.catalog = CatalogAt(Latest)
      BY <1>1, <1>6, <2>2 DEF Settled, CatalogAgrees, Complete
    <2> QED BY <2>1, <2>2, <2>3
  <1> QED BY <1>1, <1>3, <1>4, <1>5, <1>6 DEF AllAdapters, Single

\* New writers start.
LEMMA StartWritersStep ==
  ASSUME MigrationInvariant, NEW lane \in Lanes, StartWriters(lane)
  PROVE  MigrationInvariant'
  <1>1. Types /\ Settled /\ \A k \in Migrators : MigratorAgrees(k)
    BY DEF MigrationInvariant
  <1>2. UNCHANGED <<adapter, db, grants, lock, mig, reported>>
    BY DEF StartWriters
  <1>3. writers' = [writers EXCEPT ![lane] = "new"] /\ writers[lane] = None /\ Ready(lane)
    BY DEF StartWriters
  <1>4. Types'
    BY <1>1, <1>2, <1>3, Rigid DEF Types
  <1>5. \A l \in Lanes : (writers'[l] = "old") <=> (writers[l] = "old")
    BY <1>1, <1>3 DEF Types, None
  <1>6. Drained' <=> Drained
    BY <1>5 DEF Drained
  <1>7. Complete' = Complete
    BY <1>2, Rigid DEF Complete
  <1>8. CatalogAgrees' /\ DataAgrees' /\ ReportsAgree'
    BY <1>1, <1>2, <1>7, Rigid DEF Settled, CatalogAgrees, DataAgrees, ReportsAgree
  <1>9. OldWritersAgree'
    BY <1>1, <1>2, <1>6, Rigid DEF Settled, OldWritersAgree
  <1>10. NewWritersAgree'
    <2>1. Complete /\ db.catalog = CatalogAt(Latest) /\ grants[lane] = Granted(lane)
      BY <1>3, ReadyIsCurrent
    <2>2. \A l \in Lanes : writers'[l] = "new" => l = lane \/ writers[l] = "new"
      BY <1>1, <1>3 DEF Types
    <2>3. ASSUME NEW l \in Lanes, writers'[l] = "new"
          PROVE  Complete /\ db.catalog = CatalogAt(Latest) /\ grants[l] = Granted(l)
      BY <1>1, <2>1, <2>2, <2>3 DEF Settled, NewWritersAgree
    <2> QED BY <1>2, <1>7, <2>3, Rigid DEF NewWritersAgree
  <1>11. \A k \in Migrators : MigratorAgrees(k)'
    BY <1>1, <1>2, <1>6, WritersMigrator
  <1> QED BY <1>4, <1>8, <1>9, <1>10, <1>11 DEF MigrationInvariant, Settled

-----------------------------------------------------------------------------
(* Writers of the older package that start again. *)

\* A migrator that is not at work says nothing about them.
LEMMA OldWaits ==
  ASSUME NEW k, mig'[k].pc \notin {"run", "finish"}
  PROVE  OldAgrees(k)'
  BY DEF OldAgrees

\* While the database stays as it is, what is said of them depends on who runs.
LEMMA OldFrame ==
  ASSUME OldInvariant, UNCHANGED <<adapter, old, db>>,
         Drained' \/ ~Drained \/ (old # 0 /\ db.history = Ours(old)),
         \A k \in Migrators : mig'[k] = mig[k] \/ OldAgrees(k)'
  PROVE  OldInvariant'
  <1>1. Latest' = Latest /\ Versions' = Versions /\ Complete' = Complete
    BY Rigid DEF Complete
  <1>2. old' \in 0..(Latest' - 1) /\ (db'.history = Ours(0) => old' = 0)
    BY <1>1 DEF OldInvariant
  <1>3. ~Drained' => old' # 0 /\ db'.history = Ours(old')
    BY DEF OldInvariant
  <1>4. DataFollows'
    BY DEF OldInvariant, DataFollows
  <1>5. ASSUME NEW k \in Migrators PROVE OldAgrees(k)'
    <2>1. CASE mig'[k] = mig[k]
      <3>1. PICK g : g = mig[k]
        OBVIOUS
      <3>2. IdentityDone(g)' = IdentityDone(g) /\ Declares(g)' = Declares(g)
        BY <1>1 DEF IdentityDone, Declares
      <3>3. OldAgrees(k)
        BY DEF OldInvariant
      <3> QED BY <1>1, <2>1, <3>1, <3>2, <3>3 DEF OldAgrees
    <2> QED BY <2>1
  <1> QED BY <1>2, <1>3, <1>4, <1>5 DEF OldInvariant

\* A migrator that waits, or gives up.
LEMMA OldQuietStep ==
  ASSUME Types, OldInvariant, NEW m \in Migrators, NEW g, mig' = [mig EXCEPT ![m] = g],
         g.pc \notin {"run", "finish"}, UNCHANGED <<adapter, old, db, writers>>
  PROVE  OldInvariant'
  <1>1. mig'[m] = g /\ \A k \in Migrators \ {m} : mig'[k] = mig[k]
    BY DEF Types
  <1>2. OldAgrees(m)'
    BY <1>1, OldWaits
  <1>3. Drained' = Drained
    BY DEF Drained
  <1> QED BY <1>1, <1>2, <1>3, OldFrame

\* A migrator that gives up is idle.
LEMMA OldFailStep ==
  ASSUME Types, OldInvariant, NEW m \in Migrators, Fail(m), UNCHANGED <<adapter, old, db, writers>>
  PROVE  OldInvariant'
  <1>1. Idle.pc \notin {"run", "finish"} /\ mig' = [mig EXCEPT ![m] = Idle]
    BY DEF Idle, Fail
  <1>2. PICK g : g = Idle
    OBVIOUS
  <1> QED BY <1>1, <1>2, OldQuietStep

\* Calls, the lock, losses and what operators do.
LEMMA OldOtherSteps ==
  ASSUME Types, OldInvariant,
         \/ \E m \in Migrators : \/ \E q \in BOOLEAN : Invoke(m, q)
                                 \/ \E q \in BOOLEAN : \E from \in 0..Latest : RenderScript(m, from, q)
                                 \/ TakeLock(m) \/ LockTimeout(m) \/ Crash(m)
         \/ Drain \/ Remediate \/ RenderGrants
         \/ \E lane \in Lanes : StartWriters(lane)
  PROVE  OldInvariant'
  <1>1. ASSUME NEW m \in Migrators, NEW q, NEW from, Invoke(m, q) \/ RenderScript(m, from, q)
        PROVE  OldInvariant'
    <2>1. PICK g : /\ g.pc = "lock" /\ mig' = [mig EXCEPT ![m] = g]
                   /\ UNCHANGED <<adapter, old, db, writers>>
      BY <1>1 DEF Invoke, RenderScript
    <2> QED BY <2>1, OldQuietStep
  <1>2. ASSUME NEW m \in Migrators, TakeLock(m) PROVE OldInvariant'
    <2>1. mig[m] \in Waiting
      BY <1>2, MigratorCases DEF Types, TakeLock
    <2>2. PICK h \in Waiting : h = mig[m]
      BY <2>1
    <2>3. PICK g : g = [h EXCEPT !.pc = "status"]
      OBVIOUS
    <2>4. g.pc = "status"
      BY <2>3 DEF Waiting
    <2>5. mig' = [mig EXCEPT ![m] = g] /\ UNCHANGED <<adapter, old, db, writers>>
      BY <1>2, <2>2, <2>3 DEF TakeLock
    <2> QED BY <2>4, <2>5, OldQuietStep
  <1>3. ASSUME NEW m \in Migrators, LockTimeout(m) \/ Crash(m) PROVE OldInvariant'
    BY <1>3, OldFailStep DEF LockTimeout, Crash
  <1>4. ASSUME Drain PROVE OldInvariant'
    <2>1. UNCHANGED <<adapter, old, db, mig>> /\ Drained'
      BY <1>4 DEF Drain, Drained, None
    <2> QED BY <2>1, OldFrame
  <1>5. ASSUME Remediate \/ RenderGrants PROVE OldInvariant'
    <2>1. UNCHANGED <<adapter, old, db, mig>> /\ (Drained' \/ ~Drained)
      BY <1>5 DEF Remediate, RenderGrants, Drained
    <2> QED BY <2>1, OldFrame
  <1>6. ASSUME NEW lane \in Lanes, StartWriters(lane) PROVE OldInvariant'
    <2>1. UNCHANGED <<adapter, old, db, mig>> /\ writers' = [writers EXCEPT ![lane] = "new"]
      BY <1>6 DEF StartWriters
    <2>2. Drained => Drained'
      BY <2>1 DEF Types, Drained
    <2> QED BY <2>1, <2>2, OldFrame
  <1> QED BY <1>1, <1>2, <1>3, <1>4, <1>5, <1>6

\* From a history of this package nothing is pending, or the writers were declared stopped.
LEMMA DeclaredFromOurs ==
  ASSUME MigrationInvariant, OldInvariant, NEW n \in 0..Latest, db.history = Ours(n),
         NEW q, n \in 1..(Latest - 1) => q
  PROVE  /\ (n + 1)..Latest = {} => Complete
         /\ (n + 1)..Latest # {} => q \/ old = 0
  <1>1. adapter \in AllAdapters /\ Latest \in Nat /\ Latest >= 1 /\ n \in Nat
    BY Sizes DEF MigrationInvariant, Types
  <1>2. CASE n = Latest
    <2>1. (n + 1)..Latest = {}
      BY <1>1, <1>2
    <2>2. Ours(n) # <<>>
      BY <1>1, <1>2, OursFacts
    <2> QED BY <1>2, <2>1, <2>2 DEF Complete
  <1>3. CASE n # Latest
    <2>1. n + 1 \in (n + 1)..Latest /\ (n = 0 \/ n \in 1..(Latest - 1))
      BY <1>1, <1>3
    <2> QED BY <2>1 DEF OldInvariant
  <1> QED BY <1>2, <1>3

\* So with every migrator that is not refused.
LEMMA StartDeclares ==
  ASSUME MigrationInvariant, OldInvariant, NEW h \in Waiting, InvocationAgrees(h), NEW pending,
         pending = IF h.from = -1 THEN Pending(db.history) ELSE (h.from + 1)..Latest,
         h.from = -1 =>
           /\ Accepts(db.history)
           /\ migrations_requiring_writer_quiescence(AppliedVersions(db.history), pending) # {}
                => h.quiesced,
         h.from # -1 => HistoryAssertion(db.history, h.from)
  PROVE  /\ pending = {} => Complete
         /\ pending # {} => Declares(h)
  <1>1. Types
    BY DEF MigrationInvariant
  <1>2. adapter \in AllAdapters /\ Latest \in Nat /\ Versions = 1..Latest
    BY <1>1, Sizes DEF Types, Versions
  <1>3. PICK rows \in Seq(HistoryRow) : rows = db.history
    BY <1>1 DEF Types, Schema
  <1>4. CASE adapter \in {"postgresql", "mysql", "sqlite"} /\ h.from = -1
    <2>1. PICK n \in 0..Latest : db.history = Ours(n)
      BY <1>3, <1>4, AcceptedHistory
    <2>2. AppliedVersions(db.history) = 1..n /\ pending = (n + 1)..Latest
      BY <1>2, <1>4, <2>1, PendingOfOurs
    <2>3. n \in 1..(Latest - 1) => h.quiesced
      <3>1. SUFFICES ASSUME n \in 1..(Latest - 1) PROVE h.quiesced
        OBVIOUS
      <3>2. 1 \in 1..n /\ Latest \in (n + 1)..Latest
        BY ONLY <1>2, <3>1
      <3>3. Latest \notin Compatible
        BY <1>4, LastIsIncompatible
      <3>4. migrations_requiring_writer_quiescence(AppliedVersions(db.history), pending) # {}
        BY <2>2, <3>2, <3>3 DEF migrations_requiring_writer_quiescence
      <3> QED BY <1>4, <3>4
    <2> QED BY <2>1, <2>2, <2>3, DeclaredFromOurs DEF Declares
  <1>5. CASE adapter \in {"postgresql", "mysql", "sqlite"} /\ h.from # -1
    <2>1. adapter = "postgresql" /\ h.from \in 0..Latest
      BY <1>5 DEF InvocationAgrees
    <2>2. PICK n \in 0..Latest : n = h.from
      BY <2>1
    <2>3. db.history = Ours(n) /\ pending = (n + 1)..Latest
      BY <1>5, <2>1, <2>2 DEF HistoryAssertion
    <2>4. n \in 1..(Latest - 1) => h.quiesced
      BY <1>5, <2>2 DEF InvocationAgrees
    <2> QED BY <2>3, <2>4, DeclaredFromOurs DEF Declares
  <1>6. CASE adapter \notin {"postgresql", "mysql", "sqlite"}
    <2>1. Single /\ Latest = 1
      BY <1>2, <1>6, Sizes DEF Single, AllAdapters
    <2>2. old = 0
      BY <2>1 DEF OldInvariant
    <2>3. ASSUME rows = <<>> PROVE pending # {}
      <3>1. db.history = Ours(0)
        BY <1>3, <2>3, OursFacts
      <3>2. pending = (0 + 1)..Latest
        <4>1. CASE h.from = -1
          BY <1>2, <3>1, <4>1, PendingOfOurs
        <4>2. CASE h.from # -1
          BY <1>6, <4>2 DEF InvocationAgrees
        <4> QED BY <4>1, <4>2
      <3>3. 1 \in (0 + 1)..1
        OBVIOUS
      <3> QED BY <2>1, <3>2, <3>3
    <2> QED BY <1>3, <2>1, <2>2, <2>3 DEF Complete, Declares
  <1> QED BY <1>4, <1>5, <1>6

\* One that starts has read a history under the lock.
LEMMA OldReadStatusStep ==
  ASSUME MigrationInvariant, OldInvariant, NEW m \in Migrators, ReadStatus(m)
  PROVE  OldInvariant'
  <1>1. Types /\ MigratorAgrees(m)
    BY DEF MigrationInvariant
  <1>2. mig[m].pc = "status" /\ mig[m] \in Waiting
    BY <1>1, MigratorCases DEF Types, ReadStatus
  <1>3. PICK h \in Waiting : h = mig[m]
    BY <1>2
  <1>4. InvocationAgrees(h)
    BY <1>1, <1>2, <1>3 DEF MigratorAgrees
  <1>5. PICK pending : pending = IF h.from = -1 THEN Pending(db.history) ELSE (h.from + 1)..Latest
    OBVIOUS
  <1>6. PICK refused : refused =
          IF h.from = -1
          THEN \/ ~Accepts(db.history)
               \/ /\ migrations_requiring_writer_quiescence(AppliedVersions(db.history), pending) # {}
                  /\ ~h.quiesced
          ELSE ~HistoryAssertion(db.history, h.from)
    OBVIOUS
  <1>7. UNCHANGED <<adapter, old, db, writers>>
    BY DEF ReadStatus
  <1>8. CASE refused
    <2>1. Fail(m)
      BY <1>3, <1>5, <1>6, <1>8 DEF ReadStatus
    <2> QED BY <1>1, <1>7, <2>1, OldFailStep
  <1>9. CASE ~refused
    <2>1. PICK g : g = [pc |-> IF pending = {} THEN "finish" ELSE "run", from |-> h.from,
                        quiesced |-> h.quiesced, work |-> db, pending |-> pending, next |-> 1]
      OBVIOUS
    <2>2. mig' = [mig EXCEPT ![m] = g]
      BY <1>3, <1>5, <1>6, <1>9, <2>1 DEF ReadStatus
    <2>3. g.pc = (IF pending = {} THEN "finish" ELSE "run") /\ g.quiesced = h.quiesced /\ g.next = 1
      BY <2>1
    <2>4. (pending = {} => Complete) /\ (pending # {} => Declares(h))
      BY <1>4, <1>5, <1>6, <1>9, StartDeclares
    <2>5. mig'[m] = g /\ \A k \in Migrators \ {m} : mig'[k] = mig[k]
      BY <1>1, <2>2 DEF Types
    <2>6. Complete' = Complete /\ Drained' = Drained
      BY <1>7, Rigid DEF Complete, Drained
    <2>7. IdentityDone(g)'
      <3>1. \A j \in 1..(g.next - 1) : FALSE
        BY <2>3
      <3> QED BY <3>1 DEF IdentityDone
    <2>8. Declares(h) => Declares(g)'
      BY <1>7, <2>3 DEF Declares
    <2>9. OldAgrees(m)'
      BY <2>3, <2>4, <2>5, <2>6, <2>7, <2>8 DEF OldAgrees
    <2> QED BY <1>7, <2>5, <2>6, <2>9, OldFrame
  <1> QED BY <1>8, <1>9

\* A MySQL statement adds the column before it migrates data, and never takes it away.
LEMMA IdentityStep ==
  ASSUME MigrationInvariant, OldInvariant, adapter = "mysql", UNCHANGED <<adapter, old, writers>>,
         NEW g \in Working, Advances(g), IdentityDone(g),
         NEW v, v = FirstOf(g.pending), NEW s, s = Statements(v)[g.next],
         db' = Written(s, v, db), NEW h, h = Onward(g, v, Written(s, v, db))
  PROVE  /\ DataFollows' /\ IdentityDone(h)' /\ h.quiesced = g.quiesced
         /\ db'.history = Ours(0) => old = 0
         /\ Drained'
  <1>1. /\ adapter \in AllAdapters /\ Latest = 4 /\ Versions = 1..4
        /\ ~Single /\ ~Transactional /\ Types
    BY Sizes DEF AllAdapters, Versions, Single, Transactional, MigrationInvariant
  <1>2. PICK w \in Versions :
          /\ g.pending = w..Latest
          /\ g.next \in 1..(Len(Packaged[adapter][w]) + 1)
          /\ Drained
          /\ db.history = Ours(w - 1)
    BY <1>1 DEF Advances
  <1>3. v = w
    <2>1. w \in Nat /\ Latest \in Nat /\ w <= Latest
      BY <1>1
    <2> QED BY <1>2, <2>1, FirstOfRange
  <1>4. PICK p : p = Packaged[adapter][w]
    OBVIOUS
  <1>5. PICK N \in Nat : N = Len(p)
    BY <1>1, <1>2, <1>4, StatementsOf
  <1>6. PICK hist, cat : /\ db = [history |-> hist, catalog |-> cat]
                         /\ hist \in Seq(HistoryRow) /\ cat \in [Objects -> Nat]
    BY <1>1 DEF Types, Schema
  <1>7. hist = Ours(w - 1) /\ w \in Nat /\ w >= 1 /\ w - 1 \in Nat
    BY <1>1, <1>2, <1>6
  <1>8. /\ "effect_identity" \in Objects /\ "effect_identity" \notin Unasserted
        /\ Unasserted \subseteq Objects
    BY FirstCatalog, MySQLData DEF Unasserted
  <1>9. \A i \in 1..N : /\ p[i].obj = "effect_identity" => p[i].ver = 2
                        /\ p[i].obj \in Unasserted =>
                             \E j \in 1..(i - 1) : p[j].obj = "effect_identity"
    <2>1. \A i \in 1..Len(Packaged[adapter][w]) :
            /\ Packaged[adapter][w][i].obj = "effect_identity" => Packaged[adapter][w][i].ver = 2
            /\ Packaged[adapter][w][i].obj \in Unasserted =>
                 \E j \in 1..(i - 1) : Packaged[adapter][w][j].obj = "effect_identity"
      BY MySQLIdentity
    <2> QED BY <1>4, <1>5, <2>1
  <1>10. \A j \in 1..(g.next - 1) : p[j].obj = "effect_identity" => cat["effect_identity"] # 0
    BY <1>2, <1>4, <1>6 DEF IdentityDone
  <1>11. Latest' = Latest /\ Versions' = Versions /\ Drained' /\ adapter' = "mysql"
    BY <1>2, Rigid DEF Drained
  <1>12. CASE g.next # N + 1
    <2>1. g.next \in 1..N
      BY <1>2, <1>4, <1>5, <1>12
    <2>2. s = p[g.next] /\ s.op # "record"
      <3>1. \A i \in 1..N : Statements(w)[i] = p[i] /\ Statements(w)[i].op # "record"
        <4>1. \A i \in 1..Len(Packaged[adapter][w]) :
                Statements(w)[i] = Packaged[adapter][w][i] /\ Statements(w)[i].op # "record"
          BY ONLY <1>1, w \in Versions, StatementsOf
        <4> QED BY ONLY <1>4, <1>5, <4>1
      <3> QED BY <1>3, <2>1, <3>1
    <2>3. s \in Statement /\ s.obj \in Objects
      <3>1. PICK a \in AllAdapters : a = adapter
        BY <1>1
      <3>2. w \in 1..Len(Packaged[a])
        BY <1>2, <3>1 DEF Versions, Latest
      <3>3. \A i \in 1..Len(p) : p[i] \in Statement /\ p[i].obj \in Objects
        BY <1>1, <1>4, <3>1, <3>2, ScriptsOf, CatalogFacts
      <3> QED BY <1>5, <2>1, <2>2, <3>3
    <2>4. PICK new : new = After(s, cat)
      OBVIOUS
    <2>5. /\ new \in [Objects -> Nat]
          /\ \A o \in Objects : o # s.obj => new[o] = cat[o]
          /\ s.op # "ensure" => new[s.obj] = s.ver
      BY <1>6, <2>3, <2>4, AfterType
    <2>6. PICK after : after = [history |-> hist, catalog |-> new]
      OBVIOUS
    <2>7. Written(s, v, db) = after /\ after \in Schema
      BY <1>6, <2>2, <2>4, <2>5, <2>6 DEF Written, Schema
    <2>8. db' = after /\ db'.history = hist /\ db'.catalog = new
      BY <2>6, <2>7
    <2>9. h.quiesced = g.quiesced /\ h.pending = g.pending /\ h.next = g.next + 1
      <3>1. /\ h = Onward(g, w, after) /\ g.pending = w..Latest
            /\ g.next \in 1..(Len(Packaged[adapter][w]) + 1)
            /\ g.next # Len(Packaged[adapter][w]) + 1
        BY <1>2, <1>3, <1>4, <1>5, <1>12, <2>7
      <3>2. adapter \in AllAdapters /\ after \in Schema
        BY <1>1, <2>7
      <3> QED BY ONLY g \in Working, w \in Versions, <3>1, <3>2, OnwardFacts
    <2>10. s.obj = "effect_identity" => new["effect_identity"] # 0
      <3>1. SUFFICES ASSUME s.obj = "effect_identity" PROVE new["effect_identity"] # 0
        OBVIOUS
      <3>2. s.ver = 2
        BY <1>9, <2>1, <2>2, <3>1
      <3>3. new = IF s.op = "ensure" /\ cat[s.obj] # 0 THEN cat ELSE [cat EXCEPT ![s.obj] = 2]
        BY <2>4, <3>2 DEF After
      <3> QED BY <1>6, <1>8, <3>1, <3>3
    <2>11. cat["effect_identity"] # 0 => new["effect_identity"] # 0
      BY <1>8, <2>5, <2>10
    <2>12. DataFollows'
      <3>1. SUFFICES ASSUME old # 0, hist = Ours(1), new["effect_identity"] = 0, NEW o \in Unasserted
                     PROVE  new[o] = 0
        BY <2>8 DEF DataFollows
      <3>2. cat["effect_identity"] = 0 /\ cat[o] = 0
        <4>1. cat["effect_identity"] = 0
          BY <2>11, <3>1
        <4>2. db.history = Ours(1) /\ db.catalog["effect_identity"] = 0
          BY <1>6, <3>1, <4>1
        <4>3. db.catalog[o] = 0
          BY <3>1, <4>2 DEF OldInvariant, DataFollows
        <4> QED BY <1>6, <4>1, <4>3
      <3>3. s.obj \notin Unasserted
        <4>1. SUFFICES ASSUME s.obj \in Unasserted PROVE FALSE
          OBVIOUS
        <4>2. PICK j \in 1..(g.next - 1) : p[j].obj = "effect_identity"
          BY <1>9, <2>1, <2>2, <4>1
        <4> QED BY <1>10, <3>2, <4>2
      <3> QED BY <1>8, <2>5, <3>1, <3>2, <3>3
    <2>13. ASSUME NEW j \in 1..(h.next - 1), p[j].obj = "effect_identity"
           PROVE  new["effect_identity"] # 0
      <3>1. j = g.next \/ j \in 1..(g.next - 1)
        BY <2>1, <2>9
      <3> QED BY <1>10, <2>2, <2>10, <2>11, <2>13, <3>1
    <2>14. IdentityDone(h)'
      <3>1. ASSUME NEW u \in Versions, h.pending = u..Latest PROVE u = w
        <4>1. PICK x \in Nat : x = u
          BY <1>1
        <4>2. PICK y \in Nat : y = w
          BY <1>7
        <4>3. x..4 = y..4 /\ x <= 4 /\ y <= 4
          BY <1>1, <1>2, <2>9, <3>1, <4>1, <4>2
        <4>4. x \in y..4 /\ y \in x..4
          BY ONLY <4>3, x \in Nat, y \in Nat
        <4>5. x = y
          BY ONLY <4>4, x \in Nat, y \in Nat
        <4> QED BY ONLY <4>1, <4>2, <4>5
      <3>2. \A j \in 1..(h.next - 1) :
              Packaged[adapter'][w][j].obj = "effect_identity" => db'.catalog["effect_identity"] # 0
        BY <1>4, <2>8, <2>13
      <3> QED BY <1>11, <3>1, <3>2 DEF IdentityDone
    <2>15. db'.history = Ours(0) => old = 0
      BY <1>6, <2>8 DEF OldInvariant
    <2> QED BY <1>11, <2>9, <2>12, <2>14, <2>15
  <1>13. CASE g.next = N + 1
    <2>1. s = [op |-> "record", ver |-> v]
      <3>1. Statements(w)[Len(Packaged[adapter][w]) + 1] = [op |-> "record", ver |-> w]
        BY <1>1, StatementsOf
      <3> QED BY <1>3, <1>4, <1>5, <1>13, <3>1
    <2>2. PICK after : after = [history |-> Ours(w), catalog |-> cat]
      OBVIOUS
    <2>3. Append(Ours(w - 1), Row(w)) = Ours(w) /\ Ours(w) \in Seq(HistoryRow)
      BY <1>7, OursAppend, OursFacts
    <2>4. Written(s, v, db) = after /\ after \in Schema
      <3>1. s.op = "record"
        BY <2>1
      <3>2. Written(s, v, db) = [db EXCEPT !.history = Append(db.history, Row(v))]
        BY <3>1 DEF Written
      <3>3. Append(db.history, Row(v)) = Ours(w)
        BY <1>3, <1>6, <1>7, <2>3
      <3>4. Written(s, v, db) = after
        BY <1>6, <2>2, <3>2, <3>3
      <3>5. after \in Schema
        BY <1>6, <2>2, <2>3 DEF Schema
      <3> QED BY <3>4, <3>5
    <2>5. db' = after /\ db'.history = Ours(w)
      BY <2>2, <2>4
    <2>6. h.quiesced = g.quiesced /\ h.next = 1
      <3>1. /\ h = Onward(g, w, after) /\ g.pending = w..Latest
            /\ g.next \in 1..(Len(Packaged[adapter][w]) + 1)
            /\ g.next = Len(Packaged[adapter][w]) + 1
        BY <1>2, <1>3, <1>4, <1>5, <1>13, <2>4
      <3>2. adapter \in AllAdapters /\ after \in Schema
        BY <1>1, <2>4
      <3> QED BY ONLY g \in Working, w \in Versions, <3>1, <3>2, OnwardFacts
    <2>7. db'.history # Ours(0)
      <3>1. 0 \in Nat /\ w # 0
        BY <1>7
      <3> QED BY <1>7, <2>5, <3>1, OursInjective
    <2>8. db'.history = Ours(1) => old = 0
      <3>1. SUFFICES ASSUME db'.history = Ours(1) PROVE old = 0
        OBVIOUS
      <3>2. 1 \in Nat /\ Ours(w) = Ours(1)
        BY <2>5, <3>1
      <3>3. w = 1
        BY ONLY <1>7, <3>2, OursInjective
      <3>4. db.history = Ours(0)
        BY <1>2, <3>3
      <3> QED BY <3>4 DEF OldInvariant
    <2>9. DataFollows'
      BY <2>8 DEF DataFollows
    <2>10. IdentityDone(h)'
      <3>1. \A j \in 1..(h.next - 1) : FALSE
        BY <2>6
      <3> QED BY <3>1 DEF IdentityDone
    <2> QED BY <1>11, <2>6, <2>7, <2>9, <2>10
  <1> QED BY <1>12, <1>13

\* The lock's holder changes the database while no old writers run.
LEMMA OldHolderStep ==
  ASSUME MigrationInvariant, NEW m \in Migrators, lock = m, UNCHANGED <<adapter, old>>, Drained',
         OldInvariant, DataFollows', db'.history = Ours(0) => old = 0,
         NEW g, mig' = [mig EXCEPT ![m] = g], OldAgrees(m)'
  PROVE  OldInvariant'
  <1>1. Types /\ \A k \in Migrators : MigratorAgrees(k)
    BY DEF MigrationInvariant
  <1>2. \A k \in Migrators \ {m} : mig'[k] = mig[k]
    BY <1>1 DEF Types
  <1>3. ASSUME NEW k \in Migrators PROVE OldAgrees(k)'
    <2>1. CASE k # m
      <3>1. mig[k].pc \in {"idle", "lock"}
        BY <1>1, <2>1, OneHolder
      <3>2. mig'[k].pc \notin {"run", "finish"}
        BY <1>2, <2>1, <3>1
      <3> QED BY <3>2, OldWaits
    <2> QED BY <2>1
  <1>4. old' \in 0..(Latest' - 1)
    BY Rigid DEF OldInvariant
  <1> QED BY <1>3, <1>4 DEF OldInvariant

\* A statement is executed.
LEMMA OldExecuteStep ==
  ASSUME MigrationInvariant, OldInvariant, NEW m \in Migrators, Execute(m)
  PROVE  OldInvariant'
  <1>1. Types /\ MigratorAgrees(m) /\ OldAgrees(m) /\ adapter \in AllAdapters
    BY DEF MigrationInvariant, Types, OldInvariant
  <1>2. PICK g : g = mig[m]
    OBVIOUS
  <1>3. PICK v : v = FirstOf(g.pending)
    OBVIOUS
  <1>4. PICK s : s = Statements(v)[g.next]
    OBVIOUS
  <1>5. PICK seen : seen = IF Transactional THEN g.work ELSE db
    OBVIOUS
  <1>6. /\ UNCHANGED <<adapter, writers>>
        /\ g.pc = "run"
        /\ \/ Fail(m) /\ UNCHANGED <<db, grants>>
           \/ /\ mig' = [mig EXCEPT ![m] = Onward(g, v, Written(s, v, seen))]
              /\ db' = IF Transactional THEN db ELSE Written(s, v, seen)
    BY <1>2, <1>3, <1>4, <1>5, ExecuteCases
  <1>7. old' = old
    BY DEF Execute
  <1>8. /\ g \in Working /\ lock = m /\ (Advances(g) \/ Collides(g))
        /\ IdentityDone(g) /\ Declares(g)
    BY <1>1, <1>2, <1>6, MigratorCases DEF Types, MigratorAgrees, OldAgrees
  <1>9. CASE Fail(m) /\ UNCHANGED <<db, grants>>
    BY <1>1, <1>6, <1>7, <1>9, OldFailStep
  <1>10. CASE Collides(g)
    <2>1. Fail(m) /\ UNCHANGED <<db, grants>>
      BY <1>2, <1>10, CollisionFails
    <2> QED BY <1>9, <2>1
  <1>11. CASE Advances(g) /\ ~(Fail(m) /\ UNCHANGED <<db, grants>>)
    <2>1. PICK h : h = Onward(g, v, Written(s, v, seen))
      OBVIOUS
    <2>2. mig' = [mig EXCEPT ![m] = h]
      BY <1>6, <1>11, <2>1
    <2>3. mig'[m] = h /\ \A k \in Migrators \ {m} : mig'[k] = mig[k]
      BY <1>1, <2>2 DEF Types
    <2>4. h.quiesced = g.quiesced => Declares(h)'
      BY <1>7, <1>8 DEF Declares
    <2>5. CASE Transactional
      <3>1. db' = db /\ seen = g.work /\ adapter # "mysql"
        BY <1>5, <1>6, <1>11, <2>5 DEF Transactional
      <3>2. h.quiesced = g.quiesced
        BY <1>1, <1>3, <1>4, <1>8, <1>11, <2>1, <2>5, <3>1, TransactionAdvances
      <3>3. IdentityDone(h)'
        BY <1>6, <3>1 DEF IdentityDone
      <3>4. OldAgrees(m)'
        BY <2>3, <2>4, <3>2, <3>3 DEF OldAgrees
      <3>5. Drained' = Drained
        BY <1>6 DEF Drained
      <3> QED BY <1>6, <1>7, <2>3, <3>1, <3>4, <3>5, OldFrame
    <2>6. CASE ~Transactional
      <3>1. seen = db /\ db' = Written(s, v, db) /\ adapter = "mysql"
        BY <1>5, <1>6, <1>11, <2>6 DEF Transactional
      <3>2. h = Onward(g, v, Written(s, v, db))
        BY <2>1, <3>1
      <3>3. /\ DataFollows' /\ IdentityDone(h)' /\ h.quiesced = g.quiesced
            /\ db'.history = Ours(0) => old = 0
            /\ Drained'
        BY <1>3, <1>4, <1>6, <1>7, <1>8, <1>11, <3>1, <3>2, IdentityStep
      <3>4. OldAgrees(m)'
        BY <2>3, <2>4, <3>3 DEF OldAgrees
      <3> QED BY <1>6, <1>7, <1>8, <2>2, <3>3, <3>4, OldHolderStep
    <2> QED BY <2>5, <2>6
  <1> QED BY <1>8, <1>9, <1>10, <1>11

\* A migrator commits, or looks at what it left.
LEMMA OldFinishStep ==
  ASSUME MigrationInvariant, OldInvariant, NEW m \in Migrators, Finish(m)
  PROVE  OldInvariant'
  <1>1. Types /\ MigratorAgrees(m) /\ adapter \in AllAdapters /\ Latest \in Nat /\ Latest >= 1
    BY Sizes DEF MigrationInvariant, Types
  <1>2. PICK g : g = mig[m]
    OBVIOUS
  <1>3. lock = m /\ Commits(g)
    BY <1>1, <1>2 DEF MigratorAgrees, Finish
  <1>4. UNCHANGED <<adapter, old, writers>> /\ Fail(m) /\ mig' = [mig EXCEPT ![m] = Idle]
    BY DEF Finish, Fail
  <1>5. CASE db' = db
    BY <1>1, <1>4, <1>5, OldFailStep
  <1>6. CASE db' # db
    <2>1. Transactional /\ db' = g.work
      BY <1>2, <1>6 DEF Finish
    <2>2. g.work = [history |-> Ours(Latest), catalog |-> CatalogAt(Latest)] /\ Drained
      BY <1>3, <1>6, <2>1 DEF Commits
    <2>3. db'.history = Ours(Latest) /\ Drained'
      BY <1>4, <2>1, <2>2 DEF Drained
    <2>4. db'.history # Ours(0)
      <3>1. 0 \in Nat /\ Latest # 0
        BY <1>1
      <3> QED BY <1>1, <2>3, <3>1, OursInjective
    <2>5. DataFollows'
      BY <1>4, <2>1 DEF DataFollows, Transactional
    <2>6. PICK h : h = Idle
      OBVIOUS
    <2>7. mig' = [mig EXCEPT ![m] = h] /\ h.pc = "idle"
      BY <1>4, <2>6 DEF Idle
    <2>8. mig'[m].pc = "idle"
      BY <1>1, <2>7 DEF Types
    <2>9. OldAgrees(m)'
      BY <2>8, OldWaits
    <2> QED BY <1>3, <1>4, <2>3, <2>4, <2>5, <2>7, <2>9, OldHolderStep
  <1> QED BY <1>5, <1>6

\* The older package's gate opens only on its own last migration.
LEMMA OldReadyIsOld ==
  ASSUME MigrationInvariant, OldInvariant, NEW lane \in Lanes, OldReady(lane)
  PROVE  /\ old \in 1..(Latest - 1) /\ db.history = Ours(old) /\ db.catalog = CatalogAt(old)
         /\ ~Complete
  <1>1. Types /\ Settled /\ adapter \in AllAdapters /\ Latest \in Nat /\ Latest >= 1
    BY Sizes DEF MigrationInvariant, Types
  <1>2. db.history = Ours(old) /\ old # 0 /\ (adapter = "mysql" => AssertCurrentSchema(old, db.catalog))
    BY DEF OldReady
  <1>3. old \in 1..(Latest - 1)
    BY <1>1, <1>2 DEF OldInvariant
  <1>4. PICK n \in Nat : n = old /\ n \in 1..(Latest - 1) /\ n \in 0..Latest /\ n # Latest
    BY <1>1, <1>3
  <1>5. ~Single
    BY <1>1, <1>3, Sizes
  <1>6. ~Complete
    <2>1. Ours(n) # Ours(Latest)
      BY ONLY <1>1, <1>4, n \in Nat, OursInjective
    <2> QED BY <1>2, <1>4, <1>5, <2>1 DEF Complete
  <1>7. CASE Transactional
    <2>1. db.catalog = CatalogAt(n)
      BY <1>1, <1>2, <1>4, <1>7 DEF Settled, CatalogAgrees
    <2> QED BY <1>2, <1>3, <1>4, <1>6, <2>1
  <1>8. CASE ~Transactional
    <2>1. adapter = "mysql" /\ Latest = 4 /\ AssertCurrentSchema(n, db.catalog)
      BY <1>1, <1>2, <1>4, <1>8, Sizes DEF Transactional
    <2>2. \A o \in Asserted : db.catalog[o] = CatalogAt(n)[o]
      BY <2>1 DEF Asserted, AssertCurrentSchema, AssertEngines, AssertColumns, AssertIndexes,
                  AssertForeignKeys, AssertChecks, AssertTrigger, AssertRoutines, Current
    <2>3. \A o \in Unasserted : db.catalog[o] = CatalogAt(n)[o]
      <3>1. CASE n = 1
        <4>1. \A o \in Unasserted \union {"effect_identity"} : CatalogAt(1)[o] = 0
          BY <2>1, FirstCatalog
        <4>2. "effect_identity" \in Asserted
          BY DEF Asserted
        <4>3. db.catalog["effect_identity"] = 0
          BY <2>2, <3>1, <4>1, <4>2
        <4>4. db.history = Ours(1)
          BY <1>2, <1>4, <3>1
        <4>5. \A o \in Unasserted : db.catalog[o] = 0
          BY <1>2, <2>1, <4>3, <4>4 DEF OldInvariant, DataFollows
        <4> QED BY <3>1, <4>1, <4>5
      <3>2. CASE n # 1
        <4>1. n \in 2..Latest /\ Latest \in 2..Latest
          BY <1>1, <1>4, <2>1, <3>2
        <4>2. ASSUME NEW o \in Unasserted
              PROVE  CatalogAt(n)[o] = 2 /\ CatalogAt(Latest)[o] = 2
          BY <2>1, <4>1, DataCatalog
        <4>3. db.history = Ours(n)
          BY <1>2, <1>4
        <4>4. \A o \in Unasserted : db.catalog[o] = CatalogAt(Latest)[o]
          BY <1>1, <2>1, <4>1, <4>3 DEF Settled, DataAgrees
        <4> QED BY <4>2, <4>4
      <3> QED BY <3>1, <3>2
    <2>4. PICK c \in [Objects -> Nat] : c = db.catalog
      BY <1>1 DEF Types, Schema
    <2>5. PICK d \in [Objects -> Nat] : d = CatalogAt(n)
      BY <1>1, <1>4, CatalogFacts
    <2>6. \A o \in Objects : c[o] = d[o]
      BY <2>1, <2>2, <2>3, <2>4, <2>5, MySQLData
    <2>7. c = d
      BY <2>6
    <2> QED BY <1>2, <1>3, <1>4, <1>6, <2>4, <2>5, <2>7
  <1> QED BY <1>7, <1>8

\* Old writers start again: late, under a declaration, or while nobody is about to migrate.
LEMMA RestartStep ==
  ASSUME MigrationInvariant, OldInvariant, NEW lane \in Lanes, RestartOldWriters(lane)
  PROVE  MigrationInvariant' /\ OldInvariant'
  <1>1. Types /\ Settled /\ \A k \in Migrators : MigratorAgrees(k)
    BY DEF MigrationInvariant
  <1>2. UNCHANGED <<adapter, old, db, grants, lock, mig, reported>>
    BY DEF RestartOldWriters
  <1>3. PICK w \in {"late", "old"} : w = IF Declared THEN "late" ELSE "old"
    OBVIOUS
  <1>4. writers' = [writers EXCEPT ![lane] = w] /\ OldReady(lane)
    BY <1>3 DEF RestartOldWriters
  <1>5. /\ old \in 1..(Latest - 1) /\ db.history = Ours(old) /\ db.catalog = CatalogAt(old)
        /\ ~Complete
    BY <1>4, OldReadyIsOld
  <1>6. Types'
    BY <1>1, <1>2, <1>4, Rigid DEF Types
  <1>7. Complete' = Complete
    BY <1>2, Rigid DEF Complete
  <1>8. CatalogAgrees' /\ DataAgrees' /\ ReportsAgree'
    BY <1>1, <1>2, <1>7, Rigid DEF Settled, CatalogAgrees, DataAgrees, ReportsAgree
  <1>9. OldWritersAgree'
    <2>1. PICK n : n = old
      OBVIOUS
    <2>2. n \in 1..(Latest - 1) /\ db.history = Ours(n) /\ db.catalog = CatalogAt(n)
      BY <1>5, <2>1
    <2> QED BY <1>2, <2>2, Rigid DEF OldWritersAgree
  <1>10. NewWritersAgree'
    <2>1. \A l \in Lanes : writers'[l] = "new" => writers[l] = "new"
      BY <1>1, <1>4 DEF Types
    <2> QED BY <1>1, <1>2, <1>7, <2>1, Rigid DEF Settled, NewWritersAgree
  <1>11. ASSUME NEW k \in Migrators PROVE MigratorAgrees(k)'
    <2>1. CASE Declared
      <3>1. Drained => Drained'
        BY <1>1, <1>3, <1>4, <2>1 DEF Types, Drained
      <3> QED BY <1>1, <1>2, <3>1, WritersMigrator
    <2>2. CASE ~Declared
      <3>1. PICK g \in Migrator : g = mig[k]
        BY <1>1 DEF Types
      <3>2. g.pc = "idle" \/ ~g.quiesced
        BY <2>2, <3>1 DEF Declared, Idle
      <3>3. OldAgrees(k) /\ MigratorAgrees(k) /\ old # 0
        BY <1>1, <1>5 DEF OldInvariant
      <3>4. g.pc \notin {"run", "finish"}
        BY <1>5, <3>1, <3>2, <3>3 DEF OldAgrees, Declares
      <3>5. g.pc # "idle" => InvocationAgrees(g)'
        <4>1. SUFFICES ASSUME g.pc # "idle" PROVE InvocationAgrees(g)'
          OBVIOUS
        <4>2. InvocationAgrees(g) /\ ~g.quiesced
          BY <3>1, <3>2, <3>3, <4>1 DEF MigratorAgrees
        <4> QED BY <1>2, <4>2, Rigid DEF InvocationAgrees
      <3> QED BY <1>2, <3>1, <3>3, <3>4, <3>5 DEF MigratorAgrees
    <2> QED BY <2>1, <2>2
  <1>12. OldInvariant'
    <2>1. old # 0 /\ db.history = Ours(old)
      BY <1>5
    <2> QED BY <1>2, <2>1, OldFrame
  <1> QED BY <1>6, <1>8, <1>9, <1>10, <1>11, <1>12 DEF MigrationInvariant, Settled

-----------------------------------------------------------------------------
(* The initial states, and the theorems. *)

\* A history of this package is accepted.
LEMMA OursAccepted ==
  ASSUME adapter \in AllAdapters, NEW n \in 0..Latest
  PROVE  Accepts(Ours(n))
  <1>1. Latest \in Nat /\ Versions = 1..Latest /\ n \in Nat /\ (Single => Latest = 1)
    BY Sizes DEF Versions
  <1>2. DOMAIN Ours(n) = 1..n /\ \A i \in 1..n : Ours(n)[i] = Row(i)
    BY <1>1, OursFacts
  <1>3. \A i : Row(i).version = i /\ Row(i).checksum = "ours"
    BY DEF Row
  <1>4. MigrationStatus(Ours(n))
    BY <1>1, <1>2, <1>3 DEF MigrationStatus
  <1>5. Single => ApprovalHistory(Ours(n)) /\ StripeHistory(Ours(n))
    BY <1>1, <1>2, <1>3 DEF ApprovalHistory, StripeHistory
  <1> QED BY <1>4, <1>5 DEF Accepts, MySQLMigrationStatus, SQLiteMigrationStatus, Single, AllAdapters

\* Whatever history is found consists of rows.
LEMMA HistoriesTypes ==
  ASSUME adapter \in AllAdapters, NEW rows \in Histories
  PROVE  rows \in Seq(HistoryRow)
  <1>1. Latest \in Nat
    BY Sizes
  <1>2. \A n \in Nat : Ours(n) \in Seq(HistoryRow)
    BY OursFacts
  <1>3. PICK r \in HistoryRow : r = Row(Latest + 1)
    <2>1. PICK N \in Nat : N = Latest + 1
      BY <1>1
    <2>2. Row(N) \in HistoryRow
      BY DEF Row, HistoryRow
    <2> QED BY <2>1, <2>2
  <1>4. PICK q \in HistoryRow : q = Row(2)
    BY DEF Row, HistoryRow
  <1>5. PICK t \in HistoryRow : t = [version |-> 1, checksum |-> "other"]
    BY DEF HistoryRow
  <1>6. \/ \E n \in 0..Latest : rows = Ours(n)
        \/ rows = Append(Ours(Latest), r) \/ rows = <<t>> \/ rows = <<q>>
    BY <1>3, <1>4, <1>5 DEF Histories
  <1>7. Append(Ours(Latest), r) \in Seq(HistoryRow) /\ <<t>> \in Seq(HistoryRow) /\ <<q>> \in Seq(HistoryRow)
    <2>1. PICK o \in Seq(HistoryRow) : o = Ours(Latest)
      BY <1>1, <1>2
    <2>2. Append(o, r) \in Seq(HistoryRow) /\ <<t>> \in Seq(HistoryRow) /\ <<q>> \in Seq(HistoryRow)
      OBVIOUS
    <2> QED BY <2>1, <2>2
  <1>8. \A n \in 0..Latest : n \in Nat
    BY <1>1
  <1>9. CASE \E n \in 0..Latest : rows = Ours(n)
    BY ONLY <1>2, <1>8, <1>9
  <1> QED BY ONLY <1>6, <1>7, <1>9

\* The invariant holds of every database that an older package can have left.
LEMMA MigrationInitial ==
  ASSUME MigrationInit
  PROVE  MigrationInvariant
  <1>1. adapter \in AllAdapters
    BY MigrationAssumption DEF MigrationInit
  <1>2. Latest \in Nat /\ Latest >= 1
    BY <1>1, Sizes
  <1>3. PICK rows \in Histories :
          LET n == IF Accepts(rows) /\ Len(rows) <= Latest THEN Len(rows) ELSE Latest
              drifted == IF adapter = "mysql" /\ rows = Ours(Latest) THEN Drifted ELSE {}
          IN  /\ db \in [history : {rows}, catalog : {CatalogAt(n)} \cup drifted]
              /\ old = IF n \in 1..(Latest - 1) /\ Accepts(rows) THEN n ELSE 0
              /\ writers \in [Lanes -> IF old # 0 THEN {None, "old"} ELSE {None}]
    BY DEF MigrationInit
  <1>4. PICK n : n = IF Accepts(rows) /\ Len(rows) <= Latest THEN Len(rows) ELSE Latest
    OBVIOUS
  <1>5. PICK drifted : drifted = IF adapter = "mysql" /\ rows = Ours(Latest) THEN Drifted ELSE {}
    OBVIOUS
  <1>6. /\ db \in [history : {rows}, catalog : {CatalogAt(n)} \cup drifted]
        /\ old = IF n \in 1..(Latest - 1) /\ Accepts(rows) THEN n ELSE 0
        /\ writers \in [Lanes -> IF old # 0 THEN {None, "old"} ELSE {None}]
    BY <1>3, <1>4, <1>5
  <1>7. rows \in Seq(HistoryRow) /\ Len(rows) \in Nat
    BY <1>1, HistoriesTypes
  <1>8. n \in 0..Latest
    BY <1>2, <1>4, <1>7
  <1>9. \A k \in 0..Latest : CatalogAt(k) \in [Objects -> Nat]
    BY <1>1, CatalogFacts
  <1>10. \A c \in drifted : /\ adapter = "mysql" /\ rows = Ours(Latest)
                            /\ \E o \in Asserted : c = [CatalogAt(Latest) EXCEPT ![o] = 0]
    BY <1>5 DEF Drifted, Asserted
  <1>11. PICK cat : cat = db.catalog
    OBVIOUS
  <1>12. db = [history |-> rows, catalog |-> cat] /\ (cat = CatalogAt(n) \/ cat \in drifted)
    BY <1>6, <1>11
  <1>13. cat \in [Objects -> Nat]
    <2>1. PICK d \in [Objects -> Nat] : d = CatalogAt(Latest)
      BY <1>2, <1>9
    <2>2. \A o : [d EXCEPT ![o] = 0] \in [Objects -> Nat]
      OBVIOUS
    <2> QED BY <1>8, <1>9, <1>10, <1>12, <2>1, <2>2
  <1>14. db \in Schema
    BY <1>7, <1>12, <1>13 DEF Schema
  <1>15. \A lane \in Lanes : writers[lane] \in {None, "old"}
    BY <1>6
  <1>16. Types
    <2>1. mig \in [Migrators -> Migrator] /\ reported \in BOOLEAN
      BY DEF MigrationInit, Migrator
    <2>2. writers \in [Lanes -> {None, "old", "late", "new"}]
      BY <1>6
    <2> QED BY <1>1, <1>14, <2>1, <2>2 DEF Types
  <1>17. ASSUME NEW k \in 0..Latest, rows = Ours(k)
         PROVE  n = k
    <2>1. Len(rows) = k /\ k <= Latest
      BY <1>2, <1>17, OursFacts
    <2>2. Accepts(rows)
      BY <1>1, <1>17, OursAccepted
    <2> QED BY <1>4, <2>1, <2>2
  <1>18. CatalogAgrees
    <2>1. ASSUME Transactional PROVE db.catalog = CatalogAt(n) /\ db.history = rows
      BY <1>10, <1>12, <2>1 DEF Transactional
    <2>2. ASSUME Single, rows # <<>> PROVE n = Latest
      <3>1. Len(rows) >= 1 /\ Latest = 1
        BY <1>1, <1>7, <2>2, Sizes
      <3>2. Len(rows) <= Latest => Len(rows) = Latest
        <4>1. PICK k \in Nat : k = Len(rows)
          BY <1>7
        <4>2. k <= 1 /\ k >= 1 => k = 1
          OBVIOUS
        <4> QED BY ONLY <3>1, <4>1, <4>2
      <3> QED BY ONLY <1>4, <3>2
    <2>3. Single => Transactional
      BY DEF Single, Transactional
    <2> QED BY <1>17, <2>1, <2>2, <2>3 DEF CatalogAgrees
  <1>19. DataAgrees
    <2>1. SUFFICES ASSUME adapter = "mysql", NEW k \in 2..Latest, db.history = Ours(k), NEW o \in Unasserted
                   PROVE  db.catalog[o] = CatalogAt(Latest)[o]
      BY DEF DataAgrees
    <2>2. n = k
      BY <1>2, <1>12, <1>17, <2>1
    <2>3. CatalogAt(k)[o] = 2 /\ CatalogAt(Latest)[o] = 2
      BY <1>2, <2>1, DataCatalog
    <2>4. CASE cat = CatalogAt(n)
      BY <1>11, <2>2, <2>3, <2>4
    <2>5. CASE cat \in drifted
      <3>1. PICK x \in Asserted : cat = [CatalogAt(Latest) EXCEPT ![x] = 0]
        BY <1>10, <2>5
      <3>2. x # o /\ o \in Objects
        BY <2>1, MySQLData DEF Asserted, Unasserted
      <3>3. PICK d \in [Objects -> Nat] : d = CatalogAt(Latest)
        BY <1>2, <1>9
      <3> QED BY <1>11, <3>1, <3>2, <3>3
    <2> QED BY <1>12, <2>4, <2>5
  <1>20. OldWritersAgree
    <2>1. SUFFICES ASSUME ~Drained
                   PROVE  \E k \in 1..(Latest - 1) : db.history = Ours(k) /\ db.catalog = CatalogAt(k)
      BY DEF OldWritersAgree
    <2>2. PICK lane \in Lanes : writers[lane] = "old"
      BY <2>1 DEF Drained
    <2>3. n \in 1..(Latest - 1) /\ Accepts(rows)
      BY <1>6, <2>2 DEF None
    <2>4. adapter \in {"postgresql", "mysql", "sqlite"}
      BY <1>1, <2>3, Sizes DEF AllAdapters, Single
    <2>5. Len(rows) \in 0..Latest /\ rows = Ours(Len(rows))
      BY <1>7, <2>3, <2>4, AcceptedHistory
    <2>6. n = Len(rows)
      BY <1>2, <1>4, <2>3, <2>5
    <2>7. rows # Ours(Latest)
      <3>1. Len(Ours(Latest)) = Latest
        BY <1>2, OursFacts
      <3> QED BY <1>2, <2>3, <2>6, <3>1
    <2> QED BY <1>10, <1>12, <2>3, <2>5, <2>6, <2>7
  <1>21. NewWritersAgree
    BY <1>15 DEF NewWritersAgree, None
  <1>22. ReportsAgree
    <2>1. reported = FALSE
      BY DEF MigrationInit
    <2>2. \A lane \in Lanes : grants[lane] \subseteq Granted(lane)
      BY DEF MigrationInit
    <2>3. adapter \notin {"postgresql", "mysql"} => \A lane \in Lanes : Granted(lane) = {}
      BY DEF Granted
    <2> QED BY <2>1, <2>2, <2>3 DEF ReportsAgree
  <1>23. \A m \in Migrators : MigratorAgrees(m)
    <2>1. \A m \in Migrators : mig[m].pc = "idle"
      BY DEF MigrationInit, Idle
    <2> QED BY <2>1 DEF MigratorAgrees
  <1> QED BY <1>16, <1>18, <1>19, <1>20, <1>21, <1>22, <1>23 DEF MigrationInvariant, Settled

\* So does what lets the older package's writers start again.
LEMMA OldInitial ==
  ASSUME MigrationInit
  PROVE  OldInvariant
  <1>1. adapter \in AllAdapters
    BY MigrationAssumption DEF MigrationInit
  <1>2. Latest \in Nat /\ Latest >= 1
    BY <1>1, Sizes
  <1>3. PICK rows \in Histories :
          LET n == IF Accepts(rows) /\ Len(rows) <= Latest THEN Len(rows) ELSE Latest
              drifted == IF adapter = "mysql" /\ rows = Ours(Latest) THEN Drifted ELSE {}
          IN  /\ db \in [history : {rows}, catalog : {CatalogAt(n)} \cup drifted]
              /\ old = IF n \in 1..(Latest - 1) /\ Accepts(rows) THEN n ELSE 0
              /\ writers \in [Lanes -> IF old # 0 THEN {None, "old"} ELSE {None}]
    BY DEF MigrationInit
  <1>4. PICK n : n = IF Accepts(rows) /\ Len(rows) <= Latest THEN Len(rows) ELSE Latest
    OBVIOUS
  <1>5. PICK drifted : drifted = IF adapter = "mysql" /\ rows = Ours(Latest) THEN Drifted ELSE {}
    OBVIOUS
  <1>6. /\ db \in [history : {rows}, catalog : {CatalogAt(n)} \cup drifted]
        /\ old = IF n \in 1..(Latest - 1) /\ Accepts(rows) THEN n ELSE 0
        /\ writers \in [Lanes -> IF old # 0 THEN {None, "old"} ELSE {None}]
    BY <1>3, <1>4, <1>5
  <1>7. rows \in Seq(HistoryRow) /\ Len(rows) \in Nat
    BY <1>1, HistoriesTypes
  <1>8. n \in 0..Latest
    BY <1>2, <1>4, <1>7
  <1>9. old \in 0..(Latest - 1) /\ db.history = rows /\ (db.catalog = CatalogAt(n) \/ drifted # {})
    BY <1>2, <1>6
  <1>10. ASSUME NEW k \in 0..Latest, rows = Ours(k)
         PROVE  n = k
    <2>1. Len(rows) = k /\ k <= Latest
      BY <1>2, <1>10, OursFacts
    <2>2. Accepts(rows)
      BY <1>1, <1>10, OursAccepted
    <2> QED BY <1>4, <2>1, <2>2
  <1>11. db.history = Ours(0) => old = 0
    <2>1. 0 \in 0..Latest /\ ~(0 \in 1..(Latest - 1))
      BY <1>2
    <2> QED BY <1>6, <1>9, <1>10, <2>1
  <1>12. ~Drained => old # 0 /\ db.history = Ours(old)
    <2>1. SUFFICES ASSUME ~Drained PROVE old # 0 /\ db.history = Ours(old)
      OBVIOUS
    <2>2. PICK lane \in Lanes : writers[lane] = "old"
      BY <2>1 DEF Drained
    <2>3. old # 0
      BY <1>6, <2>2 DEF None
    <2>4. n \in 1..(Latest - 1) /\ Accepts(rows) /\ old = n
      BY <1>6, <2>3
    <2>5. adapter \in {"postgresql", "mysql", "sqlite"}
      BY <1>1, <2>4, Sizes DEF AllAdapters, Single
    <2>6. Len(rows) \in 0..Latest /\ rows = Ours(Len(rows))
      BY <1>7, <2>4, <2>5, AcceptedHistory
    <2>7. n = Len(rows)
      BY <1>2, <1>4, <2>4, <2>6
    <2> QED BY <1>9, <2>3, <2>4, <2>6, <2>7
  <1>13. DataFollows
    <2>1. SUFFICES ASSUME adapter = "mysql", db.history = Ours(1), NEW o \in Unasserted
                   PROVE  db.catalog[o] = 0
      BY DEF DataFollows
    <2>2. Latest = 4 /\ 1 \in 0..Latest /\ Latest \in 0..Latest
      BY <1>1, <1>2, <2>1, Sizes
    <2>3. n = 1
      BY <1>9, <1>10, <2>1, <2>2
    <2>4. rows # Ours(Latest)
      <3>1. Ours(Latest) = rows => n = Latest
        BY <1>10, <2>2
      <3> QED BY <2>2, <2>3, <3>1
    <2>5. db.catalog = CatalogAt(1)
      BY <1>5, <1>9, <2>3, <2>4
    <2> QED BY <2>1, <2>5, FirstCatalog
  <1>14. \A m \in Migrators : OldAgrees(m)
    <2>1. \A m \in Migrators : mig[m].pc = "idle"
      BY DEF MigrationInit, Idle
    <2> QED BY <2>1 DEF OldAgrees
  <1> QED BY <1>9, <1>11, <1>12, <1>13, <1>14 DEF OldInvariant

\* Every step of migrators, operators and writers keeps both.
LEMMA MigrationSteps ==
  ASSUME MigrationInvariant, OldInvariant, MigrationNext
  PROVE  MigrationInvariant' /\ OldInvariant'
  <1>0. Types
    BY DEF MigrationInvariant
  <1>1. CASE \E m \in Migrators : \E q \in BOOLEAN : Invoke(m, q)
    BY <1>0, <1>1, InvokeStep, OldOtherSteps
  <1>2. CASE \E m \in Migrators : \E q \in BOOLEAN : \E from \in 0..Latest : RenderScript(m, from, q)
    BY <1>0, <1>2, RenderScriptStep, OldOtherSteps
  <1>3. CASE \E m \in Migrators : Step(m)
    <2>1. PICK m \in Migrators : Runs(m)
      BY <1>3 DEF Step, migrate_postgres, migrate_mysql, migrate_sqlite,
                  migrate_approval_postgres, migrate_stripe_postgres
    <2>2. CASE TakeLock(m)
      BY <1>0, <2>2, TakeLockStep, OldOtherSteps
    <2>3. CASE ReadStatus(m)
      BY <2>3, ReadStatusStep, OldReadStatusStep
    <2>4. CASE Execute(m)
      BY <2>4, ExecuteStep, OldExecuteStep
    <2>5. CASE Finish(m)
      BY <2>5, FinishStep, OldFinishStep
    <2> QED BY <2>1, <2>2, <2>3, <2>4, <2>5 DEF Runs
  <1>4. CASE \E m \in Migrators : LockTimeout(m) \/ Crash(m)
    BY <1>0, <1>4, LostStep, OldOtherSteps
  <1>5. CASE Drain
    BY <1>0, <1>5, DrainStep, OldOtherSteps
  <1>6. CASE Remediate
    BY <1>0, <1>6, RemediateStep, OldOtherSteps
  <1>7. CASE RenderGrants
    BY <1>0, <1>7, RenderGrantsStep, OldOtherSteps
  <1>8. CASE \E lane \in Lanes : StartWriters(lane)
    BY <1>0, <1>8, StartWritersStep, OldOtherSteps
  <1>9. CASE \E lane \in Lanes : RestartOldWriters(lane)
    BY <1>9, RestartStep
  <1> QED BY <1>1, <1>2, <1>3, <1>4, <1>5, <1>6, <1>7, <1>8, <1>9 DEF MigrationNext

\* A step that leaves the databases alone keeps them too.
LEMMA MigrationStutter ==
  ASSUME MigrationInvariant, OldInvariant, UNCHANGED mvars
  PROVE  MigrationInvariant' /\ OldInvariant'
  <1>1. Types /\ Settled /\ \A k \in Migrators : MigratorAgrees(k)
    BY DEF MigrationInvariant
  <1>2. UNCHANGED <<adapter, old, db, grants, lock, mig, writers, reported>>
    BY DEF mvars
  <1>3. Types'
    BY <1>1, <1>2, Rigid DEF Types
  <1>4. Settled'
    BY <1>1, <1>2, SettledFrame
  <1>5. \A k \in Migrators : MigratorAgrees(k)'
    BY <1>1, <1>2, SameMigrator
  <1>6. OldInvariant'
    <2>1. Drained' \/ ~Drained
      BY <1>2 DEF Drained
    <2> QED BY <1>2, <2>1, OldFrame
  <1> QED BY <1>3, <1>4, <1>5, <1>6 DEF MigrationInvariant

\* Kits do not touch what migrators and writers do.
LEMMA QualificationSteps ==
  ASSUME [QualificationNext]_qvars
  PROVE  [MigrationNext]_mvars
  BY DEF QualificationNext, Migrate, Qualify, qvars

\* Types, catalogs, data, migrators and writers agree in every reachable state, and the schema
\* stays as the older package left it while its writers run or may start again unannounced,
\* for any number of migrators, scripts, faults and restarts.
THEOREM MigrationInvariantHolds == QualificationSpec => [](MigrationInvariant /\ OldInvariant)
  <1>1. QualificationInit => MigrationInvariant /\ OldInvariant
    BY MigrationInitial, OldInitial DEF QualificationInit
  <1>2. MigrationInvariant /\ OldInvariant /\ [QualificationNext]_qvars
          => MigrationInvariant' /\ OldInvariant'
    BY QualificationSteps, MigrationSteps, MigrationStutter
  <1> QED BY <1>1, <1>2, PTL DEF QualificationSpec

\* Writers of this package run only on the catalog of its last migration with the grants of
\* their lane.  Writers of an older one, whoever migrates, is lost or starts meanwhile, run only
\* on whole migrations, and beyond those it knows only on ones that are declared compatible;
\* excepted are writers that somebody starts while a declaration that they are stopped is acted on.
THEOREM WritersOnCurrentSchema == QualificationSpec => []WritersRunOnCurrentSchema
  <1>1. MigrationInvariant /\ OldInvariant => WritersRunOnCurrentSchema
    <2>1. SUFFICES ASSUME MigrationInvariant, OldInvariant, NEW lane \in Lanes
                   PROVE  /\ writers[lane] = "new" => /\ db.catalog = CatalogAt(Latest)
                                                      /\ grants[lane] = Granted(lane)
                          /\ writers[lane] = "old" =>
                               /\ db.catalog = CatalogAt(Len(db.history))
                               /\ (old + 1)..Len(db.history) \subseteq Compatible
      BY DEF WritersRunOnCurrentSchema
    <2>2. Settled /\ Latest \in Nat
      BY <2>1, Sizes DEF MigrationInvariant, Types
    <2>3. writers[lane] = "new" => db.catalog = CatalogAt(Latest) /\ grants[lane] = Granted(lane)
      BY <2>2 DEF Settled, NewWritersAgree
    <2>4. ASSUME writers[lane] = "old"
          PROVE  /\ db.catalog = CatalogAt(Len(db.history))
                 /\ (old + 1)..Len(db.history) \subseteq Compatible
      <3>1. ~Drained
        BY <2>4 DEF Drained
      <3>2. PICK n \in 1..(Latest - 1) : db.history = Ours(n) /\ db.catalog = CatalogAt(n)
        BY <2>2, <3>1 DEF Settled, OldWritersAgree
      <3>3. PICK k \in Nat : k = old /\ db.history = Ours(k)
        BY <2>1, <2>2, <3>1 DEF OldInvariant
      <3>4. n \in Nat
        BY <2>2
      <3>5. Len(Ours(n)) = n /\ Len(Ours(k)) = k
        BY <3>4, OursFacts
      <3>6. (k + 1)..k = {}
        OBVIOUS
      <3> QED BY <3>2, <3>3, <3>5, <3>6
    <2> QED BY <2>3, <2>4
  <1> QED BY <1>1, MigrationInvariantHolds, PTL

\* A migrator that changes the database found a history of this package.
LEMMA OnlyOursChange ==
  ASSUME MigrationInvariant, MigrationNext, db' # db
  PROVE  \E n \in 0..Latest : db.history = Ours(n)
  <1>0. Types /\ Latest \in Nat /\ Versions = 1..Latest
    BY Sizes DEF MigrationInvariant, Types, Versions
  <1>1. PICK m \in Migrators : Execute(m) \/ Finish(m)
    <2>1. ASSUME NEW m \in Migrators, TakeLock(m) \/ ReadStatus(m) \/ LockTimeout(m) \/ Crash(m)
          PROVE  FALSE
      BY <2>1 DEF TakeLock, ReadStatus, LockTimeout, Crash
    <2>2. ASSUME NEW m, NEW q, NEW from, Invoke(m, q) \/ RenderScript(m, from, q)
          PROVE  FALSE
      BY <2>2 DEF Invoke, RenderScript
    <2>3. ASSUME NEW lane, \/ Drain \/ Remediate \/ RenderGrants
                           \/ StartWriters(lane) \/ RestartOldWriters(lane)
          PROVE  FALSE
      BY <2>3 DEF Drain, Remediate, RenderGrants, StartWriters, RestartOldWriters
    <2> QED BY <2>1, <2>2, <2>3 DEF MigrationNext, Step, Runs, migrate_postgres, migrate_mysql,
                 migrate_sqlite, migrate_approval_postgres, migrate_stripe_postgres
  <1>2. PICK g : g = mig[m]
    OBVIOUS
  <1>3. MigratorAgrees(m)
    BY DEF MigrationInvariant
  <1>4. CASE Execute(m)
    <2>1. g.pc = "run"
      BY <1>2, <1>4 DEF Execute
    <2>2. ~Collides(g)
      BY <1>2, <1>4, CollisionFails
    <2>3. Advances(g)
      BY <1>2, <1>3, <2>1, <2>2 DEF MigratorAgrees
    <2>4. PICK v \in Versions : /\ Transactional => \E n \in 0..(v - 1) : db.history = Ours(n)
                                /\ ~Transactional => db.history = Ours(v - 1)
      BY <2>3 DEF Advances
    <2>5. v - 1 \in 0..Latest /\ \A n \in 0..(v - 1) : n \in 0..Latest
      BY <1>0
    <2> QED BY <2>4, <2>5
  <1>5. CASE Finish(m)
    <2>1. g.pc = "finish" /\ Transactional /\ g.work # db
      BY <1>2, <1>5 DEF Finish
    <2>2. \E n \in 0..(Latest - 1) : db.history = Ours(n)
      BY <1>2, <1>3, <2>1 DEF MigratorAgrees, Commits
    <2> QED BY <1>0, <2>2
  <1> QED BY <1>1, <1>4, <1>5

\* A history with a gap, a newer version or another checksum is never extended and its
\* catalog never touched, by a migrator or by a script.
THEOREM ForeignHistoriesAreLeftAlone == QualificationSpec => ForeignHistoryIsLeftAlone
  <1>1. MigrationInvariant /\ [QualificationNext]_qvars
          => [db.history \notin { Ours(n) : n \in 0..Latest } => db' = db]_mvars
    <2>1. SUFFICES ASSUME MigrationInvariant, MigrationNext, db' # db
                   PROVE  db.history \in { Ours(n) : n \in 0..Latest }
      BY QualificationSteps
    <2>2. PICK n \in 0..Latest : db.history = Ours(n)
      BY <2>1, OnlyOursChange
    <2> QED BY <2>2
  <1> QED BY <1>1, MigrationInvariantHolds, PTL DEF QualificationSpec, ForeignHistoryIsLeftAlone

-----------------------------------------------------------------------------
(* MySQL commits statement by statement.  A lost migrator leaves part of a   *)
(* migration behind, and the next one begins that migration again.           *)

\* The object that a statement needs, there or not.
Required(s) == IF s.op = "call" THEN s.routine ELSE s.obj

\* Statement j of a script is the last before i to name an object.
LastBefore(s, j, i, o) == s[j].obj = o /\ \A k \in (j + 1)..(i - 1) : s[k].obj # o

\* Whatever the catalog was, the statements before one make it executable.
Prepared(s, i) ==
  s[i].op \in {"create", "drop", "call"} =>
    \E j \in 1..(i - 1) : /\ LastBefore(s, j, i, Required(s[i]))
                          /\ s[j].op # "ensure"
                          /\ (s[j].ver = 0) <=> (s[i].op = "create")

Rerunnable(s) ==
  \A i \in 1..Len(s) : Prepared(s, i) /\ (s[i].op = "ensure" => s[i].ver # 0)

\* Scripts that can be run again can be joined.
LEMMA RerunnableJoin ==
  ASSUME NEW S, NEW s \in Seq(S), NEW t \in Seq(S), Rerunnable(s), Rerunnable(t)
  PROVE  s \o t \in Seq(S) /\ Rerunnable(s \o t)
  <1>1. PICK N \in Nat : N = Len(s)
    OBVIOUS
  <1>2. PICK M \in Nat : M = Len(t)
    OBVIOUS
  <1>3. PICK u \in Seq(S) : u = s \o t
    BY Concatenation
  <1>4. /\ Len(u) = N + M
        /\ \A i \in 1..N : u[i] = s[i]
        /\ \A i \in 1..M : u[N + i] = t[i]
    BY <1>1, <1>2, <1>3, Concatenation
  <1>5. ASSUME NEW i \in 1..N
        PROVE  Prepared(u, i) /\ (u[i].op = "ensure" => u[i].ver # 0)
    <2>1. Prepared(s, i) /\ (s[i].op = "ensure" => s[i].ver # 0) /\ u[i] = s[i]
      BY <1>1, <1>4 DEF Rerunnable
    <2>2. \A k \in 1..(i - 1) : u[k] = s[k]
      BY <1>4
    <2>3. ASSUME NEW o, NEW j \in 1..(i - 1), LastBefore(s, j, i, o) PROVE LastBefore(u, j, i, o)
      <3>1. u[j] = s[j] /\ \A k \in (j + 1)..(i - 1) : u[k] = s[k]
        BY <2>2
      <3> QED BY ONLY <2>3, <3>1 DEF LastBefore
    <2> QED BY <2>1, <2>2, <2>3 DEF Prepared
  <1>6. ASSUME NEW i \in 1..M
        PROVE  Prepared(u, N + i) /\ (u[N + i].op = "ensure" => u[N + i].ver # 0)
    <2>1. Prepared(t, i) /\ (t[i].op = "ensure" => t[i].ver # 0) /\ u[N + i] = t[i]
      BY <1>2, <1>4 DEF Rerunnable
    <2>2. ASSUME t[i].op \in {"create", "drop", "call"}
          PROVE  \E j \in 1..((N + i) - 1) : /\ LastBefore(u, j, N + i, Required(t[i]))
                                             /\ u[j].op # "ensure"
                                             /\ (u[j].ver = 0) <=> (t[i].op = "create")
      <3>1. PICK j \in 1..(i - 1) : /\ LastBefore(t, j, i, Required(t[i]))
                                    /\ t[j].op # "ensure"
                                    /\ (t[j].ver = 0) <=> (t[i].op = "create")
        BY <2>1, <2>2 DEF Prepared
      <3>2. N + j \in 1..((N + i) - 1) /\ j \in 1..M
        OBVIOUS
      <3>3. u[N + j] = t[j]
        BY <1>4, <3>2
      <3>4. ASSUME NEW k \in ((N + j) + 1)..((N + i) - 1)
            PROVE  u[k].obj # Required(t[i])
        <4>1. PICK l \in (j + 1)..(i - 1) : k = N + l
          <5>1. k - N \in (j + 1)..(i - 1) /\ k = N + (k - N)
            OBVIOUS
          <5> QED BY <5>1
        <4>2. l \in 1..M
          OBVIOUS
        <4>3. u[k] = t[l]
          BY <1>4, <4>1, <4>2
        <4> QED BY <3>1, <4>3 DEF LastBefore
      <3>5. LastBefore(u, N + j, N + i, Required(t[i]))
        BY <3>1, <3>3, <3>4 DEF LastBefore
      <3> QED BY <3>1, <3>2, <3>3, <3>5
    <2> QED BY <2>1, <2>2 DEF Prepared
  <1>7. ASSUME NEW i \in 1..Len(u)
        PROVE  Prepared(u, i) /\ (u[i].op = "ensure" => u[i].ver # 0)
    <2>1. CASE i \in 1..N
      BY <1>5, <2>1
    <2>2. CASE i \notin 1..N
      <3>1. PICK l \in 1..M : i = N + l
        <4>1. i - N \in 1..M /\ i = N + (i - N)
          BY <1>4, <2>2
        <4> QED BY <4>1
      <3> QED BY <1>6, <3>1
    <2> QED BY <2>1, <2>2
  <1> QED BY <1>3, <1>7 DEF Rerunnable

\* Recreating a routine needs nothing from before.
LEMMA RecreateReruns ==
  ASSUME NEW o, NEW v \in Nat, v # 0
  PROVE  Rerunnable(Recreate(o, v))
  <1>1. PICK s : s = Recreate(o, v)
    OBVIOUS
  <1>2. Len(s) = 2 /\ s[1] = DropIfExists(o) /\ s[2] = Create(o, v)
    BY <1>1 DEF Recreate
  <1>3. /\ s[1].op = "remove" /\ s[1].obj = o /\ s[1].ver = 0
        /\ s[2].op = "create" /\ s[2].obj = o
    BY <1>2 DEF DropIfExists, Create
  <1>4. LastBefore(s, 1, 2, o)
    BY <1>3 DEF LastBefore
  <1>5. Prepared(s, 1) /\ Prepared(s, 2)
    BY <1>3, <1>4 DEF Prepared, Required
  <1>6. \A i \in 1..2 : i = 1 \/ i = 2
    OBVIOUS
  <1> QED BY <1>1, <1>2, <1>3, <1>5, <1>6 DEF Rerunnable

\* Each statement of the second MySQL script before its routines finds what it needs,
\* because one before it left it so.
LEMMA MySQL002TablesReruns ==
  Rerunnable(MySQL002Tables) /\ MySQL002Tables \in Seq(AssertedStatement \union DataStatements)
  <1>1. PICK c : c = MySQL002Tables
    OBVIOUS
  <1>2. Len(c) = 24 /\ c \in Seq(AssertedStatement \union DataStatements)
    BY <1>1, MySQL002TablesList
  <1>0. /\ c[1] = DropIfExists("claim_fk") /\ c[2] = DropIfExists("json_created")
        /\ c[3] = DropIfExists("json_expires") /\ c[4] = DropIfExists("claim_fk_index")
        /\ c[5] = DropIfExists("identity_digest") /\ c[6] = DropIfExists("required_shape")
        /\ c[7] = Ensure("effect_identity", 2) /\ c[8] = Replace("claim_identities", 2)
        /\ c[9] = Ensure("identity_unique", 2) /\ c[10] = Ensure("claim_fk_index", 2)
        /\ c[11] = Ensure("claim_fk", 2) /\ c[12] = Create("identity_digest", 2)
        /\ c[13] = DropIfExists("guard_trigger") /\ c[14] = DropIfExists("migrate_datetime")
        /\ c[15] = Create("migrate_datetime", 2) /\ c[16] = DropIfExists("canonicalize")
        /\ c[17] = Create("canonicalize", 2) /\ c[18] = Call("datetimes", "canonicalize", 2)
        /\ c[19] = Drop("canonicalize") /\ c[20] = Drop("migrate_datetime")
        /\ c[21] = Create("required_shape", 2) /\ c[22] = Create("json_created", 2)
        /\ c[23] = Create("json_expires", 2) /\ c[24] = Create("guard_trigger", 2)
    BY ONLY <1>1, MySQL002TablesList
  <1>3. /\ c[1].obj = "claim_fk" /\ c[2].obj = "json_created" /\ c[3].obj = "json_expires"
        /\ c[4].obj = "claim_fk_index" /\ c[5].obj = "identity_digest" /\ c[6].obj = "required_shape"
        /\ c[7].obj = "effect_identity" /\ c[8].obj = "claim_identities" /\ c[9].obj = "identity_unique"
        /\ c[10].obj = "claim_fk_index" /\ c[11].obj = "claim_fk" /\ c[12].obj = "identity_digest"
        /\ c[13].obj = "guard_trigger" /\ c[14].obj = "migrate_datetime" /\ c[15].obj = "migrate_datetime"
        /\ c[16].obj = "canonicalize" /\ c[17].obj = "canonicalize" /\ c[18].obj = "datetimes"
        /\ c[19].obj = "canonicalize" /\ c[20].obj = "migrate_datetime" /\ c[21].obj = "required_shape"
        /\ c[22].obj = "json_created" /\ c[23].obj = "json_expires" /\ c[24].obj = "guard_trigger"
    BY ONLY <1>0, StatementFields
  <1>4. /\ c[1].op = "remove" /\ c[2].op = "remove" /\ c[3].op = "remove" /\ c[4].op = "remove"
        /\ c[5].op = "remove" /\ c[6].op = "remove" /\ c[7].op = "ensure" /\ c[8].op = "replace"
        /\ c[9].op = "ensure" /\ c[10].op = "ensure" /\ c[11].op = "ensure" /\ c[12].op = "create"
        /\ c[13].op = "remove" /\ c[14].op = "remove" /\ c[15].op = "create" /\ c[16].op = "remove"
        /\ c[17].op = "create" /\ c[18].op = "call" /\ c[19].op = "drop" /\ c[20].op = "drop"
        /\ c[21].op = "create" /\ c[22].op = "create" /\ c[23].op = "create" /\ c[24].op = "create"
        /\ c[18].routine = "canonicalize"
    BY ONLY <1>0, StatementFields
  <1>5. /\ c[1].ver = 0 /\ c[2].ver = 0 /\ c[3].ver = 0 /\ c[4].ver = 0 /\ c[5].ver = 0 /\ c[6].ver = 0
        /\ c[7].ver = 2 /\ c[8].ver = 2 /\ c[9].ver = 2 /\ c[10].ver = 2 /\ c[11].ver = 2 /\ c[12].ver = 2
        /\ c[13].ver = 0 /\ c[14].ver = 0 /\ c[15].ver = 2 /\ c[16].ver = 0 /\ c[17].ver = 2 /\ c[18].ver = 2
        /\ c[19].ver = 0 /\ c[20].ver = 0 /\ c[21].ver = 2 /\ c[22].ver = 2 /\ c[23].ver = 2 /\ c[24].ver = 2
    BY ONLY <1>0, StatementFields
  <1>6. LastBefore(c, 5, 12, "identity_digest")
    <2>1. \A k \in (5 + 1)..(12 - 1) : k = 6 \/ k = 7 \/ k = 8 \/ k = 9 \/ k = 10 \/ k = 11
      BY ONLY TRUE
    <2> QED BY ONLY <1>3, <2>1 DEF LastBefore
  <1>7. LastBefore(c, 14, 15, "migrate_datetime")
    <2>1. (14 + 1)..(15 - 1) = {}
      BY ONLY TRUE
    <2> QED BY ONLY <1>3, <2>1 DEF LastBefore
  <1>8. LastBefore(c, 16, 17, "canonicalize")
    <2>1. (16 + 1)..(17 - 1) = {}
      BY ONLY TRUE
    <2> QED BY ONLY <1>3, <2>1 DEF LastBefore
  <1>9. LastBefore(c, 17, 18, "canonicalize")
    <2>1. (17 + 1)..(18 - 1) = {}
      BY ONLY TRUE
    <2> QED BY ONLY <1>3, <2>1 DEF LastBefore
  <1>10. LastBefore(c, 17, 19, "canonicalize")
    <2>1. \A k \in (17 + 1)..(19 - 1) : k = 18
      BY ONLY TRUE
    <2> QED BY ONLY <1>3, <2>1 DEF LastBefore
  <1>11. LastBefore(c, 15, 20, "migrate_datetime")
    <2>1. \A k \in (15 + 1)..(20 - 1) : k = 16 \/ k = 17 \/ k = 18 \/ k = 19
      BY ONLY TRUE
    <2> QED BY ONLY <1>3, <2>1 DEF LastBefore
  <1>12. LastBefore(c, 6, 21, "required_shape")
    <2>1. \A k \in (6 + 1)..(21 - 1) :
            k = 7 \/ k = 8 \/ k = 9 \/ k = 10 \/ k = 11 \/ k = 12 \/ k = 13 \/ k = 14 \/ k = 15 \/ k = 16 \/ k = 17 \/ k = 18 \/ k = 19 \/ k = 20
      BY ONLY TRUE
    <2> QED BY ONLY <1>3, <2>1 DEF LastBefore
  <1>13. LastBefore(c, 2, 22, "json_created")
    <2>1. \A k \in (2 + 1)..(22 - 1) :
            k = 3 \/ k = 4 \/ k = 5 \/ k = 6 \/ k = 7 \/ k = 8 \/ k = 9 \/ k = 10 \/ k = 11 \/ k = 12 \/ k = 13 \/ k = 14 \/ k = 15 \/ k = 16 \/ k = 17 \/ k = 18 \/ k = 19 \/ k = 20 \/ k = 21
      BY ONLY TRUE
    <2> QED BY ONLY <1>3, <2>1 DEF LastBefore
  <1>14. LastBefore(c, 3, 23, "json_expires")
    <2>1. \A k \in (3 + 1)..(23 - 1) :
            k = 4 \/ k = 5 \/ k = 6 \/ k = 7 \/ k = 8 \/ k = 9 \/ k = 10 \/ k = 11 \/ k = 12 \/ k = 13 \/ k = 14 \/ k = 15 \/ k = 16 \/ k = 17 \/ k = 18 \/ k = 19 \/ k = 20 \/ k = 21 \/ k = 22
      BY ONLY TRUE
    <2> QED BY ONLY <1>3, <2>1 DEF LastBefore
  <1>15. LastBefore(c, 13, 24, "guard_trigger")
    <2>1. \A k \in (13 + 1)..(24 - 1) :
            k = 14 \/ k = 15 \/ k = 16 \/ k = 17 \/ k = 18 \/ k = 19 \/ k = 20 \/ k = 21 \/ k = 22 \/ k = 23
      BY ONLY TRUE
    <2> QED BY ONLY <1>3, <2>1 DEF LastBefore
  <1>16. Prepared(c, 12)
    <2>1. 5 \in 1..(12 - 1)
      BY ONLY TRUE
    <2>2. Required(c[12]) = "identity_digest"
      BY ONLY <1>3, <1>4 DEF Required
    <2>3. c[5].op # "ensure" /\ ((c[5].ver = 0) <=> (c[12].op = "create"))
      BY ONLY <1>4, <1>5
    <2> QED BY ONLY <1>6, <2>1, <2>2, <2>3 DEF Prepared
  <1>17. Prepared(c, 15)
    <2>1. 14 \in 1..(15 - 1)
      BY ONLY TRUE
    <2>2. Required(c[15]) = "migrate_datetime"
      BY ONLY <1>3, <1>4 DEF Required
    <2>3. c[14].op # "ensure" /\ ((c[14].ver = 0) <=> (c[15].op = "create"))
      BY ONLY <1>4, <1>5
    <2> QED BY ONLY <1>7, <2>1, <2>2, <2>3 DEF Prepared
  <1>18. Prepared(c, 17)
    <2>1. 16 \in 1..(17 - 1)
      BY ONLY TRUE
    <2>2. Required(c[17]) = "canonicalize"
      BY ONLY <1>3, <1>4 DEF Required
    <2>3. c[16].op # "ensure" /\ ((c[16].ver = 0) <=> (c[17].op = "create"))
      BY ONLY <1>4, <1>5
    <2> QED BY ONLY <1>8, <2>1, <2>2, <2>3 DEF Prepared
  <1>19. Prepared(c, 18)
    <2>1. 17 \in 1..(18 - 1)
      BY ONLY TRUE
    <2>2. Required(c[18]) = "canonicalize"
      BY ONLY <1>3, <1>4 DEF Required
    <2>3. c[17].op # "ensure" /\ ((c[17].ver = 0) <=> (c[18].op = "create"))
      BY ONLY <1>4, <1>5
    <2> QED BY ONLY <1>9, <2>1, <2>2, <2>3 DEF Prepared
  <1>20. Prepared(c, 19)
    <2>1. 17 \in 1..(19 - 1)
      BY ONLY TRUE
    <2>2. Required(c[19]) = "canonicalize"
      BY ONLY <1>3, <1>4 DEF Required
    <2>3. c[17].op # "ensure" /\ ((c[17].ver = 0) <=> (c[19].op = "create"))
      BY ONLY <1>4, <1>5
    <2> QED BY ONLY <1>10, <2>1, <2>2, <2>3 DEF Prepared
  <1>21. Prepared(c, 20)
    <2>1. 15 \in 1..(20 - 1)
      BY ONLY TRUE
    <2>2. Required(c[20]) = "migrate_datetime"
      BY ONLY <1>3, <1>4 DEF Required
    <2>3. c[15].op # "ensure" /\ ((c[15].ver = 0) <=> (c[20].op = "create"))
      BY ONLY <1>4, <1>5
    <2> QED BY ONLY <1>11, <2>1, <2>2, <2>3 DEF Prepared
  <1>22. Prepared(c, 21)
    <2>1. 6 \in 1..(21 - 1)
      BY ONLY TRUE
    <2>2. Required(c[21]) = "required_shape"
      BY ONLY <1>3, <1>4 DEF Required
    <2>3. c[6].op # "ensure" /\ ((c[6].ver = 0) <=> (c[21].op = "create"))
      BY ONLY <1>4, <1>5
    <2> QED BY ONLY <1>12, <2>1, <2>2, <2>3 DEF Prepared
  <1>23. Prepared(c, 22)
    <2>1. 2 \in 1..(22 - 1)
      BY ONLY TRUE
    <2>2. Required(c[22]) = "json_created"
      BY ONLY <1>3, <1>4 DEF Required
    <2>3. c[2].op # "ensure" /\ ((c[2].ver = 0) <=> (c[22].op = "create"))
      BY ONLY <1>4, <1>5
    <2> QED BY ONLY <1>13, <2>1, <2>2, <2>3 DEF Prepared
  <1>24. Prepared(c, 23)
    <2>1. 3 \in 1..(23 - 1)
      BY ONLY TRUE
    <2>2. Required(c[23]) = "json_expires"
      BY ONLY <1>3, <1>4 DEF Required
    <2>3. c[3].op # "ensure" /\ ((c[3].ver = 0) <=> (c[23].op = "create"))
      BY ONLY <1>4, <1>5
    <2> QED BY ONLY <1>14, <2>1, <2>2, <2>3 DEF Prepared
  <1>25. Prepared(c, 24)
    <2>1. 13 \in 1..(24 - 1)
      BY ONLY TRUE
    <2>2. Required(c[24]) = "guard_trigger"
      BY ONLY <1>3, <1>4 DEF Required
    <2>3. c[13].op # "ensure" /\ ((c[13].ver = 0) <=> (c[24].op = "create"))
      BY ONLY <1>4, <1>5
    <2> QED BY ONLY <1>15, <2>1, <2>2, <2>3 DEF Prepared
  <1>26. /\ Prepared(c, 1) /\ Prepared(c, 2) /\ Prepared(c, 3) /\ Prepared(c, 4) /\ Prepared(c, 5)
         /\ Prepared(c, 6) /\ Prepared(c, 7) /\ Prepared(c, 8) /\ Prepared(c, 9) /\ Prepared(c, 10)
         /\ Prepared(c, 11) /\ Prepared(c, 13) /\ Prepared(c, 14) /\ Prepared(c, 16)
    BY ONLY <1>4 DEF Prepared
  <1>27. ASSUME NEW i \in 1..24 PROVE Prepared(c, i) /\ (c[i].op = "ensure" => c[i].ver # 0)
    <2>1. i = 1 \/ i = 2 \/ i = 3 \/ i = 4 \/ i = 5 \/ i = 6 \/ i = 7 \/ i = 8 \/ i = 9 \/ i = 10 \/ i = 11 \/ i = 12
          \/ i = 13 \/ i = 14 \/ i = 15 \/ i = 16 \/ i = 17 \/ i = 18 \/ i = 19 \/ i = 20 \/ i = 21 \/ i = 22 \/ i = 23 \/ i = 24
      BY ONLY i \in 1..24
    <2>2. c[i].op = "ensure" => c[i].ver # 0
      BY ONLY <1>4, <1>5, <2>1
    <2>3. Prepared(c, i)
      BY ONLY <1>16, <1>17, <1>18, <1>19, <1>20, <1>21, <1>22, <1>23, <1>24, <1>25, <1>26, <2>1
    <2> QED BY ONLY <2>2, <2>3
  <1> QED BY <1>1, <1>2, <1>27 DEF Rerunnable

\* A script of statements of S that can be run again.
Script(S, s) == s \in Seq(S) /\ Rerunnable(s)

\* Joining two of them gives one.
LEMMA ScriptJoin ==
  ASSUME NEW S, NEW s, NEW t, Script(S, s), Script(S, t)
  PROVE  Script(S, s \o t)
  BY RerunnableJoin DEF Script

\* What recreates its objects can be run again.
LEMMA RecreateScript ==
  ASSUME NEW o \in Asserted, NEW v \in Nat, v # 0
  PROVE  Script(AssertedStatement, Recreate(o, v))
  BY RecreateReruns, RecreateTypes DEF Script

\* The tables that the first MySQL migration ensures.
LEMMA EnsureScript ==
  Script(AssertedStatement, <<Ensure("proposals", 1), Ensure("effect_claims", 1)>>)
  <1>1. PICK s : s = <<Ensure("proposals", 1), Ensure("effect_claims", 1)>>
    OBVIOUS
  <1>2. s \in Seq(AssertedStatement)
    BY <1>1, AssertedStatementTypes DEF Asserted
  <1>3. Len(s) = 2 /\ s[1] = Ensure("proposals", 1) /\ s[2] = Ensure("effect_claims", 1)
    BY ONLY <1>1
  <1>4. s[1].op = "ensure" /\ s[1].ver = 1 /\ s[2].op = "ensure" /\ s[2].ver = 1
    BY ONLY <1>3, StatementFields
  <1>5. \A i \in 1..2 : i = 1 \/ i = 2
    OBVIOUS
  <1>6. \A i \in 1..Len(s) : s[i].op = "ensure" /\ s[i].ver = 1
    BY ONLY <1>3, <1>4, <1>5
  <1>7. Rerunnable(s)
    BY ONLY <1>6 DEF Rerunnable, Prepared
  <1> QED BY <1>1, <1>2, <1>7 DEF Script

\* Every MySQL script can be run again on whatever part of it was executed.
LEMMA MySQLReruns ==
  /\ Script(Statement, MySQL001) /\ Script(Statement, MySQL002)
  /\ Script(Statement, MySQL003) /\ Script(Statement, MySQL004)
  <1> DEFINE S == AssertedStatement
             D == S \union DataStatements
  <1>1. /\ "guard_trigger" \in Asserted /\ "runtime_update" \in Asserted /\ "transfer" \in Asserted
        /\ "mark_erasure" \in Asserted /\ "complete_erasure" \in Asserted
        /\ "validate" \in Asserted /\ "create_proposal" \in Asserted /\ "claim_effect" \in Asserted
    BY DEF Asserted
  <1>2. \A v \in 1..4 :
          /\ Script(S, Recreate("guard_trigger", v)) /\ Script(S, Recreate("runtime_update", v))
          /\ Script(S, Recreate("transfer", v)) /\ Script(S, Recreate("mark_erasure", v))
          /\ Script(S, Recreate("complete_erasure", v)) /\ Script(S, Recreate("validate", v))
          /\ Script(S, Recreate("create_proposal", v)) /\ Script(S, Recreate("claim_effect", v))
    <2>1. SUFFICES ASSUME NEW v \in 1..4, NEW o \in Asserted PROVE Script(S, Recreate(o, v))
      BY <1>1
    <2>2. v \in Nat /\ v # 0
      OBVIOUS
    <2> QED BY <2>2, RecreateScript
  <1> HIDE DEF S

  <1>3. Script(S, MySQL001)
    <2>1. PICK a1 : a1 = <<Ensure("proposals", 1), Ensure("effect_claims", 1)>>
      OBVIOUS
    <2>2. Script(S, a1)
      BY <2>1, EnsureScript DEF S
    <2>3. PICK a2 : a2 = a1 \o Recreate("guard_trigger", 1)
      OBVIOUS
    <2>4. Script(S, a2)
      BY <1>2, <2>2, <2>3, ScriptJoin
    <2>5. PICK a3 : a3 = a2 \o Recreate("runtime_update", 1)
      OBVIOUS
    <2>6. Script(S, a3)
      BY <1>2, <2>4, <2>5, ScriptJoin
    <2>7. PICK a4 : a4 = a3 \o Recreate("transfer", 1)
      OBVIOUS
    <2>8. Script(S, a4)
      BY <1>2, <2>6, <2>7, ScriptJoin
    <2>9. PICK a5 : a5 = a4 \o Recreate("mark_erasure", 1)
      OBVIOUS
    <2>10. Script(S, a5)
      BY <1>2, <2>8, <2>9, ScriptJoin
    <2>11. PICK a6 : a6 = a5 \o Recreate("complete_erasure", 1)
      OBVIOUS
    <2>12. Script(S, a6)
      BY <1>2, <2>10, <2>11, ScriptJoin
    <2>13. a6 = MySQL001
      BY ONLY <2>1, <2>3, <2>5, <2>7, <2>9, <2>11 DEF MySQL001
    <2> QED BY <2>12, <2>13
  <1>4. Script(S, MySQL002Routines)
    <2>1. PICK a1 : a1 = Recreate("validate", 2)
      OBVIOUS
    <2>2. Script(S, a1)
      BY <1>2, <2>1
    <2>3. PICK a2 : a2 = a1 \o Recreate("create_proposal", 2)
      OBVIOUS
    <2>4. Script(S, a2)
      BY <1>2, <2>2, <2>3, ScriptJoin
    <2>5. PICK a3 : a3 = a2 \o Recreate("claim_effect", 2)
      OBVIOUS
    <2>6. Script(S, a3)
      BY <1>2, <2>4, <2>5, ScriptJoin
    <2>7. PICK a4 : a4 = a3 \o Recreate("runtime_update", 2)
      OBVIOUS
    <2>8. Script(S, a4)
      BY <1>2, <2>6, <2>7, ScriptJoin
    <2>9. PICK a5 : a5 = a4 \o Recreate("transfer", 2)
      OBVIOUS
    <2>10. Script(S, a5)
      BY <1>2, <2>8, <2>9, ScriptJoin
    <2>11. PICK a6 : a6 = a5 \o Recreate("mark_erasure", 2)
      OBVIOUS
    <2>12. Script(S, a6)
      BY <1>2, <2>10, <2>11, ScriptJoin
    <2>13. PICK a7 : a7 = a6 \o Recreate("complete_erasure", 2)
      OBVIOUS
    <2>14. Script(S, a7)
      BY <1>2, <2>12, <2>13, ScriptJoin
    <2>15. a7 = MySQL002Routines
      BY ONLY <2>1, <2>3, <2>5, <2>7, <2>9, <2>11, <2>13 DEF MySQL002Routines
    <2> QED BY <2>14, <2>15
  <1>5. Script(S, MySQL003)
    <2>1. PICK a1 : a1 = Recreate("guard_trigger", 3)
      OBVIOUS
    <2>2. Script(S, a1)
      BY <1>2, <2>1
    <2>3. PICK a2 : a2 = a1 \o Recreate("validate", 3)
      OBVIOUS
    <2>4. Script(S, a2)
      BY <1>2, <2>2, <2>3, ScriptJoin
    <2>5. PICK a3 : a3 = a2 \o Recreate("runtime_update", 3)
      OBVIOUS
    <2>6. Script(S, a3)
      BY <1>2, <2>4, <2>5, ScriptJoin
    <2>7. a3 = MySQL003
      BY ONLY <2>1, <2>3, <2>5 DEF MySQL003
    <2> QED BY <2>6, <2>7
  <1>6. Script(S, MySQL004)
    <2>1. PICK a1 : a1 = Recreate("validate", 4)
      OBVIOUS
    <2>2. Script(S, a1)
      BY <1>2, <2>1
    <2>3. PICK a2 : a2 = a1 \o Recreate("runtime_update", 4)
      OBVIOUS
    <2>4. Script(S, a2)
      BY <1>2, <2>2, <2>3, ScriptJoin
    <2>5. a2 = MySQL004
      BY ONLY <2>1, <2>3 DEF MySQL004
    <2> QED BY <2>4, <2>5
  <1>7. S \subseteq D
    OBVIOUS
  <1> HIDE DEF D
  <1>8. Script(D, MySQL002Tables)
    BY MySQL002TablesReruns DEF Script, D, S
  <1>9. Script(D, MySQL002Routines)
    BY <1>4, <1>7, SeqMonotone DEF Script
  <1>10. Script(D, MySQL002Tables \o MySQL002Routines)
    BY <1>8, <1>9, ScriptJoin
  <1>11. MySQL002 = MySQL002Tables \o MySQL002Routines
    BY DEF MySQL002, MySQL002Tables
  <1> QED BY <1>3, <1>5, <1>6, <1>10, <1>11, MySQLScripts DEF Script

\* What each statement before n left, unless a later one named its object again.
Effective(s, n, c) ==
  \A j \in 1..(n - 1) : LastBefore(s, j, n, s[j].obj) =>
    IF s[j].op = "ensure" THEN c[s[j].obj] # 0 ELSE c[s[j].obj] = s[j].ver

\* Then the next statement executes, and the same holds after it.
LEMMA EffectiveStep ==
  ASSUME NEW O, NEW c \in [O -> Nat], NEW s, Script(Statement, s),
         \A i \in 1..Len(s) : s[i].obj \in O, NEW n \in 1..Len(s), Effective(s, n, c)
  PROVE  Executes(s[n], c) /\ Effective(s, n + 1, After(s[n], c))
  <1>1. s \in Seq(Statement) /\ Len(s) \in Nat /\ Rerunnable(s)
    BY DEF Script
  <1>2. PICK q \in Statement : q = s[n] /\ q.obj \in O
    BY <1>1
  <1>3. Prepared(s, n) /\ (q.op = "ensure" => q.ver # 0)
    BY <1>1, <1>2 DEF Rerunnable
  <1>4. Executes(q, c)
    <2>1. CASE q.op \in {"create", "drop", "call"}
      <3>1. PICK j \in 1..(n - 1) : /\ LastBefore(s, j, n, Required(q))
                                    /\ s[j].op # "ensure"
                                    /\ (s[j].ver = 0) <=> (q.op = "create")
        BY <1>2, <1>3, <2>1 DEF Prepared
      <3>2. s[j].obj = Required(q) /\ LastBefore(s, j, n, s[j].obj)
        BY <3>1 DEF LastBefore
      <3>3. c[Required(q)] = s[j].ver
        BY <3>1, <3>2 DEF Effective
      <3>4. (c[Required(q)] = 0) <=> (q.op = "create")
        BY <3>1, <3>3
      <3> QED BY <2>1, <3>4 DEF Executes, Required
    <2>2. CASE q.op \notin {"create", "drop", "call"}
      BY <2>2 DEF Executes
    <2> QED BY <2>1, <2>2
  <1>5. PICK d : d = After(q, c)
    OBVIOUS
  <1>6. /\ \A o \in O : o # q.obj => d[o] = c[o]
        /\ q.op # "ensure" => d[q.obj] = q.ver
    BY <1>2, <1>5, AfterType
  <1>7. q.op = "ensure" => d[q.obj] # 0
    <2>1. q.ver \in Nat
      BY DEF Statement, StatementsOn
    <2> QED BY <1>2, <1>3, <1>5, <2>1 DEF After
  <1>8. ASSUME NEW j \in 1..n, LastBefore(s, j, n + 1, s[j].obj)
        PROVE  IF s[j].op = "ensure" THEN d[s[j].obj] # 0 ELSE d[s[j].obj] = s[j].ver
    <2>1. CASE j = n
      BY <1>2, <1>6, <1>7, <2>1
    <2>2. CASE j # n
      <3>1. j \in 1..(n - 1) /\ n \in (j + 1)..((n + 1) - 1) /\ j \in 1..Len(s)
        BY <1>1, <2>2
      <3>2. q.obj # s[j].obj
        BY <1>2, <1>8, <3>1 DEF LastBefore
      <3>3. LastBefore(s, j, n, s[j].obj)
        <4>1. \A k \in (j + 1)..(n - 1) : k \in (j + 1)..((n + 1) - 1)
          BY <1>1
        <4> QED BY <1>8, <4>1 DEF LastBefore
      <3>4. IF s[j].op = "ensure" THEN c[s[j].obj] # 0 ELSE c[s[j].obj] = s[j].ver
        BY <3>1, <3>3 DEF Effective
      <3>5. d[s[j].obj] = c[s[j].obj]
        BY <1>6, <3>1, <3>2
      <3> QED BY <3>4, <3>5
    <2> QED BY <2>1, <2>2
  <1>9. Effective(s, n + 1, d)
    <2>1. (n + 1) - 1 = n
      BY <1>1
    <2> QED BY <1>8, <2>1 DEF Effective
  <1> QED BY <1>2, <1>4, <1>5, <1>9

\* The scripts of MySQL by version.
LEMMA MySQLScriptOf ==
  ASSUME adapter = "mysql", NEW v \in Versions
  PROVE  /\ Script(Statement, Packaged[adapter][v])
         /\ \A i \in 1..Len(Packaged[adapter][v]) : Packaged[adapter][v][i].obj \in Objects
  <1>1. adapter \in AllAdapters /\ Latest = 4 /\ Versions = 1..4
    BY Sizes DEF AllAdapters, Versions
  <1>2. Packaged[adapter] = <<MySQL001, MySQL002, MySQL003, MySQL004>>
    BY DEF Packaged
  <1>3. v = 1 \/ v = 2 \/ v = 3 \/ v = 4
    BY <1>1
  <1>4. Script(Statement, Packaged[adapter][v])
    BY <1>2, <1>3, MySQLReruns
  <1>5. v \in 1..Len(Packaged[adapter])
    BY DEF Versions, Latest
  <1>6. \A i \in 1..Len(Packaged[adapter][v]) : Packaged[adapter][v][i].obj \in Objects
    BY <1>1, <1>5, ScriptsOf, CatalogFacts
  <1> QED BY <1>4, <1>6

\* What a MySQL migrator finds of the statements it has executed.
RerunAgrees(m) ==
  adapter = "mysql" /\ mig[m].pc = "run" =>
    \A v \in Versions : mig[m].pending = v..Latest =>
      Effective(Packaged[adapter][v], mig[m].next, db.catalog)

RerunInvariant == \A m \in Migrators : RerunAgrees(m)

\* The next statement of a MySQL migrator never fails, and its history row is new.
MySQLStatementsExecute ==
  \A m \in Migrators : adapter = "mysql" /\ mig[m].pc = "run" =>
    LET v == FirstOf(mig[m].pending)
        s == Statements(v)[mig[m].next]
    IN  IF s.op = "record" THEN v \notin AppliedVersions(db.history)
        ELSE Executes(s, db.catalog)

\* So the migrator's statement executes.
LEMMA NextExecutes ==
  ASSUME MigrationInvariant, NEW m \in Migrators, RerunAgrees(m), adapter = "mysql",
         NEW g, g = mig[m], g.pc = "run"
  PROVE  \E v \in Versions :
           /\ g.pending = v..Latest /\ FirstOf(g.pending) = v
           /\ g.next \in 1..(Len(Packaged[adapter][v]) + 1)
           /\ v \notin AppliedVersions(db.history)
           /\ g.next \in 1..Len(Packaged[adapter][v]) =>
                /\ Executes(Packaged[adapter][v][g.next], db.catalog)
                /\ Effective(Packaged[adapter][v], g.next + 1,
                             After(Packaged[adapter][v][g.next], db.catalog))
  <1>1. adapter \in AllAdapters /\ Latest = 4 /\ Versions = 1..4 /\ db \in Schema
    BY Sizes DEF MigrationInvariant, Types, AllAdapters, Versions
  <1>2. Advances(g)
    BY DEF MigrationInvariant, MigratorAgrees, Collides, Single
  <1>3. PICK v \in Versions : /\ g.pending = v..Latest
                              /\ g.next \in 1..(Len(Packaged[adapter][v]) + 1)
                              /\ db.history = Ours(v - 1)
    BY <1>2 DEF Advances, Transactional
  <1>4. FirstOf(g.pending) = v
    <2>1. v \in Nat /\ Latest \in Nat /\ v <= Latest
      BY <1>1
    <2> QED BY <1>3, <2>1, FirstOfRange
  <1>5. v \notin AppliedVersions(db.history)
    <2>1. v - 1 \in 0..Latest
      BY <1>1
    <2>2. AppliedVersions(Ours(v - 1)) = 1..(v - 1)
      BY <1>1, <2>1, PendingOfOurs
    <2>3. v \notin 1..(v - 1)
      BY <1>1
    <2> QED BY <1>3, <2>2, <2>3
  <1>6. PICK p : p = Packaged[adapter][v]
    OBVIOUS
  <1>7. Script(Statement, p) /\ \A i \in 1..Len(p) : p[i].obj \in Objects
    BY <1>6, MySQLScriptOf
  <1>8. Effective(p, g.next, db.catalog)
    BY <1>3, <1>6 DEF RerunAgrees
  <1>9. PICK c \in [Objects -> Nat] : c = db.catalog
    BY <1>1 DEF Schema
  <1>10. ASSUME g.next \in 1..Len(p)
         PROVE  Executes(p[g.next], c) /\ Effective(p, g.next + 1, After(p[g.next], c))
    <2>1. PICK n \in 1..Len(p) : n = g.next
      BY <1>10
    <2>2. Effective(p, n, c)
      BY <1>8, <1>9, <2>1
    <2>3. Executes(p[n], c) /\ Effective(p, n + 1, After(p[n], c))
      BY ONLY c \in [Objects -> Nat], n \in 1..Len(p), <1>7, <2>2, EffectiveStep
    <2> QED BY <2>1, <2>3
  <1> QED BY <1>3, <1>4, <1>5, <1>6, <1>9, <1>10

\* The steps of others than the one who executes.
LEMMA RerunFrame ==
  ASSUME Types, NEW m \in Migrators, adapter = "mysql", MigrationNext,
         \A k \in Migrators : ~Execute(k)
  PROVE  /\ adapter' = adapter /\ db' = db
         /\ mig'[m] = mig[m] \/ mig'[m].pc # "run" \/ mig'[m].next = 1
  <1>1. mig \in [Migrators -> Migrator]
    BY DEF Types
  <1>2. Idle.pc # "run"
    BY DEF Idle
  <1>3. ASSUME NEW k \in Migrators, NEW q, NEW from, Invoke(k, q) \/ RenderScript(k, from, q)
        PROVE  /\ adapter' = adapter /\ db' = db
               /\ mig'[m] = mig[m] \/ mig'[m].pc # "run" \/ mig'[m].next = 1
    BY <1>1, <1>3 DEF Invoke, RenderScript
  <1>4. ASSUME NEW k \in Migrators, TakeLock(k)
        PROVE  /\ adapter' = adapter /\ db' = db
               /\ mig'[m] = mig[m] \/ mig'[m].pc # "run" \/ mig'[m].next = 1
    <2>1. PICK g \in Waiting : g = mig[k]
      BY <1>1, <1>4, MigratorCases DEF TakeLock
    <2>2. [g EXCEPT !.pc = "status"].pc = "status"
      BY DEF Waiting
    <2>3. mig' = [mig EXCEPT ![k] = [g EXCEPT !.pc = "status"]] /\ adapter' = adapter /\ db' = db
      BY <1>4, <2>1 DEF TakeLock
    <2> QED BY <1>1, <2>2, <2>3
  <1>5. ASSUME NEW k \in Migrators, Fail(k), adapter' = adapter, db' = db
        PROVE  mig'[m] = mig[m] \/ mig'[m].pc # "run" \/ mig'[m].next = 1
    BY <1>1, <1>2, <1>5 DEF Fail
  <1>6. ASSUME NEW k \in Migrators, ReadStatus(k)
        PROVE  /\ adapter' = adapter /\ db' = db
               /\ mig'[m] = mig[m] \/ mig'[m].pc # "run" \/ mig'[m].next = 1
    BY <1>1, <1>5, <1>6 DEF ReadStatus
  <1>7. ASSUME NEW k \in Migrators, LockTimeout(k) \/ Crash(k) \/ Finish(k)
        PROVE  /\ adapter' = adapter /\ db' = db
               /\ mig'[m] = mig[m] \/ mig'[m].pc # "run" \/ mig'[m].next = 1
    <2>1. adapter' = adapter /\ db' = db /\ Fail(k)
      BY <1>7 DEF LockTimeout, Crash, Finish, Transactional
    <2> QED BY <1>5, <2>1
  <1>8. ASSUME NEW lane, \/ Drain \/ Remediate \/ RenderGrants
                         \/ StartWriters(lane) \/ RestartOldWriters(lane)
        PROVE  adapter' = adapter /\ db' = db /\ mig' = mig
    BY <1>8 DEF Drain, Remediate, RenderGrants, StartWriters, RestartOldWriters
  <1> QED BY <1>3, <1>4, <1>6, <1>7, <1>8 DEF MigrationNext, Step, Runs, migrate_postgres,
       migrate_mysql, migrate_sqlite, migrate_approval_postgres, migrate_stripe_postgres

\* At the first statement nothing is claimed of the ones before.
LEMMA NothingBefore ==
  ASSUME NEW s, NEW c
  PROVE  Effective(s, 1, c)
  <1>1. 1..(1 - 1) = {}
    OBVIOUS
  <1> QED BY <1>1 DEF Effective

\* The one who executes.
LEMMA RerunExecute ==
  ASSUME MigrationInvariant, NEW m \in Migrators, RerunAgrees(m), adapter = "mysql", Execute(m),
         db' \in Schema
  PROVE  RerunAgrees(m)'
  <1>1. PICK g : g = mig[m]
    OBVIOUS
  <1>2. adapter' = adapter /\ g.pc = "run"
    BY <1>1 DEF Execute
  <1>3. PICK v \in Versions :
           /\ g.pending = v..Latest /\ FirstOf(g.pending) = v
           /\ g.next \in 1..(Len(Packaged[adapter][v]) + 1)
           /\ g.next \in 1..Len(Packaged[adapter][v]) =>
                Effective(Packaged[adapter][v], g.next + 1,
                          After(Packaged[adapter][v][g.next], db.catalog))
    BY <1>1, <1>2, NextExecutes
  <1>4. PICK s : s = Statements(v)[g.next]
    OBVIOUS
  <1>5. /\ adapter \in AllAdapters /\ Latest = 4 /\ Versions = 1..4
        /\ mig \in [Migrators -> Migrator] /\ db \in Schema
    BY Sizes DEF MigrationInvariant, Types, AllAdapters, Versions
  <1>6. g \in Working
    BY <1>1, <1>2, <1>5, MigratorCases
  <1>7. \/ Fail(m)
        \/ /\ mig' = [mig EXCEPT ![m] = Onward(g, v, Written(s, v, db))]
           /\ db' = Written(s, v, db)
    <2>1. (IF Transactional THEN g.work ELSE db) = db /\ ~Transactional
      BY DEF Transactional
    <2> QED BY <1>1, <1>3, <1>4, <2>1, ExecuteCases
  <1>8. CASE Fail(m)
    <2>1. mig'[m] = Idle
      BY <1>5, <1>8 DEF Fail
    <2> QED BY <2>1 DEF RerunAgrees, Idle
  <1>9. CASE ~Fail(m)
    <2>1. PICK h : h = Onward(g, v, Written(s, v, db))
      OBVIOUS
    <2>2. mig'[m] = h /\ db' = Written(s, v, db)
      BY <1>5, <1>7, <1>9, <2>1
    <2>3. Latest' = Latest /\ Versions' = Versions
      BY <1>2, Rigid
    <2>4. PICK N \in Nat : N = Len(Packaged[adapter][v])
      BY <1>5, StatementsOf
    <2>5. PICK after \in Schema : after = db'
      OBVIOUS
    <2>6. h = Onward(g, v, after)
      BY <2>1, <2>2, <2>5
    <2>7. /\ g.next # N + 1 => h.pending = g.pending /\ h.next = g.next + 1
          /\ g.next = N + 1 => h.next = 1
      <3>1. /\ adapter \in AllAdapters /\ g.pending = v..Latest
            /\ g.next \in 1..(Len(Packaged[adapter][v]) + 1)
        BY ONLY <1>3, <1>5
      <3>2. /\ g.next # Len(Packaged[adapter][v]) + 1 => h.pending = g.pending /\ h.next = g.next + 1
            /\ g.next = Len(Packaged[adapter][v]) + 1 => h.next = 1
        BY ONLY v \in Versions, after \in Schema, <1>6, <2>6, <3>1, OnwardFacts
      <3> QED BY ONLY <2>4, <3>2
    <2>8. SUFFICES ASSUME NEW w \in Versions, h.pending = w..Latest
                   PROVE  Effective(Packaged[adapter][w], h.next, after.catalog)
      BY <1>2, <2>2, <2>3, <2>5 DEF RerunAgrees
    <2>9. CASE g.next = N + 1
      BY <2>7, <2>9, NothingBefore
    <2>10. CASE g.next # N + 1
      <3>1. w = v
        <4>1. v \in Nat /\ w \in Nat /\ Latest \in Nat /\ v <= Latest /\ w <= Latest
          BY <1>5
        <4>2. v..Latest = w..Latest
          BY <1>3, <2>7, <2>8, <2>10
        <4> QED BY <4>1, <4>2, FirstOfRange
      <3>2. g.next \in 1..N
        BY <1>3, <2>4, <2>10
      <3>3. s = Packaged[adapter][v][g.next] /\ s.op # "record"
        <4>1. \A i \in 1..Len(Packaged[adapter][v]) :
                Statements(v)[i] = Packaged[adapter][v][i] /\ Statements(v)[i].op # "record"
          BY ONLY <1>5, v \in Versions, StatementsOf
        <4> QED BY ONLY <1>4, <2>4, <3>2, <4>1
      <3>4. after.catalog = After(s, db.catalog)
        <4>1. after = [db EXCEPT !.catalog = After(s, db.catalog)]
          BY ONLY <2>2, <2>5, <3>3 DEF Written
        <4> QED BY <1>5, <4>1 DEF Schema
      <3> QED BY <1>3, <2>4, <2>7, <2>10, <3>1, <3>2, <3>3, <3>4
    <2> QED BY <2>9, <2>10
  <1> QED BY <1>8, <1>9

\* Every step of the migrators, operators and writers keeps it.
LEMMA RerunStep ==
  ASSUME MigrationInvariant, RerunInvariant, MigrationNext
  PROVE  RerunInvariant'
  <1>1. SUFFICES ASSUME NEW m \in Migrators PROVE RerunAgrees(m)'
    BY DEF RerunInvariant
  <1>2. RerunAgrees(m) /\ Types
    BY DEF RerunInvariant, MigrationInvariant
  <1>3. adapter' = adapter
    <2>1. ASSUME NEW k, NEW q, NEW from, Invoke(k, q) \/ RenderScript(k, from, q)
          PROVE  adapter' = adapter
      BY <2>1 DEF Invoke, RenderScript
    <2>2. ASSUME NEW k, Runs(k) \/ LockTimeout(k) \/ Crash(k)
          PROVE  adapter' = adapter
      BY <2>2 DEF Runs, TakeLock, ReadStatus, Execute, Finish, LockTimeout, Crash
    <2>3. ASSUME NEW lane, \/ Drain \/ Remediate \/ RenderGrants
                           \/ StartWriters(lane) \/ RestartOldWriters(lane)
          PROVE  adapter' = adapter
      BY <2>3 DEF Drain, Remediate, RenderGrants, StartWriters, RestartOldWriters
    <2> QED BY <2>1, <2>2, <2>3 DEF MigrationNext, Step, migrate_postgres, migrate_mysql,
                 migrate_sqlite, migrate_approval_postgres, migrate_stripe_postgres
  <1>4. CASE adapter # "mysql"
    BY <1>3, <1>4 DEF RerunAgrees
  <1>5. CASE adapter = "mysql" /\ \A k \in Migrators : ~Execute(k)
    <2>1. db' = db /\ (mig'[m] = mig[m] \/ mig'[m].pc # "run" \/ mig'[m].next = 1)
      BY <1>2, <1>5, RerunFrame
    <2>2. Latest' = Latest /\ Versions' = Versions
      BY <1>3, Rigid
    <2> QED BY <1>2, <1>3, <2>1, <2>2, NothingBefore DEF RerunAgrees
  <1>6. CASE adapter = "mysql" /\ Execute(m)
    <2>1. db' \in Schema
      <3>1. Types'
        BY <1>6, ExecuteStep DEF MigrationInvariant
      <3> QED BY <1>3, <3>1, Rigid DEF Types
    <2> QED BY <1>2, <1>6, <2>1, RerunExecute
  <1>7. ASSUME adapter = "mysql", NEW k \in Migrators, Execute(k), k # m PROVE RerunAgrees(m)'
    <2>1. mig[k].pc = "run" /\ mig'[m] = mig[m]
      BY <1>2, <1>7 DEF Execute, Fail, Types
    <2>2. lock = k /\ MigratorAgrees(m)
      BY <2>1 DEF MigrationInvariant, MigratorAgrees
    <2>3. mig[m].pc \in {"idle", "lock"}
      BY <1>2, <1>7, <2>2, OneHolder
    <2> QED BY <2>1, <2>3 DEF RerunAgrees
  <1> QED BY <1>4, <1>5, <1>6, <1>7

\* A MySQL migration is committed statement by statement and begun again after a loss.  At
\* whatever statement earlier migrators were lost, no statement of a later one fails on what
\* they left behind, and no history row is written twice.
THEOREM RerunsMeetNoFailure == QualificationSpec => []MySQLStatementsExecute
  <1>1. QualificationInit => RerunInvariant
    BY DEF QualificationInit, MigrationInit, RerunInvariant, RerunAgrees, Idle
  <1>2. MigrationInvariant /\ RerunInvariant /\ [QualificationNext]_qvars => RerunInvariant'
    <2>1. SUFFICES ASSUME MigrationInvariant, RerunInvariant, UNCHANGED mvars PROVE RerunInvariant'
      BY QualificationSteps, RerunStep
    <2>2. UNCHANGED <<adapter, db, mig>>
      BY <2>1 DEF mvars
    <2>3. Latest' = Latest /\ Versions' = Versions
      BY <2>2, Rigid
    <2> QED BY <2>1, <2>2, <2>3 DEF RerunInvariant, RerunAgrees
  <1>3. MigrationInvariant /\ RerunInvariant => MySQLStatementsExecute
    <2>1. SUFFICES ASSUME MigrationInvariant, RerunInvariant, NEW m \in Migrators,
                          adapter = "mysql", mig[m].pc = "run",
                          NEW v, v = FirstOf(mig[m].pending), NEW s, s = Statements(v)[mig[m].next]
                   PROVE  IF s.op = "record" THEN v \notin AppliedVersions(db.history)
                          ELSE Executes(s, db.catalog)
      BY DEF MySQLStatementsExecute
    <2>2. PICK g : g = mig[m]
      OBVIOUS
    <2>3. RerunAgrees(m) /\ adapter \in AllAdapters
      BY <2>1 DEF RerunInvariant, AllAdapters
    <2>4. /\ v \in Versions
          /\ g.next \in 1..(Len(Packaged[adapter][v]) + 1)
          /\ v \notin AppliedVersions(db.history)
          /\ g.next \in 1..Len(Packaged[adapter][v]) =>
               Executes(Packaged[adapter][v][g.next], db.catalog)
      BY <2>1, <2>2, <2>3, NextExecutes
    <2>5. PICK N \in Nat : N = Len(Packaged[adapter][v])
      BY <2>3, <2>4, StatementsOf
    <2>6. CASE g.next = N + 1
      <3>1. s.op = "record"
        <4>1. Statements(v)[N + 1] = [op |-> "record", ver |-> v]
          BY ONLY <2>3, <2>4, <2>5, StatementsOf
        <4>2. s = [op |-> "record", ver |-> v]
          BY ONLY <2>1, <2>2, <2>6, <4>1
        <4> QED BY ONLY <4>2
      <3> QED BY <2>4, <3>1
    <2>7. CASE g.next # N + 1
      <3>1. g.next \in 1..N
        BY <2>4, <2>5, <2>7
      <3>2. \A i \in 1..N : Statements(v)[i] = Packaged[adapter][v][i] /\ Statements(v)[i].op # "record"
        BY <2>3, <2>4, <2>5, StatementsOf
      <3> QED BY <2>1, <2>2, <2>4, <2>5, <3>1, <3>2
    <2> QED BY <2>6, <2>7
  <1> QED BY <1>1, <1>2, <1>3, MigrationInvariantHolds, PTL DEF QualificationSpec
=============================================================================
