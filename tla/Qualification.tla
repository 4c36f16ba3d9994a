--------------------------- MODULE Qualification ----------------------------
(***************************************************************************)
(* From an old or empty database to a qualified store: operators migrate   *)
(* and grant while writers come and go, and once the schema is current and *)
(* at rest a conformance kit runs on the store or on the Stripe ledger.    *)
(***************************************************************************)
EXTENDS Migrations, StripeExercise

qvars == <<mvars, kvars>>

AtRest == /\ lock = None /\ faults = 0
          /\ \A m \in Migrators : mig[m] = Idle
          /\ \A lane \in Lanes : writers[lane] = None

\* Kits run on a migrated test database: the Stripe exercise on the ledger's, the
\* others on the store's.
Qualify(k, f) ==
  /\ AtRest
  /\ IF k = "stripe" THEN adapter = "stripe" /\ reported ELSE adapter = "sqlite" /\ InspectSQLite
  /\ StartKit(k, f)
  /\ UNCHANGED mvars

\* Nobody migrates a database while a kit runs on it.
Migrate(A) == verdict = "idle" /\ A /\ UNCHANGED kvars

QualificationInit == MigrationInit /\ ConformanceInit
QualificationNext ==
  \/ Migrate(MigrationNext)
  \/ \E k \in Kits : \E f \in Faults[k] \cup {"none"} : Qualify(k, f)
  \/ KitStep /\ UNCHANGED mvars

(* Fairness: an operator who means to migrate drains the writers, repairs    *)
(* retired proposals and sees to it that some migrator is called again after *)
(* a failure; some migrator's turn at the lock comes, and the one that has   *)
(* it goes on unless it is lost.                                             *)
QualificationFairness ==
  /\ WF_qvars(Migrate(Drain)) /\ WF_qvars(Migrate(Remediate))
  /\ WF_qvars(Migrate(\E m \in Migrators : Step(m)))
  /\ SF_qvars(Migrate(\E m \in Migrators \ Scripts : Invoke(m, TRUE)))
  /\ SF_qvars(Migrate(\E m \in Migrators \ Scripts : TakeLock(m)))

QualificationSpec ==
  QualificationInit /\ [][QualificationNext]_qvars /\ QualificationFairness
=============================================================================
