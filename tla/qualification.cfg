SPECIFICATION QualificationSpec
CONSTANTS
  Adapters = {"postgresql", "mysql", "sqlite", "approvals", "stripe"}
  Migrators = {m1, m2, s1}
  Scripts = {s1}
  MaxFaults = 1
  Faults <- ModelledFaults
CHECK_DEADLOCK FALSE
INVARIANTS
  WritersRunOnCurrentSchema
  KitSeparates
PROPERTIES
  ForeignHistoryIsLeftAlone
  InterruptedMigrationRecovers
