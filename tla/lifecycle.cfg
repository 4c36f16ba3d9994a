SPECIFICATION Spec
CONSTANTS
    p1 = p1
    p2 = p2
    w1 = w1
    w2 = w2
    refund = refund
    NoProposal = NoProposal
    Proposals = {p1}
    Effects = {refund}
    EffectOf <- SameEffect
    Evidence <- OneApproval
    UsesDatabaseClock = FALSE
    Workers = {w1, w2}
    Authorities <- AliceOnly
    Required = 1
    Ttl = 2
    Lease = 1
    Delay = 0
    MaxAttempts = 1
    AllowResend = TRUE
    Itemized = FALSE
    RecoveryEnabled = TRUE
    RetentionEnabled = TRUE
    MaxTime = 2
    MaxRevision = 6
SYMMETRY WorkerSymmetry
CHECK_DEADLOCK FALSE
INVARIANTS
    TypeOK
    InductiveInvariant
    OneCallCanSettle
    NoStoreInvariantError
    KeysOutliveAttempts
    VerificationsBounded
    OnlyFinalAbsenceUnsupported
    OpenWorkIsDiscovered
PROPERTIES
    ErasureFreezes
    LeaseProtectsExecutor
