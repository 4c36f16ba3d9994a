SPECIFICATION Spec
CONSTANTS
    p1 = p1
    p2 = p2
    w1 = w1
    w2 = w2
    refund = refund
    NoProposal = NoProposal
    Proposals = {p1}
    Effects = {refund}
    EffectOf <- SameEffect
    Evidence <- OneApproval
    UsesDatabaseClock = FALSE
    Workers = {w1, w2}
    Authorities <- AliceOnly
    Required = 1
    Ttl = 2
    Lease = 1
    Delay = 0
    MaxAttempts = 1
    AllowResend = FALSE
    Itemized = FALSE
    RecoveryEnabled = FALSE
    RetentionEnabled = FALSE
    MaxTime = 2
    MaxRevision = 7
SYMMETRY WorkerSymmetry
CHECK_DEADLOCK FALSE
INVARIANTS
    ExportsAreConsistent
