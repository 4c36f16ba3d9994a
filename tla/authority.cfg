SPECIFICATION ChannelSpec
CONSTANTS
    p1 = p1
    w1 = w1
    w2 = w2
    refund = refund
    NoProposal = NoProposal
    Proposals = {p1}
    Effects = {refund}
    EffectOf <- OneEffect
    Evidence <- Issuable
    UsesDatabaseClock = TRUE
    Workers = {w1, w2}
    Authorities <- AliceAndBob
    Approvers <- Everyone
    Window = 1
    MaxPage = 1
    Required = 2
    Ttl = 2
    Lease = 2
    Delay = 0
    MaxAttempts = 2
    AllowResend = FALSE
    Itemized = TRUE
    RecoveryEnabled = FALSE
    RetentionEnabled = FALSE
    MaxTime = 2
    MaxRevision = 4
SYMMETRY WorkerSymmetry
CHECK_DEADLOCK FALSE
INVARIANTS
    ExecutorRunsUnderAuthority
    PersistedDecisionSpeaks
