SPECIFICATION RecoverySpec
CONSTANTS
  Proposals = {p1, p2}
  Workers = {w1, w2}
  Handles <- BothAndFirst
  p1 = p1
  p2 = p2
  w1 = w1
  w2 = w2
  LeaseDuration = 1
  RetryDelay = 1
  RuntimeLease = 1
  Ttl = 1
  MaxAttempts = 1
  AllowResend = TRUE
  MaxScanAge = 1
  MaxFaults = 1
INVARIANTS
  LeasesExclude
  AttentionIsSuspended
PROPERTIES
  UnfinishedWorkEnds
