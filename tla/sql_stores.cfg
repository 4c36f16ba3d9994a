SPECIFICATION Spec
CONSTANTS
  p1 = p1
  p2 = p2
  c1 = c1
  c2 = c2
  Proposals = {p1, p2}
  Clients = {c1, c2}
  NoProposal = none
  MaxRevision = 2
SYMMETRY SqlSymmetry
INVARIANTS
  ReadsAreWhole
  OpenAttemptOwnsEffect
  NoWaitCycle
PROPERTY ImplementsAtomicStore
CHECK_DEADLOCK FALSE
