SPECIFICATION FairSpec
CONSTANTS
  i1 = i1
  i2 = i2
  cus = cus
  charge = charge
  invoice = invoice
  contract = contract
  bill = bill
  Intents = {i1, i2}
  Objects = {charge, invoice, contract, bill}
  Workers = {w1, w2}
  Customer <- OneCustomer
  Plans <- MixedPlans
  Covers <- CoversTwo
  PeriodEnd = 1
  MaxTime = 1
  MaxAttempts = 2
  MaxLost = 1
  MaxOutside <- ContractOnly
INVARIANTS
  DoubtKeepsReservation
  SentAtMostOnce
  VerdictsMatchLedger
PROPERTIES
  BillingWritesApprovedState
  SettledEffectsAreReleased
CHECK_DEADLOCK FALSE
