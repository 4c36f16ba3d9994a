SPECIFICATION Spec
CONSTANTS
  i1 = i1
  i2 = i2
  cus = cus
  charge = charge
  invoice = invoice
  contract = contract
  bill = bill
  Intents = {i1, i2}
  Objects = {charge, invoice, contract, bill}
  Workers = {w1, w2}
  Customer <- OneCustomer
  Plans <- RefundPlan
  Covers <- CoversTwo
  PeriodEnd = 1
  MaxTime = 1
  MaxAttempts = 1
  MaxLost = 0
  MaxOutside <- Nothing
PROPERTY RefundsEnforceTheirPrecondition
CHECK_DEADLOCK FALSE
