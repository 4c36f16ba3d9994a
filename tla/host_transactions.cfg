SPECIFICATION FairSpec
CONSTANTS
  i1 = i1
  i2 = i2
  payment = payment
  invoice = invoice
  contract = contract
  cus = cus
  Intents = {i1, i2}
  Rows = {payment, invoice, contract}
  Plans <- MixedPlans
  CustomerOf <- OneCustomer
  Clients = {c1, c2}
  MaxVersion = 1
INVARIANTS
  OneReservationPerCustomer
  ReservedSnapshotIsCurrent
PROPERTIES
  NoUpdateUnderReservation
  TransactionsFinish
