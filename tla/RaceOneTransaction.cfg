\* One transaction, two payments and two webhook requests at once, every fault:
\* all interleavings of the shared fulfilment.
CONSTANTS
  Transactions = {t1}
  Products = {p1}
  Quantities = {1}
  Units = 2
  InitialStock <- MCInitialStock
  Payers = {r1, r2}
  Hooks = {h1, h2}
  MaxPollAttempts = 1
  Verdicts = {"APPROVED", "DECLINED", "OTHER"}
  IdempotentReference = FALSE
  Faults = {"db", "lostAck", "gateway", "crash"}
  Null = Null
SYMMETRY Interchangeable
SPECIFICATION Spec
INVARIANTS TypeOK IInv ApprovedIsPaid ShippedIsPaidAndTaken ApprovedReplyIsFulfilled
PROPERTIES SettledStays StepsAreBounded
