\* Two checkouts, two payments and a webhook request, every fault: requests
\* about the same transaction never overlap, checkouts overlap everything.
CONSTANTS
  Transactions = {t1, t2}
  Products = {p1}
  Quantities = {1, 2}
  Units = 2
  InitialStock <- MCInitialStock
  Payers = {r1, r2}
  Hooks = {h1}
  MaxPollAttempts = 1
  Verdicts = {"APPROVED", "OTHER"}
  IdempotentReference = FALSE
  Faults = {"db", "lostAck", "gateway", "crash"}
  Null = Null
  Asked = {1, 2}
  UnitPrice = 10
  Price <- MCPrice
  BaseFee = 1
  DeliveryFee = 2
  MaxInt = 30
  Emails = {e1}
  Details = {d1}
  References = {x1, x2}
  Shapes = {"complete"}
SYMMETRY Interchangeable
SPECIFICATION SerialShopSpec
INVARIANTS SerialShopInv AppliedOnce AckedIsFinal RestoredResult
PROPERTIES FinalIsFinal ImplementsLifecycle
