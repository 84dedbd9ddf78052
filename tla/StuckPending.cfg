\* The last poll reads PENDING and is written after the event was applied.
CONSTANTS
  Transactions = {t1}
  Products = {p1}
  Quantities = {1}
  Units = 1
  InitialStock <- MCInitialStock
  Payers = {r1}
  Hooks = {h1}
  MaxPollAttempts = 1
  Verdicts = {"APPROVED", "DECLINED"}
  IdempotentReference = TRUE
  Faults = {}
  Null = Null
SPECIFICATION RetryingSpec
PROPERTIES NeverStuckPending
