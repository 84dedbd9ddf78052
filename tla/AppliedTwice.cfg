\* The answer to the payment and the event about it are applied side by side.
CONSTANTS
  Transactions = {t1}
  Products = {p1}
  Quantities = {1}
  Units = 2
  InitialStock <- MCInitialStock
  Payers = {r1}
  Hooks = {h1}
  MaxPollAttempts = 1
  Verdicts = {"APPROVED", "DECLINED"}
  IdempotentReference = TRUE
  Faults = {}
  Null = Null
SPECIFICATION Spec
INVARIANTS AppliedOnce
