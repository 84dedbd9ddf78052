\* Two transactions that each fitted the stock when they were recorded.
CONSTANTS
  Transactions = {t1, t2}
  Products = {p1}
  Quantities = {1}
  Units = 1
  InitialStock <- MCInitialStock
  Payers = {r1, r2}
  Hooks = {h1}
  MaxPollAttempts = 1
  Verdicts = {"APPROVED", "DECLINED"}
  IdempotentReference = TRUE
  Faults = {}
  Null = Null
SPECIFICATION SerialSpec
INVARIANTS ApprovedIsFulfilled
