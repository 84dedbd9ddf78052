\* A payment gives up polling, the retry is refused by the gateway, and the
\* charge is approved after that. No failure and no overlap is needed.
CONSTANTS
  Transactions = {t1}
  Products = {p1}
  Quantities = {1}
  Units = 1
  InitialStock <- MCInitialStock
  Payers = {r1, r2}
  Hooks = {h1}
  MaxPollAttempts = 1
  Verdicts = {"APPROVED", "DECLINED"}
  IdempotentReference = TRUE
  Faults = {}
  Null = Null
SPECIFICATION SerialRetryingSpec
PROPERTIES PaidIsApproved
