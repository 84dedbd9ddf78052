\* Enough stock and no database fault: the gateway may fail at every call, and
\* repeats its events until they are answered.
CONSTANTS
  Transactions = {t1, t2}
  Products = {p1}
  Quantities = {1}
  Units = 2
  InitialStock <- MCInitialStock
  Payers = {r1, r2}
  Hooks = {h1}
  MaxPollAttempts = 2
  Verdicts = {"APPROVED", "OTHER"}
  IdempotentReference = FALSE
  Faults = {"gateway"}
  Null = Null
SPECIFICATION SerialRetryingSpec
INVARIANTS ApprovedIsFulfilled FulfilmentInv
PROPERTIES NeverStuckPending RequestsEnd
