\* One checkout after another, bodies with and without their nested objects,
\* no failure.
CONSTANTS
  Transactions = {t1, t2}
  Products = {p1}
  Asked = {1}
  UnitPrice = 10
  Price <- MCPrice
  BaseFee = 1
  DeliveryFee = 2
  MaxInt = 31
  Units = 1
  Emails = {e1}
  Details = {d1}
  References = {x1, x2}
  Shapes = {"complete", "malformed", "noCustomer", "noDelivery"}
  Faults = {}
  Null = Null
SPECIFICATION MCSpec
INVARIANTS TransactionHasDelivery
CHECK_DEADLOCK FALSE
