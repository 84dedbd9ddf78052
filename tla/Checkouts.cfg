\* Two checkouts at once over every stock up to three. Three units cost 30,
\* which fits an Int column, but 33 with the fees, which does not. References
\* may collide.
CONSTANTS
  Transactions = {t1, t2}
  Products = {p1}
  Asked = {0, 2, 3}
  UnitPrice = 10
  Price <- MCPrice
  BaseFee = 1
  DeliveryFee = 2
  MaxInt = 31
  Units = 3
  Emails = {e1, e2}
  Details = {d1, d2}
  References = {x1, x2}
  Shapes = {"complete", "malformed", "noCustomer", "noDelivery"}
  Faults = {"db", "lostAck", "crash"}
  Null = Null
SYMMETRY Interchangeable
SPECIFICATION MCSpec
INVARIANTS CheckoutTypeOK CreatedIsComplete CheckoutInv
CHECK_DEADLOCK FALSE
