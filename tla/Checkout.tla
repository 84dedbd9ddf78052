------------------------------ MODULE Checkout ------------------------------
(* POST /api/transactions: CreateTransactionUseCase records a purchase in     *)
(* four database calls, outside any database transaction, and reserves no     *)
(* stock. A checkout request creates at most one transaction, so request and  *)
(* transaction share a name here. The columns the payment side updates are in *)
(* "transactions", those written once are in "orders".                        *)
EXTENDS Integers, FiniteSets, TransactionStatus

CONSTANTS
  Transactions,   \* checkout requests, and the ids of what they create
  Products,
  Asked,          \* quantities a request may ask for
  Price,          \* priceInCents of each product
  BaseFee, DeliveryFee,
  MaxInt,         \* largest value of a Postgres Int column
  Emails,
  Details,        \* the rest of a customer's data
  References,     \* values generateTransactionReference may draw
  Shapes,         \* what a body may leave out, see BodyShapes
  Faults,
  Null

(* The validation pipe refuses a malformed body, but ValidateNested says      *)
(* nothing of a nested object that is not there (RequestBodies has the rules).*)
BodyShapes == {"complete", "malformed", "noCustomer", "noDelivery"}

Inputs == [shape : Shapes, product : Products \cup {Null}, quantity : Asked,
           email : Emails, details : Details, cardIsValid : BOOLEAN]

(* What a checkout writes of a row, and what nobody updates later.            *)
NewRows == [status : {"PENDING"}, gatewayId : {Null}, product : Products, quantity : Asked]

OrderRows == [reference : References, customer : Emails,
              amounts : [product : 0..MaxInt, total : 0..MaxInt]]

ASSUME CheckoutAssumption ==
  /\ Null \notin Products \cup Inputs \cup Details \cup DeliveryStatusEnum
  /\ Null \notin NewRows \cup OrderRows
  /\ Asked \subseteq Int /\ Shapes \subseteq BodyShapes
  /\ Price \in [Products -> Nat]
  /\ BaseFee \in Nat /\ DeliveryFee \in Nat /\ MaxInt \in Nat

VARIABLES
  transactions,   \* status, gatewayId, product and quantity of each row
  orders,         \* reference, customer and amounts of each row
  deliveries,
  customers,      \* table customers, by its unique email
  stock,
  step,           \* where each checkout request is
  input           \* its body

tables       == <<transactions, orders, deliveries, customers, stock>>
checkoutVars == <<tables, step, input>>

Steps == {"customer", "transaction", "delivery"}

(* AmountCalculatorService                                                    *)
calculate(p, q) ==
  [product |-> Price[p] * q, total |-> Price[p] * q + BaseFee + DeliveryFee]

fitsProductOnly(amounts) == amounts.product <= MaxInt         \* seeded fault
fits(amounts) == amounts.product <= MaxInt /\ amounts.total <= MaxInt

checkoutFault(kind) == kind \in Faults

Init ==
  /\ transactions = [t \in Transactions |-> Null]
  /\ orders = [t \in Transactions |-> Null]
  /\ deliveries = [t \in Transactions |-> Null]
  /\ customers = [e \in Emails |-> Null]
  /\ stock \in [Products -> Nat]
  /\ step = [t \in Transactions |-> "idle"]
  /\ input = [t \in Transactions |-> Null]

moveTo(t, s) == step' = [step EXCEPT ![t] = s]

-----------------------------------------------------------------------------
(* The pipe, then validateQuantity and validateCard, before any call is made. *)
isAcceptable(i) == i.shape # "malformed" /\ i.quantity > 0 /\ i.cardIsValid

(* product.hasStockFor *)
hasStockFor(p, q) == stock[p] >= q

isAvailable(i) == i.product # Null /\ hasStockFor(i.product, i.quantity)

(* The answers VALIDATION_ERROR, INVALID_QUANTITY, INVALID_CARD,              *)
(* PRODUCT_NOT_FOUND, INSUFFICIENT_STOCK and PERSISTENCE_ERROR of the first   *)
(* checks; nothing is written, and which of them it is makes no difference to *)
(* what a client or another request can do next.                              *)
reject(t, i) ==
  /\ step[t] = "idle"
  /\ ~isAcceptable(i) \/ ~isAvailable(i) \/ checkoutFault("db")
  /\ moveTo(t, "failed")
  /\ UNCHANGED <<tables, input>>

loadAvailableProduct(t, i) ==
  /\ step[t] = "idle"
  /\ isAcceptable(i) /\ isAvailable(i)
  /\ moveTo(t, "customer")
  /\ input' = [input EXCEPT ![t] = i]
  /\ UNCHANGED tables

upsertUnchecked(t) ==                                        \* seeded fault
  /\ step[t] = "customer" /\ input[t].shape # "noCustomer"
  /\ \/ customers' = [customers EXCEPT ![input[t].email] = input[t].details]
     \/ checkoutFault("db") /\ UNCHANGED customers
  /\ moveTo(t, "transaction")
  /\ UNCHANGED <<transactions, orders, deliveries, stock, input>>

(* The last checkout with an email wins: its details replace the others' in   *)
(* one INSERT ... ON CONFLICT.                                                *)
upsertByEmail(t) ==
  /\ step[t] = "customer" /\ input[t].shape # "noCustomer"
  /\ customers' = [customers EXCEPT ![input[t].email] = input[t].details]
  /\ moveTo(t, "transaction") \/ (checkoutFault("lostAck") /\ moveTo(t, "failed"))
  /\ UNCHANGED <<transactions, orders, deliveries, stock, input>>

(* The unique constraint on the reference. *)
isFresh(r) == \A t \in Transactions : orders[t] # Null => orders[t].reference # r

(* What Postgres asks of a new transaction: amounts its columns can hold and  *)
(* a customer its foreign key finds (a product is never deleted).             *)
storesTransaction(i) ==
  fits(calculate(i.product, i.quantity)) /\ customers[i.email] # Null

(* What it asks of a delivery: its columns, its transaction and its customer. *)
storesDelivery(t) ==
  /\ input[t].shape # "noDelivery"
  /\ transactions[t] # Null /\ customers[input[t].email] # Null

newRow(i) == [status |-> "PENDING", gatewayId |-> Null,
              product |-> i.product, quantity |-> i.quantity]

createTransaction(t, r) ==
  /\ step[t] = "transaction"
  /\ LET i == input[t] IN
     /\ isFresh(r) /\ storesTransaction(i)
     /\ transactions' = [transactions EXCEPT ![t] = newRow(i)]
     /\ orders' = [orders EXCEPT ![t] =
          [reference |-> r, customer |-> i.email,
           amounts |-> calculate(i.product, i.quantity)]]
  /\ moveTo(t, "delivery") \/ (checkoutFault("lostAck") /\ moveTo(t, "failed"))
  /\ UNCHANGED <<deliveries, customers, stock, input>>

createDeliveryLate(t) ==                                     \* seeded fault
  /\ step[t] = "delivery" /\ storesDelivery(t)
  /\ deliveries' = [deliveries EXCEPT ![t] = "PENDING"] \/ UNCHANGED deliveries
  /\ moveTo(t, "created")
  /\ UNCHANGED <<transactions, orders, customers, stock, input>>

(* The last call: only its success tells the client the transaction's id.     *)
createDelivery(t) ==
  /\ step[t] = "delivery" /\ storesDelivery(t)
  /\ deliveries' = [deliveries EXCEPT ![t] = "PENDING"]
  /\ moveTo(t, "created") \/ (checkoutFault("lostAck") /\ moveTo(t, "failed"))
  /\ UNCHANGED <<transactions, orders, customers, stock, input>>

(* A call that changes nothing and ends the request: the database fails, the  *)
(* drawn reference is taken, Postgres refuses the row, or upsertByEmail       *)
(* destructures a customer that is not there. What earlier calls wrote stays. *)
callFails(t) ==
  /\ step[t] \in Steps
  /\ \/ checkoutFault("db")
     \/ step[t] = "customer" /\ input[t].shape = "noCustomer"
     \/ step[t] = "delivery" /\ ~storesDelivery(t)
     \/ /\ step[t] = "transaction"
        /\ ~storesTransaction(input[t]) \/ \E r \in References : ~isFresh(r)
  /\ moveTo(t, "failed")
  /\ UNCHANGED <<tables, input>>

(* The process dies under the requests it was serving.                        *)
stopCheckouts ==
  /\ step' = [t \in Transactions |-> IF step[t] \in Steps THEN "failed" ELSE step[t]]
  /\ UNCHANGED <<tables, input>>

checkoutStep(t) ==
  \/ upsertByEmail(t)
  \/ \E r \in References : createTransaction(t, r)
  \/ createDelivery(t)
  \/ callFails(t)

begin(t) == \E i \in Inputs : reject(t, i) \/ loadAvailableProduct(t, i)

Next ==
  \/ \E t \in Transactions : begin(t) \/ checkoutStep(t)
  \/ checkoutFault("crash") /\ (\E t \in Transactions : step[t] \in Steps) /\ stopCheckouts

Spec == Init /\ [][Next]_checkoutVars

-----------------------------------------------------------------------------
(* Properties                                                                 *)

CheckoutTypeOK ==
  /\ transactions \in [Transactions -> NewRows \cup {Null}]
  /\ orders \in [Transactions -> OrderRows \cup {Null}]
  /\ input \in [Transactions -> Inputs \cup {Null}]
  /\ deliveries \in [Transactions -> DeliveryStatusEnum \cup {Null}]
  /\ customers \in [Emails -> Details \cup {Null}]
  /\ stock \in [Products -> Nat]
  /\ step \in [Transactions -> {"idle", "created", "failed"} \cup Steps]

(* A client that is told its transaction exists can rely on all of it: row,   *)
(* customer and delivery are stored, for what it asked, at the price of that  *)
(* many units plus both fees, whatever other checkouts and failures went on   *)
(* beside it (CreateTransactionUseCase.execute).                              *)
CreatedIsComplete ==
  \A t \in Transactions : step[t] = "created" =>
    /\ transactions[t] # Null /\ orders[t] # Null /\ deliveries[t] # Null
    /\ transactions[t].product = input[t].product
    /\ transactions[t].quantity = input[t].quantity
    /\ orders[t].customer = input[t].email /\ customers[input[t].email] # Null
    /\ orders[t].amounts.total =
         Price[input[t].product] * input[t].quantity + BaseFee + DeliveryFee

(* Once its request is over, a recorded transaction has its delivery (README, *)
(* business flow 4 and the 1:1 relation of the data model).                   *)
TransactionHasDelivery ==
  \A t \in Transactions :
    step[t] \in {"created", "failed"} /\ transactions[t] # Null => deliveries[t] # Null

-----------------------------------------------------------------------------
(* What makes the safety properties inductive: between two calls a request    *)
(* can rely on what its earlier calls wrote.                                  *)
ProgressOK ==
  \A t \in Transactions :
    /\ step[t] \in Steps => input[t] # Null /\ isAcceptable(input[t]) /\ input[t].product # Null
    /\ step[t] \in {"transaction", "delivery"} => customers[input[t].email] # Null
    /\ step[t] = "delivery" =>
         /\ transactions[t] = newRow(input[t])
         /\ orders[t] # Null /\ orders[t].customer = input[t].email
         /\ orders[t].amounts = calculate(input[t].product, input[t].quantity)

(* The unique constraint of the schema keeps references apart, which a        *)
(* payment relies on when an event finds a transaction by its reference.      *)
ReferencesUnique ==
  \A t, u \in Transactions :
    t # u /\ orders[t] # Null /\ orders[u] # Null
      => orders[t].reference # orders[u].reference

(* The inductive invariant of checkout (CreateTransactionUseCase.execute).    *)
CheckoutInv == CheckoutTypeOK /\ ProgressOK /\ CreatedIsComplete /\ ReferencesUnique
=============================================================================
