--------------------------- MODULE CheckoutProofs ---------------------------
(* Checkout: whatever overlaps, fails or dies, a client that is told its      *)
(* transaction exists can rely on all of it, for any number of checkouts and  *)
(* products.                                                                  *)
EXTENDS Checkout, TLAPS

-----------------------------------------------------------------------------
(* Empty tables and no request (Init).                                        *)
LEMMA InitCheckoutInv == Init => CheckoutInv
  <1> SUFFICES ASSUME Init PROVE CheckoutInv
    OBVIOUS
  <1>1. CheckoutTypeOK
    BY DEF Init, CheckoutTypeOK
  <1>2. ProgressOK
    BY DEF Init, ProgressOK, Steps
  <1>3. CreatedIsComplete
    BY DEF Init, CreatedIsComplete
  <1>4. ReferencesUnique
    BY DEF Init, ReferencesUnique
  <1> QED
    BY <1>1, <1>2, <1>3, <1>4 DEF CheckoutInv

(* A price is a natural number, and so is the price of several units          *)
(* (AmountCalculatorService.calculate).                                       *)
LEMMA CalculateFits ==
  ASSUME NEW p \in Products, NEW q \in Asked, q > 0, fits(calculate(p, q))
  PROVE  calculate(p, q) \in [product : 0..MaxInt, total : 0..MaxInt]
  <1>1. /\ Price[p] \in Nat /\ q \in Nat
        /\ BaseFee \in Nat /\ DeliveryFee \in Nat /\ MaxInt \in Nat
    BY CheckoutAssumption
  <1>2. Price[p] * q \in Nat
    BY <1>1
  <1> QED
    BY <1>1, <1>2 DEF fits, calculate

-----------------------------------------------------------------------------
(* A step that writes no table: the request ends, starts on an available      *)
(* product, or loses its process.                                             *)
LEMMA TablesStay ==
  ASSUME CheckoutInv, UNCHANGED tables,
         step' \in [Transactions -> {"idle", "created", "failed"} \cup Steps],
         input' \in [Transactions -> Inputs \cup {Null}],
         \A t \in Transactions :
           \/ UNCHANGED <<step[t], input[t]>>
           \/ step'[t] = "failed"
           \/ /\ step'[t] = "customer" /\ input'[t] # Null
              /\ isAcceptable(input'[t]) /\ input'[t].product # Null
  PROVE  CheckoutInv'
  <1> USE DEF CheckoutInv, tables
  <1>1. CheckoutTypeOK'
    BY DEF CheckoutTypeOK
  <1>2. ProgressOK'
    <2> SUFFICES ASSUME NEW t \in Transactions, step'[t] \in Steps
                 PROVE  /\ input'[t] # Null /\ isAcceptable(input'[t]) /\ input'[t].product # Null
                        /\ step'[t] \in {"transaction", "delivery"}
                             => customers'[input'[t].email] # Null
                        /\ step'[t] = "delivery" =>
                             /\ transactions'[t] = newRow(input'[t])
                             /\ orders'[t] # Null /\ orders'[t].customer = input'[t].email
                             /\ orders'[t].amounts
                                  = calculate(input'[t].product, input'[t].quantity)
      BY DEF ProgressOK, Steps, isAcceptable, newRow, calculate
    <2>1. CASE UNCHANGED <<step[t], input[t]>>
      BY <2>1 DEF ProgressOK
    <2>2. CASE /\ step'[t] = "customer" /\ input'[t] # Null
               /\ isAcceptable(input'[t]) /\ input'[t].product # Null
      BY <2>2
    <2> QED
      BY <2>1, <2>2 DEF Steps
  <1>3. CreatedIsComplete'
    BY DEF CreatedIsComplete
  <1>4. ReferencesUnique'
    BY DEF ReferencesUnique
  <1> QED
    BY <1>1, <1>2, <1>3, <1>4

(* A request that is refused or starts (validateCard, hasStockFor).           *)
LEMMA BeginKeeps ==
  ASSUME CheckoutInv, NEW t \in Transactions, begin(t)
  PROVE  CheckoutInv'
  <1>1. PICK i \in Inputs : reject(t, i) \/ loadAvailableProduct(t, i)
    BY DEF begin
  <1>2. CheckoutTypeOK
    BY DEF CheckoutInv
  <1>3. CASE reject(t, i)
    BY <1>2, <1>3, TablesStay DEF reject, moveTo, CheckoutTypeOK
  <1>4. CASE loadAvailableProduct(t, i)
    <2>1. i # Null /\ isAcceptable(i) /\ i.product # Null
      BY <1>4, CheckoutAssumption DEF loadAvailableProduct, isAvailable
    <2>2. /\ step' \in [Transactions -> {"idle", "created", "failed"} \cup Steps]
          /\ input' \in [Transactions -> Inputs \cup {Null}]
          /\ step'[t] = "customer" /\ input'[t] = i
          /\ \A u \in Transactions : u # t => UNCHANGED <<step[u], input[u]>>
          /\ UNCHANGED tables
      BY <1>2, <1>4 DEF loadAvailableProduct, moveTo, CheckoutTypeOK, Steps
    <2> QED
      BY <2>1, <2>2, TablesStay
  <1> QED
    BY <1>1, <1>3, <1>4

(* A call that fails writes nothing, and neither does the death of the        *)
(* process: what earlier calls wrote stays.                                   *)
LEMMA FailureKeeps ==
  ASSUME CheckoutInv, stopCheckouts \/ \E t \in Transactions : callFails(t)
  PROVE  CheckoutInv'
  <1>1. CheckoutTypeOK
    BY DEF CheckoutInv
  <1>2. CASE stopCheckouts
    BY <1>1, <1>2, TablesStay DEF stopCheckouts, CheckoutTypeOK
  <1>3. ASSUME NEW t \in Transactions, callFails(t)
        PROVE  CheckoutInv'
    BY <1>1, <1>3, TablesStay DEF callFails, moveTo, CheckoutTypeOK
  <1> QED
    BY <1>2, <1>3

-----------------------------------------------------------------------------
(* The three writes, in the order of execute.                                 *)

(* upsertByEmail: a customer row is only ever replaced by another.            *)
LEMMA UpsertKeeps ==
  ASSUME CheckoutInv, NEW t \in Transactions, upsertByEmail(t)
  PROVE  CheckoutInv'
  <1> USE DEF CheckoutInv
  <1>1. /\ input[t] \in Inputs /\ input[t] # Null
        /\ step[t] = "customer"
    BY DEF upsertByEmail, CheckoutTypeOK, ProgressOK, Steps
  <1>2. /\ UNCHANGED <<transactions, orders, deliveries, stock, input>>
        /\ customers' = [customers EXCEPT ![input[t].email] = input[t].details]
        /\ step' = [step EXCEPT ![t] = "transaction"] \/ step' = [step EXCEPT ![t] = "failed"]
    BY DEF upsertByEmail, moveTo
  <1>3. /\ customers' \in [Emails -> Details \cup {Null}]
        /\ \A e \in Emails : customers[e] # Null => customers'[e] # Null
        /\ customers'[input[t].email] # Null
    BY <1>1, <1>2, CheckoutAssumption DEF Inputs, CheckoutTypeOK
  <1>4. CheckoutTypeOK'
    BY <1>2, <1>3 DEF CheckoutTypeOK, Steps
  <1>5. \A u \in Transactions : input[u] # Null => input[u].email \in Emails
    BY DEF CheckoutTypeOK, Inputs
  <1>6. /\ \A u \in Transactions : u # t => step'[u] = step[u]
        /\ step'[t] \in {"transaction", "failed"}
    BY <1>2 DEF CheckoutTypeOK
  <1>7. ProgressOK'
    <2> SUFFICES ASSUME NEW u \in Transactions, step'[u] \in Steps
                 PROVE  /\ input[u] # Null /\ isAcceptable(input[u]) /\ input[u].product # Null
                        /\ step'[u] \in {"transaction", "delivery"}
                             => customers'[input[u].email] # Null
                        /\ step'[u] = "delivery" =>
                             /\ transactions[u] = newRow(input[u])
                             /\ orders[u] # Null /\ orders[u].customer = input[u].email
                             /\ orders[u].amounts
                                  = calculate(input[u].product, input[u].quantity)
      BY <1>2 DEF ProgressOK, Steps, isAcceptable, newRow, calculate
    <2>1. CASE u = t
      BY <1>1, <1>3, <1>6, <2>1 DEF ProgressOK, Steps
    <2>2. CASE u # t
      BY <1>3, <1>5, <1>6, <2>2 DEF ProgressOK, Steps
    <2> QED
      BY <2>1, <2>2
  <1>8. CreatedIsComplete'
    <2> SUFFICES ASSUME NEW u \in Transactions, step'[u] = "created"
                 PROVE  customers'[input[u].email] # Null
      BY <1>2, <1>6 DEF CreatedIsComplete
    <2>1. step[u] = "created" /\ customers[input[u].email] # Null
          /\ orders[u] # Null /\ orders[u].customer = input[u].email
      BY <1>6 DEF CreatedIsComplete
    <2>2. input[u].email \in Emails
      BY <2>1 DEF CheckoutTypeOK, OrderRows
    <2> QED
      BY <1>3, <2>1, <2>2
  <1>9. ReferencesUnique'
    BY <1>2 DEF ReferencesUnique
  <1> QED
    BY <1>4, <1>7, <1>8, <1>9

(* createTransaction: the row is complete, its reference is fresh and its     *)
(* customer is there.                                                         *)
LEMMA CreateTransactionKeeps ==
  ASSUME CheckoutInv, NEW t \in Transactions, NEW r \in References, createTransaction(t, r)
  PROVE  CheckoutInv'
  <1> USE DEF CheckoutInv
  <1> DEFINE i == input[t]
             amounts == calculate(i.product, i.quantity)
             order == [reference |-> r, customer |-> i.email, amounts |-> amounts]
  <1>1. /\ i \in Inputs /\ i # Null /\ isAcceptable(i) /\ i.product \in Products
        /\ step[t] = "transaction" /\ customers[i.email] # Null
    BY DEF createTransaction, CheckoutTypeOK, ProgressOK, Steps, Inputs
  <1>2. /\ UNCHANGED <<deliveries, customers, stock, input>>
        /\ isFresh(r) /\ fits(amounts)
        /\ transactions' = [transactions EXCEPT ![t] = newRow(i)]
        /\ orders' = [orders EXCEPT ![t] = order]
        /\ step' = [step EXCEPT ![t] = "delivery"] \/ step' = [step EXCEPT ![t] = "failed"]
    BY DEF createTransaction, storesTransaction, moveTo
  <1>3. newRow(i) \in NewRows /\ newRow(i) # Null
    BY <1>1, CheckoutAssumption DEF newRow, NewRows, Inputs
  <1>4. order \in OrderRows /\ order # Null
    <2>1. i.quantity \in Asked /\ i.quantity > 0 /\ i.email \in Emails
      BY <1>1 DEF isAcceptable, Inputs
    <2>2. amounts \in [product : 0..MaxInt, total : 0..MaxInt]
      BY <1>1, <1>2, <2>1, CalculateFits
    <2>3. order \in OrderRows
      BY <2>1, <2>2 DEF OrderRows
    <2> QED
      BY <2>3, CheckoutAssumption
  <1>5. /\ transactions'[t] = newRow(i) /\ orders'[t] = order
        /\ step'[t] \in {"delivery", "failed"}
        /\ \A u \in Transactions : u # t =>
             UNCHANGED <<transactions[u], orders[u], step[u]>>
    BY <1>2 DEF CheckoutTypeOK
  <1>6. CheckoutTypeOK'
    BY <1>2, <1>3, <1>4 DEF CheckoutTypeOK, Steps
  <1>7. ProgressOK'
    <2> SUFFICES ASSUME NEW u \in Transactions, step'[u] \in Steps
                 PROVE  /\ input[u] # Null /\ isAcceptable(input[u]) /\ input[u].product # Null
                        /\ step'[u] \in {"transaction", "delivery"}
                             => customers[input[u].email] # Null
                        /\ step'[u] = "delivery" =>
                             /\ transactions'[u] = newRow(input[u])
                             /\ orders'[u] # Null /\ orders'[u].customer = input[u].email
                             /\ orders'[u].amounts
                                  = calculate(input[u].product, input[u].quantity)
      BY <1>2 DEF ProgressOK, Steps, isAcceptable, newRow, calculate
    <2>1. CASE u = t
      BY <1>1, <1>3, <1>4, <1>5, <2>1, CheckoutAssumption
    <2>2. CASE u # t
      BY <1>5, <2>2 DEF ProgressOK, Steps
    <2> QED
      BY <2>1, <2>2
  <1>8. CreatedIsComplete'
    BY <1>2, <1>5 DEF CreatedIsComplete
  <1>9. ReferencesUnique'
    BY <1>2, <1>5 DEF ReferencesUnique, isFresh
  <1> QED
    BY <1>6, <1>7, <1>8, <1>9

(* createDelivery: the last write, and only after it the client hears the id. *)
LEMMA CreateDeliveryKeeps ==
  ASSUME CheckoutInv, NEW t \in Transactions, createDelivery(t)
  PROVE  CheckoutInv'
  <1> USE CheckoutAssumption DEF CheckoutInv
  <1>1. /\ UNCHANGED <<transactions, orders, customers, stock, input>>
        /\ deliveries' = [deliveries EXCEPT ![t] = "PENDING"]
        /\ step' = [step EXCEPT ![t] = "created"] \/ step' = [step EXCEPT ![t] = "failed"]
        /\ step[t] = "delivery"
    BY DEF createDelivery, moveTo
  <1>2. /\ input[t] # Null /\ input[t].product \in Products
        /\ transactions[t] = newRow(input[t])
        /\ orders[t] # Null /\ orders[t].customer = input[t].email
        /\ orders[t].amounts = calculate(input[t].product, input[t].quantity)
        /\ customers[input[t].email] # Null
    BY <1>1 DEF ProgressOK, Steps, CheckoutTypeOK, Inputs
  <1>3. transactions[t] # Null
    BY DEF createDelivery, storesDelivery
  <1>4. /\ deliveries'[t] = "PENDING" /\ "PENDING" # Null
        /\ step'[t] \in {"created", "failed"}
        /\ \A u \in Transactions : u # t => UNCHANGED <<deliveries[u], step[u]>>
    BY <1>1 DEF CheckoutTypeOK, DeliveryStatusEnum
  <1>5. CheckoutTypeOK'
    BY <1>1 DEF CheckoutTypeOK, DeliveryStatusEnum
  <1>6. ProgressOK'
    BY <1>1, <1>4 DEF ProgressOK, Steps, isAcceptable, newRow, calculate
  <1>7. CreatedIsComplete'
    <2>1. ASSUME step'[t] = "created"
          PROVE  /\ transactions[t].product = input[t].product
                 /\ transactions[t].quantity = input[t].quantity
                 /\ orders[t].amounts.total =
                      Price[input[t].product] * input[t].quantity + BaseFee + DeliveryFee
      BY <1>2 DEF newRow, calculate
    <2> QED
      BY <1>1, <1>2, <1>3, <1>4, <2>1 DEF CreatedIsComplete
  <1>8. ReferencesUnique'
    BY <1>1 DEF ReferencesUnique
  <1> QED
    BY <1>5, <1>6, <1>7, <1>8

-----------------------------------------------------------------------------
(* One case per call of execute, and the crash.                               *)
LEMMA NextCheckoutInv == CheckoutInv /\ [Next]_checkoutVars => CheckoutInv'
  <1> SUFFICES ASSUME CheckoutInv, [Next]_checkoutVars PROVE CheckoutInv'
    OBVIOUS
  <1>1. ASSUME NEW t \in Transactions, begin(t) PROVE CheckoutInv'
    BY <1>1, BeginKeeps
  <1>2. ASSUME NEW t \in Transactions, upsertByEmail(t) PROVE CheckoutInv'
    BY <1>2, UpsertKeeps
  <1>3. ASSUME NEW t \in Transactions, NEW r \in References, createTransaction(t, r)
        PROVE  CheckoutInv'
    BY <1>3, CreateTransactionKeeps
  <1>4. ASSUME NEW t \in Transactions, createDelivery(t) PROVE CheckoutInv'
    BY <1>4, CreateDeliveryKeeps
  <1>5. CASE stopCheckouts \/ \E t \in Transactions : callFails(t)
    BY <1>5, FailureKeeps
  <1>6. CASE UNCHANGED checkoutVars
    BY <1>6, TablesStay DEF checkoutVars, CheckoutInv, CheckoutTypeOK
  <1> QED
    BY <1>1, <1>2, <1>3, <1>4, <1>5, <1>6 DEF Next, checkoutStep

(* The inductive invariant holds in every state checkout can reach.           *)
THEOREM CheckoutInductive == Spec => []CheckoutInv
  BY InitCheckoutInv, NextCheckoutInv, PTL DEF Spec

(* Every row that is ever written has its shape: no order without its own     *)
(* transaction, no total that is not a number (CheckoutTypeOK).               *)
THEOREM CheckoutTypes == Spec => []CheckoutTypeOK
  <1>1. CheckoutInv => CheckoutTypeOK
    BY DEF CheckoutInv
  <1> QED
    BY <1>1, CheckoutInductive, PTL

(* The client is told an id only when everything it asked for is recorded, at *)
(* the right price (CreateTransactionUseCase.execute).                        *)
THEOREM CheckoutComplete == Spec => []CreatedIsComplete
  <1>1. CheckoutInv => CreatedIsComplete
    BY DEF CheckoutInv
  <1> QED
    BY <1>1, CheckoutInductive, PTL
=============================================================================
