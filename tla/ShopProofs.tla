----------------------------- MODULE ShopProofs -----------------------------
(* Shop: what is proved of the payments holds in the whole service, beside    *)
(* any number of checkouts that share its tables, and only complete           *)
(* purchases are ever charged.                                                *)
EXTENDS Shop, PaymentsProofs

-----------------------------------------------------------------------------
(* An empty shop.                                                             *)
LEMMA InitShopInv == ShopInit => ShopInv
  <1> SUFFICES ASSUME ShopInit PROVE ShopInv
    OBVIOUS
  <1>1. IInv
    BY InitIInv DEF ShopInit
  <1>2. CheckoutsOK
    BY SetsAssumption DEF ShopInit, C!Init, CheckoutsOK, C!Steps
  <1>3. PayersKnow
    BY DEF ShopInit, Init, PayersKnow, busy, PayerSteps, ApplySteps, Workers
  <1>4. ChargedHasDelivery
    BY DEF ShopInit, Init, ChargedHasDelivery
  <1> QED
    BY <1>1, <1>2, <1>3, <1>4 DEF ShopInv

-----------------------------------------------------------------------------
(* Steps of the payment side, seen from a checkout.                           *)

(* A payment under way stays with its transaction, and a charge it opens is   *)
(* for that transaction (loadPendingTransaction, charge).                     *)
LEMMA TargetsStay ==
  ASSUME IInv, [Next]_vars \/ stopRequests, NEW p \in Payers
  PROVE  /\ busy(p)' =>
              \/ busy(p) /\ target'[p] = target[p]
              \/ loadPendingTransaction(p, target'[p])
         /\ charges'[p] # Null =>
              \/ charges[p] # Null /\ charges'[p].tx = charges[p].tx
              \/ busy(p) /\ charges'[p].tx = target[p]
  <1> USE SetsAssumption DEF IInv
  <1> DEFINE stays == /\ busy(p)' =>
                           \/ busy(p) /\ target'[p] = target[p]
                           \/ loadPendingTransaction(p, target'[p])
                      /\ charges'[p] # Null =>
                           \/ charges[p] # Null /\ charges'[p].tx = charges[p].tx
                           \/ busy(p) /\ charges'[p].tx = target[p]
  <1>0. p \in Workers /\ p \notin Hooks
    BY DEF Workers
  <1>1. ASSUME NEW q \in Payers, NEW t \in Transactions, rejectPayment(q, t)
        PROVE  stays
    BY <1>0, <1>1 DEF rejectPayment, goto, busy, PayerSteps, ApplySteps, gateway, TypeOK
  <1>2. ASSUME NEW q \in Payers, NEW t \in Transactions, loadPendingTransaction(q, t)
        PROVE  stays
    <2>1. CASE q = p
      <3>1. target'[p] = t
        BY <1>0, <1>2, <2>1 DEF loadPendingTransaction, TypeOK
      <3> QED
        BY <1>2, <2>1, <3>1 DEF loadPendingTransaction, gateway
    <2>2. CASE q # p
      BY <1>0, <1>2, <2>2 DEF loadPendingTransaction, goto, busy, gateway, TypeOK
    <2> QED
      BY <2>1, <2>2
  <1>3. ASSUME NEW q \in Payers, payerStep(q), ~fulfil(q), ~postCharge(q)
        PROVE  stays
    <2>1. charges' = charges /\ target' = target
      BY <1>3 DEF payerStep, findCustomer, respond, chargeRefused, chargeThrows, chargeAnswered,
         pollUntilFinal, answerLost, answerMalformed, gateway
    <2>2. busy(q)
      BY <1>3 DEF payerStep, findCustomer, chargeRefused, chargeThrows, chargeAnswered,
         pollUntilFinal, answerLost, answerMalformed, busy, PayerSteps
    <2>3. q # p => pc'[p] = pc[p]
      BY <1>0, <1>3 DEF payerStep, findCustomer, respond, chargeRefused, chargeThrows,
         chargeAnswered, pollUntilFinal, answerLost, answerMalformed, applyOutcome, goto, TypeOK
    <2> QED
      BY <2>1, <2>2, <2>3 DEF busy
  <1>4. ASSUME NEW q \in Payers, postCharge(q)
        PROVE  stays
    <2>1. q \in Workers /\ busy(q) /\ target' = target
      BY <1>4 DEF postCharge, busy, PayerSteps, Workers
    <2>2. CASE q = p
      BY <1>4, <2>1, <2>2 DEF postCharge, TypeOK
    <2>3. CASE q # p
      BY <1>0, <1>4, <2>1, <2>3 DEF postCharge, goto, busy, TypeOK
    <2> QED
      BY <2>2, <2>3
  <1>5. ASSUME NEW w \in Workers, fulfil(w)
        PROVE  stays
    <2>1. charges' = charges /\ busy(w) /\ target'[p] = target[p]
      BY <1>0, <1>5 DEF fulfil, applyFails, apply, decrementFails, decrementStock, assignFails,
         assignDelivery, finish, respond, acknowledge, busy, ApplySteps, TypeOK
    <2>2. w # p => pc'[p] = pc[p]
      BY <1>0, <1>5 DEF fulfil, applyFails, apply, decrementFails, decrementStock, assignFails,
         assignDelivery, finish, respond, acknowledge, goto, TypeOK
    <2> QED
      BY <2>1, <2>2 DEF busy
  <1>6. ASSUME NEW h \in Hooks, NEW e \in Events, receive(h, e)
        PROVE  stays
    BY <1>0, <1>6 DEF receive, rejectEvent, ignoreEvent, acceptEvent, applyOutcome, goto, TypeOK,
       busy, vars, requests, gateway
  <1>7. ASSUME NEW c \in Payers, settle(c)
        PROVE  stays
    BY <1>7 DEF settle, requests, busy, TypeOK, Charges
  <1>8. CASE stopRequests
    BY <1>0, <1>8 DEF stopRequests, busy, PayerSteps, ApplySteps, gateway
  <1>9. CASE UNCHANGED vars
    BY <1>9 DEF vars, requests, gateway, busy
  <1> QED
    BY <1>1, <1>2, <1>3, <1>4, <1>5, <1>6, <1>7, <1>8, <1>9
    DEF Next, crash, startPayment, Workers

(* A step of the payment side, if it starts a payment only of a transaction   *)
(* the client knows, and a crash.                                             *)
LEMMA PaymentSideKeeps ==
  ASSUME ShopInv, [Next]_vars \/ stopRequests,
         UNCHANGED checkoutOnly \/ C!stopCheckouts,
         \A p \in Payers, t \in Transactions : loadPendingTransaction(p, t) => isKnown(t)
  PROVE  ShopInv'
  <1> USE SetsAssumption DEF ShopInv
  <1>1. IInv'
    BY NextIInv, StopStep
  <1>2. \A t \in Transactions : /\ transactions'[t] = Null <=> transactions[t] = Null
                                /\ deliveries'[t] = Null <=> deliveries[t] = Null
    BY RowsStay
  <1>3. CheckoutsOK'
    <2>1. CASE UNCHANGED checkoutOnly
      BY <1>2, <2>1 DEF CheckoutsOK, checkoutOnly, C!isAcceptable
    <2>2. CASE C!stopCheckouts
      BY <1>2, <2>2 DEF CheckoutsOK, C!stopCheckouts, C!isAcceptable, C!Steps
    <2> QED
      BY <2>1, <2>2
  <1>4. PayersKnow'
    <2> SUFFICES ASSUME NEW p \in Payers, busy(p)'
                 PROVE  deliveries'[target'[p]] # Null
      BY DEF PayersKnow
    <2>1. CASE busy(p) /\ target'[p] = target[p]
      <3>1. target[p] \in Transactions /\ deliveries[target[p]] # Null
        BY <2>1 DEF PayersKnow, IInv, TypeOK, JobsOK, Workers
      <3> QED
        BY <1>2, <2>1, <3>1
    <2>2. CASE loadPendingTransaction(p, target'[p])
      <3>1. target'[p] \in Transactions /\ transactions[target'[p]] # Null
        BY <1>1, <2>2 DEF IInv, TypeOK, JobsOK, Workers, loadPendingTransaction
      <3>2. deliveries[target'[p]] # Null
        BY <2>2, <3>1 DEF isKnown, CheckoutsOK
      <3> QED
        BY <1>2, <3>1, <3>2
    <2> QED
      BY <2>1, <2>2, TargetsStay
  <1>5. ChargedHasDelivery'
    <2> SUFFICES ASSUME NEW c \in Payers, charges'[c] # Null
                 PROVE  deliveries'[charges'[c].tx] # Null
      BY DEF ChargedHasDelivery
    <2>1. CASE charges[c] # Null /\ charges'[c].tx = charges[c].tx
      <3>1. charges[c].tx \in Transactions /\ deliveries[charges[c].tx] # Null
        BY <2>1 DEF ChargedHasDelivery, IInv, TypeOK, Charges
      <3> QED
        BY <1>2, <2>1, <3>1
    <2>2. CASE busy(c) /\ charges'[c].tx = target[c]
      <3>1. target[c] \in Transactions /\ deliveries[target[c]] # Null
        BY <2>2 DEF PayersKnow, IInv, TypeOK, JobsOK, Workers
      <3> QED
        BY <1>2, <2>2, <3>1
    <2> QED
      BY <2>1, <2>2, TargetsStay
  <1> QED
    BY <1>1, <1>3, <1>4, <1>5

-----------------------------------------------------------------------------
(* Steps of a checkout, seen from the payments.                               *)

(* What a checkout step does to the tables payments read: it may add a        *)
(* PENDING row, or a delivery, where there was none.                          *)
LEMMA CheckoutAdds ==
  ASSUME ShopInv, NEW t \in Transactions, checkout(t)
  PROVE  /\ UNCHANGED <<stock, paymentsOnly>>
         /\ \/ transactions' = transactions
            \/ \E r \in Rows :
                 /\ transactions[t] = Null /\ r.status = "PENDING"
                 /\ transactions' = [transactions EXCEPT ![t] = r]
         /\ \/ deliveries' = deliveries
            \/ deliveries[t] = Null /\ deliveries' = [deliveries EXCEPT ![t] = "PENDING"]
  <1> USE SetsAssumption DEF ShopInv
  <1>1. ASSUME C!begin(t) \/ C!upsertByEmail(t) \/ C!callFails(t)
        PROVE  UNCHANGED <<transactions, deliveries, stock>>
    BY <1>1 DEF C!begin, C!reject, C!loadAvailableProduct, C!upsertByEmail, C!callFails, C!tables
  <1>2. ASSUME NEW r \in References, C!createTransaction(t, r)
        PROVE  /\ UNCHANGED <<deliveries, stock>> /\ transactions[t] = Null
               /\ transactions' = [transactions EXCEPT ![t] = C!newRow(input[t])]
               /\ C!newRow(input[t]) \in Rows
    <2>1. /\ input[t] \in C!Inputs /\ C!isAcceptable(input[t]) /\ input[t].product # Null
          /\ transactions[t] = Null
      BY <1>2 DEF C!createTransaction, C!Steps, CheckoutsOK
    <2>2. input[t].product \in Products /\ input[t].quantity \in Quantities
      BY <2>1, ShopAssumption DEF C!Inputs, C!isAcceptable
    <2>3. C!newRow(input[t]) \in Rows
      BY <2>2 DEF C!newRow, Rows, TransactionStatusEnum
    <2> QED
      BY <1>2, <2>1, <2>3 DEF C!createTransaction
  <1>3. \A i : C!newRow(i).status = "PENDING"
    BY DEF C!newRow
  <1>4. ASSUME C!createDelivery(t)
        PROVE  /\ UNCHANGED <<transactions, stock>> /\ deliveries[t] = Null
               /\ deliveries' = [deliveries EXCEPT ![t] = "PENDING"]
    BY <1>4 DEF C!createDelivery, C!Steps, CheckoutsOK
  <1> QED
    BY <1>1, <1>2, <1>3, <1>4 DEF checkout, C!checkoutStep

(* So a checkout disturbs no payment.                                         *)
LEMMA CheckoutKeepsIInv ==
  ASSUME ShopInv, NEW t \in Transactions, checkout(t)
  PROVE  /\ IInv'
         /\ \A u \in Transactions :
              /\ transactions[u] # Null => transactions'[u] = transactions[u]
              /\ deliveries[u] # Null => deliveries'[u] = deliveries[u]
              /\ deliveries[u] = Null => deliveries'[u] # "ASSIGNED"
  <1> USE SetsAssumption DEF ShopInv, IInv
  <1>1. /\ UNCHANGED <<stock, charges, acked, pc, target, outcome, attempt, reply, taken>>
        /\ \/ transactions' = transactions
           \/ \E r \in Rows :
                /\ transactions[t] = Null /\ r.status = "PENDING"
                /\ transactions' = [transactions EXCEPT ![t] = r]
        /\ \/ deliveries' = deliveries
           \/ deliveries[t] = Null /\ deliveries' = [deliveries EXCEPT ![t] = "PENDING"]
    BY CheckoutAdds DEF paymentsOnly, gateway, requests
  <1>2. \A u \in Transactions :
          /\ transactions[u] # Null => transactions'[u] = transactions[u]
          /\ transactions[u] = Null /\ transactions'[u] # Null => transactions'[u].status = "PENDING"
          /\ deliveries[u] # Null => deliveries'[u] = deliveries[u]
          /\ deliveries[u] = Null => deliveries'[u] # "ASSIGNED"
    BY <1>1 DEF TypeOK, DeliveryStatusEnum
  <1>3. TypeOK'
    BY <1>1 DEF TypeOK, DeliveryStatusEnum
  <1>4. JobsOK'
    <2>1. \A w \in Workers : busy(w) => target[w] \in Transactions
      BY DEF JobsOK, TypeOK
    <2> QED
      BY <1>1, <1>2, <2>1 DEF JobsOK, busy
  <1>5. ApprovalsOK'
    BY <1>1 DEF ApprovalsOK, wasApproved, approvedFor
  <1>6. ApprovedIsPaid'
    BY <1>1, <1>2 DEF ApprovedIsPaid, approvedFor
  <1>7. ShippedIsPaidAndTaken'
    BY <1>1, <1>2 DEF ShippedIsPaidAndTaken, approvedFor
  <1> QED
    BY <1>2, <1>3, <1>4, <1>5, <1>6, <1>7

(* A checkout writes its row, then its delivery, then answers (execute).      *)
LEMMA CheckoutMoves ==
  ASSUME ShopInv, NEW t \in Transactions, checkout(t)
  PROVE  CheckoutsOK'
  <1> USE SetsAssumption DEF ShopInv
  <1>1. IInv'
    BY CheckoutKeepsIInv
  <1>2. ASSUME NEW i \in C!Inputs, C!reject(t, i)
        PROVE  CheckoutsOK'
    BY <1>2 DEF C!reject, C!moveTo, C!tables, CheckoutsOK, C!isAcceptable, C!Steps
  <1>3. ASSUME NEW i \in C!Inputs, C!loadAvailableProduct(t, i)
        PROVE  CheckoutsOK'
    <2>1. i # Null /\ C!isAcceptable(i) /\ i.product # Null
      BY <1>3, ShopAssumption DEF C!loadAvailableProduct, C!isAvailable
    <2> QED
      BY <1>3, <2>1 DEF C!loadAvailableProduct, C!moveTo, C!tables, CheckoutsOK, C!isAcceptable,
         C!Steps
  <1>4. CASE C!upsertByEmail(t) \/ C!callFails(t)
    BY <1>4 DEF C!upsertByEmail, C!callFails, C!moveTo, C!tables, CheckoutsOK, C!isAcceptable,
       C!Steps
  <1>5. ASSUME NEW r \in References, C!createTransaction(t, r)
        PROVE  CheckoutsOK'
    <2>1. /\ step[t] = "transaction" /\ UNCHANGED <<deliveries, input>>
          /\ \A u \in Transactions : u # t => transactions'[u] = transactions[u]
          /\ step' = [step EXCEPT ![t] = "delivery"] \/ step' = [step EXCEPT ![t] = "failed"]
      BY <1>5 DEF C!createTransaction, C!moveTo, IInv, TypeOK
    <2> QED
      BY <2>1 DEF CheckoutsOK, C!isAcceptable, C!Steps
  <1>6. CASE C!createDelivery(t)
    <2>1. /\ step[t] = "delivery" /\ UNCHANGED <<transactions, input>>
          /\ deliveries'[t] # Null
          /\ \A u \in Transactions : u # t => deliveries'[u] = deliveries[u]
          /\ step' = [step EXCEPT ![t] = "created"] \/ step' = [step EXCEPT ![t] = "failed"]
      BY <1>6 DEF C!createDelivery, C!moveTo, IInv, TypeOK, DeliveryStatusEnum
    <2> QED
      BY <2>1 DEF CheckoutsOK, C!isAcceptable, C!Steps
  <1> QED
    BY <1>2, <1>3, <1>4, <1>5, <1>6 DEF checkout, C!begin, C!checkoutStep

LEMMA CheckoutKeeps ==
  ASSUME ShopInv, NEW t \in Transactions, checkout(t)
  PROVE  ShopInv'
  <1> USE DEF ShopInv
  <1>1. /\ UNCHANGED <<charges, pc, target>>
        /\ \A u \in Transactions : deliveries[u] # Null => deliveries'[u] # Null
    BY CheckoutAdds, CheckoutKeepsIInv DEF paymentsOnly, gateway, requests
  <1>2. PayersKnow'
    <2>1. \A p \in Payers : busy(p) => target[p] \in Transactions
      BY DEF IInv, TypeOK, JobsOK, Workers
    <2> QED
      BY <1>1, <2>1 DEF PayersKnow, busy
  <1>3. ChargedHasDelivery'
    BY <1>1 DEF ChargedHasDelivery, IInv, TypeOK, Charges
  <1> QED
    BY <1>2, <1>3, CheckoutKeepsIInv, CheckoutMoves

-----------------------------------------------------------------------------
(* A payment starts by no step but its own (startPayment).                    *)
LEMMA NothingElseLoads ==
  ASSUME IInv, NEW p \in Payers, NEW t \in Transactions,
         \/ \E q \in Payers : payerStep(q) \/ settle(q)
         \/ \E h \in Hooks : fulfil(h) \/ \E e \in Events : receive(h, e)
         \/ stopRequests \/ UNCHANGED vars
  PROVE  ~loadPendingTransaction(p, t)
  <1> USE SetsAssumption DEF IInv
  <1> SUFFICES ASSUME pc[p] = "idle" PROVE pc'[p] = "idle"
    BY DEF loadPendingTransaction, goto, TypeOK, Workers
  <1>0. p \in Workers /\ p \notin Hooks
    BY DEF Workers
  <1>1. ASSUME NEW w \in Workers, fulfil(w) PROVE pc'[p] = "idle"
    BY <1>0, <1>1 DEF fulfil, applyFails, apply, decrementFails, decrementStock, assignFails,
       assignDelivery, finish, respond, acknowledge, goto, TypeOK
  <1>2. ASSUME NEW q \in Payers, payerStep(q), ~fulfil(q) PROVE pc'[p] = "idle"
    BY <1>0, <1>2 DEF payerStep, findCustomer, respond, postCharge, chargeRefused, chargeThrows,
       chargeAnswered, pollUntilFinal, answerLost, answerMalformed, applyOutcome, goto, TypeOK
  <1>3. ASSUME NEW h \in Hooks, NEW e \in Events, receive(h, e) PROVE pc'[p] = "idle"
    BY <1>0, <1>3 DEF receive, rejectEvent, ignoreEvent, acceptEvent, applyOutcome, goto, TypeOK,
       vars, requests
  <1>4. CASE stopRequests \/ UNCHANGED vars \/ \E c \in Payers : settle(c)
    BY <1>0, <1>4 DEF stopRequests, busy, PayerSteps, ApplySteps, settle, vars, requests
  <1> QED
    BY <1>1, <1>2, <1>3, <1>4 DEF Workers

(* A step of the service is a step of the payment side or of a checkout.      *)
LEMMA ShopSteps ==
  ASSUME IInv, [ShopNext]_shopVars
  PROVE  \/ \E t \in Transactions : checkout(t)
         \/ /\ [Next]_vars \/ stopRequests
            /\ UNCHANGED checkoutOnly \/ C!stopCheckouts
            /\ \A p \in Payers, t \in Transactions : loadPendingTransaction(p, t) => isKnown(t)
  <1> DEFINE known == \A p \in Payers, t \in Transactions :
                        loadPendingTransaction(p, t) => isKnown(t)
  <1>1. ASSUME NEW q \in Payers, pay(q)
        PROVE  startPayment(q) /\ known
    <2>1. PICK u \in Transactions :
            isKnown(u) /\ (rejectPayment(q, u) \/ loadPendingTransaction(q, u))
      BY <1>1 DEF pay
    <2>2. ASSUME NEW p \in Payers, NEW t \in Transactions, loadPendingTransaction(p, t)
          PROVE  t = u
      <3>1. /\ p \in Workers /\ q \in Workers
            /\ pc[p] = "idle" /\ pc'[p] = "customer" /\ target'[p] = t
        BY <2>2 DEF loadPendingTransaction, goto, IInv, TypeOK, Workers
      <3>2. target'[q] = u /\ pc' \in {[pc EXCEPT ![q] = "done"], [pc EXCEPT ![q] = "customer"]}
        BY <2>1, <3>1 DEF rejectPayment, loadPendingTransaction, goto, IInv, TypeOK
      <3>3. p = q
        BY <3>1, <3>2 DEF IInv, TypeOK
      <3> QED
        BY <3>1, <3>2, <3>3
    <2> QED
      BY <2>1, <2>2 DEF startPayment
  <1>2. CASE \/ \E q \in Payers : payerStep(q) \/ settle(q)
             \/ \E h \in Hooks : fulfil(h) \/ \E e \in Events : receive(h, e)
             \/ stopRequests \/ UNCHANGED vars
    <2>1. known
      BY <1>2, NothingElseLoads
    <2>2. [Next]_vars \/ stopRequests
      BY <1>2 DEF Next
    <2>3. (\E t \in Transactions : checkout(t)) \/ UNCHANGED checkoutOnly \/ C!stopCheckouts
      BY DEF ShopNext, payment, gatewayDecides, webhook, processDies, shopVars
    <2> QED
      BY <2>1, <2>2, <2>3
  <1>3. CASE \E q \in Payers : pay(q) /\ UNCHANGED checkoutOnly
    BY <1>1, <1>3 DEF Next
  <1> QED
    BY <1>2, <1>3 DEF ShopNext, payment, gatewayDecides, webhook, processDies, shopVars

(* The invariant is inductive for the service.                                *)
LEMMA NextShopInv == ShopInv /\ [ShopNext]_shopVars => ShopInv'
  BY ShopSteps, PaymentSideKeeps, CheckoutKeeps DEF ShopInv

(* The inductive invariant holds in every state of the whole service: what is *)
(* proved of the payments survives the checkouts beside them.                 *)
THEOREM ShopInductive == ShopSpec => []ShopInv
  BY InitShopInv, NextShopInv, PTL DEF ShopSpec

(* Only complete purchases are ever charged (CreateTransactionUseCase answers *)
(* after createDelivery).                                                     *)
THEOREM ShopChargedHasDelivery == ShopSpec => []ChargedHasDelivery
  <1>1. ShopInv => ChargedHasDelivery
    BY DEF ShopInv
  <1> QED
    BY <1>1, ShopInductive, PTL

-----------------------------------------------------------------------------
(* A checkout touches no answer and no assigned delivery (createDelivery).    *)
LEMMA CheckoutKeepsReplies ==
  ASSUME ShopInv, RepliesOK, NEW t \in Transactions, checkout(t)
  PROVE  RepliesOK'
  <1> USE SetsAssumption DEF ShopInv
  <1>1. UNCHANGED <<charges, pc, target, reply, taken>>
    BY CheckoutAdds DEF paymentsOnly, gateway, requests
  <1>2. \A u \in Transactions : deliveries[u] = "ASSIGNED" => deliveries'[u] = "ASSIGNED"
    BY CheckoutKeepsIInv DEF DeliveryStatusEnum
  <1>3. \A p \in Payers : reply[p] = "APPROVED" => target[p] \in Transactions
    BY DEF RepliesOK, ApprovedReplyIsFulfilled, approvedFor, IInv, TypeOK, Charges
  <1> QED
    BY <1>1, <1>2, <1>3 DEF RepliesOK, ApprovedReplyIsFulfilled, approvedFor

(* A payer told APPROVED got what it paid for, in the composed service too    *)
(* (ProcessPaymentUseCase.execute).                                           *)
THEOREM ShopApprovedAnswer == ShopSpec => []ApprovedReplyIsFulfilled
  <1>1. ShopInit => RepliesOK
    BY DEF ShopInit, Init, RepliesOK, ApprovedReplyIsFulfilled
  <1>2. ShopInv /\ RepliesOK /\ [ShopNext]_shopVars => RepliesOK'
    BY ShopSteps, NextReplies, CheckoutKeepsReplies DEF ShopInv
  <1>3. RepliesOK => ApprovedReplyIsFulfilled
    BY DEF RepliesOK
  <1> QED
    BY <1>1, <1>2, <1>3, ShopInductive, PTL DEF ShopSpec

(* Nothing is APPROVED or shipped unpaid, and an answer keeps what it said,   *)
(* in the composed service (apply, verifySignature, fulfill).                 *)
THEOREM ShopPaymentsStaySound == ShopSpec => []PaymentsStaySound
  <1>1. ShopInv /\ ApprovedReplyIsFulfilled => PaymentsStaySound
    BY DEF ShopInv, IInv, PaymentsStaySound
  <1> QED
    BY <1>1, ShopInductive, ShopApprovedAnswer, PTL

-----------------------------------------------------------------------------
(* A checkout adds rows for which no unit has left the stock                  *)
(* (createTransaction, decrementStock).                                       *)
LEMMA CheckoutKeepsStock ==
  ASSUME ShopInv, StockInv, NEW t \in Transactions, checkout(t)
  PROVE  StockInv'
  <1>1. UNCHANGED <<stock, taken>>
    BY CheckoutAdds DEF paymentsOnly
  <1>2. \A u \in Transactions : transactions[u] # Null => transactions'[u] = transactions[u]
    BY CheckoutKeepsIInv
  <1> QED
    BY <1>1, <1>2, CheckoutKeepsIInv, StockFrame DEF ShopInv, StockInv

(* So nothing is oversold in the composed service either, where transactions  *)
(* are still being created while units are taken (decrementStock).            *)
THEOREM ShopNeverOversold == ShopSpec => []NeverOversold
  <1>1. ShopInit => StockInv
    BY InitStock DEF ShopInit
  <1>2. ShopInv /\ StockInv /\ [ShopNext]_shopVars => StockInv'
    BY ShopSteps, CheckoutKeepsStock, NextStock DEF ShopInv
  <1>3. StockInv => NeverOversold
    BY DEF StockInv
  <1> QED
    BY <1>1, <1>2, <1>3, ShopInductive, PTL DEF ShopSpec

-----------------------------------------------------------------------------
(* The rows as checkout recorded them, whatever payments made of their status *)
(* since. Seen this way, what is proved of Checkout holds in the service.     *)
asRecorded ==
  [t \in Transactions |->
     IF transactions[t] = Null THEN Null
     ELSE [status |-> "PENDING", gatewayId |-> Null,
           product |-> transactions[t].product, quantity |-> transactions[t].quantity]]

Recorded == INSTANCE CheckoutProofs WITH transactions <- asRecorded

(* The constants of the service are sound for Checkout.                       *)
LEMMA RecordedConstants == Recorded!CheckoutAssumption
  BY ShopAssumption, SetsAssumption
  DEF Recorded!Inputs, Recorded!NewRows, Recorded!OrderRows, Recorded!BodyShapes,
      Recorded!DeliveryStatusEnum, C!Inputs, C!NewRows, C!OrderRows, C!BodyShapes,
      DeliveryStatusEnum

(* A row is recorded as the same purchase, and no row as none.                *)
LEMMA RecordedRows ==
  ASSUME TypeOK, NEW t \in Transactions
  PROVE  /\ asRecorded[t] = Null <=> transactions[t] = Null
         /\ transactions[t] # Null => /\ asRecorded[t].product = transactions[t].product
                                      /\ asRecorded[t].quantity = transactions[t].quantity
  <1>1. ASSUME transactions[t] # Null PROVE asRecorded[t] \in Rows
    BY <1>1 DEF asRecorded, TypeOK, Rows, TransactionStatusEnum
  <1> QED
    BY <1>1, SetsAssumption DEF asRecorded

(* A checkout of the service is one of Checkout (execute).                    *)
LEMMA CheckoutIsRecorded ==
  ASSUME ShopInv, NEW t \in Transactions, checkout(t)
  PROVE  Recorded!begin(t) \/ Recorded!checkoutStep(t)
  <1> USE SetsAssumption DEF ShopInv
  <1>1. ASSUME NEW i \in C!Inputs, C!reject(t, i) \/ C!loadAvailableProduct(t, i)
        PROVE  Recorded!begin(t)
    <2>1. i \in Recorded!Inputs /\ UNCHANGED asRecorded
      BY <1>1 DEF C!reject, C!loadAvailableProduct, C!tables, asRecorded, C!Inputs, Recorded!Inputs
    <2>2. Recorded!reject(t, i) \/ Recorded!loadAvailableProduct(t, i)
      BY <1>1, <2>1
      DEF C!reject, C!loadAvailableProduct, C!tables, C!moveTo, C!isAcceptable, C!isAvailable,
          C!hasStockFor, C!checkoutFault, Recorded!reject, Recorded!loadAvailableProduct,
          Recorded!tables, Recorded!moveTo, Recorded!isAcceptable, Recorded!isAvailable,
          Recorded!hasStockFor, Recorded!checkoutFault
    <2> QED
      BY <2>1, <2>2 DEF Recorded!begin
  <1>2. ASSUME C!upsertByEmail(t) \/ C!createDelivery(t) \/ C!callFails(t)
        PROVE  Recorded!checkoutStep(t)
    <2>1. UNCHANGED asRecorded
      BY <1>2 DEF C!upsertByEmail, C!createDelivery, C!callFails, C!tables, asRecorded
    <2>2. CASE C!upsertByEmail(t)
      BY <2>1, <2>2 DEF C!upsertByEmail, C!moveTo, C!checkoutFault, Recorded!checkoutStep,
         Recorded!upsertByEmail, Recorded!moveTo, Recorded!checkoutFault
    <2>3. Recorded!storesDelivery(t) <=> C!storesDelivery(t)
      BY RecordedRows DEF IInv, C!storesDelivery, Recorded!storesDelivery
    <2>4. CASE C!createDelivery(t)
      BY <2>1, <2>3, <2>4 DEF C!createDelivery, C!moveTo, C!checkoutFault, Recorded!checkoutStep,
         Recorded!createDelivery, Recorded!moveTo, Recorded!checkoutFault
    <2>5. CASE C!callFails(t)
      BY <2>1, <2>3, <2>5
      DEF C!callFails, C!moveTo, C!checkoutFault, C!tables, C!Steps, C!storesTransaction, C!fits,
          C!calculate, C!isFresh, Recorded!checkoutStep, Recorded!callFails, Recorded!moveTo,
          Recorded!checkoutFault, Recorded!tables, Recorded!Steps, Recorded!storesTransaction,
          Recorded!fits, Recorded!calculate, Recorded!isFresh
    <2> QED
      BY <1>2, <2>2, <2>4, <2>5
  <1>3. ASSUME NEW r \in References, C!createTransaction(t, r)
        PROVE  Recorded!createTransaction(t, r)
    <2>1. /\ input[t] \in C!Inputs /\ C!isAcceptable(input[t]) /\ input[t].product # Null
          /\ transactions' = [transactions EXCEPT ![t] = C!newRow(input[t])]
      BY <1>3 DEF C!createTransaction, C!Steps, CheckoutsOK
    <2>2. C!newRow(input[t]) # Null
      BY <2>1, ShopAssumption DEF C!newRow, C!NewRows, C!Inputs
    <2>3. asRecorded' = [asRecorded EXCEPT ![t] = Recorded!newRow(input[t])]
      BY <2>1, <2>2 DEF asRecorded, C!newRow, Recorded!newRow, IInv, TypeOK
    <2> QED
      BY <1>3, <2>3
      DEF C!createTransaction, C!storesTransaction, C!calculate, C!isFresh, C!fits, C!moveTo,
          C!checkoutFault, Recorded!createTransaction, Recorded!storesTransaction,
          Recorded!calculate, Recorded!isFresh, Recorded!fits, Recorded!moveTo,
          Recorded!checkoutFault
  <1> QED
    BY <1>1, <1>2, <1>3 DEF checkout, C!begin, C!checkoutStep, Recorded!checkoutStep

(* What payments do to the tables leaves what was recorded, and a crash only  *)
(* ends the checkouts under way (updateStatus, assign).                       *)
LEMMA PaymentsKeepRecorded ==
  ASSUME ShopInv, Recorded!CheckoutInv, [Next]_vars \/ stopRequests,
         UNCHANGED checkoutOnly \/ C!stopCheckouts
  PROVE  Recorded!CheckoutInv'
  <1> USE SetsAssumption DEF ShopInv
  <1>1. UNCHANGED asRecorded
    BY RowsStay DEF asRecorded
  <1>2. stock' \in [Products -> Nat]
    BY NextIInv, StopStep DEF IInv, TypeOK
  <1>3. /\ deliveries' \in [Transactions -> DeliveryStatusEnum \cup {Null}]
        /\ \A t \in Transactions : deliveries'[t] = Null <=> deliveries[t] = Null
    BY RowsStay, NextIInv, StopStep DEF IInv, TypeOK
  <1>4. UNCHANGED <<orders, customers, input>>
    BY DEF checkoutOnly, C!stopCheckouts, C!tables
  <1>5. /\ step' \in [Transactions -> {"idle", "created", "failed"} \cup Recorded!Steps]
        /\ \A t \in Transactions : step'[t] = step[t] \/ step'[t] = "failed"
    BY DEF checkoutOnly, C!stopCheckouts, C!Steps, Recorded!CheckoutInv, Recorded!CheckoutTypeOK,
       Recorded!Steps
  <1> USE DEF Recorded!CheckoutInv
  <1>6. Recorded!CheckoutTypeOK'
    BY <1>1, <1>2, <1>3, <1>4, <1>5 DEF Recorded!CheckoutTypeOK, Recorded!DeliveryStatusEnum,
       DeliveryStatusEnum
  <1>7. Recorded!ProgressOK'
    BY <1>1, <1>4, <1>5 DEF Recorded!ProgressOK, Recorded!Steps, Recorded!isAcceptable,
       Recorded!newRow, Recorded!calculate
  <1>8. Recorded!CreatedIsComplete'
    BY <1>1, <1>3, <1>4, <1>5 DEF Recorded!CreatedIsComplete
  <1>9. Recorded!ReferencesUnique'
    BY <1>4 DEF Recorded!ReferencesUnique
  <1> QED
    BY <1>6, <1>7, <1>8, <1>9

(* What Checkout guarantees of its rows is as true of the rows as they are    *)
(* now (updateStatus changes neither product nor quantity).                   *)
LEMMA RecordedIsSound ==
  ASSUME ShopInv, Recorded!CheckoutInv
  PROVE  CheckoutsStaySound
  <1>1. \A t \in Transactions :
          /\ asRecorded[t] = Null <=> transactions[t] = Null
          /\ transactions[t] # Null => /\ asRecorded[t].product = transactions[t].product
                                       /\ asRecorded[t].quantity = transactions[t].quantity
    BY RecordedRows DEF ShopInv, IInv
  <1>2. C!CreatedIsComplete
    BY <1>1 DEF C!CreatedIsComplete, Recorded!CheckoutInv, Recorded!CreatedIsComplete
  <1>3. C!ReferencesUnique
    BY DEF C!ReferencesUnique, Recorded!CheckoutInv, Recorded!ReferencesUnique
  <1> QED
    BY <1>2, <1>3 DEF CheckoutsStaySound

(* Payments, webhook requests and crashes take nothing from what a client was *)
(* promised when its purchase was recorded, and no two transactions ever      *)
(* share a reference (CreateTransactionUseCase.execute, findByReference).     *)
THEOREM ShopCheckoutsStaySound == ShopSpec => []CheckoutsStaySound
  <1>1. ShopInit => Recorded!CheckoutInv
    <2>1. ShopInit => Recorded!Init
      BY SetsAssumption DEF ShopInit, C!Init, Recorded!Init, asRecorded
    <2> QED
      BY <2>1, RecordedConstants, Recorded!InitCheckoutInv
  <1>2. ShopInv /\ Recorded!CheckoutInv /\ [ShopNext]_shopVars => Recorded!CheckoutInv'
    <2> SUFFICES ASSUME ShopInv, Recorded!CheckoutInv, [ShopNext]_shopVars
                 PROVE  Recorded!CheckoutInv'
      OBVIOUS
    <2>1. ASSUME NEW t \in Transactions, checkout(t) PROVE Recorded!Next
      BY <2>1, CheckoutIsRecorded DEF Recorded!Next
    <2> QED
      BY <2>1, ShopSteps, PaymentsKeepRecorded, RecordedConstants,
         Recorded!NextCheckoutInv DEF ShopInv
  <1>3. ShopInv /\ Recorded!CheckoutInv => CheckoutsStaySound
    BY RecordedIsSound
  <1> QED
    BY <1>1, <1>2, <1>3, ShopInductive, PTL DEF ShopSpec
=============================================================================
