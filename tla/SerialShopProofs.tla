-------------------------- MODULE SerialShopProofs --------------------------
(* SerialShop: from the checkout that records it to the delivery that ships   *)
(* it, every transaction of the service follows the lifecycle, for any number *)
(* of checkouts, payments, webhook requests and faults, when requests about   *)
(* one transaction do not overlap.                                            *)
EXTENDS SerialShop, SerialProofs, ShopProofs

-----------------------------------------------------------------------------
(* A payer keeps the transaction its request names (execute).                 *)
LEMMA AnsweredStay ==
  ASSUME IInv, AnsweredKnow, [Next]_vars \/ stopRequests
  PROVE  AnsweredKnow'
  <1> USE SetsAssumption DEF IInv, AnsweredKnow
  <1> SUFFICES ASSUME NEW p \in Payers, pc'[p] # "idle"
               PROVE  target'[p] \in Transactions
    OBVIOUS
  <1>0. p \in Workers /\ p \notin Hooks
    BY DEF Workers
  <1>1. ASSUME NEW q \in Payers, startPayment(q)
        PROVE  target'[p] \in Transactions
    <2>1. PICK t \in Transactions : rejectPayment(q, t) \/ loadPendingTransaction(q, t)
      BY <1>1 DEF startPayment
    <2>2. /\ target' = [target EXCEPT ![q] = t]
          /\ q # p => pc'[p] = pc[p]
      BY <1>0, <2>1 DEF rejectPayment, loadPendingTransaction, goto, TypeOK
    <2> QED
      BY <1>0, <2>2 DEF TypeOK
  <1>2. ASSUME NEW q \in Payers, payerStep(q), ~fulfil(q)
        PROVE  target'[p] \in Transactions
    <2>1. q \in Workers /\ target' = target /\ (q # p => pc'[p] = pc[p])
      BY <1>0, <1>2 DEF payerStep, findCustomer, respond, postCharge, chargeRefused, chargeThrows,
         chargeAnswered, pollUntilFinal, answerLost, answerMalformed, applyOutcome, goto, gateway,
         TypeOK, Workers
    <2>2. pc[q] # "idle"
      BY <1>2 DEF payerStep, findCustomer, postCharge, chargeRefused, chargeThrows,
         chargeAnswered, pollUntilFinal, answerLost, answerMalformed
    <2> QED
      BY <2>1, <2>2
  <1>3. ASSUME NEW w \in Workers, fulfil(w)
        PROVE  target'[p] \in Transactions
    <2>1. target'[p] = target[p] /\ pc[w] # "idle" /\ (w # p => pc'[p] = pc[p])
      BY <1>0, <1>3 DEF fulfil, applyFails, apply, decrementFails, decrementStock, assignFails,
         assignDelivery, finish, respond, acknowledge, goto, TypeOK
    <2> QED
      BY <2>1
  <1>4. ASSUME NEW h \in Hooks, NEW e \in Events, receive(h, e)
        PROVE  target'[p] \in Transactions
    BY <1>0, <1>4 DEF receive, rejectEvent, ignoreEvent, acceptEvent, applyOutcome, goto, TypeOK,
       vars, requests
  <1>5. CASE stopRequests \/ UNCHANGED vars \/ \E c \in Payers : settle(c)
    BY <1>0, <1>5 DEF stopRequests, busy, PayerSteps, ApplySteps, settle, vars, requests
  <1> QED
    BY <1>1, <1>2, <1>3, <1>4, <1>5 DEF Next, crash, Workers

(* A checkout adds PENDING rows and unassigned deliveries where there were    *)
(* none, which no request is at work on and nobody was told about             *)
(* (createTransaction, createDelivery).                                       *)
LEMMA CheckoutKeepsSerial ==
  ASSUME SerialShopInv, NEW t \in Transactions, checkout(t)
  PROVE  SerialInv' /\ AnsweredKnow'
  <1> USE SetsAssumption DEF SerialShopInv, ShopInv, SerialInv
  <1>1. UNCHANGED <<charges, acked, pc, target, outcome, reply, taken>>
    BY CheckoutAdds DEF paymentsOnly, gateway, requests
  <1>2. \A u \in Transactions : /\ transactions[u] # Null => transactions'[u] = transactions[u]
                                /\ deliveries'[u] = "ASSIGNED" => deliveries[u] = "ASSIGNED"
    BY CheckoutKeepsIInv DEF DeliveryStatusEnum
  <1>3. oneAtATime' /\ AnsweredKnow'
    BY <1>1 DEF oneAtATime, busy, AnsweredKnow
  <1>4. RowsOK'
    BY <1>1, <1>2 DEF RowsOK
  <1>5. StagesOK'
    <2> SUFFICES ASSUME NEW w \in Workers, busy(w)
                 PROVE  row(w)' = row(w)
      BY <1>1 DEF StagesOK, busy, ApplySteps
    <2>1. target[w] \in Transactions /\ transactions[target[w]] # Null
      BY DEF IInv, TypeOK, JobsOK
    <2> QED
      BY <1>1, <1>2, <2>1 DEF row
  <1>6. AnswersOK'
    <2>1. ASSUME NEW p \in Payers, isFinalStatus(reply[p])
          PROVE  getTransaction(target[p])' = reply[p]
      <3>1. pc[p] # "idle" /\ getTransaction(target[p]) = reply[p]
        BY <2>1 DEF AnswersOK, RestoredResult, isFinalStatus, FinalStatuses
      <3>2. target[p] \in Transactions /\ transactions[target[p]] # Null
        BY <2>1, <3>1 DEF AnsweredKnow, getTransaction, isFinalStatus, FinalStatuses
      <3> QED
        BY <1>1, <1>2, <3>1, <3>2 DEF getTransaction
    <2> QED
      BY <1>1, <2>1 DEF AnswersOK, RestoredResult
  <1>7. EventsOK'
    <2>1. \A c \in Payers : charges[c] # Null => charges[c].tx \in Transactions
      BY DEF IInv, TypeOK, Charges
    <2>2. \A c \in acked : c \in Payers /\ finalised(c)
      BY DEF IInv, TypeOK, EventsOK, AckedIsFinal
    <2>3. \A c \in acked : finalised(c)'
      BY <1>1, <1>2, <2>1, <2>2 DEF finalised
    <2> QED
      BY <1>1, <1>2, <2>1, <2>3 DEF EventsOK, AckedIsFinal, carriesDecision
  <1> QED
    BY <1>3, <1>4, <1>5, <1>6, <1>7

-----------------------------------------------------------------------------
(* An empty shop.                                                             *)
LEMMA InitSerialShopInv == ShopInit => SerialShopInv
  <1>1. ShopInit => AnsweredKnow
    BY DEF ShopInit, Init, AnsweredKnow, Workers
  <1> QED
    BY <1>1, InitShopInv, InitSerialInv DEF ShopInit, SerialShopInv

(* A step of the service without overlapping requests.                        *)
LEMMA SerialShopSteps ==
  ASSUME SerialShopInv, [SerialShopNext]_shopVars
  PROVE  /\ [ShopNext]_shopVars /\ oneAtATime'
         /\ (\E t \in Transactions : checkout(t)) \/ [Next]_vars \/ stopRequests
  <1>1. [ShopNext]_shopVars
    BY DEF SerialShopNext
  <1>2. oneAtATime'
    BY DEF SerialShopNext, SerialShopInv, SerialInv, oneAtATime, busy, shopVars, vars, requests
  <1> QED
    BY <1>1, <1>2, ShopSteps DEF SerialShopInv, ShopInv

LEMMA NextSerialShopInv == SerialShopInv /\ [SerialShopNext]_shopVars => SerialShopInv'
  <1> SUFFICES ASSUME SerialShopInv, [SerialShopNext]_shopVars PROVE SerialShopInv'
    OBVIOUS
  <1>1. ShopInv' /\ IInv'
    BY SerialShopSteps, NextShopInv DEF SerialShopInv, ShopInv
  <1>2. CASE \E t \in Transactions : checkout(t)
    BY <1>1, <1>2, CheckoutKeepsSerial DEF SerialShopInv
  <1>3. CASE [Next]_vars \/ stopRequests
    <2>1. SerialInv'
      BY <1>1, <1>3, SerialShopSteps, OrderedKeeps DEF SerialShopInv, ShopInv
    <2>2. AnsweredKnow'
      BY <1>3, AnsweredStay DEF SerialShopInv, ShopInv
    <2> QED
      BY <1>1, <2>1, <2>2 DEF SerialShopInv
  <1> QED
    BY <1>2, <1>3, SerialShopSteps

(* What is proved of payments that do not overlap survives the checkouts that *)
(* are still writing, in every state of the service.                          *)
THEOREM SerialShopInductive == SerialShopSpec => []SerialShopInv
  BY InitSerialShopInv, NextSerialShopInv, PTL DEF SerialShopSpec

-----------------------------------------------------------------------------
(* In the whole service, and not only from rows already there, units leave    *)
(* the stock at most once per transaction (README, "applied exactly once"),   *)
(* what a shopper was answered can be read back, and an acknowledged event is *)
(* never needed again (GetTransactionUseCase, HandlePaymentWebhookUseCase).   *)
THEOREM SerialShopPromises == SerialShopSpec => [](AppliedOnce /\ RestoredResult /\ AckedIsFinal)
  <1>1. SerialShopInv => AppliedOnce /\ RestoredResult /\ AckedIsFinal
    BY DEF SerialShopInv, SerialInv, RowsOK, AnswersOK, EventsOK, AppliedOnce
  <1> QED
    BY <1>1, SerialShopInductive, PTL

(* No step of the service, a checkout included, changes a final transaction   *)
(* (transaction.model.ts, isFinalized).                                       *)
THEOREM SerialShopFinalIsFinal == SerialShopSpec => FinalIsFinal
  <1>1. SerialShopInv /\ [SerialShopNext]_shopVars =>
          [\A t \in Transactions :
             transactions[t] # Null /\ isFinalStatus(transactions[t].status)
               => transactions'[t] = transactions[t]]_vars
    <2> SUFFICES ASSUME SerialShopInv, [SerialShopNext]_shopVars, NEW t \in Transactions,
                        transactions[t] # Null, isFinalStatus(transactions[t].status)
                 PROVE  transactions'[t] = transactions[t]
      OBVIOUS
    <2>1. CASE \E u \in Transactions : checkout(u)
      BY <2>1, CheckoutKeepsIInv DEF SerialShopInv
    <2>2. CASE [Next]_vars \/ stopRequests
      BY <2>2, FinalStays DEF SerialShopInv, ShopInv
    <2> QED
      BY <2>1, <2>2, SerialShopSteps
  <1> QED
    BY <1>1, SerialShopInductive, PTL DEF SerialShopSpec, FinalIsFinal

(* A checkout that writes its row records a transaction; its other calls do   *)
(* not show (createTransaction).                                              *)
LEMMA CheckoutRefines ==
  ASSUME SerialShopInv, NEW t \in Transactions, checkout(t)
  PROVE  Lifecycle!Next \/ UNCHANGED Lifecycle!vars
  <1> USE SetsAssumption DEF SerialShopInv, ShopInv
  <1>1. UNCHANGED taken
    BY CheckoutAdds DEF paymentsOnly
  <1>2. {u \in Transactions : deliveries'[u] = "ASSIGNED"}
          = {u \in Transactions : deliveries[u] = "ASSIGNED"}
    BY CheckoutKeepsIInv DEF DeliveryStatusEnum
  <1>3. CASE transactions' = transactions
    BY <1>1, <1>2, <1>3 DEF Lifecycle!vars
  <1>4. ASSUME NEW r \in Rows, transactions[t] = Null, r.status = "PENDING",
               transactions' = [transactions EXCEPT ![t] = r]
        PROVE  Lifecycle!Next
    <2> DEFINE seen(e) == IF e = Null THEN "ABSENT" ELSE e.status
    <2>1. /\ transactions'[t] = r /\ r # Null
          /\ \A u \in Transactions : u # t => transactions'[u] = transactions[u]
      BY <1>4 DEF IInv, TypeOK
    <2>2. [u \in Transactions |-> seen(transactions'[u])] =
            [[u \in Transactions |-> seen(transactions[u])] EXCEPT ![t] = r.status]
      BY <2>1
    <2>3. [u \in Transactions |-> seen(transactions[u])][t] = "ABSENT"
      BY <1>4
    <2>4. Lifecycle!Record(t)
      BY <1>1, <1>2, <1>4, <2>2, <2>3 DEF Lifecycle!Record
    <2> QED
      BY <2>4 DEF Lifecycle!Next
  <1> QED
    BY <1>3, <1>4, CheckoutAdds

(* The whole service implements the transaction states of the README, from    *)
(* the checkout that records a transaction to the delivery that ships it,     *)
(* through every fault, when requests about one transaction do not overlap    *)
(* (CreateTransactionUseCase, ProcessPaymentUseCase,                          *)
(* HandlePaymentWebhookUseCase, TransactionFulfillmentService).               *)
THEOREM SerialShopImplementsLifecycle == SerialShopSpec => ImplementsLifecycle
  <1>1. SerialShopInv /\ [SerialShopNext]_shopVars => [Lifecycle!Next]_(Lifecycle!vars)
    BY SerialShopSteps, StepRefines, CheckoutRefines DEF SerialShopInv, ShopInv
  <1>2. ShopInit => Lifecycle!Init
    BY InitRefines DEF ShopInit
  <1> QED
    BY <1>1, <1>2, SerialShopInductive, PTL DEF SerialShopSpec, ImplementsLifecycle, Lifecycle!Spec

-----------------------------------------------------------------------------
(* What is left between a recorded purchase and a shipped one: the stock.     *)

(* Whoever works on a transaction finds its delivery row: a payer because the *)
(* checkout answered, a webhook request because a charge was opened           *)
(* (createDelivery, carriesDecision).                                         *)
LEMMA WorkersFindDeliveries ==
  ASSUME SerialShopInv, NEW w \in Workers, busy(w)
  PROVE  deliveries[target[w]] # Null
  <1> USE DEF SerialShopInv, ShopInv
  <1>1. CASE w \in Payers
    BY <1>1 DEF PayersKnow
  <1>2. CASE w \in Hooks
    <2>1. pc[w] \in ApplySteps
      BY <1>2, SetsAssumption DEF busy, IInv, JobsOK
    <2>2. PICK c \in Payers : charges[c] # Null /\ charges[c].tx = target[w]
      BY <1>2, <2>1 DEF SerialInv, EventsOK, carriesDecision
    <2> QED
      BY <2>2 DEF ChargedHasDelivery
  <1> QED
    BY <1>1, <1>2 DEF Workers

(* Where nothing kills the process, a step is a checkout's or a payment's.    *)
LEMMA LivingSteps ==
  ASSUME WritesHold, [ShopNext]_shopVars
  PROVE  (\E t \in Transactions : checkout(t)) \/ [Next]_vars
  BY DEF WritesHold, fault, ShopNext, payment, pay, gatewayDecides, webhook, processDies, shopVars,
     Next, startPayment

(* A row that is written while others are on their way stays out of theirs.   *)
LEMMA CheckoutKeepsArrivals ==
  ASSUME SerialShopInv, NEW u \in Transactions, checkout(u),
         \A t \in Transactions : approvalArrives(t)
  PROVE  \A t \in Transactions : approvalArrives(t)'
  <1> USE SetsAssumption DEF SerialShopInv
  <1> SUFFICES ASSUME NEW t \in Transactions,
                      transactions'[t] # Null, transactions'[t].status = "APPROVED"
               PROVE  fulfilled(t)' \/ underway(t)'
    BY DEF approvalArrives
  <1>1. UNCHANGED <<pc, target, taken>>
    BY CheckoutAdds DEF paymentsOnly, requests
  <1>2. deliveries[t] = "ASSIGNED" => deliveries'[t] = "ASSIGNED"
    BY CheckoutKeepsIInv DEF DeliveryStatusEnum
  <1>3. transactions[t] # Null /\ transactions[t].status = "APPROVED"
    <2>1. CASE transactions' = transactions
      BY <2>1
    <2>2. ASSUME NEW r \in Rows, r.status = "PENDING",
                 transactions' = [transactions EXCEPT ![u] = r]
          PROVE  transactions'[t] = transactions[t]
      BY <2>2 DEF ShopInv, IInv, TypeOK
    <2> QED
      BY <2>1, <2>2, CheckoutAdds
  <1> QED
    BY <1>1, <1>2, <1>3 DEF approvalArrives, fulfilled, underway

(* When no database call fails, the process stays up and what checkouts       *)
(* record never exceeds the stock together, no APPROVED transaction of the    *)
(* service is left without its units and its delivery: the reservation that   *)
(* hasStockFor does not make is all that is missing (loadAvailableProduct,    *)
(* TransactionFulfillmentService.fulfill).                                    *)
THEOREM SerialShopApprovedIsFulfilled ==
  SerialShopSpec /\ WritesHold /\ []EnoughStock => []ApprovedIsFulfilled
  <1> DEFINE allArrive == \A t \in Transactions : approvalArrives(t)
  <1>1. ShopInit => allArrive /\ StockInv
    BY InitStock DEF ShopInit, C!Init, approvalArrives
  <1>2. SerialShopInv /\ StockInv /\ [SerialShopNext]_shopVars => StockInv'
    BY SerialShopSteps, CheckoutKeepsStock, NextStock DEF SerialShopInv, ShopInv
  <1>3. SerialShopInv /\ SerialShopInv' /\ StockInv /\ WritesHold /\ EnoughStock /\ allArrive
          /\ [SerialShopNext]_shopVars => allArrive'
    <2> SUFFICES ASSUME SerialShopInv, SerialShopInv', StockInv, WritesHold, EnoughStock, allArrive,
                        [SerialShopNext]_shopVars
                 PROVE  allArrive'
      OBVIOUS
    <2>1. CASE \E u \in Transactions : checkout(u)
      BY <2>1, CheckoutKeepsArrivals
    <2>2. CASE [Next]_vars
      BY <2>2, WorkersFindDeliveries, ApprovalsArrive DEF SerialShopInv, ShopInv
    <2> QED
      BY <2>1, <2>2, SerialShopSteps, LivingSteps
  <1>4. allArrive => ApprovedIsFulfilled
    BY DEF approvalArrives, fulfilled, underway, ApprovedIsFulfilled, nobodyWorksOn, busy,
       ApplySteps
  <1>5. WritesHold => WritesHold'
    BY DEF WritesHold
  <1> HIDE DEF allArrive
  <1> QED
    BY <1>1, <1>2, <1>3, <1>4, <1>5, SerialShopInductive, PTL DEF SerialShopSpec
=============================================================================
