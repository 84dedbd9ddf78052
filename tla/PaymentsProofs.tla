--------------------------- MODULE PaymentsProofs ---------------------------
(* Payments: the inductive invariant holds for any number of transactions,    *)
(* products, payments and webhook requests, under every mix of faults.        *)
EXTENDS Payments, FoldLemmas

-----------------------------------------------------------------------------
(* Initial states satisfy the inductive invariant.                            *)
LEMMA InitIInv == Init => IInv
  <1> SUFFICES ASSUME Init PROVE IInv
    OBVIOUS
  <1> USE SetsAssumption
  <1>1. TypeOK
    <2>1. checkedOut \subseteq Rows
      BY DEF checkedOut, pendingRow, Rows, TransactionStatusEnum
    <2>2. transactions \in [Transactions -> Rows \cup {Null}]
      BY <2>1 DEF Init
    <2> QED
      BY <2>2 DEF Init, TypeOK, DeliveryStatusEnum
  <1>2. JobsOK
    BY DEF Init, JobsOK, busy, PayerSteps, ApplySteps, Workers
  <1>3. ApprovalsOK
    BY DEF Init, ApprovalsOK, ApplySteps, Workers
  <1>4. ApprovedIsPaid
    BY DEF Init, ApprovedIsPaid, checkedOut, pendingRow
  <1>5. ShippedIsPaidAndTaken
    BY DEF Init, ShippedIsPaidAndTaken, DeliveryStatusEnum
  <1> QED
    BY <1>1, <1>2, <1>3, <1>4, <1>5 DEF IInv

-----------------------------------------------------------------------------
(* Every code a payer may be answered with is a reply (DomainErrorCode).      *)
LEMMA ErrorCodes ==
  {"PERSISTENCE_ERROR", "INSUFFICIENT_STOCK", "TRANSACTION_NOT_FOUND",
   "TRANSACTION_ALREADY_FINALIZED", UnexpectedError, NoAnswer} \subseteq Replies
  BY DEF Replies, Failures, DomainErrorCode

(* Ending a request only frees the request.                                   *)
LEMMA FinishEffect ==
  ASSUME TypeOK, JobsOK, NEW w \in Workers,
         NEW a \in Replies,
         pc[w] \in PayerSteps \cup ApplySteps,
         finish(w, a)
  PROVE  /\ \E s \in {"idle", "done"} : pc' = [pc EXCEPT ![w] = s]
         /\ w \in Payers => pc'[w] = "done"
         /\ outcome' = [outcome EXCEPT ![w] = Null]
         /\ target' \in [Workers -> Transactions \cup {Null}]
         /\ \A v \in Workers : v # w => target'[v] = target[v]
         /\ w \in Payers => target' = target
         /\ attempt' = attempt
         /\ reply' \in [Payers -> Replies \cup {"none"}]
         /\ acked' \subseteq Payers
  <1> USE SetsAssumption
  <1>1. CASE w \in Payers
    BY <1>1 DEF finish, respond, goto, TypeOK, Workers
  <1>2. CASE w \notin Payers
    <2>1. w \in Hooks /\ pc[w] \in ApplySteps /\ outcome[w] # Null
          /\ outcome[w].gatewayId # Null
      BY <1>2 DEF JobsOK, Workers
    <2>2. outcome[w].gatewayId \in Payers
      BY <2>1 DEF TypeOK, Outcomes
    <2> QED
      BY <1>2, <2>1, <2>2 DEF finish, acknowledge, goto, TypeOK, Workers
  <1> QED
    BY <1>1, <1>2

(* What the other requests rely on stays when one of them ends and no row is  *)
(* lost.                                                                      *)
LEMMA FinishKeepsJobs ==
  ASSUME TypeOK, JobsOK, NEW w \in Workers, NEW a \in Replies,
         pc[w] \in PayerSteps \cup ApplySteps, finish(w, a), UNCHANGED charges,
         \A t \in Transactions : transactions[t] # Null => transactions'[t] # Null
  PROVE  JobsOK'
  <1> USE SetsAssumption
  <1>1. /\ \A v \in Workers : v # w => UNCHANGED <<pc[v], target[v], outcome[v]>>
        /\ pc'[w] \in {"idle", "done"}
        /\ w \in Payers => pc'[w] = "done"
    BY FinishEffect DEF TypeOK
  <1>2. ASSUME NEW v \in Workers
        PROVE  /\ busy(v)' => target'[v] # Null /\ transactions'[target'[v]] # Null
               /\ pc'[v] \in PayerSteps => v \in Payers
               /\ pc'[v] \in ApplySteps => outcome'[v] # Null
               /\ pc'[v] \in ApplySteps /\ v \in Hooks => outcome'[v].gatewayId # Null
    <2>1. CASE v = w
      BY <1>1, <2>1 DEF busy, PayerSteps, ApplySteps
    <2>2. CASE v # w
      BY <1>1, <2>2 DEF TypeOK, JobsOK, busy
    <2> QED
      BY <2>1, <2>2
  <1>3. ASSUME NEW p \in Payers
        PROVE  /\ pc'[p] \in {"idle", "customer", "charge"} => charges'[p] = Null
               /\ pc'[p] \in {"posted", "poll"} =>
                    charges'[p] # Null /\ charges'[p].tx = target'[p]
    <2>1. CASE p = w
      BY <1>1, <2>1
    <2>2. CASE p # w
      BY <1>1, <2>2 DEF JobsOK, Workers
    <2> QED
      BY <2>1, <2>2
  <1> QED
    BY <1>2, <1>3 DEF JobsOK

-----------------------------------------------------------------------------
(* A step that leaves the tables and the gateway's charges alone can disturb  *)
(* only what the requests remember.                                           *)
LEMMA RequestFrame ==
  ASSUME IInv, UNCHANGED <<database, charges, taken>>, TypeOK', JobsOK', ApprovalsOK'
  PROVE  IInv'
  <1>1. ApprovedIsPaid'
    BY DEF IInv, ApprovedIsPaid, approvedFor, database
  <1>2. ShippedIsPaidAndTaken'
    BY DEF IInv, ShippedIsPaidAndTaken, approvedFor, database
  <1> QED
    BY <1>1, <1>2 DEF IInv

(* A failed request stops wherever it was.                                    *)
LEMMA FailStep ==
  ASSUME IInv, NEW w \in Workers, pc[w] \in PayerSteps \cup ApplySteps,
         NEW a \in Replies, finish(w, a), UNCHANGED <<database, charges, taken>>
  PROVE  IInv'
  <1> USE SetsAssumption, FinishEffect DEF IInv, database
  <1>1. TypeOK'
    BY DEF TypeOK
  <1>2. JobsOK'
    BY DEF TypeOK, JobsOK, busy, Workers, PayerSteps, ApplySteps
  <1>3. ApprovalsOK'
    BY DEF TypeOK, ApprovalsOK, wasApproved, approvedFor, ApplySteps
  <1> QED
    BY <1>1, <1>2, <1>3, RequestFrame

-----------------------------------------------------------------------------
(* A payer's own steps, up to the outcome it will apply.                      *)
LEMMA StartStep ==
  ASSUME IInv, NEW p \in Payers, NEW t \in Transactions,
         rejectPayment(p, t) \/ loadPendingTransaction(p, t)
  PROVE  IInv'
  <1> USE SetsAssumption, ErrorCodes DEF IInv, rejectPayment, loadPendingTransaction, goto,
                             database, gateway
  <1>1. TypeOK'
    BY DEF TypeOK, Workers, PayerSteps
  <1>2. JobsOK'
    BY DEF TypeOK, JobsOK, busy, Workers, PayerSteps, ApplySteps
  <1>3. ApprovalsOK'
    BY DEF TypeOK, ApprovalsOK, wasApproved, approvedFor, Workers, ApplySteps
  <1> QED
    BY <1>1, <1>2, <1>3, RequestFrame

(* Loading the customer, or failing to (ProcessPaymentUseCase.execute).       *)
LEMMA FindCustomerStep ==
  ASSUME IInv, NEW p \in Payers, findCustomer(p)
  PROVE  IInv'
  <1>1. CASE respond(p, "PERSISTENCE_ERROR")
    BY <1>1, FailStep, ErrorCodes DEF findCustomer, finish, Workers, PayerSteps
  <1>2. CASE goto(p, "charge") /\ UNCHANGED <<acked, target, outcome, attempt, reply>>
    <2> USE <1>2, SetsAssumption DEF IInv, findCustomer, goto, database
    <2>1. TypeOK'
      BY DEF TypeOK, Workers, PayerSteps
    <2>2. JobsOK'
      BY DEF TypeOK, JobsOK, busy, Workers, PayerSteps, ApplySteps
    <2>3. ApprovalsOK'
      BY DEF TypeOK, ApprovalsOK, wasApproved, approvedFor, Workers, ApplySteps
    <2> QED
      BY <2>1, <2>2, <2>3, RequestFrame
  <1> QED
    BY <1>1, <1>2 DEF findCustomer

(* A new charge is PENDING and had no predecessor, so it approves nothing and *)
(* hides no approval.                                                         *)
LEMMA PostChargeStep ==
  ASSUME IInv, NEW p \in Payers, postCharge(p)
  PROVE  IInv'
  <1> USE SetsAssumption DEF IInv, postCharge, goto, database
  <1>1. charges[p] = Null /\ target[p] \in Transactions
    BY DEF TypeOK, JobsOK, busy, Workers, PayerSteps
  <1>2. \A t \in Transactions : approvedFor(t)' = approvedFor(t)
    BY <1>1 DEF approvedFor, TypeOK
  <1>3. TypeOK'
    BY <1>1 DEF TypeOK, Workers, PayerSteps, Charges, RawStatuses, TransactionStatusEnum
  <1>4. JobsOK'
    <2>1. /\ charges'[p] # Null /\ charges'[p].tx = target[p]
          /\ \A q \in Payers : q # p => charges'[q] = charges[q]
      BY <1>1 DEF TypeOK, Charges, RawStatuses, TransactionStatusEnum
    <2>2. /\ pc'[p] = "posted"
          /\ \A w \in Workers : w # p => pc'[w] = pc[w]
      BY DEF TypeOK, Workers
    <2>3. UNCHANGED <<target, outcome, transactions>>
      OBVIOUS
    <2> QED
      BY <2>1, <2>2, <2>3 DEF JobsOK, busy, Workers, PayerSteps, ApplySteps
  <1>5. ApprovalsOK'
    BY <1>1 DEF TypeOK, ApprovalsOK, wasApproved, approvedFor, Workers, ApplySteps
  <1>6. ApprovedIsPaid'
    BY <1>2 DEF ApprovedIsPaid
  <1>7. ShippedIsPaidAndTaken'
    BY <1>2 DEF ShippedIsPaidAndTaken
  <1> QED
    BY <1>3, <1>4, <1>5, <1>6, <1>7

(* Whatever the adapter answers is an outcome whose approval, if it claims    *)
(* one, is the payer's own charge.                                            *)
LEMMA OutcomeStep ==
  ASSUME IInv, NEW w \in Workers, NEW o \in Outcomes,
         w \in Hooks => o.gatewayId # Null,
         target'[w] \in Transactions, transactions[target'[w]] # Null,
         wasApproved(o) => o.gatewayId \in approvedFor(target'[w]),
         target' = [target EXCEPT ![w] = target'[w]],
         applyOutcome(w, o),
         attempt' \in [Payers -> 0..MaxPollAttempts],
         UNCHANGED <<database, gateway, reply, taken>>
  PROVE  IInv'
  <1> USE SetsAssumption DEF IInv, applyOutcome, goto, database, gateway
  <1>1. TypeOK'
    BY DEF TypeOK, ApplySteps, Workers
  <1>2. JobsOK'
    BY DEF TypeOK, JobsOK, busy, Workers, PayerSteps, ApplySteps
  <1>3. ApprovalsOK'
    BY DEF TypeOK, ApprovalsOK, wasApproved, approvedFor, ApplySteps
  <1> QED
    BY <1>1, <1>2, <1>3, RequestFrame

(* A gateway error is an outcome that approves nothing (orElse).              *)
LEMMA GatewayErrorStep ==
  ASSUME IInv, NEW p \in Payers, pc[p] \in PayerSteps,
         applyOutcome(p, gatewayError),
         attempt' \in [Payers -> 0..MaxPollAttempts],
         UNCHANGED <<database, gateway, target, reply, taken>>
  PROVE  IInv'
  <1>1. gatewayError \in Outcomes /\ ~wasApproved(gatewayError)
    BY DEF gatewayError, Outcomes, TransactionStatusEnum, wasApproved
  <1>2. /\ target[p] \in Transactions /\ transactions[target[p]] # Null
        /\ target' = [target EXCEPT ![p] = target[p]]
    BY DEF IInv, TypeOK, JobsOK, busy, Workers
  <1>3. p \in Workers /\ p \notin Hooks
    BY SetsAssumption DEF Workers
  <1> QED
    BY <1>1, <1>2, <1>3, OutcomeStep

(* The gateway's answer names the payer's own charge (toChargeResult).        *)
LEMMA ChargeResultStep ==
  ASSUME IInv, NEW p \in Payers, pc[p] \in {"posted", "poll"},
         applyOutcome(p, toChargeResult(p)),
         attempt' \in [Payers -> 0..MaxPollAttempts],
         UNCHANGED <<database, gateway, target, reply, taken>>
  PROVE  IInv'
  <1>1. charges[p] \in Charges /\ charges[p].tx = target[p]
    BY DEF IInv, TypeOK, JobsOK
  <1>2. /\ target[p] \in Transactions /\ transactions[target[p]] # Null
        /\ target' = [target EXCEPT ![p] = target[p]]
    BY DEF IInv, TypeOK, JobsOK, busy, Workers, PayerSteps
  <1>3. toChargeResult(p) \in Outcomes
    BY <1>1 DEF toChargeResult, mapStatus, Outcomes, Charges, TransactionStatusEnum
  <1>4. wasApproved(toChargeResult(p)) => toChargeResult(p).gatewayId \in approvedFor(target'[p])
    BY <1>1, SetsAssumption
       DEF toChargeResult, mapStatus, wasApproved, approvedFor, TransactionStatusEnum, IInv, TypeOK
  <1>5. p \in Workers /\ p \notin Hooks
    BY SetsAssumption DEF Workers
  <1> QED
    BY <1>2, <1>3, <1>4, <1>5, OutcomeStep

-----------------------------------------------------------------------------
(* A webhook request: only a signed event gets past verifySignature, so the   *)
(* outcome it applies repeats what the gateway decided.                       *)
LEMMA EventStep ==
  ASSUME IInv, NEW h \in Hooks, NEW e \in Events, receive(h, e)
  PROVE  IInv'
  <1>1. CASE rejectEvent(h, e)
    BY <1>1 DEF rejectEvent, vars, database, gateway, requests, IInv, TypeOK, JobsOK,
         busy, ApprovalsOK, wasApproved, approvedFor, ApprovedIsPaid, ShippedIsPaidAndTaken
  <1>2. CASE ignoreEvent(h, e)
    <2> USE <1>2 DEF ignoreEvent, requests, database
    <2>1. TypeOK'
      BY DEF IInv, TypeOK, Events
    <2>2. JobsOK'
      BY DEF IInv, JobsOK, busy
    <2>3. ApprovalsOK'
      BY DEF IInv, ApprovalsOK, wasApproved, approvedFor
    <2> QED
      BY <2>1, <2>2, <2>3, RequestFrame
  <1>3. CASE acceptEvent(h, e)
    <2> DEFINE o == [status |-> mapStatus(e.status), gatewayId |-> e.charge]
    <2>1. /\ e.charge \in Payers /\ e.tx \in Transactions
          /\ charges[e.charge] \in Charges
          /\ charges[e.charge].tx = e.tx /\ charges[e.charge].status = e.status
      BY <1>3 DEF acceptEvent, findByReference, arrives, verifySignature, authentic, Events, IInv, TypeOK
    <2>2. o \in Outcomes /\ o.gatewayId # Null
      BY <2>1, SetsAssumption DEF mapStatus, Outcomes, Charges, TransactionStatusEnum
    <2>3. wasApproved(o) => o.gatewayId \in approvedFor(e.tx)
      BY <2>1, SetsAssumption DEF mapStatus, wasApproved, approvedFor, TransactionStatusEnum
    <2>4. /\ target' = [target EXCEPT ![h] = target'[h]] /\ target'[h] = e.tx
          /\ transactions[e.tx] # Null
          /\ h \in Workers
      BY <1>3 DEF acceptEvent, findByReference, IInv, TypeOK, Workers
    <2>5. /\ applyOutcome(h, o)
          /\ UNCHANGED <<database, gateway, reply, taken>>
          /\ attempt' \in [Payers -> 0..MaxPollAttempts]
      BY <1>3 DEF acceptEvent, findByReference, IInv, TypeOK
    <2> QED
      BY <2>1, <2>2, <2>3, <2>4, <2>5, OutcomeStep
  <1> QED
    BY <1>1, <1>2, <1>3 DEF receive

(* The gateway decides a PENDING charge: no approval is ever taken back.      *)
LEMMA SettleStep ==
  ASSUME IInv, NEW c \in Payers, settle(c)
  PROVE  IInv'
  <1> USE SetsAssumption DEF IInv, settle, requests, database
  <1>1. /\ UNCHANGED <<transactions, stock, deliveries, acked, pc, target, outcome,
                       attempt, reply, taken>>
        /\ charges[c] \in Charges
        /\ \E v \in Verdicts : charges' = [charges EXCEPT ![c].status = v]
    BY DEF TypeOK
  <1>2. TypeOK'
    BY <1>1 DEF TypeOK, Charges
  <1>3. /\ \A q \in Payers : q # c => charges'[q] = charges[q]
        /\ charges'[c] \in Charges /\ charges'[c].tx = charges[c].tx
    BY <1>1 DEF TypeOK, Charges
  <1>4. JobsOK'
    BY <1>1, <1>3 DEF JobsOK, busy
  <1>5. \A t : approvedFor(t) \subseteq approvedFor(t)'
    BY <1>1, <1>3 DEF approvedFor
  <1>6. ApprovalsOK'
    BY <1>1, <1>3 DEF ApprovalsOK, wasApproved, approvedFor
  <1>7. ApprovedIsPaid'
    BY <1>1, <1>5 DEF ApprovedIsPaid
  <1>8. ShippedIsPaidAndTaken'
    BY <1>1, <1>5 DEF ShippedIsPaidAndTaken
  <1> QED
    BY <1>2, <1>4, <1>6, <1>7, <1>8

(* The process dies: only what requests remember is lost.                     *)
LEMMA StopStep ==
  ASSUME IInv, stopRequests
  PROVE  IInv'
  <1> USE SetsAssumption, ErrorCodes DEF IInv, stopRequests, database, gateway
  <1>1. TypeOK'
    BY DEF TypeOK, Workers
  <1>2. JobsOK'
    BY <1>1 DEF TypeOK, JobsOK, busy, Workers, PayerSteps, ApplySteps
  <1>3. ApprovalsOK'
    BY DEF TypeOK, ApprovalsOK, busy, Workers, ApplySteps
  <1> QED
    BY <1>1, <1>2, <1>3, RequestFrame

-----------------------------------------------------------------------------
(* The returned row is the one the request loaded, with the status of its     *)
(* outcome, so asking the row or the outcome comes to the same, and the       *)
(* answer kept for later is the outcome's (updateStatus, apply).              *)
LEMMA ReturnedRowDecides ==
  ASSUME TypeOK, JobsOK, NEW w \in Workers, apply(w)
  PROVE  /\ target[w] \in Transactions /\ transactions[target[w]] \in Rows
         /\ outcome[w] \in Outcomes /\ pc[w] = "apply"
         /\ updatedRow(transactions[target[w]], outcome[w]) \in Rows
         /\ updatedRow(transactions[target[w]], outcome[w]).status = outcome[w].status
         /\ transactions' = [transactions EXCEPT
              ![target[w]] = updatedRow(transactions[target[w]], outcome[w])]
         /\ \/ fault("lostAck") /\ finish(w, "PERSISTENCE_ERROR")
            \/ ~wasApproved(outcome[w]) /\ finish(w, outcome[w].status)
            \/ /\ wasApproved(outcome[w]) /\ goto(w, "decrement")
               /\ UNCHANGED <<acked, target, outcome, attempt, reply>>
  <1> USE SetsAssumption
  <1> DEFINE t == target[w]
             updated == updatedRow(transactions[t], outcome[w])
  <1>1. /\ t \in Transactions /\ transactions[t] \in Rows
        /\ outcome[w] \in Outcomes /\ pc[w] = "apply"
    BY DEF apply, TypeOK, JobsOK, busy, ApplySteps
  <1>2. updated \in Rows /\ updated.status = outcome[w].status
    BY <1>1 DEF updatedRow, orKeep, Rows, Outcomes
  <1>3. [outcome EXCEPT ![w].status = updated.status] = outcome
    BY <1>1, <1>2 DEF TypeOK, Outcomes
  <1>4. wasApproved(updated) <=> wasApproved(outcome[w])
    BY <1>2 DEF wasApproved
  <1> QED
    BY <1>1, <1>2, <1>3, <1>4 DEF apply, row

(* updateStatus: the row takes the status and echo of an outcome whose        *)
(* approval, if it claims one, is genuine (apply).                            *)
LEMMA ApplyStep ==
  ASSUME IInv, NEW w \in Workers, apply(w)
  PROVE  IInv'
  <1> USE SetsAssumption
  <1> DEFINE t == target[w]
  <1>1. /\ t \in Transactions /\ transactions[t] \in Rows
        /\ outcome[w] \in Outcomes /\ pc[w] = "apply"
    BY ReturnedRowDecides DEF IInv
  <1>2. /\ updatedRow(transactions[t], outcome[w]) \in Rows
        /\ updatedRow(transactions[t], outcome[w]).status = outcome[w].status
        /\ outcome[w].gatewayId # Null =>
             updatedRow(transactions[t], outcome[w]).gatewayId = outcome[w].gatewayId
    BY <1>1 DEF updatedRow, orKeep, Rows, Outcomes
  <1>3. /\ transactions' = [transactions EXCEPT ![t] = updatedRow(transactions[t], outcome[w])]
        /\ UNCHANGED <<stock, deliveries, charges, taken>>
    BY ReturnedRowDecides DEF IInv, apply
  <1>4. wasApproved(outcome[w]) => outcome[w].gatewayId \in approvedFor(t)
    BY <1>1 DEF IInv, ApprovalsOK, ApplySteps
  <1>5. ApprovedIsPaid'
    BY <1>1, <1>2, <1>3, <1>4 DEF IInv, TypeOK, ApprovedIsPaid, approvedFor, wasApproved
  <1>6. ShippedIsPaidAndTaken'
    BY <1>3 DEF IInv, ShippedIsPaidAndTaken, approvedFor
  <1>7. \A u \in Transactions : transactions[u] # Null => transactions'[u] # Null
    BY <1>1, <1>2, <1>3 DEF IInv, TypeOK
  <1>8. CASE wasApproved(outcome[w]) /\ goto(w, "decrement")
             /\ UNCHANGED <<acked, target, outcome, attempt, reply>>
    <2>1. TypeOK'
      BY <1>1, <1>2, <1>3, <1>8 DEF IInv, TypeOK, goto, ApplySteps
    <2>2. JobsOK'
      BY <1>1, <1>3, <1>7, <1>8 DEF IInv, TypeOK, JobsOK, busy, goto, Workers,
           PayerSteps, ApplySteps
    <2>3. ApprovalsOK'
      BY <1>1, <1>3, <1>4, <1>8 DEF IInv, TypeOK, ApprovalsOK, wasApproved, approvedFor,
           goto, ApplySteps
    <2> QED
      BY <1>5, <1>6, <2>1, <2>2, <2>3 DEF IInv
  <1>9. ASSUME NEW a \in Replies, finish(w, a)
        PROVE  IInv'
    <2> USE <1>9, FinishEffect DEF IInv
    <2>1. pc[w] \in PayerSteps \cup ApplySteps
      BY <1>1 DEF ApplySteps
    <2>2. TypeOK'
      BY <1>1, <1>2, <1>3, <2>1 DEF TypeOK
    <2>3. JobsOK'
      BY <1>3, <1>7, <2>1, FinishKeepsJobs
    <2>4. ApprovalsOK'
      BY <1>3, <2>1 DEF TypeOK, ApprovalsOK, wasApproved, approvedFor, ApplySteps
    <2> QED
      BY <1>5, <1>6, <2>2, <2>3, <2>4
  <1> QED
    BY <1>1, <1>8, <1>9, ReturnedRowDecides, ErrorCodes DEF IInv, Outcomes, Replies

(* Taking the units: nothing becomes approved or shipped (decrementStock).    *)
LEMMA DecrementStep ==
  ASSUME IInv, NEW w \in Workers, decrementStock(w)
  PROVE  IInv'
  <1> USE SetsAssumption
  <1> DEFINE t == target[w]
  <1>1. /\ t \in Transactions /\ transactions[t] \in Rows
        /\ pc[w] = "decrement" /\ row(w) = transactions[t]
    BY DEF decrementStock, row, IInv, TypeOK, JobsOK, busy, ApplySteps
  <1>2. /\ stock' \in [Products -> Nat]
        /\ taken' \in [Transactions -> Nat]
        /\ taken'[t] > 0
        /\ \A u \in Transactions : taken'[u] >= taken[u]
    <2> DEFINE p == row(w).product
               q == row(w).quantity
    <2>1. p \in Products /\ q \in Nat /\ stock[p] \in Nat /\ stock[p] >= q
      BY <1>1 DEF decrementStock, hasStock, IInv, TypeOK, Rows
    <2>2. stock' = [stock EXCEPT ![p] = @ - q] /\ taken' = [taken EXCEPT ![t] = @ + 1]
      BY DEF decrementStock
    <2> HIDE DEF p, q
    <2>3. stock[p] - q \in Nat
      BY <2>1
    <2> QED
      BY <1>1, <2>1, <2>2, <2>3 DEF IInv, TypeOK
  <1>3. UNCHANGED <<transactions, deliveries, charges>>
    BY DEF decrementStock
  <1>4. ApprovedIsPaid'
    BY <1>3 DEF IInv, ApprovedIsPaid, approvedFor
  <1>5. ShippedIsPaidAndTaken'
    BY <1>2, <1>3 DEF IInv, TypeOK, ShippedIsPaidAndTaken, approvedFor
  <1>6. CASE goto(w, "assign") /\ UNCHANGED <<acked, target, outcome, attempt, reply>>
    <2>1. TypeOK'
      BY <1>2, <1>3, <1>6 DEF IInv, TypeOK, goto, ApplySteps
    <2>2. JobsOK'
      BY <1>1, <1>3, <1>6 DEF IInv, TypeOK, JobsOK, busy, goto, Workers, PayerSteps, ApplySteps
    <2>3. ApprovalsOK'
      BY <1>1, <1>2, <1>3, <1>6 DEF IInv, TypeOK, JobsOK, busy, ApprovalsOK, wasApproved,
           approvedFor, goto, ApplySteps
    <2> QED
      BY <1>4, <1>5, <2>1, <2>2, <2>3 DEF IInv
  <1>7. CASE finish(w, "PERSISTENCE_ERROR")
    <2> USE <1>7, FinishEffect, ErrorCodes DEF IInv
    <2>1. pc[w] \in PayerSteps \cup ApplySteps
      BY <1>1 DEF ApplySteps
    <2>2. TypeOK'
      BY <1>2, <1>3, <2>1 DEF TypeOK
    <2>3. JobsOK'
      BY <1>3, <2>1, FinishKeepsJobs
    <2>4. ApprovalsOK'
      <3> SUFFICES ASSUME NEW v \in Workers, pc'[v] \in ApplySteps
                   PROVE  /\ wasApproved(outcome'[v]) =>
                               outcome'[v].gatewayId \in approvedFor(target[v])'
                          /\ pc'[v] \in {"decrement", "assign"} => wasApproved(outcome'[v])
                          /\ pc'[v] = "assign" => taken'[target'[v]] > 0
        BY DEF ApprovalsOK, wasApproved, ApplySteps
      <3>1. v # w /\ pc'[v] = pc[v] /\ outcome'[v] = outcome[v] /\ target'[v] = target[v]
        BY <2>1 DEF TypeOK, ApplySteps
      <3>2. target[v] \in Transactions
        BY <3>1 DEF TypeOK, JobsOK, busy
      <3>3. pc'[v] = "assign" => taken'[target'[v]] > 0
        <4>1. pc[v] = "assign" => taken[target[v]] > 0
          BY DEF ApprovalsOK
        <4>2. taken[target[v]] \in Nat /\ taken'[target[v]] \in Nat
          BY <1>2, <3>2 DEF TypeOK
        <4> QED
          BY <1>2, <3>1, <3>2, <4>1, <4>2
      <3> QED
        BY <1>3, <3>1, <3>3 DEF ApprovalsOK, approvedFor
    <2> QED
      BY <1>4, <1>5, <2>2, <2>3, <2>4
  <1> QED
    BY <1>6, <1>7 DEF decrementStock

(* Assigning the delivery: its request knows the approval and the units taken. *)
LEMMA AssignStep ==
  ASSUME IInv, NEW w \in Workers, assignDelivery(w)
  PROVE  IInv'
  <1> USE SetsAssumption DEF IInv
  <1>1. /\ target[w] \in Transactions /\ pc[w] = "assign" /\ outcome[w] \in Outcomes
    BY DEF assignDelivery, TypeOK, JobsOK, busy, ApplySteps
  <1>2. /\ approvedFor(target[w]) # {} /\ taken[target[w]] > 0
    BY <1>1 DEF ApprovalsOK, ApplySteps
  <1>3. /\ UNCHANGED <<transactions, stock, charges, taken>>
        /\ deliveries' = [deliveries EXCEPT ![target[w]] = "ASSIGNED"]
    BY DEF assignDelivery
  <1>4a. PICK a \in Replies : finish(w, a)
    BY <1>1, ErrorCodes DEF assignDelivery, Outcomes, Replies
  <1>4. pc[w] \in PayerSteps \cup ApplySteps
    BY <1>1 DEF ApplySteps
  <1>5. TypeOK'
    <2>1. deliveries' \in [Transactions -> DeliveryStatusEnum \cup {Null}]
      BY <1>1, <1>3 DEF TypeOK, DeliveryStatusEnum
    <2> QED
      BY <1>3, <1>4, <1>4a, <2>1, FinishEffect DEF TypeOK
  <1>6. JobsOK'
    BY <1>3, <1>4, <1>4a, FinishKeepsJobs
  <1>7. ApprovalsOK'
    BY <1>3, <1>4, <1>4a, FinishEffect DEF TypeOK, ApprovalsOK, wasApproved, approvedFor, ApplySteps
  <1>8. ApprovedIsPaid'
    BY <1>3 DEF ApprovedIsPaid, approvedFor
  <1>9. ShippedIsPaidAndTaken'
    BY <1>2, <1>3 DEF TypeOK, ShippedIsPaidAndTaken, approvedFor
  <1> QED
    BY <1>5, <1>6, <1>7, <1>8, <1>9

(* Every step of TransactionFulfillmentService preserves the invariant.       *)
LEMMA FulfilStep ==
  ASSUME IInv, NEW w \in Workers, fulfil(w)
  PROVE  IInv'
  <1>1. CASE applyFails(w) \/ decrementFails(w) \/ assignFails(w)
    BY <1>1, FailStep, ErrorCodes DEF applyFails, decrementFails, assignFails, ApplySteps
  <1>2. CASE apply(w)
    BY <1>2, ApplyStep
  <1>3. CASE decrementStock(w)
    BY <1>3, DecrementStep
  <1>4. CASE assignDelivery(w)
    BY <1>4, AssignStep
  <1> QED
    BY <1>1, <1>2, <1>3, <1>4 DEF fulfil

-----------------------------------------------------------------------------
(* Every step of a started payment preserves the invariant.                   *)
LEMMA PayerStepIInv ==
  ASSUME IInv, NEW p \in Payers, payerStep(p)
  PROVE  IInv'
  <1> USE SetsAssumption
  <1>1. CASE findCustomer(p)
    BY <1>1, FindCustomerStep
  <1>2. CASE postCharge(p)
    BY <1>2, PostChargeStep
  <1>3. CASE chargeRefused(p)
    BY <1>3, GatewayErrorStep DEF chargeRefused, PayerSteps, IInv, TypeOK
  <1>4. CASE chargeAnswered(p)
    <2>1. CASE applyOutcome(p, toChargeResult(p)) /\ UNCHANGED attempt
      BY <1>4, <2>1, ChargeResultStep DEF chargeAnswered, IInv, TypeOK
    <2>2. CASE goto(p, "poll") /\ attempt' = [attempt EXCEPT ![p] = 1] /\ UNCHANGED outcome
      <3> USE <1>4, <2>2 DEF IInv, chargeAnswered, goto, database, gateway
      <3>1. TypeOK'
        BY DEF TypeOK, Workers, PayerSteps
      <3>2. JobsOK'
        BY DEF TypeOK, JobsOK, busy, Workers, PayerSteps, ApplySteps
      <3>3. ApprovalsOK'
        BY DEF TypeOK, ApprovalsOK, wasApproved, approvedFor, Workers, ApplySteps
      <3> QED
        BY <3>1, <3>2, <3>3, RequestFrame
    <2> QED
      BY <1>4, <2>1, <2>2 DEF chargeAnswered
  <1>5. CASE pollUntilFinal(p)
    <2>1. CASE applyOutcome(p, toChargeResult(p)) /\ attempt' = [attempt EXCEPT ![p] = 0]
      BY <1>5, <2>1, ChargeResultStep DEF pollUntilFinal, IInv, TypeOK
    <2>2. CASE /\ attempt[p] < MaxPollAttempts
               /\ attempt' = [attempt EXCEPT ![p] = @ + 1]
               /\ UNCHANGED <<pc, outcome>>
      <3> USE <1>5, <2>2 DEF IInv, pollUntilFinal, database, gateway
      <3>1. TypeOK'
        BY DEF TypeOK
      <3>2. JobsOK'
        BY DEF JobsOK, busy
      <3>3. ApprovalsOK'
        BY DEF ApprovalsOK, wasApproved, approvedFor
      <3> QED
        BY <3>1, <3>2, <3>3, RequestFrame
    <2> QED
      BY <1>5, <2>1, <2>2 DEF pollUntilFinal
  <1>6. CASE answerLost(p)
    BY <1>6, GatewayErrorStep DEF answerLost, PayerSteps, IInv, TypeOK
  <1>7. CASE answerMalformed(p)
    <2> USE <1>7, ErrorCodes DEF IInv, answerMalformed, goto, database, gateway
    <2>1. TypeOK'
      BY DEF TypeOK, Workers
    <2>2. JobsOK'
      BY DEF TypeOK, JobsOK, busy, Workers, PayerSteps, ApplySteps
    <2>3. ApprovalsOK'
      BY DEF TypeOK, ApprovalsOK, wasApproved, approvedFor, Workers, ApplySteps
    <2> QED
      BY <2>1, <2>2, <2>3, RequestFrame
  <1>8. CASE chargeThrows(p)
    <2> USE <1>8, ErrorCodes DEF IInv, chargeThrows, goto, database, gateway
    <2>1. TypeOK'
      BY DEF TypeOK, Workers
    <2>2. JobsOK'
      BY DEF TypeOK, JobsOK, busy, Workers, PayerSteps, ApplySteps
    <2>3. ApprovalsOK'
      BY DEF TypeOK, ApprovalsOK, wasApproved, approvedFor, Workers, ApplySteps
    <2> QED
      BY <2>1, <2>2, <2>3, RequestFrame
  <1>9. CASE fulfil(p)
    BY <1>9, FulfilStep DEF Workers
  <1> QED
    BY <1>1, <1>2, <1>3, <1>4, <1>5, <1>6, <1>7, <1>8, <1>9 DEF payerStep

(* The invariant is inductive: one case per kind of request, gateway and crash. *)
LEMMA NextIInv == IInv /\ [Next]_vars => IInv'
  <1> SUFFICES ASSUME IInv, [Next]_vars PROVE IInv'
    OBVIOUS
  <1>1. ASSUME NEW p \in Payers, startPayment(p) PROVE IInv'
    BY <1>1, StartStep DEF startPayment
  <1>2. ASSUME NEW p \in Payers, payerStep(p) PROVE IInv'
    BY <1>2, PayerStepIInv
  <1>3. ASSUME NEW h \in Hooks, fulfil(h) PROVE IInv'
    BY <1>3, FulfilStep DEF Workers
  <1>4. ASSUME NEW h \in Hooks, NEW e \in Events, receive(h, e) PROVE IInv'
    BY <1>4, EventStep
  <1>5. ASSUME NEW c \in Payers, settle(c) PROVE IInv'
    BY <1>5, SettleStep
  <1>6. CASE crash
    BY <1>6, StopStep DEF crash
  <1>7. CASE UNCHANGED vars
    BY <1>7 DEF vars, database, gateway, requests, IInv, TypeOK, JobsOK,
         busy, ApprovalsOK, wasApproved, approvedFor, ApprovedIsPaid, ShippedIsPaidAndTaken
  <1> QED
    BY <1>1, <1>2, <1>3, <1>4, <1>5, <1>6, <1>7 DEF Next

(* The inductive invariant holds in every reachable state of the payment      *)
(* protocol.                                                                  *)
THEOREM Inductive == Spec => []IInv
  BY InitIInv, NextIInv, PTL DEF Spec

(* Type correctness: in particular the stock of a product never goes below    *)
(* zero, however many payments and events overlap (decrementStock).           *)
THEOREM TypeCorrect == Spec => []TypeOK
  <1>1. IInv => TypeOK
    BY DEF IInv
  <1> QED
    BY <1>1, Inductive, PTL

(* A transaction is APPROVED only on a charge the gateway approved for it.    *)
THEOREM ApprovedOnlyIfPaid == Spec => []ApprovedIsPaid
  <1>1. IInv => ApprovedIsPaid
    BY DEF IInv
  <1> QED
    BY <1>1, Inductive, PTL

(* A delivery is assigned only for an approved charge and after its units     *)
(* left the stock.                                                            *)
THEOREM ShippedOnlyIfPaidAndTaken == Spec => []ShippedIsPaidAndTaken
  <1>1. IInv => ShippedIsPaidAndTaken
    BY DEF IInv
  <1> QED
    BY <1>1, Inductive, PTL

-----------------------------------------------------------------------------
(* Every step of a request brings it nearer to its answer.                    *)

(* The measure is a natural number, positive while the request is busy.       *)
LEMMA StepsLeftType ==
  ASSUME TypeOK, JobsOK, NEW w \in Workers
  PROVE  stepsLeft(w) \in Nat /\ (busy(w) => stepsLeft(w) > 0)
  <1>1. MaxPollAttempts \in Nat \ {0}
    BY SetsAssumption
  <1>2. pc[w] = "poll" => attempt[w] \in 0..MaxPollAttempts
    BY DEF TypeOK, JobsOK, PayerSteps
  <1> QED
    BY <1>1, <1>2 DEF stepsLeft, busy, PayerSteps, ApplySteps

(* An answered request has nothing left to do, and no other has moved.        *)
LEMMA EndDescends ==
  ASSUME TypeOK, JobsOK, NEW w \in Workers, NEW a \in Replies,
         pc[w] \in PayerSteps \cup ApplySteps, finish(w, a)
  PROVE  /\ stepsLeft(w)' < stepsLeft(w)
         /\ \A v \in Workers : v # w => UNCHANGED memory(v)
  <1>1. stepsLeft(w) \in Nat /\ stepsLeft(w) > 0
    BY StepsLeftType DEF busy
  <1>2. stepsLeft(w)' = 0
    BY FinishEffect DEF TypeOK, stepsLeft
  <1>3. \A v \in Workers : v # w => UNCHANGED memory(v)
    BY FinishEffect DEF TypeOK, memory
  <1> QED
    BY <1>1, <1>2, <1>3

(* A request that has an outcome to apply has three steps left.               *)
LEMMA OutcomeDescends ==
  ASSUME TypeOK, JobsOK, NEW p \in Payers, NEW o,
         pc[p] \in {"charge", "posted", "poll"}, applyOutcome(p, o),
         target' = target,
         \A v \in Payers : v # p => attempt'[v] = attempt[v]
  PROVE  /\ stepsLeft(p)' < stepsLeft(p)
         /\ \A v \in Workers : v # p => UNCHANGED memory(v)
  <1> USE SetsAssumption
  <1>1. stepsLeft(p)' = 3
    BY DEF TypeOK, applyOutcome, goto, stepsLeft, Workers
  <1>2. stepsLeft(p) \in Nat /\ stepsLeft(p) >= 4
    BY DEF TypeOK, stepsLeft
  <1>3. \A v \in Workers : v # p => UNCHANGED memory(v)
    BY DEF TypeOK, applyOutcome, goto, memory
  <1> QED
    BY <1>1, <1>2, <1>3

(* Fulfilment goes forward only (apply, fulfill).                             *)
LEMMA FulfilDescends ==
  ASSUME IInv, NEW w \in Workers, fulfil(w)
  PROVE  /\ stepsLeft(w)' < stepsLeft(w)
         /\ \A v \in Workers : v # w => UNCHANGED memory(v)
  <1> USE DEF IInv
  <1>1. CASE \E a \in Replies : finish(w, a)
    BY <1>1, EndDescends DEF fulfil, applyFails, apply, decrementFails, decrementStock,
       assignFails, assignDelivery, ApplySteps
  <1>2. CASE /\ \/ pc[w] = "apply" /\ goto(w, "decrement")
                \/ pc[w] = "decrement" /\ goto(w, "assign")
             /\ UNCHANGED <<acked, target, outcome, attempt, reply>>
    BY <1>2 DEF TypeOK, goto, stepsLeft, memory
  <1>3. pc[w] \in ApplySteps => outcome[w].status \in Replies
    BY DEF TypeOK, JobsOK, Outcomes, Replies
  <1>4. CASE apply(w)
    BY <1>1, <1>2, <1>3, <1>4, ReturnedRowDecides, ErrorCodes DEF ApplySteps
  <1> QED
    BY <1>1, <1>2, <1>3, <1>4, ErrorCodes
    DEF fulfil, applyFails, decrementFails, decrementStock, assignFails, assignDelivery,
        ApplySteps

(* So does a payment before it has an outcome: a poll uses up an attempt      *)
(* (pollUntilFinal), everything else a step of execute or charge.             *)
LEMMA PayerDescends ==
  ASSUME IInv, NEW p \in Payers, payerStep(p)
  PROVE  /\ stepsLeft(p)' < stepsLeft(p)
         /\ \A v \in Workers : v # p => UNCHANGED memory(v)
  <1> USE SetsAssumption DEF IInv
  <1>0. p \in Workers
    BY DEF Workers
  <1>1. CASE findCustomer(p)
    <2>1. CASE respond(p, "PERSISTENCE_ERROR")
      BY <1>0, <1>1, <2>1, EndDescends, ErrorCodes DEF findCustomer, finish, PayerSteps
    <2>2. CASE goto(p, "charge") /\ UNCHANGED <<acked, target, outcome, attempt, reply>>
      BY <1>0, <1>1, <2>2 DEF findCustomer, TypeOK, goto, stepsLeft, memory
    <2> QED
      BY <1>1, <2>1, <2>2 DEF findCustomer
  <1>2. CASE postCharge(p)
    BY <1>0, <1>2 DEF postCharge, TypeOK, goto, stepsLeft, memory
  <1>3. CASE chargeRefused(p)
    BY <1>3, OutcomeDescends DEF chargeRefused
  <1>4. CASE chargeThrows(p) \/ answerMalformed(p)
    <2>1. /\ pc[p] \in {"charge", "posted", "poll"}
          /\ stepsLeft(p) \in Nat /\ stepsLeft(p) > 0
      BY <1>0, <1>4, StepsLeftType DEF chargeThrows, answerMalformed, busy, PayerSteps
    <2>2. stepsLeft(p)' = 0
      BY <1>0, <1>4 DEF chargeThrows, answerMalformed, goto, TypeOK, stepsLeft
    <2>3. \A v \in Workers : v # p => UNCHANGED memory(v)
      BY <1>4 DEF chargeThrows, answerMalformed, goto, TypeOK, memory
    <2> QED
      BY <2>1, <2>2, <2>3
  <1>5. CASE chargeAnswered(p)
    <2>1. CASE applyOutcome(p, toChargeResult(p)) /\ UNCHANGED attempt
      BY <1>5, <2>1, OutcomeDescends DEF chargeAnswered
    <2>2. CASE goto(p, "poll") /\ attempt' = [attempt EXCEPT ![p] = 1] /\ UNCHANGED outcome
      BY <1>0, <1>5, <2>2 DEF chargeAnswered, TypeOK, goto, stepsLeft, memory
    <2> QED
      BY <1>5, <2>1, <2>2 DEF chargeAnswered
  <1>6. CASE pollUntilFinal(p)
    <2>1. CASE applyOutcome(p, toChargeResult(p)) /\ attempt' = [attempt EXCEPT ![p] = 0]
      BY <1>6, <2>1, OutcomeDescends DEF pollUntilFinal, TypeOK
    <2>2. CASE attempt' = [attempt EXCEPT ![p] = @ + 1] /\ UNCHANGED <<pc, outcome>>
      BY <1>0, <1>6, <2>2 DEF pollUntilFinal, TypeOK, stepsLeft, memory
    <2> QED
      BY <1>6, <2>1, <2>2 DEF pollUntilFinal
  <1>7. CASE answerLost(p)
    BY <1>7, OutcomeDescends DEF answerLost, TypeOK
  <1>8. CASE fulfil(p)
    BY <1>0, <1>8, FulfilDescends
  <1> QED
    BY <1>1, <1>2, <1>3, <1>4, <1>5, <1>6, <1>7, <1>8 DEF payerStep

(* One step of the protocol: the request that moved is nearer to its answer,  *)
(* the others are where they were.                                            *)
LEMMA NextDescends ==
  ASSUME IInv, [Next]_vars, NEW w \in Workers, busy(w)
  PROVE  stepsLeft(w)' < stepsLeft(w) \/ UNCHANGED memory(w)
  <1> USE SetsAssumption DEF IInv
  <1>1. ASSUME NEW p \in Payers, startPayment(p)
        PROVE  UNCHANGED memory(w)
    BY <1>1 DEF startPayment, rejectPayment, loadPendingTransaction, goto, TypeOK, memory,
       busy, PayerSteps, ApplySteps
  <1>2. ASSUME NEW p \in Payers, payerStep(p)
        PROVE  stepsLeft(w)' < stepsLeft(w) \/ UNCHANGED memory(w)
    BY <1>2, PayerDescends
  <1>3. ASSUME NEW h \in Hooks, fulfil(h)
        PROVE  stepsLeft(w)' < stepsLeft(w) \/ UNCHANGED memory(w)
    BY <1>3, FulfilDescends DEF Workers
  <1>4. ASSUME NEW h \in Hooks, NEW e \in Events, receive(h, e)
        PROVE  UNCHANGED memory(w)
    BY <1>4 DEF receive, rejectEvent, ignoreEvent, acceptEvent, applyOutcome, goto, TypeOK,
       memory, vars, requests, busy, PayerSteps, ApplySteps
  <1>5. ASSUME NEW c \in Payers, settle(c)
        PROVE  UNCHANGED memory(w)
    BY <1>5 DEF settle, requests, memory
  <1>6. CASE crash
    <2>1. stepsLeft(w)' = 0
      BY <1>6 DEF crash, stopRequests, stepsLeft
    <2> QED
      BY <2>1, StepsLeftType
  <1>7. CASE UNCHANGED vars
    BY <1>7 DEF vars, requests, memory
  <1> QED
    BY <1>1, <1>2, <1>3, <1>4, <1>5, <1>6, <1>7 DEF Next

(* No request ever goes back: it is answered within maxPollAttempts + 6 steps *)
(* of its own, for any number of requests and any mix of faults.              *)
THEOREM BoundedSteps == Spec => StepsAreBounded
  <1>1. IInv /\ [Next]_vars =>
          [\A w \in Workers : busy(w) =>
             stepsLeft(w)' < stepsLeft(w) \/ UNCHANGED memory(w)]_vars
    BY NextDescends
  <1> QED
    BY <1>1, Inductive, PTL DEF Spec, StepsAreBounded

-----------------------------------------------------------------------------
(* A payer told APPROVED has what it paid for, and keeps it.                  *)

(* Nobody has been answered before asking.                                    *)
RepliesOK ==
  /\ ApprovedReplyIsFulfilled
  /\ \A p \in Payers : pc[p] = "idle" => reply[p] = "none"

(* What fulfilment did to a transaction is never undone (settle,              *)
(* decrementStock, assignDelivery).                                           *)
LEMMA FulfilmentStays ==
  ASSUME IInv, [Next]_vars \/ stopRequests, NEW t \in Transactions
  PROVE  /\ approvedFor(t) # {} => approvedFor(t)' # {}
         /\ taken[t] > 0 => taken'[t] > 0
         /\ deliveries[t] = "ASSIGNED" => deliveries'[t] = "ASSIGNED"
  <1> USE SetsAssumption DEF IInv
  <1>1. ASSUME NEW c \in approvedFor(t)
        PROVE  UNCHANGED charges[c]
    <2>1. /\ c \in Payers /\ charges[c] # Null /\ charges[c].status = "APPROVED"
          /\ charges \in [Payers -> Charges \cup {Null}]
      BY <1>1 DEF approvedFor, TypeOK
    <2>2. ASSUME NEW p \in Payers, postCharge(p) PROVE UNCHANGED charges[c]
      <3>1. charges[p] = Null
        BY <2>2 DEF postCharge, JobsOK
      <3> QED
        BY <2>1, <2>2, <3>1 DEF postCharge
    <2>3. ASSUME NEW p \in Payers, settle(p) PROVE UNCHANGED charges[c]
      BY <2>1, <2>3 DEF settle
    <2>4. ASSUME NEW p \in Payers, payerStep(p), ~postCharge(p) PROVE UNCHANGED charges
      BY <2>4 DEF payerStep, findCustomer, chargeRefused, chargeThrows, chargeAnswered,
         pollUntilFinal, answerLost, answerMalformed, gateway, fulfil, applyFails, apply,
         decrementFails, decrementStock, assignFails, assignDelivery
    <2>5. ASSUME NEW h \in Hooks, fulfil(h) PROVE UNCHANGED charges
      BY <2>5 DEF fulfil, applyFails, apply, decrementFails, decrementStock, assignFails,
         assignDelivery
    <2>6. ASSUME NEW h \in Hooks, NEW e \in Events, receive(h, e) PROVE UNCHANGED charges
      BY <2>6 DEF receive, rejectEvent, ignoreEvent, acceptEvent, vars, gateway
    <2>7. ASSUME NEW p \in Payers, startPayment(p) PROVE UNCHANGED charges
      BY <2>7 DEF startPayment, rejectPayment, loadPendingTransaction, gateway
    <2> QED
      BY <2>2, <2>3, <2>4, <2>5, <2>6, <2>7 DEF Next, crash, stopRequests, vars, gateway
  <1>2. CASE UNCHANGED <<taken, deliveries>>
    BY <1>1, <1>2 DEF approvedFor
  <1>3. ASSUME NEW w \in Workers, decrementStock(w) \/ assignDelivery(w)
        PROVE  /\ taken[t] > 0 => taken'[t] > 0
               /\ deliveries[t] = "ASSIGNED" => deliveries'[t] = "ASSIGNED"
    BY <1>3 DEF decrementStock, assignDelivery, TypeOK
  <1>4. ASSUME NEW w \in Workers, fulfil(w), ~decrementStock(w), ~assignDelivery(w)
        PROVE  UNCHANGED <<taken, deliveries>>
    BY <1>4 DEF fulfil, applyFails, apply, decrementFails, assignFails, database
  <1>5. ASSUME NEW p \in Payers, payerStep(p), ~fulfil(p)
        PROVE  UNCHANGED <<taken, deliveries>>
    BY <1>5 DEF payerStep, findCustomer, postCharge, chargeRefused, chargeThrows, chargeAnswered,
       pollUntilFinal, answerLost, answerMalformed, database
  <1>6. ASSUME NEW h \in Hooks, NEW e \in Events, receive(h, e)
        PROVE  UNCHANGED <<taken, deliveries>>
    BY <1>6 DEF receive, rejectEvent, ignoreEvent, acceptEvent, vars, database
  <1>7. ASSUME NEW p \in Payers, startPayment(p) \/ settle(p)
        PROVE  UNCHANGED <<taken, deliveries>>
    BY <1>7 DEF startPayment, rejectPayment, loadPendingTransaction, settle, database
  <1>8. stopRequests => UNCHANGED <<taken, deliveries>>
    BY DEF stopRequests, database
  <1>9. UNCHANGED <<taken, deliveries>> \/ \E w \in Workers : decrementStock(w) \/ assignDelivery(w)
    BY <1>4, <1>5, <1>6, <1>7, <1>8 DEF Next, crash, vars, database, Workers
  <1>10. approvedFor(t) # {} => approvedFor(t)' # {}
    BY <1>1 DEF approvedFor
  <1> QED
    BY <1>2, <1>3, <1>9, <1>10

(* Only the end of fulfilment answers APPROVED (apply, assignDelivery).       *)
LEMMA FulfilAnswers ==
  ASSUME IInv, NEW p \in Payers, fulfil(p), reply'[p] = "APPROVED", reply[p] # "APPROVED"
  PROVE  assignDelivery(p) /\ wasApproved(outcome[p])
  <1> USE SetsAssumption DEF IInv
  <1>0. p \in Workers
    BY DEF Workers
  <1>1. \A a : finish(p, a) => reply'[p] = a
    BY DEF finish, respond, TypeOK
  <1>2. wasApproved(outcome[p]) <=> outcome[p].status = "APPROVED"
    BY DEF wasApproved
  <1>3. ~apply(p)
    BY <1>0, <1>1, <1>2, ReturnedRowDecides
  <1> QED
    BY <1>0, <1>1, <1>2, <1>3
    DEF fulfil, applyFails, decrementFails, decrementStock, assignFails, assignDelivery,
        ApprovalsOK

(* What a step may do to the answer a payer has: nothing, or give it one it   *)
(* had not, and APPROVED only at the end of fulfilment (respond, execute).    *)
LEMMA AnswersGiven ==
  ASSUME IInv, RepliesOK, [Next]_vars \/ stopRequests, NEW p \in Payers
  PROVE  \/ UNCHANGED <<target[p], reply[p]>> /\ (pc'[p] = "idle" => pc[p] = "idle")
         \/ reply'[p] # "APPROVED" /\ pc'[p] # "idle"
         \/ assignDelivery(p) /\ wasApproved(outcome[p]) /\ pc'[p] = "done"
  <1> USE SetsAssumption DEF IInv
  <1>0. p \in Workers /\ p \notin Hooks
    BY DEF Workers
  <1>1. ASSUME NEW q \in Payers, startPayment(q)
        PROVE  \/ UNCHANGED <<target[p], reply[p]>> /\ (pc'[p] = "idle" => pc[p] = "idle")
               \/ reply'[p] # "APPROVED" /\ pc'[p] # "idle"
    BY <1>0, <1>1 DEF startPayment, rejectPayment, loadPendingTransaction, goto, TypeOK,
       RepliesOK, DomainErrorCode
  <1>2. ASSUME NEW q \in Payers, payerStep(q), ~fulfil(q)
        PROVE  \/ UNCHANGED <<target[p], reply[p]>> /\ (pc'[p] = "idle" => pc[p] = "idle")
               \/ reply'[p] # "APPROVED" /\ pc'[p] # "idle"
    BY <1>0, <1>2 DEF payerStep, findCustomer, respond, postCharge, chargeRefused, chargeThrows,
       chargeAnswered, pollUntilFinal, answerLost, answerMalformed, applyOutcome, goto, TypeOK,
       UnexpectedError
  <1>3. ASSUME NEW w \in Workers, fulfil(w), w # p
        PROVE  UNCHANGED <<target[p], reply[p], pc[p]>>
    BY <1>0, <1>3 DEF fulfil, applyFails, apply, decrementFails, decrementStock, assignFails,
       assignDelivery, finish, respond, acknowledge, goto, TypeOK
  <1>4. ASSUME fulfil(p)
        PROVE  /\ pc'[p] # "idle" /\ target'[p] = target[p]
               /\ assignDelivery(p) => pc'[p] = "done"
    BY <1>0, <1>4 DEF fulfil, applyFails, apply, decrementFails, decrementStock, assignFails,
       assignDelivery, finish, respond, goto, TypeOK
  <1>5. ASSUME NEW h \in Hooks, NEW e \in Events, receive(h, e)
        PROVE  UNCHANGED <<target[p], reply[p], pc[p]>>
    BY <1>0, <1>5 DEF receive, rejectEvent, ignoreEvent, acceptEvent, applyOutcome, goto, TypeOK,
       vars, requests
  <1>6. ASSUME NEW c \in Payers, settle(c)
        PROVE  UNCHANGED <<target[p], reply[p], pc[p]>>
    BY <1>6 DEF settle, requests
  <1>7. CASE stopRequests
    BY <1>0, <1>7 DEF stopRequests, busy, PayerSteps, ApplySteps, NoAnswer
  <1>8. CASE UNCHANGED vars
    BY <1>8 DEF vars, requests
  <1> QED
    BY <1>1, <1>2, <1>3, <1>4, <1>5, <1>6, <1>7, <1>8, FulfilAnswers DEF Next, crash, Workers

(* The answers stay true, step by step.                                       *)
LEMMA NextReplies == IInv /\ RepliesOK /\ ([Next]_vars \/ stopRequests) => RepliesOK'
  <1> SUFFICES ASSUME IInv, RepliesOK, [Next]_vars \/ stopRequests, NEW p \in Payers
               PROVE  /\ reply'[p] = "APPROVED" =>
                           /\ approvedFor(target[p])' # {}
                           /\ taken'[target'[p]] > 0
                           /\ deliveries'[target'[p]] = "ASSIGNED"
                      /\ pc'[p] = "idle" => reply'[p] = "none"
    BY DEF RepliesOK, ApprovedReplyIsFulfilled
  <1> USE SetsAssumption DEF IInv
  <1>1. CASE UNCHANGED <<target[p], reply[p]>> /\ (pc'[p] = "idle" => pc[p] = "idle")
    <2>1. ASSUME reply'[p] = "APPROVED"
          PROVE  /\ approvedFor(target[p])' # {}
                 /\ taken'[target'[p]] > 0
                 /\ deliveries'[target'[p]] = "ASSIGNED"
      <3>1. approvedFor(target[p]) # {} /\ taken[target[p]] > 0
            /\ deliveries[target[p]] = "ASSIGNED"
        BY <1>1, <2>1 DEF RepliesOK, ApprovedReplyIsFulfilled
      <3>2. PICK t \in Transactions : t = target[p] /\ t = target'[p]
        BY <1>1, <3>1 DEF approvedFor, TypeOK, Charges
      <3>3. approvedFor(t)' # {} /\ taken'[t] > 0 /\ deliveries'[t] = "ASSIGNED"
        BY <3>1, <3>2, FulfilmentStays
      <3> QED
        BY <3>2, <3>3 DEF approvedFor
    <2> QED
      BY <1>1, <2>1 DEF RepliesOK
  <1>2. CASE reply'[p] # "APPROVED" /\ pc'[p] # "idle"
    BY <1>2
  <1>3. CASE assignDelivery(p) /\ wasApproved(outcome[p]) /\ pc'[p] = "done"
    <2>1. /\ target[p] \in Transactions /\ target'[p] = target[p]
          /\ approvedFor(target[p]) # {} /\ taken[target[p]] > 0
      BY <1>3 DEF assignDelivery, finish, respond, TypeOK, JobsOK, ApprovalsOK, busy, Workers,
         ApplySteps
    <2>2. deliveries'[target[p]] = "ASSIGNED"
      BY <1>3, <2>1 DEF assignDelivery, TypeOK
    <2>3. PICK t \in Transactions : t = target[p] /\ t = target'[p]
      BY <2>1
    <2>4. approvedFor(t)' # {} /\ taken'[t] > 0
      BY <2>1, <2>3, FulfilmentStays
    <2> QED
      BY <1>3, <2>2, <2>3, <2>4 DEF approvedFor
  <1> QED
    BY <1>1, <1>2, <1>3, AnswersGiven

(* An APPROVED answer means charged, units taken and delivery assigned, and   *)
(* goes on meaning that (ProcessPaymentUseCase.execute answers after fulfill).*)
THEOREM ApprovedAnswerIsFulfilled == Spec => []ApprovedReplyIsFulfilled
  <1>1. Init => RepliesOK
    BY DEF Init, RepliesOK, ApprovedReplyIsFulfilled
  <1>2. IInv /\ RepliesOK /\ [Next]_vars => RepliesOK'
    BY NextReplies
  <1>3. RepliesOK => ApprovedReplyIsFulfilled
    BY DEF RepliesOK
  <1> QED
    BY <1>1, <1>2, <1>3, Inductive, PTL DEF Spec

-----------------------------------------------------------------------------
(* What nobody works on.                                                      *)

(* A request that is under way after a step was so before, on the same        *)
(* transaction, or has just loaded one that is not final (the isFinalized     *)
(* checks of both use cases).                                                 *)
LEMMA WorkContinues ==
  ASSUME IInv, [Next]_vars, NEW w \in Workers, busy(w)'
  PROVE  \/ busy(w) /\ target'[w] = target[w]
         \/ ~isFinalStatus(transactions[target'[w]].status)
  <1> USE SetsAssumption DEF IInv
  <1>1. ASSUME NEW p \in Payers, startPayment(p)
        PROVE  \/ busy(w) /\ target'[w] = target[w]
               \/ ~isFinalStatus(transactions[target'[w]].status)
    BY <1>1 DEF startPayment, rejectPayment, loadPendingTransaction, goto, TypeOK, busy, PayerSteps,
       ApplySteps, isFinalized
  <1>2. ASSUME NEW h \in Hooks, NEW e \in Events, receive(h, e)
        PROVE  \/ busy(w) /\ target'[w] = target[w]
               \/ ~isFinalStatus(transactions[target'[w]].status)
    BY <1>2 DEF receive, rejectEvent, ignoreEvent, acceptEvent, applyOutcome, goto, TypeOK, busy,
       vars, requests, findByReference, isFinalized
  <1>3. ASSUME NEW p \in Payers, payerStep(p), ~fulfil(p)
        PROVE  busy(w) /\ target'[w] = target[w]
    BY <1>3 DEF payerStep, findCustomer, respond, postCharge, chargeRefused, chargeThrows,
       chargeAnswered, pollUntilFinal, answerLost, answerMalformed, applyOutcome, goto, TypeOK,
       busy, PayerSteps, ApplySteps
  <1>4. ASSUME NEW v \in Workers, fulfil(v)
        PROVE  busy(w) /\ target'[w] = target[w]
    BY <1>4 DEF fulfil, applyFails, apply, decrementFails, decrementStock, assignFails,
       assignDelivery, finish, respond, acknowledge, goto, TypeOK, busy, PayerSteps, ApplySteps
  <1>5. ASSUME UNCHANGED requests
        PROVE  busy(w) /\ target'[w] = target[w]
    BY <1>5 DEF requests, busy
  <1>6. ~crash
    BY DEF crash, stopRequests, busy, PayerSteps, ApplySteps
  <1> QED
    BY <1>1, <1>2, <1>3, <1>4, <1>5, <1>6 DEF Next, settle, vars, Workers

(* Only a request that works on a transaction changes its row, its units or   *)
(* its delivery (updateStatus, decrementStock, assign).                       *)
LEMMA OnlyWorkChanges ==
  ASSUME IInv, [Next]_vars, NEW t \in Transactions, nobodyWorksOn(t)
  PROVE  UNCHANGED <<transactions[t], taken[t], deliveries[t]>>
  <1> USE DEF IInv
  <1>1. ASSUME NEW w \in Workers, fulfil(w)
        PROVE  UNCHANGED <<transactions[t], taken[t], deliveries[t]>>
    <2>1. target[w] # t
      BY <1>1 DEF nobodyWorksOn, busy, fulfil, applyFails, apply, decrementFails, decrementStock,
         assignFails, assignDelivery, ApplySteps
    <2> QED
      BY <1>1, <2>1 DEF fulfil, applyFails, apply, decrementFails, decrementStock, assignFails,
         assignDelivery, database, TypeOK
  <1>2. ASSUME UNCHANGED <<transactions, deliveries, taken>>
        PROVE  UNCHANGED <<transactions[t], taken[t], deliveries[t]>>
    BY <1>2
  <1>3. ASSUME NEW p \in Payers, payerStep(p), ~fulfil(p)
        PROVE  UNCHANGED <<transactions, deliveries, taken>>
    BY <1>3 DEF payerStep, findCustomer, postCharge, chargeRefused, chargeThrows, chargeAnswered,
       pollUntilFinal, answerLost, answerMalformed, database
  <1>4. ASSUME NEW h \in Hooks, NEW e \in Events, receive(h, e)
        PROVE  UNCHANGED <<transactions, deliveries, taken>>
    BY <1>4 DEF receive, rejectEvent, ignoreEvent, acceptEvent, vars, database
  <1>5. ASSUME NEW p \in Payers, startPayment(p) \/ settle(p)
        PROVE  UNCHANGED <<transactions, deliveries, taken>>
    BY <1>5 DEF startPayment, rejectPayment, loadPendingTransaction, settle, database
  <1>6. crash => UNCHANGED <<transactions, deliveries, taken>>
    BY DEF crash, stopRequests, database
  <1> QED
    BY <1>1, <1>2, <1>3, <1>4, <1>5, <1>6 DEF Next, vars, database, Workers

(* A transaction left final and alone stays so: no payment and no event, late *)
(* or repeated, is worked on again (isFinalized).                             *)
THEOREM SettledForGood == Spec => SettledStays
  <1>1. IInv /\ [Next]_vars =>
          [\A t \in Transactions :
             transactions[t] # Null /\ isFinalStatus(transactions[t].status) /\ nobodyWorksOn(t)
               => /\ nobodyWorksOn(t)'
                  /\ UNCHANGED <<transactions[t], taken[t], deliveries[t]>>]_vars
    <2> SUFFICES ASSUME IInv, [Next]_vars, NEW t \in Transactions,
                        isFinalStatus(transactions[t].status), nobodyWorksOn(t)
                 PROVE  /\ nobodyWorksOn(t)'
                        /\ UNCHANGED <<transactions[t], taken[t], deliveries[t]>>
      OBVIOUS
    <2>1. ASSUME NEW w \in Workers, busy(w)' PROVE target'[w] # t
      BY <2>1, WorkContinues DEF nobodyWorksOn
    <2> QED
      BY <2>1, OnlyWorkChanges DEF nobodyWorksOn
  <1> QED
    BY <1>1, Inductive, PTL DEF Spec, SettledStays

-----------------------------------------------------------------------------
(* The stock.                                                                 *)

(* Payments neither creates nor deletes a row, and what was bought does not   *)
(* change (updateStatus, assign).                                             *)
LEMMA RowsStay ==
  ASSUME IInv, [Next]_vars \/ stopRequests, NEW t \in Transactions
  PROVE  /\ transactions'[t] = Null <=> transactions[t] = Null
         /\ transactions[t] # Null =>
              /\ transactions'[t].product = transactions[t].product
              /\ transactions'[t].quantity = transactions[t].quantity
         /\ deliveries'[t] = Null <=> deliveries[t] = Null
  <1> USE SetsAssumption DEF IInv
  <1>1. ASSUME NEW w \in Workers, apply(w)
        PROVE  /\ transactions'[t] = Null <=> transactions[t] = Null
               /\ transactions[t] # Null =>
                    /\ transactions'[t].product = transactions[t].product
                    /\ transactions'[t].quantity = transactions[t].quantity
               /\ UNCHANGED deliveries
    <2>1. /\ target[w] \in Transactions /\ transactions[target[w]] \in Rows
          /\ transactions[target[w]] # Null /\ outcome[w] \in Outcomes
          /\ transactions' = [transactions EXCEPT
               ![target[w]] = updatedRow(transactions[target[w]], outcome[w])]
      BY <1>1, ReturnedRowDecides
    <2>2. /\ updatedRow(transactions[target[w]], outcome[w]) \in Rows
          /\ updatedRow(transactions[target[w]], outcome[w]).product = transactions[target[w]].product
          /\ updatedRow(transactions[target[w]], outcome[w]).quantity = transactions[target[w]].quantity
      BY <2>1 DEF updatedRow, orKeep, Rows, Outcomes
    <2> QED
      BY <1>1, <2>1, <2>2 DEF apply, TypeOK
  <1>2. ASSUME NEW w \in Workers, assignDelivery(w)
        PROVE  /\ deliveries'[t] = Null <=> deliveries[t] = Null
               /\ UNCHANGED transactions
    BY <1>2 DEF assignDelivery, TypeOK, DeliveryStatusEnum
  <1>3. ASSUME NEW w \in Workers, fulfil(w), ~apply(w), ~assignDelivery(w)
        PROVE  UNCHANGED <<transactions, deliveries>>
    BY <1>3 DEF fulfil, applyFails, decrementFails, decrementStock, assignFails, database
  <1>4. ASSUME NEW p \in Payers, payerStep(p), ~fulfil(p)
        PROVE  UNCHANGED <<transactions, deliveries>>
    BY <1>4 DEF payerStep, findCustomer, postCharge, chargeRefused, chargeThrows, chargeAnswered,
       pollUntilFinal, answerLost, answerMalformed, database
  <1>5. ASSUME NEW h \in Hooks, NEW e \in Events, receive(h, e)
        PROVE  UNCHANGED <<transactions, deliveries>>
    BY <1>5 DEF receive, rejectEvent, ignoreEvent, acceptEvent, vars, database
  <1>6. ASSUME NEW p \in Payers, startPayment(p) \/ settle(p)
        PROVE  UNCHANGED <<transactions, deliveries>>
    BY <1>6 DEF startPayment, rejectPayment, loadPendingTransaction, settle, database
  <1>7. stopRequests => UNCHANGED <<transactions, deliveries>>
    BY DEF stopRequests, database
  <1>8. \/ UNCHANGED <<transactions, deliveries>>
        \/ \E w \in Workers : apply(w) \/ assignDelivery(w)
    BY <1>3, <1>4, <1>5, <1>6, <1>7 DEF Next, crash, vars, database, Workers
  <1> QED
    BY <1>1, <1>2, <1>8

(* No units left the stock for a transaction that was never recorded, and the *)
(* books balance: what NeverOversold needs to be inductive.                   *)
StockInv ==
  /\ NeverOversold
  /\ \A t \in Transactions : transactions[t] = Null => taken[t] = 0

(* What one transaction took of a product is a number.                        *)
tookTyped == \A p \in Products, t \in Transactions : tookOf(p)[t] \in Int

LEMMA TookType == TypeOK => tookTyped
  <1> SUFFICES ASSUME TypeOK, NEW p \in Products, NEW t \in Transactions
               PROVE  tookOf(p)[t] \in Int
    BY DEF tookTyped
  <1> USE SetsAssumption
  <1>1. taken[t] \in Nat
    BY DEF TypeOK
  <1>2. CASE transactions[t] # Null
    <2>1. transactions[t].quantity \in Nat
      BY <1>2 DEF TypeOK, Rows
    <2> QED
      BY <1>1, <2>1 DEF tookOf
  <1>3. CASE transactions[t] = Null
    BY <1>3 DEF tookOf
  <1> QED
    BY <1>2, <1>3

(* When checkout is done, all units are still there.                          *)
LEMMA InitStock == Init => StockInv
  <1> SUFFICES ASSUME Init, NEW p \in Products
               PROVE  stock[p] >= 0 /\ stock[p] + unitsTaken(p) = InitialStock[p]
    BY DEF Init, StockInv, NeverOversold
  <1>1. InitialStock[p] \in Nat /\ stock[p] = InitialStock[p]
    BY SetsAssumption DEF Init
  <1>2. \A t \in Transactions : tookOf(p)[t] = 0
    <2> SUFFICES ASSUME NEW t \in Transactions PROVE tookOf(p)[t] = 0
      OBVIOUS
    <2>1. transactions[t] # Null => transactions[t].quantity \in Nat
      BY InitIInv, SetsAssumption DEF IInv, TypeOK, Rows
    <2>2. taken[t] = 0
      BY DEF Init
    <2> QED
      BY <2>1, <2>2 DEF tookOf
  <1>3. unitsTaken(p) = 0
    BY <1>2, FiniteAssumption, SumZero DEF unitsTaken
  <1> QED
    BY <1>1, <1>3

(* A step that takes nothing and changes no purchase that took something      *)
(* leaves the books as they were.                                             *)
LEMMA StockFrame ==
  ASSUME IInv, IInv', StockInv, UNCHANGED <<stock, taken>>,
         \A t \in Transactions :
           IF transactions[t] = Null THEN taken[t] = 0
           ELSE /\ transactions'[t] # Null
                /\ transactions'[t].product = transactions[t].product
                /\ transactions'[t].quantity = transactions[t].quantity
  PROVE  StockInv'
  <1>1. ASSUME NEW p \in Products PROVE unitsTaken(p)' = unitsTaken(p)
    <2>1. ASSUME NEW t \in Transactions
          PROVE  tookOf(p)[t] \in Int /\ tookOf(p)'[t] = tookOf(p)[t]
      <3>1. tookOf(p)[t] \in Int
        BY TookType DEF tookTyped, IInv
      <3>2. CASE transactions[t] = Null
        <4>1. transactions'[t] # Null => transactions'[t].quantity \in Nat
          BY SetsAssumption DEF IInv, TypeOK, Rows
        <4> QED
          BY <3>1, <3>2, <4>1 DEF tookOf
      <3>3. CASE transactions[t] # Null
        BY <3>1, <3>3 DEF tookOf
      <3> QED
        BY <3>1, <3>2, <3>3
    <2> DEFINE f == tookOf(p)
               g == tookOf(p)'
    <2>2. SumFunctionOnSet(g, Transactions) = SumFunctionOnSet(f, Transactions)
      <3> HIDE DEF f, g
      <3>1. \A t \in Transactions : f[t] \in Int /\ g[t] = f[t]
        BY <2>1 DEF f, g
      <3> QED
        BY <3>1, FiniteAssumption, SumAgree
    <2> QED
      BY <2>2 DEF unitsTaken
  <1>2. NeverOversold'
    BY <1>1 DEF StockInv, NeverOversold
  <1> QED
    BY <1>2 DEF StockInv

(* The conditional updateMany takes what the transaction is credited with.    *)
LEMMA DecrementKeepsStock ==
  ASSUME IInv, IInv', StockInv, NEW w \in Workers, decrementStock(w)
  PROVE  StockInv'
  <1> USE SetsAssumption
  <1>0. target[w] \in Transactions /\ transactions[target[w]] \in Rows
    BY DEF decrementStock, IInv, TypeOK, JobsOK, busy, ApplySteps
  <1> PICK t \in Transactions, q \in Nat, b \in Products :
        t = target[w] /\ q = transactions[t].quantity /\ b = transactions[t].product
    BY <1>0 DEF Rows
  <1>1. transactions[t] # Null /\ stock[b] \in Nat /\ taken[t] \in Nat
    BY <1>0 DEF IInv, TypeOK
  <1>2. /\ transactions' = transactions
        /\ stock' = [stock EXCEPT ![b] = @ - q]
        /\ taken' = [taken EXCEPT ![t] = @ + 1]
    BY DEF decrementStock, row
  <1>3. /\ stock'[b] = stock[b] - q
        /\ \A p \in Products : p # b => stock'[p] = stock[p]
        /\ taken'[t] = taken[t] + 1
        /\ \A u \in Transactions : u # t => taken'[u] = taken[u]
    BY <1>1, <1>2 DEF IInv, TypeOK
  <1>4. ASSUME NEW p \in Products, NEW u \in Transactions
        PROVE  /\ tookOf(p)[u] \in Int /\ tookOf(p)'[u] \in Int
               /\ u # t \/ p # b => tookOf(p)'[u] = tookOf(p)[u]
    <2>1. tookOf(p)[u] \in Int /\ tookOf(p)'[u] \in Int
      <3>1. TypeOK' => tookTyped'
        BY TookType, PTL
      <3> QED
        BY <3>1, TookType DEF IInv, tookTyped
    <2>2. u # t \/ p # b => tookOf(p)'[u] = tookOf(p)[u]
      BY <1>2, <1>3 DEF tookOf
    <2> QED
      BY <2>1, <2>2
  <1>5. tookOf(b)'[t] = tookOf(b)[t] + q
    <2>1. /\ tookOf(b)[t] = IF transactions[t] # Null /\ transactions[t].product = b
                             THEN taken[t] * q ELSE 0
          /\ tookOf(b)'[t] = IF transactions'[t] # Null /\ transactions'[t].product = b
                              THEN taken'[t] * transactions'[t].quantity ELSE 0
      BY <1>1 DEF tookOf
    <2>2. \A m, n \in Nat : (m + 1) * n = m * n + n
      OBVIOUS
    <2>3. taken'[t] * q = taken[t] * q + q
      BY <1>1, <1>3, <2>2
    <2> QED
      BY <1>1, <1>2, <2>1, <2>3
  <1>6. ASSUME NEW p \in Products
        PROVE  stock'[p] >= 0 /\ stock'[p] + unitsTaken(p)' = InitialStock[p]
    <2> DEFINE f == tookOf(p)
               g == tookOf(p)'
    <2>1. /\ stock[p] + SumFunctionOnSet(f, Transactions) = InitialStock[p]
          /\ unitsTaken(p)' = SumFunctionOnSet(g, Transactions)
          /\ stock'[p] \in Nat /\ stock[p] \in Nat
      BY DEF StockInv, NeverOversold, unitsTaken, IInv, TypeOK
    <2>2. /\ \A u \in Transactions : f[u] \in Int /\ g[u] \in Int
          /\ \A u \in Transactions : u # t => g[u] = f[u]
          /\ p # b => g[t] = f[t]
          /\ p = b => g[t] = f[t] + q
      BY <1>1, <1>4, <1>5
    <2> HIDE DEF f, g
    <2>3. SumFunctionOnSet(g, Transactions) = SumFunctionOnSet(f, Transactions) - f[t] + g[t]
      <3>1. /\ \A u \in Transactions : f[u] \in Int /\ g[u] \in Int
            /\ \A u \in Transactions : u # t => g[u] = f[u]
        BY <2>2
      <3> QED
        BY ONLY <3>1, FiniteAssumption, SumUpdate
    <2>4. SumFunctionOnSet(f, Transactions) \in Int
      BY <2>2, FiniteAssumption, SumStep
    <2> QED
      BY <1>1, <1>3, <2>1, <2>2, <2>3, <2>4
  <1>7. \A u \in Transactions : transactions'[u] = Null => taken'[u] = 0
    BY <1>1, <1>2, <1>3 DEF StockInv
  <1> QED
    BY <1>6, <1>7 DEF StockInv, NeverOversold

(* The books stay balanced, whatever step is taken.                           *)
LEMMA NextStock == IInv /\ StockInv /\ ([Next]_vars \/ stopRequests) => StockInv'
  <1> SUFFICES ASSUME IInv, StockInv, [Next]_vars \/ stopRequests
               PROVE  StockInv'
    OBVIOUS
  <1>1. IInv'
    BY NextIInv, StopStep
  <1>2. ASSUME NEW w \in Workers, fulfil(w), ~decrementStock(w)
        PROVE  UNCHANGED <<stock, taken>>
    BY <1>2 DEF fulfil, applyFails, apply, decrementFails, assignFails, assignDelivery, database
  <1>3. ASSUME NEW p \in Payers, payerStep(p), ~fulfil(p)
        PROVE  UNCHANGED <<stock, taken>>
    BY <1>3 DEF payerStep, findCustomer, postCharge, chargeRefused, chargeThrows, chargeAnswered,
       pollUntilFinal, answerLost, answerMalformed, database
  <1>4. ASSUME NEW h \in Hooks, NEW e \in Events, receive(h, e)
        PROVE  UNCHANGED <<stock, taken>>
    BY <1>4 DEF receive, rejectEvent, ignoreEvent, acceptEvent, vars, database
  <1>5. ASSUME NEW p \in Payers, startPayment(p) \/ settle(p)
        PROVE  UNCHANGED <<stock, taken>>
    BY <1>5 DEF startPayment, rejectPayment, loadPendingTransaction, settle, database
  <1>6. stopRequests => UNCHANGED <<stock, taken>>
    BY DEF stopRequests, database
  <1>7. UNCHANGED <<stock, taken>> \/ \E w \in Workers : decrementStock(w)
    BY <1>2, <1>3, <1>4, <1>5, <1>6 DEF Next, crash, vars, database, Workers
  <1>8. UNCHANGED <<stock, taken>> => StockInv'
    BY <1>1, RowsStay, StockFrame DEF StockInv
  <1> QED
    BY <1>1, <1>7, <1>8, DecrementKeepsStock

(* However payments overlap and fail, nothing is oversold: the units that     *)
(* left the stock are those the transactions took (decrementStock).           *)
THEOREM StockNeverOversold == Spec => []NeverOversold
  <1>1. IInv /\ StockInv /\ [Next]_vars => StockInv'
    BY NextStock
  <1>2. StockInv => NeverOversold
    BY DEF StockInv
  <1> QED
    BY <1>1, <1>2, InitStock, Inductive, PTL DEF Spec
=============================================================================
