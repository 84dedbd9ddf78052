------------------------------ MODULE Payments ------------------------------
(* Payment of transactions that checkout has already recorded as PENDING.     *)
(*                                                                            *)
(* Two kinds of HTTP request change a transaction: POST .../pay, served by    *)
(* ProcessPaymentUseCase (a payer), and POST /webhooks/payments, served by    *)
(* HandlePaymentWebhookUseCase (a hook). Both end in                          *)
(* TransactionFulfillmentService.apply. Node interleaves requests at every    *)
(* await, so an action below is the code between two awaited calls together   *)
(* with the effect of the database or gateway call that starts it. Postgres   *)
(* and the gateway outlive the process; request state does not.               *)
EXTENDS Integers, FiniteSets, FiniteSetsExt, TransactionStatus, DomainErrors

CONSTANTS
  Transactions,         \* transaction ids (each with its own reference)
  Products,
  Quantities,           \* quantities a checkout may ask for
  InitialStock,         \* units of each product on sale
  Payers,               \* payment requests; also names the charge it creates
  Hooks,                \* webhook requests the process serves at a time
  MaxPollAttempts,      \* payment-gateway.config.ts maxPollAttempts
  Verdicts,             \* raw statuses the gateway may settle a charge with
  IdempotentReference,  \* the gateway refuses a reference it already charged
  Faults,               \* which failures the environment may inject
  Null                  \* JavaScript null: no row, no charge, no job

Workers == Payers \cup Hooks

Rows == [status : TransactionStatusEnum, gatewayId : Payers \cup {Null},
         product : Products, quantity : Quantities]

Outcomes == [status : TransactionStatusEnum, gatewayId : Payers \cup {Null}]

Charges == [tx : Transactions, status : RawStatuses]

(* A webhook body: whether its checksum verifies, the charge it speaks of,    *)
(* the reference it carries and the status it reports.                        *)
Events == [signed : BOOLEAN, charge : Payers \cup {Null},
           tx : Transactions \cup {Null}, status : RawStatuses]

Replies == TransactionStatusEnum \cup Failures

FaultKinds == {"db", "lostAck", "gateway", "crash"}

ASSUME SetsAssumption ==
  /\ Payers \cap Hooks = {}
  /\ Null \notin Transactions \cup Payers \cup Rows \cup Outcomes \cup Charges
  /\ Null \notin DeliveryStatusEnum
  /\ Quantities \subseteq Nat \ {0}
  /\ InitialStock \in [Products -> Nat]
  /\ MaxPollAttempts \in Nat \ {0}
  /\ Verdicts \subseteq RawStatuses \ {"PENDING"}
  /\ IdempotentReference \in BOOLEAN
  /\ Faults \subseteq FaultKinds

(* A table holds finitely many rows, and there are finitely many UUIDs.       *)
ASSUME FiniteAssumption == IsFiniteSet(Transactions)

VARIABLES
  transactions,  \* table transactions: id -> row
  stock,         \* column products.stock
  deliveries,    \* table deliveries: transaction id -> status
  charges,       \* gateway: charges it accepted, named by the request
  acked,         \* gateway: charges whose event was answered with 200
  pc,            \* where each request is
  target,        \* the transaction a request loaded
  outcome,       \* the GatewayOutcome a request is applying
  attempt,       \* pollUntilFinal's argument
  reply,         \* what a payer was answered: a status, or how it failed
  taken          \* history: times a transaction's units left the stock

database == <<transactions, stock, deliveries>>
gateway  == <<charges, acked>>
requests == <<pc, target, outcome, attempt, reply>>
vars     == <<database, gateway, requests, taken>>

PayerSteps == {"customer", "charge", "posted", "poll"}
ApplySteps == {"apply", "decrement", "assign"}

busy(w) == pc[w] \in PayerSteps \cup ApplySteps

nobodyWorksOn(t) == \A w \in Workers : busy(w) => target[w] # t

TypeOK ==
  /\ transactions \in [Transactions -> Rows \cup {Null}]
  /\ stock \in [Products -> Nat]
  /\ deliveries \in [Transactions -> DeliveryStatusEnum \cup {Null}]
  /\ charges \in [Payers -> Charges \cup {Null}]
  /\ acked \subseteq Payers
  /\ pc \in [Workers -> {"idle", "done"} \cup PayerSteps \cup ApplySteps]
  /\ target \in [Workers -> Transactions \cup {Null}]
  /\ outcome \in [Workers -> Outcomes \cup {Null}]
  /\ attempt \in [Payers -> 0..MaxPollAttempts]
  /\ reply \in [Payers -> Replies \cup {"none"}]
  /\ taken \in [Transactions -> Nat]

-----------------------------------------------------------------------------
(* Initial states: what checkout leaves behind. Each recorded transaction was *)
(* PENDING and fitted the stock of its moment (hasStockFor), though together  *)
(* they may not. The delivery row is written last and without a database      *)
(* transaction, so it is missing only where a write can fail (or a body had   *)
(* no delivery; its checkout fails too, and nobody learns the id to pay).     *)

pendingRow(p, q) == [status |-> "PENDING", gatewayId |-> Null,
                     product |-> p, quantity |-> q]

checkedOut == {pendingRow(p, q) : p \in Products, q \in Quantities}

Init ==
  /\ stock = InitialStock
  /\ transactions \in [Transactions -> checkedOut \cup {Null}]
  /\ \A t \in Transactions : transactions[t] # Null =>
       transactions[t].quantity <= stock[transactions[t].product]
  /\ deliveries \in [Transactions -> {"PENDING", Null}]
  /\ \A t \in Transactions :
       /\ transactions[t] = Null => deliveries[t] = Null
       /\ transactions[t] # Null /\ Faults \cap {"db", "crash"} = {}
            => deliveries[t] = "PENDING"
  /\ charges = [c \in Payers |-> Null]
  /\ acked = {}
  /\ pc = [w \in Workers |-> "idle"]
  /\ target = [w \in Workers |-> Null]
  /\ outcome = [w \in Workers |-> Null]
  /\ attempt = [p \in Payers |-> 0]
  /\ reply = [p \in Payers |-> "none"]
  /\ taken = [t \in Transactions |-> 0]

-----------------------------------------------------------------------------
(* Ending a request.                                                          *)

goto(w, step) == pc' = [pc EXCEPT ![w] = step]

respond(p, answer) ==
  /\ goto(p, "done")
  /\ reply' = [reply EXCEPT ![p] = answer]
  /\ outcome' = [outcome EXCEPT ![p] = Null]
  /\ UNCHANGED <<target, attempt, acked>>

acknowledgeAlways(h, answer) ==                              \* seeded fault
  /\ goto(h, "idle")
  /\ target' = [target EXCEPT ![h] = Null]
  /\ outcome' = [outcome EXCEPT ![h] = Null]
  /\ acked' = acked \cup {outcome[h].gatewayId}
  /\ UNCHANGED <<attempt, reply>>

(* The gateway stops retrying an event only when it is answered with 200.     *)
acknowledge(h, answer) ==
  /\ goto(h, "idle")
  /\ target' = [target EXCEPT ![h] = Null]
  /\ outcome' = [outcome EXCEPT ![h] = Null]
  /\ acked' = acked \cup (IF toHttpStatus(answer) = 200
                           THEN {outcome[h].gatewayId} ELSE {})
  /\ UNCHANGED <<attempt, reply>>

finish(w, answer) ==
  IF w \in Payers THEN respond(w, answer) ELSE acknowledge(w, answer)

fault(kind) == kind \in Faults

isFinalizedNever(r) == FALSE                                 \* seeded fault
isFinalizedApprovedOnly(r) == r.status = "APPROVED"          \* seeded fault
isFinalized(r) == isFinalStatus(r.status)

-----------------------------------------------------------------------------
(* ProcessPaymentUseCase                                                      *)

(* findById, then the two early returns: no such transaction, or one that is  *)
(* final already.                                                             *)
rejectPayment(p, t) ==
  /\ pc[p] = "idle"
  /\ \E code \in DomainErrorCode :
       /\ \/ code = "TRANSACTION_NOT_FOUND" /\ transactions[t] = Null
          \/ /\ code = "TRANSACTION_ALREADY_FINALIZED"
             /\ transactions[t] # Null /\ isFinalized(transactions[t])
          \/ code = "PERSISTENCE_ERROR" /\ fault("db")
       /\ reply' = [reply EXCEPT ![p] = code]
  /\ goto(p, "done")
  /\ target' = [target EXCEPT ![p] = t]
  /\ UNCHANGED <<database, gateway, outcome, attempt, taken>>

loadPendingTransaction(p, t) ==
  /\ pc[p] = "idle"
  /\ transactions[t] # Null
  /\ ~isFinalized(transactions[t])
  /\ goto(p, "customer")
  /\ target' = [target EXCEPT ![p] = t]
  /\ UNCHANGED <<database, gateway, outcome, attempt, reply, taken>>

(* customerRepository.findById. The foreign key keeps the customer row, so    *)
(* the null branch ends like a database error: PERSISTENCE_ERROR.             *)
findCustomer(p) ==
  /\ pc[p] = "customer"
  /\ \/ /\ goto(p, "charge")
        /\ UNCHANGED <<acked, target, outcome, attempt, reply>>
     \/ fault("db") /\ respond(p, "PERSISTENCE_ERROR")
  /\ UNCHANGED <<database, charges, taken>>

(* The adapter's result, and the ERROR outcome orElse puts in its place.      *)
toChargeResult(c) == [status |-> mapStatus(charges[c].status), gatewayId |-> c]

gatewayError == [status |-> "ERROR", gatewayId |-> Null]

applyOutcome(w, o) ==
  /\ goto(w, "apply")
  /\ outcome' = [outcome EXCEPT ![w] = o]

chargedBefore(t) == \E c \in Payers : charges[c] # Null /\ charges[c].tx = t

(* POST /transactions reaches the gateway, which opens a charge.              *)
postCharge(p) ==
  /\ pc[p] = "charge"
  /\ IdempotentReference => ~chargedBefore(target[p])
  /\ charges' = [charges EXCEPT ![p] = [tx |-> target[p], status |-> "PENDING"]]
  /\ goto(p, "posted")
  /\ UNCHANGED <<database, acked, target, outcome, attempt, reply, taken>>

(* The handshake fails before a charge exists: no acceptance token, card not  *)
(* tokenised, request lost, or the gateway refuses a reused reference.        *)
chargeRefused(p) ==
  /\ pc[p] = "charge"
  /\ fault("gateway") \/ (IdempotentReference /\ chargedBefore(target[p]))
  /\ applyOutcome(p, gatewayError)
  /\ UNCHANGED <<database, gateway, target, attempt, reply, taken>>

(* charge() throws before it sends the POST, past orElse and with nothing      *)
(* written: a body without its card, which validation lets through, or a      *)
(* PAYMENT_TIMEOUT_MS that AbortSignal.timeout refuses.                       *)
chargeThrows(p) ==
  /\ pc[p] = "charge"
  /\ goto(p, "done")
  /\ reply' = [reply EXCEPT ![p] = UnexpectedError]
  /\ UNCHANGED <<database, gateway, target, outcome, attempt, taken>>

chargeAnsweredFromZero(p) ==                                 \* seeded fault
  /\ pc[p] = "posted"
  /\ \/ /\ toChargeResult(p).status = "PENDING"
        /\ goto(p, "poll")
        /\ attempt' = [attempt EXCEPT ![p] = 0]
        /\ UNCHANGED outcome
     \/ /\ toChargeResult(p).status # "PENDING"
        /\ applyOutcome(p, toChargeResult(p))
        /\ UNCHANGED attempt
  /\ UNCHANGED <<database, gateway, target, reply, taken>>

(* The answer to the POST: a PENDING charge is polled, any other is applied.  *)
chargeAnswered(p) ==
  /\ pc[p] = "posted"
  /\ \/ /\ toChargeResult(p).status = "PENDING"
        /\ goto(p, "poll")
        /\ attempt' = [attempt EXCEPT ![p] = 1]
        /\ UNCHANGED outcome
     \/ /\ toChargeResult(p).status # "PENDING"
        /\ applyOutcome(p, toChargeResult(p))
        /\ UNCHANGED attempt
  /\ UNCHANGED <<database, gateway, target, reply, taken>>

pollUntilKnown(p) ==                                         \* seeded fault
  /\ pc[p] = "poll"
  /\ LET result == toChargeResult(p)
         known == charges[p].status \in TransactionStatusEnum
     IN
     \/ /\ known
        /\ result.status # "PENDING" \/ attempt[p] >= MaxPollAttempts
        /\ applyOutcome(p, result)
        /\ attempt' = [attempt EXCEPT ![p] = 0]
     \/ /\ ~known \/ (result.status = "PENDING" /\ attempt[p] < MaxPollAttempts)
        /\ attempt' = [attempt EXCEPT ![p] = (@ % MaxPollAttempts) + 1]
        /\ UNCHANGED <<pc, outcome>>
  /\ UNCHANGED <<database, gateway, target, reply, taken>>

(* One round of pollUntilFinal: after the last attempt PENDING is the result. *)
pollUntilFinal(p) ==
  /\ pc[p] = "poll"
  /\ LET result == toChargeResult(p) IN
     \/ /\ result.status # "PENDING" \/ attempt[p] >= MaxPollAttempts
        /\ applyOutcome(p, result)
        /\ attempt' = [attempt EXCEPT ![p] = 0]
     \/ /\ result.status = "PENDING" /\ attempt[p] < MaxPollAttempts
        /\ attempt' = [attempt EXCEPT ![p] = @ + 1]
        /\ UNCHANGED <<pc, outcome>>
  /\ UNCHANGED <<database, gateway, target, reply, taken>>

(* An answer that never comes, an HTTP error or unreadable JSON becomes an    *)
(* ERROR outcome, whatever the gateway did with the charge.                   *)
answerLost(p) ==
  /\ pc[p] \in {"posted", "poll"}
  /\ fault("gateway")
  /\ applyOutcome(p, gatewayError)
  /\ attempt' = [attempt EXCEPT ![p] = 0]
  /\ UNCHANGED <<database, gateway, target, reply, taken>>

(* Valid JSON of another shape makes toChargeResult (or the reading of a      *)
(* token) throw inside map: the promise rejects past orElse and the request   *)
(* ends with nothing written.                                                 *)
answerMalformed(p) ==
  /\ pc[p] \in {"charge", "posted", "poll"}
  /\ fault("gateway")
  /\ goto(p, "done")
  /\ reply' = [reply EXCEPT ![p] = UnexpectedError]
  /\ attempt' = [attempt EXCEPT ![p] = 0]
  /\ UNCHANGED <<database, gateway, target, outcome, taken>>

-----------------------------------------------------------------------------
(* HandlePaymentWebhookUseCase. Verification is synchronous, so it and the    *)
(* read by reference are one step.                                            *)

(* External: the events the gateway signs. It speaks of a settled charge of   *)
(* ours as often and as late as it likes, or of a payment that carries none   *)
(* of our references. Two things are assumed of it: the reference is that of  *)
(* the charge (the checksum covers only signature.properties, the id and the  *)
(* status in build-webhook-event.js, and does not bind it), and a charge is   *)
(* reported only once it is settled.                                          *)
authentic(e) ==
  \/ e.charge = Null /\ e.tx = Null
  \/ /\ e.charge # Null /\ charges[e.charge] # Null
     /\ e.status = charges[e.charge].status /\ e.status # "PENDING"
     /\ e.tx = charges[e.charge].tx

arrives(e) == e \in Events /\ (e.signed => authentic(e))

verifySignatureSkipped(e) == TRUE                            \* seeded fault
verifySignature(e) == e.signed

(* The row the event's reference names; an event without one finds nothing.   *)
findByReference(e) == IF e.tx = Null THEN Null ELSE transactions[e.tx]

rejectEvent(h, e) ==
  /\ pc[h] = "idle"
  /\ arrives(e)
  /\ ~verifySignature(e) \/ (e.tx # Null /\ fault("db"))
  /\ UNCHANGED vars

(* Unknown or final transactions: 200 and nothing else.                       *)
ignoreEvent(h, e) ==
  /\ pc[h] = "idle"
  /\ arrives(e) /\ verifySignature(e)
  /\ \/ findByReference(e) = Null
     \/ findByReference(e) # Null /\ isFinalized(findByReference(e))
  /\ acked' = acked \cup ({e.charge} \ {Null})
  /\ UNCHANGED <<database, charges, requests, taken>>

acceptEvent(h, e) ==
  /\ pc[h] = "idle"
  /\ arrives(e) /\ verifySignature(e)
  /\ findByReference(e) # Null /\ ~isFinalized(findByReference(e))
  /\ applyOutcome(h, [status |-> mapStatus(e.status), gatewayId |-> e.charge])
  /\ target' = [target EXCEPT ![h] = e.tx]
  /\ UNCHANGED <<database, gateway, attempt, reply, taken>>

-----------------------------------------------------------------------------
(* TransactionFulfillmentService.apply and fulfill, for either kind of        *)
(* request. A write may fail ("db"), or succeed and be reported as failed     *)
(* ("lostAck").                                                               *)

orKeep(new, old) == IF new = Null THEN old ELSE new

updatedRowFirstEcho(r, o) ==                                 \* seeded fault
  [r EXCEPT !.status = o.status,
            !.gatewayId = orKeep(r.gatewayId, o.gatewayId)]

(* The row Postgres holds after transactionRepository.updateStatus.           *)
updatedRow(r, o) ==
  [r EXCEPT !.status = o.status,
            !.gatewayId = orKeep(o.gatewayId, r.gatewayId)]

wasDecided(o) == isFinalStatus(o.status)                     \* seeded fault
wasApproved(o) == o.status = "APPROVED"

applyFails(w) ==
  /\ pc[w] = "apply"
  /\ fault("db")
  /\ finish(w, "PERSISTENCE_ERROR")
  /\ UNCHANGED <<database, charges, taken>>

(* The transaction a request loaded; its product and quantity never change.   *)
row(w) == transactions[target[w]]

(* What happens next, and the answer in the end, depend on the row that       *)
(* updateStatus returned.                                                     *)
apply(w) ==
  /\ pc[w] = "apply"
  /\ LET updated == updatedRow(row(w), outcome[w]) IN
     /\ transactions' = [transactions EXCEPT ![target[w]] = updated]
     /\ \/ fault("lostAck") /\ finish(w, "PERSISTENCE_ERROR")
        \/ ~wasApproved(updated) /\ finish(w, updated.status)
        \/ /\ wasApproved(updated)
           /\ goto(w, "decrement")
           /\ outcome' = [outcome EXCEPT ![w].status = updated.status]
           /\ UNCHANGED <<acked, target, attempt, reply>>
  /\ UNCHANGED <<stock, deliveries, charges, taken>>

hasStockUnchecked(w) == TRUE                                 \* seeded fault
hasSpareStock(w) == stock[row(w).product] > row(w).quantity  \* seeded fault
hasStock(w) == stock[row(w).product] >= row(w).quantity

decrementFailsButShips(w) ==                                 \* seeded fault
  /\ pc[w] = "decrement"
  /\ ~hasStock(w) \/ fault("db")
  /\ goto(w, "assign")
  /\ UNCHANGED <<database, gateway, target, outcome, attempt, reply, taken>>

decrementFails(w) ==
  /\ pc[w] = "decrement"
  /\ \/ ~hasStock(w) /\ finish(w, "INSUFFICIENT_STOCK")
     \/ fault("db") /\ finish(w, "PERSISTENCE_ERROR")
  /\ UNCHANGED <<database, charges, taken>>

(* The conditional updateMany, then a second read of the product. The read    *)
(* changes nothing, so it is part of this step; when it fails the request     *)
(* ends with the units already gone.                                          *)
decrementStock(w) ==
  /\ pc[w] = "decrement"
  /\ hasStock(w)
  /\ stock' = [stock EXCEPT ![row(w).product] = @ - row(w).quantity]
  /\ taken' = [taken EXCEPT ![target[w]] = @ + 1]
  /\ \/ /\ fault("lostAck") \/ fault("db")
        /\ finish(w, "PERSISTENCE_ERROR")
     \/ /\ goto(w, "assign")
        /\ UNCHANGED <<acked, target, outcome, attempt, reply>>
  /\ UNCHANGED <<transactions, deliveries, charges>>

assignFailsSilently(w) ==                                    \* seeded fault
  /\ pc[w] = "assign"
  /\ deliveries[target[w]] = Null \/ fault("db")
  /\ finish(w, outcome[w].status)
  /\ UNCHANGED <<database, charges, taken>>

assignFails(w) ==
  /\ pc[w] = "assign"
  /\ deliveries[target[w]] = Null \/ fault("db")
  /\ finish(w, "PERSISTENCE_ERROR")
  /\ UNCHANGED <<database, charges, taken>>

assignDelivery(w) ==
  /\ pc[w] = "assign"
  /\ deliveries[target[w]] # Null
  /\ deliveries' = [deliveries EXCEPT ![target[w]] = "ASSIGNED"]
  /\ finish(w, outcome[w].status) \/ (fault("lostAck") /\ finish(w, "PERSISTENCE_ERROR"))
  /\ UNCHANGED <<transactions, stock, charges, taken>>

-----------------------------------------------------------------------------
(* GetTransactionUseCase: what GET /transactions/:id reads back.              *)
getTransaction(t) ==
  IF transactions[t] = Null THEN "TRANSACTION_NOT_FOUND" ELSE transactions[t].status

-----------------------------------------------------------------------------
(* The environment.                                                           *)

(* External: the gateway decides a charge.                                    *)
settle(c) ==
  /\ charges[c] # Null
  /\ charges[c].status = "PENDING"
  /\ \E v \in Verdicts : charges' = [charges EXCEPT ![c].status = v]
  /\ UNCHANGED <<database, acked, requests, taken>>

(* The process dies: every request under way is lost, its client sees a       *)
(* broken connection. Requests hold their state in memory only.               *)
stopRequests ==
  /\ pc' = [w \in Workers |-> IF ~busy(w) THEN pc[w]
                              ELSE IF w \in Payers THEN "done" ELSE "idle"]
  /\ target' = [w \in Workers |-> IF w \in Hooks THEN Null ELSE target[w]]
  /\ outcome' = [w \in Workers |-> Null]
  /\ attempt' = [p \in Payers |-> 0]
  /\ reply' = [p \in Payers |-> IF busy(p) THEN NoAnswer ELSE reply[p]]
  /\ UNCHANGED <<database, gateway, taken>>

crash == fault("crash") /\ (\E w \in Workers : busy(w)) /\ stopRequests

-----------------------------------------------------------------------------
fulfil(w) ==
  \/ applyFails(w)     \/ apply(w)
  \/ decrementFails(w) \/ decrementStock(w)
  \/ assignFails(w)    \/ assignDelivery(w)

(* The steps a request takes once it has started.                             *)
payerStep(p) ==
  \/ findCustomer(p) \/ postCharge(p) \/ chargeRefused(p) \/ chargeThrows(p)
  \/ chargeAnswered(p) \/ pollUntilFinal(p) \/ answerLost(p) \/ answerMalformed(p)
  \/ fulfil(p)

startPayment(p) ==
  \E t \in Transactions : rejectPayment(p, t) \/ loadPendingTransaction(p, t)

receive(h, e) == rejectEvent(h, e) \/ ignoreEvent(h, e) \/ acceptEvent(h, e)

Next ==
  \/ \E p \in Payers : startPayment(p) \/ payerStep(p)
  \/ \E h \in Hooks : fulfil(h) \/ \E e \in Events : receive(h, e)
  \/ \E c \in Payers : settle(c)
  \/ crash

Spec == Init /\ [][Next]_vars

(* Every awaited call ends: the gateway calls by AbortSignal.timeout, the     *)
(* database calls with a row or an error; so a started request keeps moving.  *)
RequestFairness ==
  /\ \A p \in Payers : WF_vars(payerStep(p))
  /\ \A h \in Hooks : WF_vars(fulfil(h))

FairSpec == Spec /\ RequestFairness

(* External: the gateway settles every charge and repeats an event until it   *)
(* is answered with 200.                                                      *)
announce(c) ==
  /\ c \notin acked
  /\ \E h \in Hooks, e \in Events :
       e.signed /\ e.charge = c /\ (ignoreEvent(h, e) \/ acceptEvent(h, e))

GatewayFairness ==
  \A c \in Payers : WF_vars(settle(c)) /\ SF_vars(announce(c))

RetryingSpec == FairSpec /\ GatewayFairness

-----------------------------------------------------------------------------
(* Properties                                                                 *)

approvedFor(t) == {c \in Payers : charges[c] # Null /\ charges[c].tx = t
                                   /\ charges[c].status = "APPROVED"}

(* A transaction is APPROVED only on the strength of a charge the gateway     *)
(* approved for that very transaction, and wompiTransactionId names it: no    *)
(* unsigned event, foreign charge or lost answer can approve one, and no      *)
(* overwriting request leaves the echo of another charge (apply,              *)
(* verifySignature, orElse), as long as a signed event names its own charge   *)
(* (authentic).                                                               *)
ApprovedIsPaid ==
  \A t \in Transactions :
    transactions[t] # Null /\ transactions[t].status = "APPROVED"
      => transactions[t].gatewayId \in approvedFor(t)

(* Nothing is shipped unpaid, and nothing is shipped before its units left    *)
(* the stock, whatever requests overlap and wherever they break off           *)
(* (TransactionFulfillmentService.fulfill).                                   *)
ShippedIsPaidAndTaken ==
  \A t \in Transactions :
    deliveries[t] = "ASSIGNED" => approvedFor(t) # {} /\ taken[t] > 0

(* Concurrent payments cannot oversell: what left the stock of a product is   *)
(* what its transactions took, and it never exceeds what there was            *)
(* (PostgresProductRepository.decrementStock).                                *)
tookOf(p) ==
  [t \in Transactions |->
     IF transactions[t] # Null /\ transactions[t].product = p
       THEN taken[t] * transactions[t].quantity ELSE 0]

unitsTaken(p) == SumFunctionOnSet(tookOf(p), Transactions)

NeverOversold ==
  \A p \in Products :
    stock[p] >= 0 /\ stock[p] + unitsTaken(p) = InitialStock[p]

(* A payer told APPROVED has been charged, its units are out of the stock and *)
(* its delivery is assigned, and no later request undoes that (execute        *)
(* answers only after fulfill).                                               *)
ApprovedReplyIsFulfilled ==
  \A p \in Payers : reply[p] = "APPROVED" =>
    /\ approvedFor(target[p]) # {}
    /\ taken[target[p]] > 0
    /\ deliveries[target[p]] = "ASSIGNED"

(* A final status is never changed again (transaction.model.ts, isFinalized). *)
FinalIsFinal ==
  [][\A t \in Transactions :
       transactions[t] # Null /\ isFinalStatus(transactions[t].status)
         => transactions'[t] = transactions[t]]_vars

(* The outcome of a transaction is applied to the stock at most once          *)
(* (README, "applied exactly once").                                          *)
AppliedOnce == \A t \in Transactions : taken[t] <= 1

(* Once no request works on it, an APPROVED transaction has its stock         *)
(* decremented and its delivery assigned (README, transaction states).        *)
ApprovedIsFulfilled ==
  \A t \in Transactions :
    /\ transactions[t] # Null /\ transactions[t].status = "APPROVED"
    /\ nobodyWorksOn(t)
    => taken[t] > 0 /\ deliveries[t] = "ASSIGNED"

(* Once the requests at work on a transaction have ended with a final status, *)
(* nothing works on it again and it stays as it is, row, units and delivery,  *)
(* whatever payment or event comes later: what overlapping requests can spoil *)
(* ends with them (isFinalized, asked on loading by both use cases).          *)
SettledStays ==
  [][\A t \in Transactions :
       transactions[t] # Null /\ isFinalStatus(transactions[t].status) /\ nobodyWorksOn(t)
         => /\ nobodyWorksOn(t)'
            /\ UNCHANGED <<transactions[t], taken[t], deliveries[t]>>]_vars

(* Every request that starts is answered: polling gives up after              *)
(* maxPollAttempts and no step waits for another request.                     *)
RequestsEnd == \A w \in Workers : busy(w) ~> ~busy(w)

memory(w) ==
  <<pc[w], target[w], outcome[w], IF w \in Payers THEN attempt[w] ELSE 0>>

(* How many steps of its own a request still has before it, at most.          *)
stepsLeft(w) ==
  CASE pc[w] = "customer"  -> MaxPollAttempts + 6
    [] pc[w] = "charge"    -> MaxPollAttempts + 5
    [] pc[w] = "posted"    -> MaxPollAttempts + 4
    [] pc[w] = "poll"      -> MaxPollAttempts + 4 - attempt[w]
    [] pc[w] = "apply"     -> 3
    [] pc[w] = "decrement" -> 2
    [] pc[w] = "assign"    -> 1
    [] OTHER               -> 0

(* Whatever overlaps and whatever fails, every step brings the requests it    *)
(* moves nearer to their answer and sends no request back: a request takes    *)
(* at most maxPollAttempts + 6 steps (pollUntilFinal, apply, fulfill).        *)
StepsAreBounded ==
  [][\A w \in Workers : busy(w) =>
       stepsLeft(w)' < stepsLeft(w) \/ UNCHANGED memory(w)]_vars

(* What a payer was told stays true: reading the transaction back restores    *)
(* the result the payment was answered with (README, business flow 6, "lets   *)
(* the SPA restore the result after a refresh"; GetTransactionUseCase).       *)
RestoredResult ==
  \A p \in Payers :
    isFinalStatus(reply[p]) => getTransaction(target[p]) = reply[p]

(* A charge the gateway approved ends as an approval of its transaction, also *)
(* when the gateway decides after the synchronous call has returned (README,  *)
(* "Both paths converge ... so the outcome is applied exactly once").         *)
PaidIsApproved ==
  \A c \in Payers :
    charges[c] # Null /\ charges[c].status = "APPROVED"
      ~> \E t \in Transactions :
           c \in approvedFor(t) /\ transactions[t] # Null /\ transactions[t].status = "APPROVED"

(* A charge the gateway has decided does not leave its transaction PENDING    *)
(* (README, "Never leaves a stuck PENDING").                                  *)
settled(c) == charges[c] # Null /\ charges[c].status # "PENDING"

finalised(c) == charges[c] # Null /\ transactions[charges[c].tx] # Null
                /\ isFinalStatus(transactions[charges[c].tx].status)

NeverStuckPending == \A c \in Payers : settled(c) ~> finalised(c)

-----------------------------------------------------------------------------
(* What makes the first two safety properties inductive: what a request       *)
(* remembers across an await still agrees with the tables and the gateway.    *)

JobsOK ==
  /\ \A w \in Workers :
       /\ busy(w) => target[w] # Null /\ transactions[target[w]] # Null
       /\ pc[w] \in PayerSteps => w \in Payers
       /\ pc[w] \in ApplySteps => outcome[w] # Null
       /\ pc[w] \in ApplySteps /\ w \in Hooks => outcome[w].gatewayId # Null
  /\ \A p \in Payers :
       /\ pc[p] \in {"idle", "customer", "charge"} => charges[p] = Null
       /\ pc[p] \in {"posted", "poll"} =>
            charges[p] # Null /\ charges[p].tx = target[p]

ApprovalsOK ==
  \A w \in Workers :
    /\ pc[w] \in ApplySteps /\ wasApproved(outcome[w])
         => outcome[w].gatewayId \in approvedFor(target[w])
    /\ pc[w] \in {"decrement", "assign"} => wasApproved(outcome[w])
    /\ pc[w] = "assign" => taken[target[w]] > 0

(* The inductive invariant: the types, what requests remember, and the two    *)
(* properties it carries (ProcessPaymentUseCase, TransactionFulfillment).     *)
IInv == TypeOK /\ JobsOK /\ ApprovalsOK /\ ApprovedIsPaid /\ ShippedIsPaidAndTaken
=============================================================================
