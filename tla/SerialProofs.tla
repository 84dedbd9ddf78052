---------------------------- MODULE SerialProofs ----------------------------
(* SerialPayments: without overlapping requests on one transaction, the code  *)
(* keeps what its documentation promises, for any number of transactions,     *)
(* requests and faults.                                                       *)
EXTENDS SerialPayments, PaymentsProofs

-----------------------------------------------------------------------------
(* Most steps leave every row alone. What such a step may do to a request, to *)
(* an answer and to the gateway:                                              *)

(* It stays, ends, goes on towards its outcome, or starts on a PENDING row.   *)
movesOn(w) ==
  \/ UNCHANGED <<pc[w], target[w], outcome[w]>>
  \/ ~busy(w)'
  \/ /\ w \in Payers /\ pc[w] \in PayerSteps /\ target'[w] = target[w]
     /\ pc'[w] \in PayerSteps \cup {"apply"}
  \/ /\ pc'[w] \in {"customer", "apply"}
     /\ target'[w] \in Transactions /\ transactions[target'[w]] # Null
     /\ ~isFinalized(transactions[target'[w]])
     /\ w \in Hooks => carriesDecision(w)'

keepsWord(p) ==
  \/ UNCHANGED <<pc[p], target[p], reply[p]>>
  \/ reply'[p] \notin FinalStatuses /\ (pc'[p] = "done" \/ reply'[p] = "none")

keepsCharges ==
  \A c \in Payers :
    /\ charges[c] # Null => charges'[c] # Null /\ charges'[c].tx = charges[c].tx
    /\ charges[c] = Null /\ charges'[c] # Null => transactions[charges'[c].tx] # Null

quiet ==
  /\ UNCHANGED <<transactions, deliveries, taken>>
  /\ \A w \in Workers : movesOn(w)
  /\ \A p \in Payers : keepsWord(p)
  /\ keepsCharges
  /\ \A c \in acked' : c \in acked \/ finalised(c)

-----------------------------------------------------------------------------
(* The statuses a row may have: PENDING is the only one that is not final.    *)
LEMMA PendingOrFinal ==
  ASSUME NEW s \in TransactionStatusEnum
  PROVE  isFinalStatus(s) \/ s = "PENDING"
  BY DEF TransactionStatusEnum, isFinalStatus, FinalStatuses

(* No failure is a final status (DomainErrorCode), and none is answered 200.  *)
LEMMA FailuresAreNot200 ==
  ASSUME NEW a \in {"PERSISTENCE_ERROR", "INSUFFICIENT_STOCK", UnexpectedError, NoAnswer,
                    "TRANSACTION_NOT_FOUND", "TRANSACTION_ALREADY_FINALIZED"}
  PROVE  /\ a \notin FinalStatuses
         /\ toHttpStatus(a) # 200
  <1>1. a \notin FinalStatuses
    BY DEF FinalStatuses, UnexpectedError, NoAnswer
  <1>2. CASE a \in DomainErrorCode
    <2>1. toHttpStatus(a) = STATUS_BY_CODE[a]
      BY <1>2 DEF toHttpStatus, DomainErrorCode, UnexpectedError, NoAnswer, ValidationError, Failures
    <2>2. STATUS_BY_CODE[a] \in {404, 409, 500}
      BY <1>2 DEF STATUS_BY_CODE, DomainErrorCode, UnexpectedError, NoAnswer
    <2> QED
      BY <1>1, <2>1, <2>2
  <1>3. CASE a = UnexpectedError
    <2>1. toHttpStatus(a) = 500
      BY <1>3 DEF toHttpStatus, DomainErrorCode, UnexpectedError, NoAnswer, ValidationError, Failures
    <2> QED
      BY <1>1, <2>1
  <1>4. CASE a = NoAnswer
    <2>1. toHttpStatus(a) = 0
      BY <1>4 DEF toHttpStatus, NoStatus, DomainErrorCode, UnexpectedError, NoAnswer, ValidationError, Failures
    <2> QED
      BY <1>1, <2>1
  <1> QED
    BY <1>2, <1>3, <1>4 DEF DomainErrorCode

(* What ending a request tells its client (respond, acknowledge).             *)
LEMMA FinishAnswer ==
  ASSUME TypeOK, JobsOK, NEW w \in Workers, NEW a \in Replies,
         pc[w] \in PayerSteps \cup ApplySteps, finish(w, a)
  PROVE  /\ w \in Payers => acked' = acked /\ reply' = [reply EXCEPT ![w] = a]
         /\ w \notin Payers =>
              /\ reply' = reply
              /\ acked' = acked \cup (IF toHttpStatus(a) = 200
                                      THEN {outcome[w].gatewayId} ELSE {})
  BY DEF finish, respond, acknowledge

(* A request that fails leaves no trace but its answer.                       *)
LEMMA FailIsQuiet ==
  ASSUME IInv, NEW w \in Workers, pc[w] \in PayerSteps \cup ApplySteps,
         NEW a \in {"PERSISTENCE_ERROR", "INSUFFICIENT_STOCK"}, finish(w, a),
         UNCHANGED <<database, charges, taken>>
  PROVE  quiet
  <1> USE SetsAssumption DEF IInv
  <1>1. a \in Replies
    BY ErrorCodes
  <1>2. \A v \in Workers : movesOn(v)
    BY <1>1, FinishEffect DEF TypeOK, movesOn, busy, PayerSteps, ApplySteps
  <1>3. acked' = acked
    BY <1>1, FinishAnswer, FailuresAreNot200
  <1>4. \A p \in Payers : keepsWord(p)
    BY <1>1, FinishEffect, FinishAnswer, FailuresAreNot200 DEF TypeOK, keepsWord, Workers
  <1> QED
    BY <1>2, <1>3, <1>4 DEF quiet, keepsCharges, database

(* Starting a payment: refused, or on a PENDING row (loadPendingTransaction). *)
LEMMA StartIsQuiet ==
  ASSUME IInv, SerialInv, NEW p \in Payers, startPayment(p)
  PROVE  quiet
  <1> USE SetsAssumption DEF IInv
  <1>1. PICK t \in Transactions : rejectPayment(p, t) \/ loadPendingTransaction(p, t)
    BY DEF startPayment
  <1>2. UNCHANGED <<transactions, deliveries, taken, charges, acked>>
    BY <1>1 DEF rejectPayment, loadPendingTransaction, database, gateway
  <1>3. CASE rejectPayment(p, t)
    <2>1. reply'[p] \in {"TRANSACTION_NOT_FOUND", "TRANSACTION_ALREADY_FINALIZED",
                         "PERSISTENCE_ERROR"}
      BY <1>3 DEF rejectPayment, TypeOK
    <2>2. \A w \in Workers : movesOn(w)
      BY <1>3 DEF rejectPayment, goto, TypeOK, movesOn, busy, PayerSteps, ApplySteps
    <2>3. \A q \in Payers : keepsWord(q)
      BY <1>3, <2>1, FailuresAreNot200 DEF rejectPayment, goto, TypeOK, keepsWord, Workers
    <2> QED
      BY <1>2, <2>2, <2>3 DEF quiet, keepsCharges
  <1>4. CASE loadPendingTransaction(p, t)
    <2>1. reply[p] = "none"
      BY <1>4 DEF loadPendingTransaction, SerialInv, AnswersOK
    <2>2. \A w \in Workers : movesOn(w)
      BY <1>4 DEF loadPendingTransaction, goto, TypeOK, movesOn, Workers
    <2>3. \A q \in Payers : keepsWord(q)
      BY <1>4, <2>1 DEF loadPendingTransaction, goto, TypeOK, keepsWord, Workers, FinalStatuses
    <2> QED
      BY <1>2, <2>2, <2>3 DEF quiet, keepsCharges
  <1> QED
    BY <1>1, <1>3, <1>4

(* A payment on its way to an outcome touches no row (charge).                *)
LEMMA PayerIsQuiet ==
  ASSUME IInv, SerialInv, NEW p \in Payers, payerStep(p), ~fulfil(p)
  PROVE  quiet
  <1> USE SetsAssumption DEF IInv
  <1>0. p \in Workers /\ (pc[p] \in PayerSteps => reply[p] = "none")
    BY DEF Workers, SerialInv, AnswersOK, PayerSteps
  <1>1. CASE findCustomer(p) /\ respond(p, "PERSISTENCE_ERROR")
    BY <1>0, <1>1, FailIsQuiet DEF findCustomer, finish, PayerSteps
  <1>2. CASE /\ pc[p] \in PayerSteps
             /\ UNCHANGED <<database, acked, target, reply, taken>>
             /\ \/ UNCHANGED charges
                \/ /\ charges[p] = Null /\ transactions[target[p]] # Null
                   /\ \E s : charges' = [charges EXCEPT ![p] = [tx |-> target[p], status |-> s]]
             /\ \/ UNCHANGED <<pc, outcome>>
                \/ \E s \in PayerSteps : goto(p, s) /\ UNCHANGED outcome
                \/ \E o : applyOutcome(p, o)
    <2>1. \A w \in Workers : movesOn(w)
      <3>1. UNCHANGED <<pc[p], outcome[p]>> \/ pc'[p] \in PayerSteps \cup {"apply"}
        BY <1>0, <1>2 DEF applyOutcome, goto, TypeOK
      <3>2. \A w \in Workers : w # p => UNCHANGED <<pc[w], target[w], outcome[w]>>
        BY <1>2 DEF applyOutcome, goto, TypeOK
      <3> QED
        BY <1>0, <1>2, <3>1, <3>2 DEF movesOn
    <2>2. \A q \in Payers : keepsWord(q)
      <3>1. reply'[p] = "none" /\ "none" \notin FinalStatuses
        BY <1>0, <1>2 DEF FinalStatuses
      <3>2. \A q \in Payers : q # p => UNCHANGED <<pc[q], target[q], reply[q]>>
        BY <1>2 DEF applyOutcome, goto, TypeOK, Workers
      <3> QED
        BY <3>1, <3>2 DEF keepsWord
    <2>3. keepsCharges
      BY <1>2 DEF TypeOK, keepsCharges, database
    <2> QED
      BY <1>2, <2>1, <2>2, <2>3 DEF quiet, database
  <1>3. CASE chargeThrows(p) \/ answerMalformed(p)
    <2>1. \A w \in Workers : movesOn(w)
      BY <1>3 DEF chargeThrows, answerMalformed, goto, TypeOK, movesOn, busy, PayerSteps, ApplySteps
    <2>2. \A q \in Payers : keepsWord(q)
      BY <1>0, <1>3, FailuresAreNot200
      DEF chargeThrows, answerMalformed, goto, TypeOK, keepsWord, Workers, UnexpectedError
    <2> QED
      BY <1>3, <2>1, <2>2 DEF chargeThrows, answerMalformed, quiet, keepsCharges, database, gateway
  <1>4. postCharge(p) => charges[p] = Null /\ transactions[target[p]] # Null
    BY <1>0 DEF postCharge, JobsOK, busy, PayerSteps
  <1> QED
    BY <1>1, <1>2, <1>3, <1>4
    DEF payerStep, findCustomer, postCharge, chargeRefused, chargeAnswered, pollUntilFinal,
        answerLost, goto, gateway, PayerSteps

(* An event is refused, ignored because its transaction is unknown or final,  *)
(* or starts on a PENDING row with what the gateway decided (execute).        *)
LEMMA EventIsQuiet ==
  ASSUME IInv, SerialInv, NEW h \in Hooks, NEW e \in Events, receive(h, e)
  PROVE  quiet
  <1> USE SetsAssumption DEF IInv
  <1>1. CASE rejectEvent(h, e)
    BY <1>1 DEF rejectEvent, vars, database, gateway, requests, quiet, movesOn, keepsWord, keepsCharges
  <1>2. CASE ignoreEvent(h, e)
    <2>1. ASSUME e.charge # Null PROVE finalised(e.charge)
      <3>1. /\ e.charge \in Payers /\ charges[e.charge] # Null
            /\ e.tx = charges[e.charge].tx
        BY <1>2, <2>1 DEF ignoreEvent, arrives, verifySignature, authentic, Events
      <3>2. e.tx # Null /\ transactions[e.tx] # Null
        BY <3>1 DEF TypeOK, Charges, SerialInv, EventsOK
      <3> QED
        BY <1>2, <3>1, <3>2 DEF ignoreEvent, findByReference, isFinalized, finalised
    <2> QED
      BY <1>2, <2>1 DEF ignoreEvent, database, requests, quiet, movesOn, keepsWord, keepsCharges
  <1>3. CASE acceptEvent(h, e)
    <2>1. /\ e.charge \in Payers /\ e.tx \in Transactions
          /\ charges[e.charge] # Null /\ charges[e.charge].tx = e.tx
          /\ e.status # "PENDING"
      BY <1>3 DEF acceptEvent, findByReference, arrives, verifySignature, authentic, Events
    <2>2. isFinalStatus(mapStatus(e.status))
      BY <2>1 DEF Events, RawStatuses, mapStatus, isFinalStatus, FinalStatuses, TransactionStatusEnum
    <2>3. carriesDecision(h)'
      BY <1>3, <2>1, <2>2 DEF acceptEvent, applyOutcome, TypeOK, Workers, carriesDecision, gateway
    <2>4. \A w \in Workers : movesOn(w)
      BY <1>3, <2>1, <2>3 DEF acceptEvent, applyOutcome, goto, findByReference, TypeOK, movesOn
    <2> QED
      BY <1>3, <2>4 DEF acceptEvent, applyOutcome, goto, TypeOK, database, gateway, quiet, keepsWord,
         keepsCharges, Workers
  <1> QED
    BY <1>1, <1>2, <1>3 DEF receive

(* The gateway decides, the process dies: no row changes.                     *)
LEMMA EnvironmentIsQuiet ==
  ASSUME IInv, SerialInv, stopRequests \/ \E c \in Payers : settle(c)
  PROVE  quiet
  <1> USE SetsAssumption DEF IInv
  <1>1. CASE stopRequests
    <2>1. \A w \in Workers : movesOn(w)
      BY <1>1 DEF stopRequests, movesOn, busy, PayerSteps, ApplySteps
    <2>2. \A q \in Payers : keepsWord(q)
      BY <1>1, FailuresAreNot200 DEF stopRequests, keepsWord, Workers, NoAnswer
    <2> QED
      BY <1>1, <2>1, <2>2 DEF stopRequests, database, gateway, quiet, keepsCharges
  <1>2. ASSUME NEW c \in Payers, settle(c) PROVE quiet
    <2>1. keepsCharges
      BY <1>2 DEF settle, keepsCharges, TypeOK, Charges
    <2> QED
      BY <1>2, <2>1 DEF settle, database, requests, quiet, movesOn, keepsWord
  <1> QED
    BY <1>1, <1>2

-----------------------------------------------------------------------------
(* Steps that leave the rows alone preserve the invariant.                    *)

(* A request that starts finds a PENDING row, one that goes on keeps it       *)
(* (execute, isFinalized).                                                    *)
LEMMA QuietStages ==
  ASSUME IInv, IInv', SerialInv, quiet
  PROVE  StagesOK'
  <1> USE SetsAssumption DEF IInv, quiet
  <1> SUFFICES ASSUME NEW w \in Workers, busy(w)'
               PROVE  /\ pc'[w] \in PayerSteps \cup {"apply"} => row(w)'.status = "PENDING"
                      /\ pc'[w] \in {"decrement", "assign"} => row(w)'.status = "APPROVED"
                      /\ pc'[w] = "decrement" => taken'[target'[w]] = 0
    BY DEF StagesOK, busy, ApplySteps
  <1>1. CASE UNCHANGED <<pc[w], target[w], outcome[w]>>
    BY <1>1 DEF SerialInv, StagesOK, row
  <1>2. CASE /\ pc[w] \in PayerSteps /\ target'[w] = target[w]
             /\ pc'[w] \in PayerSteps \cup {"apply"}
    <2>1. row(w).status = "PENDING"
      BY <1>2 DEF SerialInv, StagesOK
    <2> QED
      BY <1>2, <2>1 DEF row, PayerSteps
  <1>3. CASE /\ pc'[w] \in {"customer", "apply"}
             /\ target'[w] \in Transactions /\ transactions[target'[w]] # Null
             /\ ~isFinalized(transactions[target'[w]])
    <2>1. transactions[target'[w]].status = "PENDING"
      BY <1>3, PendingOrFinal DEF isFinalized, TypeOK, Rows
    <2> QED
      BY <1>3, <2>1 DEF row, PayerSteps
  <1> QED
    BY <1>1, <1>2, <1>3 DEF movesOn

(* A row is never deleted, and a 200 about a charge comes after its decision  *)
(* (HandlePaymentWebhookUseCase.execute).                                     *)
LEMMA QuietEvents ==
  ASSUME IInv, IInv', SerialInv, quiet
  PROVE  EventsOK'
  <1> USE SetsAssumption DEF IInv, quiet
  <1>1. \A c \in Payers : charges'[c] # Null => transactions'[charges'[c].tx] # Null
    BY DEF keepsCharges, SerialInv, EventsOK
  <1>2. ASSUME NEW h \in Hooks, pc'[h] \in ApplySteps
        PROVE  carriesDecision(h)'
    <2>1. h \in Workers /\ h \notin Payers /\ movesOn(h)
      BY DEF Workers
    <2>2. CASE UNCHANGED <<pc[h], target[h], outcome[h]>>
      BY <1>2, <2>2 DEF SerialInv, EventsOK, carriesDecision, keepsCharges
    <2> QED
      BY <1>2, <2>1, <2>2 DEF movesOn, busy
  <1>3. ASSUME NEW c \in acked'
        PROVE  finalised(c)'
    <2>1. c \in Payers /\ finalised(c)
      BY <1>3 DEF TypeOK, SerialInv, EventsOK, AckedIsFinal
    <2> QED
      BY <2>1 DEF finalised, keepsCharges
  <1> QED
    BY <1>1, <1>2, <1>3 DEF EventsOK, AckedIsFinal

(* Together with rows and answers, which such a step cannot falsify.          *)
LEMMA QuietKeeps ==
  ASSUME IInv, IInv', SerialInv, quiet, oneAtATime'
  PROVE  SerialInv'
  <1>1. RowsOK'
    BY DEF SerialInv, RowsOK, quiet
  <1>2. AnswersOK'
    BY DEF SerialInv, AnswersOK, RestoredResult, getTransaction, quiet, keepsWord, isFinalStatus
  <1> QED
    BY <1>1, <1>2, QuietStages, QuietEvents DEF SerialInv

-----------------------------------------------------------------------------
(* The three steps that write: they find the row as their request left it,    *)
(* and no other request is working on it.                                     *)

(* The request that takes a step of fulfilment ends or goes on; the others    *)
(* stay where they are, and work on other transactions.                       *)
LEMMA OthersStay ==
  ASSUME IInv, SerialInv, NEW w \in Workers, NEW next \in {"decrement", "assign"},
         pc[w] \in ApplySteps,
         \/ \E a \in Replies : finish(w, a)
         \/ goto(w, next) /\ UNCHANGED <<acked, target, outcome, attempt, reply>>
  PROVE  /\ \A v \in Workers : v # w =>
              /\ UNCHANGED <<pc[v], target[v], outcome[v]>>
              /\ busy(v) => target[v] # target[w]
         /\ \A p \in Payers : p # w => UNCHANGED <<target[p], reply[p]>>
         /\ \/ ~busy(w)'
            \/ pc'[w] = next /\ UNCHANGED <<target, outcome, reply, acked>>
         /\ \A c \in acked' : c \in acked \/ (w \in Hooks /\ c = outcome[w].gatewayId)
         /\ target[w] \in Transactions /\ transactions[target[w]] \in Rows
         /\ outcome[w] \in Outcomes
  <1> USE SetsAssumption DEF IInv
  <1>1. busy(w) /\ target[w] \in Transactions /\ transactions[target[w]] \in Rows
        /\ outcome[w] \in Outcomes
    BY DEF busy, TypeOK, JobsOK
  <1>2. \A v \in Workers : v # w => (busy(v) => target[v] # target[w])
    BY <1>1 DEF SerialInv, oneAtATime
  <1>3. ASSUME NEW a \in Replies, finish(w, a)
        PROVE  /\ \A v \in Workers : v # w => UNCHANGED <<pc[v], target[v], outcome[v]>>
               /\ \A p \in Payers : p # w => UNCHANGED <<target[p], reply[p]>>
               /\ ~busy(w)'
               /\ \A c \in acked' : c \in acked \/ (w \in Hooks /\ c = outcome[w].gatewayId)
    BY <1>3, FinishEffect, FinishAnswer DEF TypeOK, busy, PayerSteps, ApplySteps, Workers
  <1>4. CASE goto(w, next) /\ UNCHANGED <<acked, target, outcome, attempt, reply>>
    BY <1>1, <1>2, <1>4 DEF goto, TypeOK
  <1> QED
    BY <1>1, <1>2, <1>3, <1>4

(* Decided once: the row was PENDING (updateStatus).                          *)
LEMMA ApplyKeeps ==
  ASSUME IInv, IInv', SerialInv, NEW w \in Workers, apply(w), oneAtATime'
  PROVE  SerialInv'
  <1> USE SetsAssumption DEF IInv
  <1> DEFINE t == target[w]
  <1>1. pc[w] = "apply" /\ pc[w] \in ApplySteps
    BY DEF apply, ApplySteps
  <1>2. outcome[w].status \in Replies
    BY <1>1 DEF TypeOK, JobsOK, Outcomes, Replies
  <1>3. \/ \E a \in Replies : finish(w, a)
        \/ goto(w, "decrement") /\ UNCHANGED <<acked, target, outcome, attempt, reply>>
    BY <1>2, ErrorCodes, ReturnedRowDecides
  <1>4. /\ \A v \in Workers : v # w =>
             /\ UNCHANGED <<pc[v], target[v], outcome[v]>>
             /\ busy(v) => target[v] # t
        /\ \A p \in Payers : p # w => UNCHANGED <<target[p], reply[p]>>
        /\ ~busy(w)' \/ (pc'[w] = "decrement" /\ UNCHANGED <<target, outcome, reply, acked>>)
        /\ t \in Transactions /\ transactions[t] \in Rows /\ outcome[w] \in Outcomes
        /\ \A c \in acked' : c \in acked \/ (w \in Hooks /\ c = outcome[w].gatewayId)
    BY <1>1, <1>3, OthersStay
  <1>5. /\ transactions' = [transactions EXCEPT ![t] = updatedRow(transactions[t], outcome[w])]
        /\ UNCHANGED <<deliveries, charges, taken>>
    BY ReturnedRowDecides DEF apply
  <1>6. /\ transactions'[t] # Null /\ transactions'[t].status = outcome[w].status
        /\ \A u \in Transactions : u # t => transactions'[u] = transactions[u]
    <2>1. /\ updatedRow(transactions[t], outcome[w]) \in Rows
          /\ updatedRow(transactions[t], outcome[w]).status = outcome[w].status
      BY <1>4 DEF updatedRow, orKeep, Rows, Outcomes
    <2> QED
      BY <1>4, <1>5, <2>1 DEF TypeOK
  <1>7. transactions[t].status = "PENDING" /\ taken[t] = 0 /\ deliveries[t] # "ASSIGNED"
    BY <1>1, <1>4 DEF SerialInv, StagesOK, RowsOK, row
  <1>8. RowsOK'
    BY <1>5, <1>6, <1>7 DEF SerialInv, RowsOK
  <1>9. StagesOK'
    <2> SUFFICES ASSUME NEW v \in Workers, busy(v)'
                 PROVE  /\ pc'[v] \in PayerSteps \cup {"apply"} => row(v)'.status = "PENDING"
                        /\ pc'[v] \in {"decrement", "assign"} => row(v)'.status = "APPROVED"
                        /\ pc'[v] = "decrement" => taken'[target'[v]] = 0
      BY DEF StagesOK, busy, ApplySteps
    <2>1. CASE v # w
      <3>1. busy(v) /\ target[v] \in Transactions /\ target[v] # t
        BY <1>4, <2>1 DEF busy, TypeOK, JobsOK
      <3> QED
        BY <1>4, <1>5, <1>6, <2>1, <3>1 DEF SerialInv, StagesOK, row
    <2>2. CASE v = w
      <3>1. pc'[w] = "decrement" /\ target' = target /\ outcome' = outcome
        BY <1>4, <2>2
      <3>2. outcome[w].status = "APPROVED"
        BY <3>1 DEF ApprovalsOK, wasApproved
      <3> QED
        BY <1>5, <1>6, <1>7, <2>2, <3>1, <3>2 DEF row, PayerSteps
    <2> QED
      BY <2>1, <2>2
  <1>10. AnswersOK'
    <2>1. ASSUME NEW p \in Payers, p # w
          PROVE  /\ pc'[p] # "done" => reply'[p] = "none"
                 /\ isFinalStatus(reply'[p]) => getTransaction(target[p])' = reply'[p]
      <3>1. p \in Workers /\ UNCHANGED <<pc[p], target[p], reply[p]>>
        BY <1>4, <2>1 DEF Workers
      <3>2. isFinalStatus(reply[p]) => getTransaction(target[p]) = reply[p]
        BY DEF SerialInv, AnswersOK, RestoredResult
      <3>3. isFinalStatus(reply[p]) => target[p] # t
        BY <1>4, <1>7, <3>2 DEF getTransaction, isFinalStatus, FinalStatuses
      <3>4. target[p] # t => getTransaction(target[p])' = getTransaction(target[p])
        BY <1>5, <3>1 DEF getTransaction
      <3> QED
        BY <3>1, <3>2, <3>3, <3>4 DEF SerialInv, AnswersOK
    <2>2. ASSUME w \in Payers
          PROVE  /\ pc'[w] # "done" => reply'[w] = "none"
                 /\ isFinalStatus(reply'[w]) => getTransaction(target[w])' = reply'[w]
      <3>1. CASE finish(w, "PERSISTENCE_ERROR")
        BY <1>1, <2>2, <3>1, ErrorCodes, FinishEffect, FinishAnswer, FailuresAreNot200
        DEF isFinalStatus, TypeOK
      <3>2. CASE finish(w, outcome[w].status)
        BY <1>1, <1>2, <1>6, <2>2, <3>2, FinishEffect, FinishAnswer DEF getTransaction, TypeOK
      <3>3. CASE goto(w, "decrement") /\ UNCHANGED <<target, reply>>
        <4>1. reply'[w] = "none" /\ ~isFinalStatus("none")
          BY <1>1, <2>2, <3>3 DEF SerialInv, AnswersOK, isFinalStatus, FinalStatuses
        <4> QED
          BY <4>1
      <3> QED
        BY <3>1, <3>2, <3>3, ReturnedRowDecides
    <2> QED
      BY <2>1, <2>2 DEF AnswersOK, RestoredResult
  <1>11. EventsOK'
    <2>1. \A c \in Payers : charges'[c] # Null => transactions'[charges'[c].tx] # Null
      BY <1>5, <1>6 DEF SerialInv, EventsOK, TypeOK, Charges
    <2>2. ASSUME NEW h \in Hooks, pc'[h] \in ApplySteps
          PROVE  carriesDecision(h)'
      BY <1>1, <1>4, <1>5, <2>2
      DEF SerialInv, EventsOK, carriesDecision, busy, Workers
    <2>3. ASSUME NEW c \in acked'
          PROVE  finalised(c)'
      <3>1. CASE c \in acked
        <4>1. finalised(c) /\ charges[c].tx # t /\ charges[c].tx \in Transactions
          BY <1>7, <3>1 DEF SerialInv, EventsOK, AckedIsFinal, finalised, isFinalStatus,
             FinalStatuses, TypeOK, Charges
        <4> QED
          BY <1>5, <1>6, <4>1 DEF finalised
      <3>2. CASE w \in Hooks /\ c = outcome[w].gatewayId
        BY <1>1, <1>5, <1>6, <3>2 DEF SerialInv, EventsOK, carriesDecision, finalised
      <3> QED
        BY <1>4, <3>1, <3>2
    <2> QED
      BY <2>1, <2>2, <2>3 DEF EventsOK, AckedIsFinal
  <1> QED
    BY <1>8, <1>9, <1>10, <1>11 DEF SerialInv

(* Past the decision a request does not touch the row, so what its client and *)
(* the gateway hear is what the row says (fulfill).                           *)
LEMMA FulfilKeepsWord ==
  ASSUME IInv, IInv', SerialInv, NEW w \in Workers, NEW next \in {"decrement", "assign"},
         pc[w] \in {"decrement", "assign"},
         UNCHANGED <<transactions, charges>>,
         \/ finish(w, "PERSISTENCE_ERROR")
         \/ finish(w, outcome[w].status)
         \/ goto(w, next) /\ UNCHANGED <<acked, target, outcome, attempt, reply>>
  PROVE  AnswersOK' /\ EventsOK'
  <1> USE SetsAssumption DEF IInv
  <1> DEFINE t == target[w]
  <1>1. pc[w] \in ApplySteps /\ outcome[w].status = "APPROVED" /\ row(w).status = "APPROVED"
    BY DEF ApplySteps, ApprovalsOK, wasApproved, SerialInv, StagesOK
  <1>2. outcome[w].status \in Replies
    BY <1>1 DEF Replies, TransactionStatusEnum
  <1>3. /\ \A v \in Workers : v # w => UNCHANGED <<pc[v], target[v], outcome[v]>>
        /\ \A p \in Payers : p # w => UNCHANGED <<target[p], reply[p]>>
        /\ ~busy(w)' \/ (pc'[w] = next /\ UNCHANGED <<target, outcome, reply, acked>>)
        /\ t \in Transactions /\ transactions[t] \in Rows
        /\ \A c \in acked' : c \in acked \/ (w \in Hooks /\ c = outcome[w].gatewayId)
    BY <1>1, <1>2, ErrorCodes, OthersStay
  <1>4. AnswersOK'
    <2>1. ASSUME NEW p \in Payers, p # w
          PROVE  /\ pc'[p] # "done" => reply'[p] = "none"
                 /\ isFinalStatus(reply'[p]) => getTransaction(target[p])' = reply'[p]
      BY <1>3, <2>1 DEF Workers, SerialInv, AnswersOK, RestoredResult, getTransaction
    <2>2. ASSUME w \in Payers
          PROVE  /\ pc'[w] # "done" => reply'[w] = "none"
                 /\ isFinalStatus(reply'[w]) => getTransaction(target[w])' = reply'[w]
      <3>1. CASE finish(w, "PERSISTENCE_ERROR")
        BY <1>1, <2>2, <3>1, ErrorCodes, FinishEffect, FinishAnswer, FailuresAreNot200
        DEF isFinalStatus, TypeOK
      <3>2. CASE finish(w, outcome[w].status)
        BY <1>1, <1>2, <1>3, <2>2, <3>2, FinishEffect, FinishAnswer DEF getTransaction, row, TypeOK
      <3>3. CASE goto(w, next) /\ UNCHANGED <<target, reply>>
        <4>1. reply'[w] = "none" /\ ~isFinalStatus("none")
          BY <1>1, <2>2, <3>3 DEF SerialInv, AnswersOK, isFinalStatus, FinalStatuses
        <4> QED
          BY <4>1
      <3> QED
        BY <3>1, <3>2, <3>3
    <2> QED
      BY <2>1, <2>2 DEF AnswersOK, RestoredResult
  <1>5. EventsOK'
    <2>1. \A c \in Payers : charges'[c] # Null => transactions'[charges'[c].tx] # Null
      BY DEF SerialInv, EventsOK
    <2>2. ASSUME NEW h \in Hooks, pc'[h] \in ApplySteps
          PROVE  carriesDecision(h)'
      BY <1>1, <1>3, <2>2 DEF SerialInv, EventsOK, carriesDecision, busy, Workers
    <2>3. ASSUME NEW c \in acked'
          PROVE  finalised(c)'
      <3>1. CASE c \in acked
        BY <3>1 DEF SerialInv, EventsOK, AckedIsFinal, finalised
      <3>2. CASE w \in Hooks /\ c = outcome[w].gatewayId
        BY <1>1, <1>3, <3>2
        DEF SerialInv, EventsOK, carriesDecision, finalised, row, isFinalStatus, FinalStatuses
      <3> QED
        BY <1>3, <3>1, <3>2
    <2> QED
      BY <2>1, <2>2, <2>3 DEF EventsOK, AckedIsFinal
  <1> QED
    BY <1>4, <1>5

(* Taken once: no request has taken the units of this approval before         *)
(* (decrementStock).                                                          *)
LEMMA DecrementKeeps ==
  ASSUME IInv, IInv', SerialInv, NEW w \in Workers, decrementStock(w), oneAtATime'
  PROVE  SerialInv'
  <1> USE SetsAssumption DEF IInv
  <1> DEFINE t == target[w]
  <1>1. /\ pc[w] = "decrement" /\ pc[w] \in ApplySteps
        /\ row(w).status = "APPROVED" /\ taken[t] = 0
    BY DEF decrementStock, ApplySteps, SerialInv, StagesOK
  <1>2. /\ UNCHANGED <<transactions, deliveries, charges>>
        /\ taken' = [taken EXCEPT ![t] = @ + 1]
        /\ \/ finish(w, "PERSISTENCE_ERROR")
           \/ goto(w, "assign") /\ UNCHANGED <<acked, target, outcome, attempt, reply>>
    BY DEF decrementStock
  <1>3. /\ \A v \in Workers : v # w =>
             /\ UNCHANGED <<pc[v], target[v], outcome[v]>>
             /\ busy(v) => target[v] # t
        /\ ~busy(w)' \/ (pc'[w] = "assign" /\ UNCHANGED <<target, outcome, reply, acked>>)
        /\ t \in Transactions /\ transactions[t] \in Rows
    BY <1>1, <1>2, ErrorCodes, OthersStay
  <1>4. taken'[t] = 1 /\ \A u \in Transactions : u # t => taken'[u] = taken[u]
    BY <1>1, <1>2, <1>3 DEF TypeOK
  <1>5. RowsOK'
    BY <1>1, <1>2, <1>3, <1>4 DEF SerialInv, RowsOK, row
  <1>6. StagesOK'
    <2> SUFFICES ASSUME NEW v \in Workers, busy(v)'
                 PROVE  /\ pc'[v] \in PayerSteps \cup {"apply"} => row(v)'.status = "PENDING"
                        /\ pc'[v] \in {"decrement", "assign"} => row(v)'.status = "APPROVED"
                        /\ pc'[v] = "decrement" => taken'[target'[v]] = 0
      BY DEF StagesOK, busy, ApplySteps
    <2>1. CASE v # w
      <3>1. busy(v) /\ target[v] \in Transactions /\ target[v] # t
        BY <1>3, <2>1 DEF busy, TypeOK, JobsOK
      <3> QED
        BY <1>2, <1>3, <1>4, <2>1, <3>1 DEF SerialInv, StagesOK, row
    <2>2. CASE v = w
      BY <1>1, <1>2, <1>3, <2>2 DEF row, PayerSteps
    <2> QED
      BY <2>1, <2>2
  <1>7. AnswersOK' /\ EventsOK'
    BY <1>1, <1>2, FulfilKeepsWord
  <1> QED
    BY <1>5, <1>6, <1>7 DEF SerialInv

(* Shipped after its units were taken (assign).                               *)
LEMMA AssignKeeps ==
  ASSUME IInv, IInv', SerialInv, NEW w \in Workers, assignDelivery(w), oneAtATime'
  PROVE  SerialInv'
  <1> USE SetsAssumption DEF IInv
  <1> DEFINE t == target[w]
  <1>1. /\ pc[w] = "assign" /\ pc[w] \in ApplySteps
        /\ taken[t] > 0 /\ outcome[w].status \in Replies
    BY DEF assignDelivery, ApplySteps, ApprovalsOK, TypeOK, JobsOK, Outcomes, Replies
  <1>2. /\ UNCHANGED <<transactions, taken, charges>>
        /\ deliveries' = [deliveries EXCEPT ![t] = "ASSIGNED"]
        /\ finish(w, outcome[w].status) \/ finish(w, "PERSISTENCE_ERROR")
    BY DEF assignDelivery
  <1>3. /\ \A v \in Workers : v # w => UNCHANGED <<pc[v], target[v], outcome[v]>>
        /\ ~busy(w)' \/ (pc'[w] = "assign" /\ UNCHANGED <<target, outcome, reply, acked>>)
        /\ t \in Transactions
    BY <1>1, <1>2, ErrorCodes, OthersStay
  <1>4. taken[t] = 1
    BY <1>1, <1>3 DEF SerialInv, RowsOK
  <1>5. RowsOK'
    BY <1>2, <1>3, <1>4 DEF SerialInv, RowsOK, TypeOK
  <1>6. StagesOK'
    <2> SUFFICES ASSUME NEW v \in Workers, busy(v)'
                 PROVE  /\ pc'[v] \in PayerSteps \cup {"apply"} => row(v)'.status = "PENDING"
                        /\ pc'[v] \in {"decrement", "assign"} => row(v)'.status = "APPROVED"
                        /\ pc'[v] = "decrement" => taken'[target'[v]] = 0
      BY DEF StagesOK, busy, ApplySteps
    <2>1. CASE v # w
      BY <1>2, <1>3, <2>1 DEF SerialInv, StagesOK, row, busy
    <2>2. CASE v = w
      BY <1>1, <1>2, <1>3, <2>2 DEF SerialInv, StagesOK, row, PayerSteps
    <2> QED
      BY <2>1, <2>2
  <1>7. AnswersOK' /\ EventsOK'
    BY <1>1, <1>2, FulfilKeepsWord
  <1> QED
    BY <1>5, <1>6, <1>7 DEF SerialInv

-----------------------------------------------------------------------------
(* The inductive invariant of the serial protocol.                            *)

(* Every step of TransactionFulfillmentService preserves it.                  *)
LEMMA FulfilKeeps ==
  ASSUME IInv, IInv', SerialInv, NEW w \in Workers, fulfil(w), oneAtATime'
  PROVE  SerialInv'
  <1>1. CASE applyFails(w) \/ decrementFails(w) \/ assignFails(w)
    BY <1>1, FailIsQuiet, QuietKeeps DEF applyFails, decrementFails, assignFails, ApplySteps
  <1>2. CASE apply(w)
    BY <1>2, ApplyKeeps
  <1>3. CASE decrementStock(w)
    BY <1>3, DecrementKeeps
  <1>4. CASE assignDelivery(w)
    BY <1>4, AssignKeeps
  <1> QED
    BY <1>1, <1>2, <1>3, <1>4 DEF fulfil

(* Checkout leaves PENDING rows and no request (Init).                        *)
LEMMA InitSerialInv == Init => SerialInv
  <1> SUFFICES ASSUME Init PROVE SerialInv
    OBVIOUS
  <1>1. oneAtATime
    BY DEF Init, oneAtATime, busy, PayerSteps, ApplySteps
  <1>2. RowsOK
    BY SetsAssumption DEF Init, RowsOK, DeliveryStatusEnum
  <1>3. StagesOK
    BY DEF Init, StagesOK, PayerSteps
  <1>4. AnswersOK
    BY DEF Init, AnswersOK, RestoredResult, isFinalStatus, FinalStatuses
  <1>5. EventsOK
    BY DEF Init, EventsOK, ApplySteps, AckedIsFinal, Workers
  <1> QED
    BY <1>1, <1>2, <1>3, <1>4, <1>5 DEF SerialInv

(* A step is a write of fulfilment or leaves the rows alone (Next).           *)
LEMMA StepKinds ==
  ASSUME IInv, SerialInv, [Next]_vars \/ stopRequests
  PROVE  quiet \/ \E w \in Workers : fulfil(w)
  <1> SUFFICES ASSUME \A w \in Workers : ~fulfil(w) PROVE quiet
    OBVIOUS
  <1>1. ASSUME NEW p \in Payers, startPayment(p) PROVE quiet
    BY <1>1, StartIsQuiet
  <1>2. ASSUME NEW p \in Payers, payerStep(p) PROVE quiet
    BY <1>2, PayerIsQuiet DEF Workers
  <1>3. ASSUME NEW h \in Hooks, NEW e \in Events, receive(h, e) PROVE quiet
    BY <1>3, EventIsQuiet
  <1>4. CASE stopRequests \/ \E c \in Payers : settle(c)
    BY <1>4, EnvironmentIsQuiet
  <1>5. CASE UNCHANGED vars
    BY <1>5 DEF vars, database, gateway, requests, quiet, movesOn, keepsWord, keepsCharges
  <1> QED
    BY <1>1, <1>2, <1>3, <1>4, <1>5 DEF Next, crash, Workers

(* A step after which no two requests about one transaction are under way,    *)
(* and the end of the process, preserve it.                                   *)
LEMMA OrderedKeeps ==
  ASSUME IInv, IInv', SerialInv, [Next]_vars \/ stopRequests, oneAtATime'
  PROVE  SerialInv'
  BY StepKinds, QuietKeeps, FulfilKeeps

(* Every step of the protocol without overlapping requests preserves it.      *)
LEMMA NextSerialInv ==
  IInv /\ IInv' /\ SerialInv /\ [SerialNext]_vars => SerialInv'
  <1> SUFFICES ASSUME IInv, IInv', SerialInv, [SerialNext]_vars PROVE SerialInv'
    OBVIOUS
  <1>1. oneAtATime'
    BY DEF SerialNext, SerialInv, oneAtATime, busy, vars, requests
  <1> QED
    BY <1>1, OrderedKeeps DEF SerialNext

(* The inductive invariant holds in every state of the serial protocol.       *)
THEOREM SerialInductive == SerialSpec => [](IInv /\ SerialInv)
  <1>1. [SerialNext]_vars => [Next]_vars
    BY DEF SerialNext
  <1>2. IInv /\ SerialInv /\ [SerialNext]_vars => (IInv /\ SerialInv)'
    BY <1>1, NextIInv, NextSerialInv
  <1> QED
    BY <1>2, InitIInv, InitSerialInv, PTL DEF SerialSpec

-----------------------------------------------------------------------------
(* What the documentation promises.                                           *)

(* The stock of a product pays for a transaction at most once (README,        *)
(* "applied exactly once").                                                   *)
THEOREM SerialAppliedOnce == SerialSpec => []AppliedOnce
  <1>1. SerialInv => AppliedOnce
    BY DEF SerialInv, RowsOK, AppliedOnce
  <1> QED
    BY <1>1, SerialInductive, PTL

(* The gateway is told to stop repeating an event only when nothing is left   *)
(* to do about it (HandlePaymentWebhookUseCase.execute).                      *)
THEOREM SerialAckedIsFinal == SerialSpec => []AckedIsFinal
  <1>1. SerialInv => AckedIsFinal
    BY DEF SerialInv, EventsOK
  <1> QED
    BY <1>1, SerialInductive, PTL

(* A shopper who reloads the page reads the status the payment was answered   *)
(* with (GetTransactionUseCase).                                              *)
THEOREM SerialRestoredResult == SerialSpec => []RestoredResult
  <1>1. SerialInv => RestoredResult
    BY DEF SerialInv, AnswersOK
  <1> QED
    BY <1>1, SerialInductive, PTL

(* What updateStatus writes, and where: a status over PENDING.                *)
LEMMA OnlyPendingIsWritten ==
  ASSUME IInv, SerialInv, NEW w \in Workers, apply(w)
  PROVE  \E t \in Transactions, r \in Rows :
           /\ transactions[t] # Null /\ transactions[t].status = "PENDING"
           /\ transactions' = [transactions EXCEPT ![t] = r]
           /\ UNCHANGED <<deliveries, taken>>
  <1> DEFINE t == target[w]
  <1>1. /\ t \in Transactions /\ transactions[t] # Null /\ transactions[t] \in Rows
        /\ outcome[w] \in Outcomes
        /\ transactions[t].status = "PENDING"
    BY ReturnedRowDecides, SetsAssumption DEF IInv, SerialInv, StagesOK, row
  <1>2. updatedRow(transactions[t], outcome[w]) \in Rows
    BY <1>1 DEF updatedRow, orKeep, Rows, Outcomes
  <1>3. /\ transactions' = [transactions EXCEPT ![t] = updatedRow(transactions[t], outcome[w])]
        /\ UNCHANGED <<deliveries, taken>>
    BY ReturnedRowDecides DEF IInv, apply
  <1> QED
    BY <1>1, <1>2, <1>3

(* The only step that changes a row changes a PENDING one.                    *)
LEMMA FinalStays ==
  ASSUME IInv, SerialInv, [Next]_vars \/ stopRequests, NEW t \in Transactions,
         transactions[t] # Null, isFinalStatus(transactions[t].status)
  PROVE  transactions'[t] = transactions[t]
  <1>1. CASE quiet
    BY <1>1 DEF quiet
  <1>2. ASSUME NEW w \in Workers, fulfil(w), ~apply(w)
        PROVE  transactions'[t] = transactions[t]
    BY <1>2 DEF fulfil, applyFails, decrementFails, decrementStock, assignFails, assignDelivery,
       database
  <1>3. ASSUME NEW w \in Workers, apply(w)
        PROVE  transactions'[t] = transactions[t]
    <2>1. PICK u \in Transactions, r \in Rows :
            /\ transactions[u].status = "PENDING"
            /\ transactions' = [transactions EXCEPT ![u] = r]
      BY <1>3, OnlyPendingIsWritten
    <2>2. u # t
      BY <2>1 DEF isFinalStatus, FinalStatuses
    <2> QED
      BY <2>1, <2>2 DEF IInv, TypeOK
  <1> QED
    BY <1>1, <1>2, <1>3, StepKinds

(* A final transaction is never changed again (transaction.model.ts,          *)
(* isFinalized).                                                              *)
THEOREM SerialFinalIsFinal == SerialSpec => FinalIsFinal
  <1>1. IInv /\ SerialInv /\ [SerialNext]_vars =>
          [\A t \in Transactions :
             transactions[t] # Null /\ isFinalStatus(transactions[t].status)
               => transactions'[t] = transactions[t]]_vars
    BY FinalStays DEF SerialNext
  <1> QED
    BY <1>1, SerialInductive, PTL DEF SerialSpec, FinalIsFinal

-----------------------------------------------------------------------------
(* The protocol implements the lifecycle the README draws.                    *)

(* Checkout leaves every transaction undecided, its units untaken (Init).     *)
LEMMA InitRefines == Init => Lifecycle!Init
  <1> SUFFICES ASSUME Init PROVE Lifecycle!Init
    OBVIOUS
  <1>1. \A t \in Transactions :
          IF transactions[t] = Null THEN TRUE ELSE transactions[t].status = "PENDING"
    BY DEF Init, checkedOut, pendingRow
  <1>2. \A t \in Transactions : deliveries[t] # "ASSIGNED"
    BY SetsAssumption DEF Init, DeliveryStatusEnum
  <1> QED
    BY <1>1, <1>2 DEF Lifecycle!Init, Init

(* apply decides, decrementStock takes the units, assignDelivery ships, and   *)
(* nothing else shows.                                                        *)
LEMMA StepRefines ==
  ASSUME IInv, SerialInv, [Next]_vars \/ stopRequests
  PROVE  Lifecycle!Next \/ UNCHANGED Lifecycle!vars
  <1> USE SetsAssumption DEF IInv
  <1>1. CASE UNCHANGED <<transactions, deliveries, taken>>
    BY <1>1 DEF Lifecycle!vars
  <1>2. ASSUME NEW w \in Workers, apply(w)
        PROVE  Lifecycle!Next \/ UNCHANGED Lifecycle!vars
    <2>1. PICK t \in Transactions, r \in Rows :
            /\ transactions[t] # Null /\ transactions[t].status = "PENDING"
            /\ transactions' = [transactions EXCEPT ![t] = r]
            /\ UNCHANGED <<deliveries, taken>>
      BY <1>2, OnlyPendingIsWritten
    <2>2. transactions'[t] = r /\ r # Null
          /\ \A u \in Transactions : u # t => transactions'[u] = transactions[u]
      BY <2>1 DEF TypeOK
    <2>3. CASE r.status = "PENDING"
      BY <2>1, <2>2, <2>3 DEF Lifecycle!vars
    <2>4. CASE r.status \in FinalStatuses
      <3> DEFINE seen(e) == IF e = Null THEN "ABSENT" ELSE e.status
      <3>1. [u \in Transactions |-> seen(transactions'[u])] =
              [[u \in Transactions |-> seen(transactions[u])] EXCEPT ![t] = r.status]
        BY <2>2
      <3>2. deliveries' = deliveries /\ taken' = taken /\ r.status \in Lifecycle!FinalStatuses
        BY <2>1, <2>4 DEF Lifecycle!FinalStatuses, FinalStatuses
      <3>3. Lifecycle!Decide(t)
        BY <2>1, <3>1, <3>2 DEF Lifecycle!Decide
      <3> QED
        BY <3>3 DEF Lifecycle!Next
    <2> QED
      BY <2>3, <2>4 DEF Rows, TransactionStatusEnum, FinalStatuses
  <1>3. ASSUME NEW w \in Workers, decrementStock(w)
        PROVE  Lifecycle!Next
    <2>1. /\ target[w] \in Transactions /\ transactions[target[w]] # Null
          /\ transactions[target[w]].status = "APPROVED" /\ taken[target[w]] = 0
      BY <1>3 DEF decrementStock, TypeOK, JobsOK, busy, ApplySteps, SerialInv, StagesOK, row
    <2>2. taken' = [taken EXCEPT ![target[w]] = 1]
      BY <1>3, <2>1 DEF decrementStock, TypeOK
    <2> QED
      BY <1>3, <2>1, <2>2 DEF decrementStock, Lifecycle!Next, Lifecycle!TakeUnits
  <1>4. ASSUME NEW w \in Workers, assignDelivery(w)
        PROVE  Lifecycle!Next
    <2>1. target[w] \in Transactions /\ taken[target[w]] = 1
      BY <1>4 DEF assignDelivery, TypeOK, JobsOK, busy, ApplySteps, ApprovalsOK, SerialInv, RowsOK
    <2>2. deliveries' = [deliveries EXCEPT ![target[w]] = "ASSIGNED"]
          /\ UNCHANGED <<transactions, taken>>
      BY <1>4 DEF assignDelivery
    <2>3. {t \in Transactions : deliveries'[t] = "ASSIGNED"} =
            {t \in Transactions : deliveries[t] = "ASSIGNED"} \cup {target[w]}
      BY <2>1, <2>2 DEF TypeOK
    <2> QED
      BY <2>1, <2>2, <2>3 DEF Lifecycle!Next, Lifecycle!Ship
  <1>5. ASSUME NEW w \in Workers, fulfil(w), ~apply(w), ~decrementStock(w), ~assignDelivery(w)
        PROVE  UNCHANGED <<transactions, deliveries, taken>>
    BY <1>5 DEF fulfil, applyFails, decrementFails, assignFails, database
  <1> QED
    BY <1>1, <1>2, <1>3, <1>4, <1>5, StepKinds DEF quiet

(* Without overlapping requests the code implements the transaction states of *)
(* the README, through every fault (ProcessPaymentUseCase,                    *)
(* HandlePaymentWebhookUseCase, TransactionFulfillmentService).               *)
THEOREM SerialImplementsLifecycle == SerialSpec => ImplementsLifecycle
  <1>1. IInv /\ SerialInv /\ [SerialNext]_vars => [Lifecycle!Next]_(Lifecycle!vars)
    BY StepRefines DEF SerialNext
  <1> QED
    BY <1>1, InitRefines, SerialInductive, PTL DEF SerialSpec, ImplementsLifecycle, Lifecycle!Spec

-----------------------------------------------------------------------------
(* An approval reaches the shopper, when the database does what it is asked   *)
(* and what checkout recorded fits the stock together.                        *)

(* The stock still holds the units of an approval that has not taken them:    *)
(* the others took no more than they asked for (decrementStock).              *)
LEMMA UnitsAreThere ==
  ASSUME IInv, SerialInv, StockInv, EnoughStock, NEW w \in Workers, pc[w] = "decrement"
  PROVE  hasStock(w)
  <1> USE SetsAssumption DEF IInv
  <1>0. target[w] \in Transactions /\ transactions[target[w]] \in Rows
    BY DEF TypeOK, JobsOK, busy, ApplySteps
  <1> PICK t \in Transactions, q \in Nat, b \in Products :
        /\ t = target[w] /\ transactions[t] # Null
        /\ q = transactions[t].quantity /\ b = transactions[t].product
    BY <1>0 DEF Rows
  <1>1. taken[t] = 0
    BY DEF SerialInv, StagesOK
  <1>2. ASSUME NEW u \in Transactions
        PROVE  /\ tookOf(b)[u] \in Int /\ asksOf(b)[u] \in Int
               /\ tookOf(b)[u] <= asksOf(b)[u]
    <2>1. transactions[u] # Null => transactions[u].quantity \in Nat
      BY DEF TypeOK, Rows
    <2>2. taken[u] = 0 \/ taken[u] = 1
      BY DEF SerialInv, RowsOK
    <2>3. \A n \in Nat : 0 * n = 0 /\ 1 * n = n
      OBVIOUS
    <2>4. transactions[u] # Null => taken[u] * transactions[u].quantity \in {0, transactions[u].quantity}
      BY <2>1, <2>2, <2>3
    <2> QED
      BY <2>1, <2>4 DEF tookOf, asksOf
  <1>3. tookOf(b)[t] = 0 /\ asksOf(b)[t] = q
    <2>1. \A n \in Nat : 0 * n = 0
      OBVIOUS
    <2>2. taken[t] * transactions[t].quantity = 0
      BY <1>1, <2>1
    <2> QED
      BY <2>2 DEF tookOf, asksOf
  <1> DEFINE took == tookOf(b)
             asks == asksOf(b)
  <1>4. /\ stock[b] + SumFunctionOnSet(took, Transactions) = InitialStock[b]
        /\ SumFunctionOnSet(asks, Transactions) <= InitialStock[b]
        /\ stock[b] \in Nat /\ InitialStock[b] \in Nat
    BY DEF StockInv, NeverOversold, unitsTaken, EnoughStock, TypeOK
  <1>5. /\ \A u \in Transactions : took[u] \in Int /\ asks[u] \in Int /\ took[u] <= asks[u]
        /\ took[t] = 0 /\ asks[t] = q
    BY <1>2, <1>3
  <1> HIDE DEF took, asks
  <1>6. /\ SumFunctionOnSet(took, Transactions) + asks[t]
             <= SumFunctionOnSet(asks, Transactions) + took[t]
        /\ SumFunctionOnSet(took, Transactions) \in Int
        /\ SumFunctionOnSet(asks, Transactions) \in Int
    <2>1. \A u \in Transactions : took[u] \in Int /\ asks[u] \in Int /\ took[u] <= asks[u]
      BY <1>5
    <2>2. SumFunctionOnSet(took, Transactions) \in Int /\ SumFunctionOnSet(asks, Transactions) \in Int
      BY ONLY <2>1, FiniteAssumption, SumStep
    <2>3. SumFunctionOnSet(took, Transactions) + asks[t]
             <= SumFunctionOnSet(asks, Transactions) + took[t]
      BY ONLY <2>1, FiniteAssumption, SumOrder
    <2> QED
      BY <2>2, <2>3
  <1>7. q <= stock[b]
    BY <1>4, <1>5, <1>6
  <1> QED
    BY <1>7 DEF hasStock, row, TypeOK

(* A request past its approval moves by its own steps only.                   *)
LEMMA OthersWait ==
  ASSUME IInv, [Next]_vars, WritesHold, NEW w \in Workers, pc[w] \in {"decrement", "assign"},
         ~fulfil(w)
  PROVE  UNCHANGED <<pc[w], target[w]>>
  <1> USE SetsAssumption DEF IInv
  <1>1. ASSUME NEW p \in Payers, startPayment(p)
        PROVE  UNCHANGED <<pc[w], target[w]>>
    BY <1>1 DEF startPayment, rejectPayment, loadPendingTransaction, goto, TypeOK
  <1>2. ASSUME NEW p \in Payers, payerStep(p), ~fulfil(p)
        PROVE  UNCHANGED <<pc[w], target[w]>>
    BY <1>2 DEF payerStep, findCustomer, respond, postCharge, chargeRefused, chargeThrows,
       chargeAnswered, pollUntilFinal, answerLost, answerMalformed, applyOutcome, goto, TypeOK
  <1>3. ASSUME NEW v \in Workers, fulfil(v)
        PROVE  UNCHANGED <<pc[w], target[w]>>
    BY <1>3 DEF fulfil, applyFails, apply, decrementFails, decrementStock, assignFails,
       assignDelivery, finish, respond, acknowledge, goto, TypeOK
  <1>4. ASSUME NEW h \in Hooks, NEW e \in Events, receive(h, e)
        PROVE  UNCHANGED <<pc[w], target[w]>>
    BY <1>4 DEF receive, rejectEvent, ignoreEvent, acceptEvent, applyOutcome, goto, TypeOK,
       vars, requests
  <1>5. ASSUME NEW c \in Payers, settle(c)
        PROVE  UNCHANGED <<pc[w], target[w]>>
    BY <1>5 DEF settle, requests
  <1>6. ~crash
    BY DEF WritesHold, crash, fault
  <1> QED
    BY <1>1, <1>2, <1>3, <1>4, <1>5, <1>6 DEF Next, vars, requests, Workers

(* Its own steps lead it to the end: nothing stops it on the way (fulfill).   *)
LEMMA FulfilArrives ==
  ASSUME IInv, SerialInv, StockInv, EnoughStock, WritesHold,
         NEW w \in Workers, fulfil(w), pc[w] \in {"decrement", "assign"},
         NEW t \in Transactions, t = target[w], deliveries[t] # Null
  PROVE  \/ fulfilled(t)'
         \/ pc'[w] = "assign" /\ target'[w] = t
  <1> USE SetsAssumption DEF IInv
  <1>1. transactions[t] # Null
    BY DEF TypeOK, JobsOK, busy, ApplySteps
  <1>2. CASE pc[w] = "decrement"
    <2>1. hasStock(w)
      BY <1>2, UnitsAreThere
    <2>2. decrementStock(w)
      BY <1>2, <2>1 DEF fulfil, applyFails, apply, decrementFails, assignFails, assignDelivery,
         WritesHold, fault
    <2> QED
      BY <2>2 DEF decrementStock, goto, TypeOK, WritesHold, fault
  <1>3. CASE pc[w] = "assign"
    <2>1. deliveries[t] # Null /\ taken[t] > 0
      BY <1>3 DEF ApprovalsOK
    <2>2. assignDelivery(w)
      BY <1>3, <2>1 DEF fulfil, applyFails, apply, decrementFails, decrementStock, assignFails,
         WritesHold, fault
    <2>3. deliveries'[t] = "ASSIGNED" /\ taken' = taken
      BY <1>1, <2>2 DEF assignDelivery, TypeOK
    <2> QED
      BY <2>1, <2>3 DEF fulfilled
  <1> QED
    BY <1>2, <1>3

(* An approval is written by the request that will fulfil it (apply).         *)
LEMMA ApprovalStarts ==
  ASSUME IInv, IInv', SerialInv, WritesHold, NEW w \in Workers, apply(w), NEW t \in Transactions,
         transactions'[t] # Null, transactions'[t].status = "APPROVED"
  PROVE  \/ transactions'[t] = transactions[t]
         \/ pc'[w] = "decrement" /\ target'[w] = t
  <1> USE SetsAssumption DEF IInv
  <1>1. CASE t = target[w]
    <2>1. transactions'[t].status = outcome[w].status
      BY <1>1, ReturnedRowDecides DEF TypeOK
    <2>2. goto(w, "decrement") /\ target' = target
      BY <1>1, <2>1, ReturnedRowDecides DEF wasApproved, WritesHold, fault
    <2> QED
      BY <1>1, <2>2 DEF goto, TypeOK
  <1>2. CASE t # target[w]
    BY <1>2 DEF apply, TypeOK
  <1> QED
    BY <1>1, <1>2

(* What was recorded at the start is all that is ever asked for.              *)
LEMMA AsksStay ==
  ASSUME IInv, [Next]_vars, EnoughStock
  PROVE  EnoughStock'
  <1>1. ASSUME NEW p \in Products PROVE asksOf(p)' = asksOf(p)
    BY RowsStay DEF asksOf
  <1> QED
    BY <1>1 DEF EnoughStock

(* An approval that has its units and its delivery keeps them, one that is    *)
(* under way gets them, and a new one sets out, if the rows and units it      *)
(* needs are there (fulfill).                                                 *)
LEMMA ApprovalsArrive ==
  ASSUME IInv, IInv', SerialInv, StockInv, WritesHold, EnoughStock, [Next]_vars,
         \A w \in Workers : busy(w) => deliveries[target[w]] # Null,
         \A t \in Transactions : approvalArrives(t)
  PROVE  \A t \in Transactions : approvalArrives(t)'
  <1>1. ASSUME NEW t \in Transactions, transactions[t] # Null, transactions[t].status = "APPROVED"
        PROVE  fulfilled(t)' \/ underway(t)'
    <2>1. CASE fulfilled(t)
      BY <2>1, FulfilmentStays DEF fulfilled
    <2>2. CASE underway(t)
      <3>1. PICK w \in Workers : pc[w] \in {"decrement", "assign"} /\ target[w] = t
        BY <2>2 DEF underway
      <3>2. CASE fulfil(w)
        <4>1. deliveries[t] # Null
          BY <3>1 DEF busy, ApplySteps
        <4> QED
          BY <3>1, <3>2, <4>1, FulfilArrives DEF underway
      <3>3. CASE ~fulfil(w)
        BY <3>1, <3>3, OthersWait DEF underway
      <3> QED
        BY <3>2, <3>3
    <2> QED
      BY <1>1, <2>1, <2>2 DEF approvalArrives
  <1>2. ASSUME NEW t \in Transactions, transactions'[t] # Null, transactions'[t].status = "APPROVED"
        PROVE  fulfilled(t)' \/ underway(t)'
    <2>1. CASE transactions'[t] = transactions[t]
      BY <1>1, <1>2, <2>1
    <2>2. CASE transactions'[t] # transactions[t]
      <3>1. PICK w \in Workers : apply(w)
        BY <2>2, StepKinds
        DEF quiet, fulfil, applyFails, decrementFails, decrementStock, assignFails, assignDelivery,
            database
      <3>2. pc'[w] = "decrement" /\ target'[w] = t
        BY <1>2, <2>2, <3>1, ApprovalStarts
      <3> QED
        BY <3>2 DEF underway
    <2> QED
      BY <2>1, <2>2
  <1> QED
    BY <1>2 DEF approvalArrives

(* So the invariant is kept.                                                  *)
LEMMA NextFulfilment ==
  IInv /\ IInv' /\ SerialInv /\ StockInv /\ WritesHold /\ FulfilmentInv /\ [SerialNext]_vars
    => FulfilmentInv'
  <1> SUFFICES ASSUME IInv, IInv', SerialInv, StockInv, WritesHold, FulfilmentInv, [SerialNext]_vars
               PROVE  FulfilmentInv'
    OBVIOUS
  <1>1. [Next]_vars
    BY DEF SerialNext
  <1>2. EnoughStock'
    BY <1>1, AsksStay DEF FulfilmentInv
  <1>3. \A t \in Transactions : transactions'[t] # Null => deliveries'[t] # Null
    BY <1>1, RowsStay DEF FulfilmentInv
  <1>4. \A w \in Workers : busy(w) => deliveries[target[w]] # Null
    BY DEF FulfilmentInv, IInv, TypeOK, JobsOK
  <1>5. \A t \in Transactions : approvalArrives(t)'
    BY <1>1, <1>4, ApprovalsArrive DEF FulfilmentInv
  <1> QED
    BY <1>2, <1>3, <1>5 DEF FulfilmentInv

(* When no database call fails, the process stays up and all that checkout    *)
(* recorded is in stock, an APPROVED transaction has its units and its        *)
(* delivery, or the request that approved it is still on the way to them      *)
(* (TransactionFulfillmentService.apply, fulfill).                            *)
THEOREM SerialFulfilment == SerialSpec /\ WritesHold /\ EnoughStock => []FulfilmentInv
  <1>1. Init /\ WritesHold /\ EnoughStock => FulfilmentInv
    BY SetsAssumption DEF Init, WritesHold, FulfilmentInv, approvalArrives, checkedOut, pendingRow,
       DeliveryStatusEnum
  <1>2. [SerialNext]_vars => [Next]_vars
    BY DEF SerialNext
  <1>3. IInv /\ SerialInv /\ StockInv /\ [SerialNext]_vars => (IInv /\ SerialInv /\ StockInv)'
    BY <1>2, NextIInv, NextSerialInv, NextStock
  <1>4. IInv /\ SerialInv /\ StockInv /\ WritesHold /\ FulfilmentInv /\ [SerialNext]_vars
          => FulfilmentInv'
    BY <1>3, NextFulfilment
  <1>5. WritesHold => WritesHold'
    BY DEF WritesHold
  <1> QED
    BY <1>1, <1>3, <1>4, <1>5, InitIInv, InitSerialInv, InitStock, PTL DEF SerialSpec

(* So no APPROVED transaction whose requests are over is left without its     *)
(* units and its delivery (README, transaction states; fulfill).              *)
THEOREM SerialApprovedIsFulfilled ==
  SerialSpec /\ WritesHold /\ EnoughStock => []ApprovedIsFulfilled
  <1>1. FulfilmentInv => ApprovedIsFulfilled
    BY DEF FulfilmentInv, approvalArrives, fulfilled, underway, ApprovedIsFulfilled,
       nobodyWorksOn, busy, ApplySteps
  <1> QED
    BY <1>1, SerialFulfilment, PTL
=============================================================================
