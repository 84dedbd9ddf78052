--------------------------- MODULE SerialPayments ---------------------------
(* The payment protocol when requests about one transaction do not overlap:   *)
(* the shopper pays once, and the gateway's event arrives after the answer.   *)
(* Requests about different transactions still interleave, share the stock    *)
(* and are killed together by a crash. This is the discipline under which the *)
(* code keeps what its documentation promises; nothing in the code enforces   *)
(* it.                                                                        *)
EXTENDS Payments

oneAtATime ==
  \A v, w \in Workers : busy(v) /\ busy(w) /\ target[v] = target[w] => v = w

SerialNext == Next /\ oneAtATime'

SerialSpec == Init /\ [][SerialNext]_vars

SerialRetryingSpec ==
  /\ SerialSpec
  /\ RequestFairness
  /\ \A c \in Payers : WF_vars(settle(c)) /\ SF_vars(announce(c) /\ oneAtATime')

(* What a transaction promises its shopper: the abstract lifecycle, seen      *)
(* through the row's status, the delivery row and the units taken.            *)
Lifecycle == INSTANCE TransactionLifecycle WITH
  status <- [t \in Transactions |->
               IF transactions[t] = Null THEN "ABSENT" ELSE transactions[t].status],
  units <- taken,
  shipped <- {t \in Transactions : deliveries[t] = "ASSIGNED"}

(* The serial protocol implements the lifecycle: one decision per             *)
(* transaction, units taken once and only after approval, shipped after that. *)
ImplementsLifecycle == Lifecycle!Spec

(* An acknowledged event is never needed again: whenever the gateway has been *)
(* answered with 200 about a charge of a recorded transaction, that           *)
(* transaction is final, so the retries it stopped were superfluous           *)
(* (HandlePaymentWebhookUseCase.execute).                                     *)
AckedIsFinal == \A c \in acked : finalised(c)

-----------------------------------------------------------------------------
(* What makes these properties inductive: a request that works on a           *)
(* transaction finds it as it left it.                                        *)

(* Units are taken once and for an approval, and shipped only then.           *)
RowsOK ==
  \A t \in Transactions :
    /\ taken[t] \in {0, 1}
    /\ taken[t] = 1 => transactions[t] # Null /\ transactions[t].status = "APPROVED"
    /\ deliveries[t] = "ASSIGNED" => taken[t] = 1

(* The row is PENDING until its request has written, and APPROVED after that. *)
StagesOK ==
  \A w \in Workers :
    /\ pc[w] \in PayerSteps \cup {"apply"} => row(w).status = "PENDING"
    /\ pc[w] \in {"decrement", "assign"} => row(w).status = "APPROVED"
    /\ pc[w] = "decrement" => taken[target[w]] = 0

AnswersOK ==
  /\ \A p \in Payers : pc[p] # "done" => reply[p] = "none"
  /\ RestoredResult

(* A webhook request carries a final status of a charge of its transaction.   *)
carriesDecision(h) ==
  LET c == outcome[h].gatewayId IN
  /\ c \in Payers /\ charges[c] # Null /\ charges[c].tx = target[h]
  /\ isFinalStatus(outcome[h].status)

EventsOK ==
  /\ \A c \in Payers : charges[c] # Null => transactions[charges[c].tx] # Null
  /\ \A h \in Hooks : pc[h] \in ApplySteps => carriesDecision(h)
  /\ AckedIsFinal

(* The inductive invariant of the serial protocol, beside the one of Payments *)
(* (updateStatus, decrementStock, isFinalized).                               *)
SerialInv == oneAtATime /\ RowsOK /\ StagesOK /\ AnswersOK /\ EventsOK

-----------------------------------------------------------------------------
(* When the database does what it is asked and what was recorded fits the     *)
(* stock together, an approval reaches the shopper: what ApprovedIsFulfilled  *)
(* needs to be inductive.                                                     *)

WritesHold == Faults \cap {"db", "lostAck", "crash"} = {}

asksOf(p) ==
  [t \in Transactions |->
     IF transactions[t] # Null /\ transactions[t].product = p
       THEN transactions[t].quantity ELSE 0]

EnoughStock ==
  \A p \in Products : SumFunctionOnSet(asksOf(p), Transactions) <= InitialStock[p]

fulfilled(t) == taken[t] > 0 /\ deliveries[t] = "ASSIGNED"

underway(t) == \E w \in Workers : pc[w] \in {"decrement", "assign"} /\ target[w] = t

approvalArrives(t) ==
  transactions[t] # Null /\ transactions[t].status = "APPROVED" => fulfilled(t) \/ underway(t)

(* An APPROVED row is fulfilled, or a request is on the way to it with the    *)
(* units and the delivery row it needs (TransactionFulfillmentService).       *)
FulfilmentInv ==
  /\ EnoughStock
  /\ \A t \in Transactions :
       approvalArrives(t) /\ (transactions[t] # Null => deliveries[t] # Null)
=============================================================================
