-------------------------------- MODULE Shop --------------------------------
(* The whole service: checkouts, payments and webhook requests over one       *)
(* database, in one process that may die under all of them. A client pays     *)
(* only what a checkout answered with its id.                                 *)
EXTENDS Payments

CONSTANTS Asked, Price, BaseFee, DeliveryFee, MaxInt, Emails, Details, References, Shapes

VARIABLES orders, customers, step, input

C == INSTANCE Checkout

(* The quantities checkout lets through are those the payment side knows; the *)
(* rest is what Checkout assumes of its constants.                            *)
ASSUME ShopAssumption ==
  /\ {q \in Asked : q > 0} \subseteq Quantities
  /\ Null \notin Products \cup C!Inputs \cup Details
  /\ Null \notin C!NewRows \cup C!OrderRows
  /\ Asked \subseteq Int /\ Shapes \subseteq C!BodyShapes
  /\ Price \in [Products -> Nat]
  /\ BaseFee \in Nat /\ DeliveryFee \in Nat /\ MaxInt \in Nat

checkoutOnly == <<orders, customers, step, input>>
paymentsOnly == <<gateway, requests, taken>>
shopVars     == <<vars, checkoutOnly>>

ShopInit == Init /\ C!Init

checkout(t) == (C!begin(t) \/ C!checkoutStep(t)) /\ UNCHANGED paymentsOnly

isKnownEarly(t) == TRUE                                      \* seeded fault

(* The id is a random UUID: only the answer to the checkout reveals it; any   *)
(* other id names no transaction.                                             *)
isKnown(t) == step[t] = "created" \/ transactions[t] = Null

pay(p) ==
  \E t \in Transactions :
    isKnown(t) /\ (rejectPayment(p, t) \/ loadPendingTransaction(p, t))

payment(p) == (pay(p) \/ payerStep(p)) /\ UNCHANGED checkoutOnly

webhook(h) ==
  /\ fulfil(h) \/ \E e \in Events : receive(h, e)
  /\ UNCHANGED checkoutOnly

gatewayDecides(c) == settle(c) /\ UNCHANGED checkoutOnly

processDies ==
  /\ fault("crash")
  /\ (\E w \in Workers : busy(w)) \/ (\E t \in Transactions : step[t] \in C!Steps)
  /\ stopRequests
  /\ C!stopCheckouts

ShopNext ==
  \/ \E t \in Transactions : checkout(t)
  \/ \E p \in Payers : payment(p) \/ gatewayDecides(p)
  \/ \E h \in Hooks : webhook(h)
  \/ processDies

ShopSpec == ShopInit /\ [][ShopNext]_shopVars

-----------------------------------------------------------------------------
(* Properties of the composition, beside NeverOversold of Payments            *)

(* The guarantees of the payment side survive checkouts that are still        *)
(* writing: nothing is APPROVED or shipped unpaid, and who is told APPROVED   *)
(* got what it paid for (apply, verifySignature, fulfill).                    *)
PaymentsStaySound ==
  ApprovedIsPaid /\ ShippedIsPaidAndTaken /\ ApprovedReplyIsFulfilled

(* The guarantees of checkout survive the payments, which update the rows it  *)
(* wrote: what was recorded is still what the client asked for, at its price  *)
(* and with its customer and delivery, under a reference no other transaction *)
(* has, so an event finds no stranger's (updateStatus, findByReference).      *)
CheckoutsStaySound == C!CreatedIsComplete /\ C!ReferencesUnique

(* Money is only ever moved for a complete purchase: whatever a checkout left *)
(* unfinished is never charged, so a charged transaction always has the       *)
(* delivery row fulfil will assign (createDelivery is the last call before    *)
(* the answer).                                                               *)
ChargedHasDelivery ==
  \A c \in Payers : charges[c] # Null => deliveries[charges[c].tx] # Null

-----------------------------------------------------------------------------
(* What makes these properties inductive: what a checkout has still to write  *)
(* is not there yet, so it overwrites nothing a payment relies on.            *)

CheckoutsOK ==
  /\ step \in [Transactions -> {"idle", "created", "failed"} \cup C!Steps]
  /\ input \in [Transactions -> C!Inputs \cup {Null}]
  /\ \A t \in Transactions :
       /\ step[t] \in {"idle", "customer", "transaction"} => transactions[t] = Null
       /\ step[t] \in {"idle"} \cup C!Steps => deliveries[t] = Null
       /\ step[t] = "created" => deliveries[t] # Null
       /\ step[t] \in C!Steps =>
            input[t] # Null /\ C!isAcceptable(input[t]) /\ input[t].product # Null

(* A payment under way knows its transaction from a finished checkout.        *)
PayersKnow == \A p \in Payers : busy(p) => deliveries[target[p]] # Null

(* The inductive invariant of the service, beside the one of Payments         *)
(* (CreateTransactionUseCase, ProcessPaymentUseCase).                         *)
ShopInv == IInv /\ CheckoutsOK /\ PayersKnow /\ ChargedHasDelivery
=============================================================================
