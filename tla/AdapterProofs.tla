---------------------------- MODULE AdapterProofs ----------------------------
(* GatewayAdapter: one call of charge asks for the money once, keeps to its   *)
(* budget of requests and reports only what the gateway said, for every limit *)
(* on polling and every setting.                                              *)
EXTENDS GatewayAdapter, TLAPS

(* A call starts with nothing sent.                                           *)
LEMMA InitAdapterInv == Init => AdapterInv
  <1> SUFFICES ASSUME Init PROVE AdapterInv
    OBVIOUS
  <1>1. config.maxPollAttempts \in {MaxPollAttempts, 0, NaN} /\ MaxPollAttempts \in Nat \ {0}
    BY AdapterAssumption DEF Init, Settings
  <1>2. AdapterTypeOK
    BY <1>1 DEF Init, AdapterTypeOK, Awaiting, pollsForEver, pollBudget, unknown, failure
  <1>3. SentOK
    BY DEF Init, SentOK
  <1>4. AsksOnce
    BY <1>1 DEF Init, AsksOnce, pollBudget, pollsForEver
  <1>5. ResultIsHonest
    BY DEF Init, ResultIsHonest, unknown, failure
  <1> QED
    BY <1>2, <1>3, <1>4, <1>5 DEF AdapterInv

(* The budget is a number of polls: the setting, or one poll where it is 0.   *)
LEMMA BudgetType ==
  ASSUME AdapterTypeOK
  PROVE  /\ ~pollsForEver => config.maxPollAttempts \in {MaxPollAttempts, 0}
         /\ ~pollsForEver => pollBudget \in 1..MaxPollAttempts
         /\ MaxPollAttempts \in Nat \ {0}
         /\ pollsForEver => config.maxPollAttempts \notin Nat
  BY AdapterAssumption DEF AdapterTypeOK, Settings, pollsForEver, pollBudget

(* A charge of any raw status maps to a status this program knows.            *)
LEMMA ResultType ==
  toChargeResult \in {ChargeResult(s) : s \in TransactionStatusEnum}
  BY DEF toChargeResult, mapStatus, TransactionStatusEnum

-----------------------------------------------------------------------------
(* Sending one more request stays within the budget.                          *)
LEMMA CountRequest ==
  ASSUME AdapterInv, countRequest, step \in {"acceptance", "token", "create", "poll"}
  PROVE  /\ sent' \in Nat
         /\ step # "poll" => sent' = sent + 1
         /\ step = "poll" /\ ~pollsForEver => sent' = 3 + attempt
         /\ ~pollsForEver => sent' <= 3 + pollBudget
  <1> USE BudgetType DEF AdapterInv
  <1>1. step # "poll" => sent <= 2
    BY DEF SentOK
  <1>2. step = "poll" /\ ~pollsForEver => attempt \in 1..pollBudget /\ sent = 2 + attempt
    BY DEF SentOK, AdapterTypeOK
  <1> QED
    BY <1>1, <1>2 DEF countRequest, AdapterTypeOK

(* A call that ends with a failure claims nothing about the charge (fails).   *)
LEMMA FailureKeeps ==
  ASSUME AdapterInv, NEW k \in {"gatewayError", "thrown"}, conclude(failure(k)),
         UNCHANGED <<config, charge, posted>>, sent' \in Nat,
         ~pollsForEver => sent' <= 3 + pollBudget
  PROVE  AdapterInv'
  <1> USE BudgetType DEF AdapterInv, conclude
  <1>1. AdapterTypeOK'
    BY DEF AdapterTypeOK, Awaiting, pollsForEver, pollBudget, failure
  <1>2. SentOK'
    BY DEF SentOK
  <1>3. AsksOnce'
    BY DEF AsksOnce, pollsForEver, pollBudget
  <1>4. ResultIsHonest'
    BY DEF ResultIsHonest, failure
  <1> QED
    BY <1>1, <1>2, <1>3, <1>4

(* A call that ends with a result repeats the gateway's word, and says        *)
(* PENDING only after its last poll (toChargeResult, pollUntilFinal).         *)
LEMMA ConcludeKeeps ==
  ASSUME AdapterInv, conclude(toChargeResult), charge # Null,
         UNCHANGED <<config, charge, posted>>, sent' \in Nat,
         ~pollsForEver => sent' <= 3 + pollBudget,
         toChargeResult.status = "PENDING" => ~pollsForEver /\ sent' = 3 + pollBudget
  PROVE  AdapterInv'
  <1> USE BudgetType DEF AdapterInv, conclude
  <1>1. AdapterTypeOK'
    BY ResultType DEF AdapterTypeOK, Awaiting, pollsForEver, pollBudget
  <1>2. SentOK'
    BY DEF SentOK
  <1>3. AsksOnce'
    BY DEF AsksOnce, pollsForEver, pollBudget
  <1>4. ResultIsHonest'
    BY DEF ResultIsHonest, toChargeResult, ChargeResult, pollsForEver, pollBudget
  <1> QED
    BY <1>1, <1>2, <1>3, <1>4

-----------------------------------------------------------------------------
(* The exchanges before the charge exists.                                    *)
LEMMA HandshakeKeeps ==
  ASSUME AdapterInv, NEW answer \in Answers,
         fetchAcceptanceToken(answer) \/ tokenizeCard(answer)
  PROVE  AdapterInv'
  <1> USE BudgetType DEF AdapterInv
  <1>1. /\ step \in {"acceptance", "token"}
        /\ countRequest /\ UNCHANGED <<config, posted, charge>>
        /\ \/ step = "acceptance" /\ proceedTo("token")
           \/ step = "token" /\ proceedTo("create")
           \/ fails(answer)
    BY DEF fetchAcceptanceToken, tokenizeCard
  <1>2. /\ sent' \in Nat /\ sent' = sent + 1
        /\ ~pollsForEver => sent' <= 3 + pollBudget
    BY <1>1, CountRequest
  <1>3. CASE fails(answer)
    BY <1>1, <1>2, <1>3, FailureKeeps DEF fails
  <1>4. CASE \/ step = "acceptance" /\ proceedTo("token")
             \/ step = "token" /\ proceedTo("create")
    <2>1. AdapterTypeOK'
      BY <1>1, <1>2, <1>4 DEF proceedTo, AdapterTypeOK, Awaiting, pollsForEver, pollBudget
    <2>2. SentOK'
      BY <1>1, <1>2, <1>4 DEF proceedTo, SentOK
    <2>3. AsksOnce'
      BY <1>1, <1>2 DEF AsksOnce, pollsForEver, pollBudget
    <2>4. ResultIsHonest'
      BY <1>1, <1>4 DEF proceedTo, SentOK, ResultIsHonest, unknown, failure
    <2> QED
      BY <2>1, <2>2, <2>3, <2>4
  <1> QED
    BY <1>1, <1>3, <1>4

(* The only step that asks for money.                                         *)
LEMMA PostKeeps ==
  ASSUME AdapterInv, postTransaction
  PROVE  AdapterInv'
  <1> USE BudgetType DEF AdapterInv
  <1>1. /\ step = "create" /\ countRequest /\ posted' = posted + 1 /\ charge' \in {"PENDING", Null}
        /\ step' = "created" /\ UNCHANGED <<config, attempt, result>>
    BY DEF postTransaction, proceedTo
  <1>2. /\ sent' \in Nat /\ sent' = sent + 1
        /\ ~pollsForEver => sent' <= 3 + pollBudget
    BY <1>1, CountRequest
  <1>3. posted = 0 /\ sent = 2 /\ result = unknown
    BY <1>1 DEF SentOK
  <1>4. AdapterTypeOK'
    BY <1>1, <1>2, <1>3
    DEF AdapterTypeOK, Awaiting, pollsForEver, pollBudget, RawStatuses, TransactionStatusEnum
  <1>5. SentOK'
    BY <1>1, <1>2, <1>3 DEF SentOK
  <1>6. AsksOnce'
    BY <1>1, <1>2, <1>3 DEF AsksOnce, pollsForEver, pollBudget
  <1>7. ResultIsHonest'
    BY <1>1, <1>3 DEF ResultIsHonest, unknown, failure
  <1> QED
    BY <1>4, <1>5, <1>6, <1>7

(* The answer to the POST: final, to be polled, or none.                      *)
LEMMA CreatedKeeps ==
  ASSUME AdapterInv, NEW answer \in Answers, created(answer)
  PROVE  AdapterInv'
  <1> USE BudgetType DEF AdapterInv
  <1>1. /\ step = "created" /\ sent = 3 /\ result = unknown
        /\ UNCHANGED <<config, sent, posted, charge>>
    BY DEF created, SentOK
  <1>2. sent \in Nat /\ (~pollsForEver => sent <= 3 + pollBudget)
    BY DEF AdapterTypeOK, AsksOnce
  <1>3. CASE fails(answer)
    BY <1>1, <1>2, <1>3, FailureKeeps DEF fails
  <1>4. CASE charge # Null /\ toChargeResult.status # "PENDING" /\ conclude(toChargeResult)
    BY <1>1, <1>2, <1>4, ConcludeKeeps
  <1>5. CASE charge # Null /\ step' = "poll" /\ attempt' = 1 /\ UNCHANGED result
    <2>1. AdapterTypeOK'
      BY <1>1, <1>5 DEF AdapterTypeOK, Awaiting, pollsForEver, pollBudget
    <2>2. SentOK' /\ AsksOnce'
      BY <1>1, <1>5 DEF SentOK, AsksOnce, pollsForEver, pollBudget
    <2>3. ResultIsHonest'
      BY <1>1, <1>5 DEF ResultIsHonest, unknown, failure
    <2> QED
      BY <2>1, <2>2, <2>3
  <1> QED
    BY <1>1, <1>3, <1>4, <1>5 DEF created

(* A poll: the last one concludes, whatever it heard.                         *)
LEMMA PollKeeps ==
  ASSUME AdapterInv, NEW answer \in Answers, pollUntilFinal(answer)
  PROVE  AdapterInv'
  <1> USE BudgetType DEF AdapterInv
  <1>1. /\ step = "poll" /\ charge # Null /\ attempt > 0 /\ result = unknown
        /\ countRequest /\ UNCHANGED <<config, posted, charge>>
        /\ ~pollsForEver => attempt \in 1..pollBudget
        /\ attempt \in Nat
    BY DEF pollUntilFinal, SentOK, AdapterTypeOK
  <1>2. /\ sent' \in Nat
        /\ ~pollsForEver => sent' = 3 + attempt /\ sent' <= 3 + pollBudget
    BY <1>1, CountRequest
  <1>3. CASE fails(answer)
    BY <1>1, <1>2, <1>3, FailureKeeps DEF fails
  <1>4. CASE (toChargeResult.status # "PENDING" \/ exhausted) /\ conclude(toChargeResult)
    <2>1. exhausted => ~pollsForEver /\ sent' = 3 + pollBudget
      BY <1>1, <1>2 DEF exhausted, pollBudget
    <2> QED
      BY <1>1, <1>2, <1>4, <2>1, ConcludeKeeps
  <1>5. CASE ~exhausted /\ nextAttempt /\ UNCHANGED <<step, result>>
    <2>1. ~pollsForEver => attempt < config.maxPollAttempts /\ attempt' = attempt + 1
          /\ pollBudget = config.maxPollAttempts
      BY <1>1, <1>5 DEF exhausted, nextAttempt, pollBudget
    <2>2. pollsForEver => attempt' \in 1..(MaxPollAttempts + 1)
      BY <1>1, <1>5 DEF nextAttempt, AdapterTypeOK
    <2>3. AdapterTypeOK'
      BY <1>1, <1>2, <1>5, <2>1, <2>2 DEF AdapterTypeOK, Awaiting, pollsForEver, pollBudget
    <2>4. SentOK'
      BY <1>1, <1>2, <1>5, <2>1, <2>2 DEF SentOK, pollsForEver
    <2>5. AsksOnce'
      BY <1>1, <1>2 DEF AsksOnce, pollsForEver, pollBudget
    <2>6. ResultIsHonest'
      BY <1>1, <1>5 DEF ResultIsHonest, unknown, failure
    <2> QED
      BY <2>3, <2>4, <2>5, <2>6
  <1> QED
    BY <1>3, <1>4, <1>5 DEF pollUntilFinal

-----------------------------------------------------------------------------
(* Building a request that cannot be built, and the gateway's decision.       *)
LEMMA CallThrowsKeeps ==
  ASSUME AdapterInv, callThrows
  PROVE  AdapterInv'
  BY FailureKeeps DEF callThrows, AdapterInv, AdapterTypeOK, AsksOnce

LEMMA SettleKeeps ==
  ASSUME AdapterInv, settle
  PROVE  AdapterInv'
  <1> USE BudgetType DEF AdapterInv
  <1>1. /\ charge = "PENDING" /\ charge' \in RawStatuses
        /\ charge # Null /\ charge' # Null
        /\ UNCHANGED <<config, step, attempt, sent, posted, result>>
    BY AdapterAssumption DEF settle, RawStatuses, TransactionStatusEnum
  <1>2. AdapterTypeOK'
    BY <1>1 DEF AdapterTypeOK, pollsForEver, pollBudget
  <1>3. SentOK' /\ AsksOnce'
    BY <1>1 DEF SentOK, AsksOnce, pollsForEver, pollBudget
  <1>4. ResultIsHonest'
    BY <1>1 DEF ResultIsHonest, mapStatus, TransactionStatusEnum, pollsForEver, pollBudget
  <1> QED
    BY <1>2, <1>3, <1>4

(* One case per exchange.                                                     *)
LEMMA NextAdapterInv == AdapterInv /\ [Next]_adapterVars => AdapterInv'
  <1> SUFFICES ASSUME AdapterInv, [Next]_adapterVars PROVE AdapterInv'
    OBVIOUS
  <1>1. ASSUME NEW answer \in Answers, fetchAcceptanceToken(answer) \/ tokenizeCard(answer)
        PROVE  AdapterInv'
    BY <1>1, HandshakeKeeps
  <1>2. CASE postTransaction
    BY <1>2, PostKeeps
  <1>3. ASSUME NEW answer \in Answers, created(answer) PROVE AdapterInv'
    BY <1>3, CreatedKeeps
  <1>4. ASSUME NEW answer \in Answers, pollUntilFinal(answer) PROVE AdapterInv'
    BY <1>4, PollKeeps
  <1>5. CASE callThrows
    BY <1>5, CallThrowsKeeps
  <1>6. CASE settle
    BY <1>6, SettleKeeps
  <1>7. CASE UNCHANGED adapterVars
    BY <1>7 DEF adapterVars, AdapterInv, AdapterTypeOK, SentOK, AsksOnce, ResultIsHonest,
       pollsForEver, pollBudget
  <1> QED
    BY <1>1, <1>2, <1>3, <1>4, <1>5, <1>6, <1>7 DEF Next, adapterStep

(* The inductive invariant holds throughout every call.                       *)
THEOREM AdapterInductive == Spec => []AdapterInv
  BY InitAdapterInv, NextAdapterInv, PTL DEF Spec

(* Whatever it is configured with, a call keeps to the states it can be in:   *)
(* no poll beyond the budget, no status but those known (AdapterTypeOK).      *)
THEOREM AdapterTypes == Spec => []AdapterTypeOK
  <1>1. AdapterInv => AdapterTypeOK
    BY DEF AdapterInv
  <1> QED
    BY <1>1, AdapterInductive, PTL

(* One POST per call, and a bounded number of requests (charge).              *)
THEOREM AdapterAsksOnce == Spec => []AsksOnce
  <1>1. AdapterInv => AsksOnce
    BY DEF AdapterInv
  <1> QED
    BY <1>1, AdapterInductive, PTL

(* The use case is told what the gateway said, or that it failed.             *)
THEOREM AdapterResultIsHonest == Spec => []ResultIsHonest
  <1>1. AdapterInv => ResultIsHonest
    BY DEF AdapterInv
  <1> QED
    BY <1>1, AdapterInductive, PTL

-----------------------------------------------------------------------------
(* The exchanges a call has before it are a number, none once it is done, and *)
(* every exchange but a poll has a fixed place before the polls.              *)
LEMMA ExchangesType ==
  ASSUME AdapterInv, ~pollsForEver
  PROVE  /\ exchangesLeft \in Nat
         /\ step # "done" => exchangesLeft > 0
  <1>1. pollBudget \in Nat \ {0} /\ step \in Awaiting \cup {"done"}
    BY BudgetType DEF AdapterInv, AdapterTypeOK
  <1>2. step = "poll" => attempt \in 1..pollBudget
    BY DEF AdapterInv, AdapterTypeOK, SentOK
  <1> QED
    BY <1>1, <1>2 DEF exchangesLeft, Awaiting

(* A call that concludes has no exchange before it (conclude).                *)
LEMMA ConcludingEnds ==
  ASSUME AdapterInv, ~pollsForEver, step # "done", NEW r, conclude(r)
  PROVE  exchangesLeft' < exchangesLeft
  <1>1. exchangesLeft' = 0
    BY DEF conclude, exchangesLeft
  <1> QED
    BY <1>1, ExchangesType

(* Each exchange of a call leaves fewer before it: the handshake because its  *)
(* order is fixed, the polls because they are counted up to the budget. Only  *)
(* what the gateway does by itself leaves the call where it is (charge,       *)
(* pollUntilFinal).                                                           *)
THEOREM AdapterExchangesAreBounded == Spec => ExchangesAreBounded
  <1>1. AdapterInv /\ [Next]_adapterVars =>
          [~pollsForEver /\ step # "done" =>
             exchangesLeft' < exchangesLeft
               \/ UNCHANGED <<step, attempt, sent, posted, result>>]_adapterVars
    <2> SUFFICES ASSUME AdapterInv, Next, ~pollsForEver, step # "done"
                 PROVE  exchangesLeft' < exchangesLeft
                          \/ UNCHANGED <<step, attempt, sent, posted, result>>
      OBVIOUS
    <2>1. pollBudget \in Nat \ {0} /\ (config' = config => pollBudget' = pollBudget)
      BY BudgetType DEF AdapterInv, pollBudget
    <2>2. ASSUME NEW answer \in Answers, fetchAcceptanceToken(answer) \/ tokenizeCard(answer)
          PROVE  exchangesLeft' < exchangesLeft
      <3>1. CASE fails(answer)
        BY <3>1, ConcludingEnds DEF fails
      <3>2. CASE step = "acceptance" /\ step' = "token"
        BY <2>1, <2>2, <3>2 DEF fetchAcceptanceToken, tokenizeCard, exchangesLeft
      <3>3. CASE step = "token" /\ step' = "create"
        BY <2>1, <2>2, <3>3 DEF fetchAcceptanceToken, tokenizeCard, exchangesLeft
      <3> QED
        BY <2>2, <3>1, <3>2, <3>3 DEF fetchAcceptanceToken, tokenizeCard, proceedTo
    <2>3. CASE postTransaction
      BY <2>1, <2>3 DEF postTransaction, proceedTo, exchangesLeft
    <2>4. ASSUME NEW answer \in Answers, created(answer)
          PROVE  exchangesLeft' < exchangesLeft
      <3>1. CASE fails(answer) \/ conclude(toChargeResult)
        BY <3>1, ConcludingEnds DEF fails
      <3>2. CASE step' = "poll" /\ attempt' = 1
        BY <2>1, <2>4, <3>2 DEF created, exchangesLeft
      <3> QED
        BY <2>4, <3>1, <3>2 DEF created
    <2>5. ASSUME NEW answer \in Answers, pollUntilFinal(answer)
          PROVE  exchangesLeft' < exchangesLeft
      <3>1. CASE fails(answer) \/ conclude(toChargeResult)
        BY <3>1, ConcludingEnds DEF fails
      <3>2. CASE ~exhausted /\ nextAttempt /\ step' = step
        <4>1. /\ step = "poll" /\ step' = "poll" /\ config' = config
              /\ attempt \in Nat /\ attempt <= MaxPollAttempts /\ MaxPollAttempts \in Nat
          BY <2>5, <3>2, BudgetType DEF pollUntilFinal, AdapterInv, AdapterTypeOK
        <4>2. attempt' = attempt + 1
          BY <3>2, <4>1 DEF nextAttempt
        <4> QED
          BY <2>1, <4>1, <4>2 DEF exchangesLeft
      <3> QED
        BY <2>5, <3>1, <3>2 DEF pollUntilFinal
    <2>6. CASE callThrows
      BY <2>6, ConcludingEnds DEF callThrows
    <2>7. CASE settle
      BY <2>7 DEF settle
    <2> QED
      BY <2>2, <2>3, <2>4, <2>5, <2>6, <2>7 DEF Next, adapterStep
  <1> QED
    BY <1>1, AdapterInductive, PTL DEF Spec, ExchangesAreBounded

-----------------------------------------------------------------------------
(* Exchange by exchange, the adapter takes only the steps that Payments       *)
(* allows a payer.                                                            *)

(* A function of the one request there is, changed where it is.               *)
LEMMA OnlyCall ==
  ASSUME NEW x, NEW y
  PROVE  [[c \in {"call"} |-> x] EXCEPT !["call"] = y] = [c \in {"call"} |-> y]
  OBVIOUS

(* What the one payer remembers and what the gateway holds, seen by Payments. *)
seenReply == IF result.kind = "thrown" THEN "UNEXPECTED_ERROR" ELSE "none"
seenCharge == IF charge = Null THEN Null ELSE [tx |-> "tx", status |-> charge]

(* A step that Payments does not see.                                         *)
LEMMA Unseen ==
  ASSUME UNCHANGED <<seenCharge, abstractPc, abstractOutcome, attempt, seenReply>>
  PROVE  UNCHANGED Payer!vars
  BY DEF Payer!vars, Payer!database, Payer!gateway, Payer!requests, seenCharge, seenReply

(* Failing before there is a charge (chargeRefused, chargeThrows), and after  *)
(* it was posted (answerLost, answerMalformed).                               *)
LEMMA FailsAsPayer ==
  ASSUME AdapterInv, step \in Awaiting, NEW k \in {"gatewayError", "thrown"},
         conclude(failure(k)), UNCHANGED charge
  PROVE  Payer!payerStep("call")
  <1>1. /\ abstractPc \in {"charge", "posted", "poll"}
        /\ abstractPc = "charge" => attempt = 0
        /\ abstractOutcome = Null /\ seenReply = "none"
    BY DEF AdapterInv, SentOK, Awaiting, abstractPc, abstractOutcome, seenReply, unknown, failure
  <1>2. /\ step' = "done" /\ attempt' = 0 /\ result' = failure(k) /\ seenCharge' = seenCharge
    BY DEF conclude, seenCharge
  <1>3. CASE k = "gatewayError"
    <2>1. /\ abstractPc' = "apply" /\ seenReply' = "none"
          /\ abstractOutcome' = [status |-> "ERROR", gatewayId |-> Null]
      BY <1>2, <1>3 DEF abstractPc, abstractOutcome, seenReply, failure
    <2>2. CASE abstractPc = "charge"
      <3>1. Payer!chargeRefused("call")
        BY <1>1, <1>2, <2>1, <2>2, OnlyCall
        DEF Payer!chargeRefused, Payer!fault, Payer!applyOutcome, Payer!goto, Payer!gatewayError,
            Payer!database, Payer!gateway, seenReply, seenCharge
      <3> QED
        BY <3>1 DEF Payer!payerStep
    <2>3. CASE abstractPc \in {"posted", "poll"}
      <3>1. Payer!answerLost("call")
        BY <1>1, <1>2, <2>1, <2>3, OnlyCall
        DEF Payer!answerLost, Payer!fault, Payer!applyOutcome, Payer!goto, Payer!gatewayError,
            Payer!database, Payer!gateway, seenReply, seenCharge
      <3> QED
        BY <3>1 DEF Payer!payerStep
    <2> QED
      BY <1>1, <2>2, <2>3
  <1>4. CASE k = "thrown"
    <2>1. /\ abstractPc' = "done" /\ seenReply' = "UNEXPECTED_ERROR" /\ abstractOutcome' = Null
      BY <1>2, <1>4 DEF abstractPc, abstractOutcome, seenReply, failure
    <2>2. Payer!answerMalformed("call")
      BY <1>1, <1>2, <2>1, OnlyCall
      DEF Payer!answerMalformed, Payer!fault, Payer!goto, Payer!UnexpectedError,
          Payer!database, Payer!gateway, seenReply, seenCharge
    <2> QED
      BY <2>2 DEF Payer!payerStep
  <1> QED
    BY <1>3, <1>4

(* The acceptance token and the card token are part of one step of Payments,  *)
(* which fails if they fail.                                                  *)
LEMMA HandshakeRefines ==
  ASSUME AdapterInv, NEW answer \in Answers,
         fetchAcceptanceToken(answer) \/ tokenizeCard(answer)
  PROVE  Payer!payerStep("call") \/ UNCHANGED Payer!vars
  <1>1. /\ step \in {"acceptance", "token"} /\ UNCHANGED charge
        /\ proceedTo("token") \/ proceedTo("create") \/ fails(answer)
    BY DEF fetchAcceptanceToken, tokenizeCard
  <1>2. CASE fails(answer)
    BY <1>1, <1>2, FailsAsPayer DEF fails, Awaiting
  <1>3. CASE proceedTo("token") \/ proceedTo("create")
    <2>1. UNCHANGED <<seenCharge, abstractPc, abstractOutcome, attempt, seenReply>>
      BY <1>1, <1>3 DEF proceedTo, seenCharge, abstractPc, abstractOutcome, seenReply
    <2> QED
      BY <2>1, Unseen
  <1> QED
    BY <1>1, <1>2, <1>3

(* A request that cannot be built throws (chargeThrows).                      *)
LEMMA CallThrowsRefines ==
  ASSUME AdapterInv, callThrows
  PROVE  Payer!payerStep("call")
  BY FailsAsPayer DEF callThrows, Awaiting

(* The POST is the step that opens a charge, if it reaches the gateway.       *)
LEMMA PostRefines ==
  ASSUME AdapterInv, postTransaction
  PROVE  Payer!payerStep("call") \/ UNCHANGED Payer!vars
  <1>1. /\ step = "create" /\ step' = "created" /\ charge = Null
        /\ attempt = 0 /\ result = unknown /\ UNCHANGED <<attempt, result>>
        /\ charge' = "PENDING" \/ charge' = Null
        /\ Null # "PENDING"
    BY AdapterAssumption
    DEF postTransaction, proceedTo, AdapterInv, SentOK, RawStatuses, TransactionStatusEnum
  <1>2. /\ abstractPc = "charge" /\ UNCHANGED <<abstractOutcome, seenReply>>
        /\ seenCharge = Null
    BY <1>1 DEF abstractPc, abstractOutcome, seenReply, seenCharge
  <1>3. CASE charge' = "PENDING"
    <2>1. abstractPc' = "posted" /\ seenCharge' = [tx |-> "tx", status |-> "PENDING"]
      BY <1>1, <1>3 DEF abstractPc, seenCharge
    <2>2. Payer!postCharge("call")
      BY <1>1, <1>2, <2>1, OnlyCall
      DEF Payer!postCharge, Payer!goto, Payer!database, seenReply, seenCharge
    <2> QED
      BY <2>2 DEF Payer!payerStep
  <1>4. CASE charge' = Null
    <2>1. UNCHANGED <<abstractPc, seenCharge>>
      BY <1>1, <1>4 DEF abstractPc, seenCharge
    <2> QED
      BY <1>1, <1>2, <2>1, Unseen
  <1> QED
    BY <1>1, <1>3, <1>4

(* A result is the outcome Payments lets a payer apply (toChargeResult).      *)
LEMMA ResultAsOutcome ==
  ASSUME AdapterInv, step \in {"created", "poll"}, charge # Null,
         conclude(toChargeResult), UNCHANGED charge
  PROVE  /\ abstractPc' = "apply" /\ seenCharge' = seenCharge
         /\ abstractOutcome' = Payer!toChargeResult("call")
         /\ abstractOutcome = Null /\ UNCHANGED seenReply
         /\ Payer!toChargeResult("call").status = toChargeResult.status
  <1>1. /\ step' = "done" /\ result' = [kind |-> "result", status |-> mapStatus(charge)]
        /\ result = unknown
    BY DEF conclude, toChargeResult, ChargeResult, AdapterInv, SentOK
  <1>2. \A s : Payer!mapStatus(s) = mapStatus(s)
    BY DEF Payer!mapStatus, mapStatus, Payer!TransactionStatusEnum, TransactionStatusEnum
  <1>3. Payer!toChargeResult("call") = [status |-> mapStatus(charge), gatewayId |-> "call"]
    BY <1>2 DEF Payer!toChargeResult
  <1> QED
    BY <1>1, <1>3
    DEF abstractPc, abstractOutcome, seenCharge, seenReply, unknown, failure, toChargeResult,
        ChargeResult

(* The answer to the POST: applied, or polled from the first attempt on       *)
(* (chargeAnswered).                                                          *)
LEMMA CreatedRefines ==
  ASSUME AdapterInv, NEW answer \in Answers, created(answer)
  PROVE  Payer!payerStep("call")
  <1>1. /\ step = "created" /\ attempt = 0 /\ result = unknown /\ UNCHANGED charge
    BY DEF created, AdapterInv, SentOK
  <1>2. CASE fails(answer)
    BY <1>1, <1>2, FailsAsPayer DEF fails, Awaiting
  <1>3. CASE charge # Null /\ toChargeResult.status # "PENDING" /\ conclude(toChargeResult)
    <2>1. /\ abstractPc = "posted" /\ abstractPc' = "apply" /\ seenCharge' = seenCharge
          /\ abstractOutcome' = Payer!toChargeResult("call") /\ UNCHANGED seenReply
          /\ Payer!toChargeResult("call").status # "PENDING"
          /\ attempt' = attempt
      BY <1>1, <1>3, ResultAsOutcome DEF abstractPc, conclude
    <2>2. Payer!chargeAnswered("call")
      BY <2>1, OnlyCall
      DEF Payer!chargeAnswered, Payer!applyOutcome, Payer!goto, Payer!database, Payer!gateway,
          seenReply, seenCharge
    <2> QED
      BY <2>2 DEF Payer!payerStep
  <1>4. CASE /\ charge # Null /\ toChargeResult.status = "PENDING"
             /\ step' = "poll" /\ attempt' = 1 /\ UNCHANGED result
    <2>1. /\ abstractPc = "posted" /\ abstractPc' = "poll" /\ seenCharge' = seenCharge
          /\ UNCHANGED <<abstractOutcome, seenReply>>
      BY <1>1, <1>4 DEF abstractPc, abstractOutcome, seenCharge, seenReply, unknown, failure
    <2>2. Payer!toChargeResult("call").status = "PENDING"
      BY <1>4 DEF Payer!toChargeResult, Payer!mapStatus, Payer!TransactionStatusEnum,
         toChargeResult, ChargeResult, mapStatus, TransactionStatusEnum
    <2>3. Payer!chargeAnswered("call")
      BY <1>4, <2>1, <2>2, OnlyCall
      DEF Payer!chargeAnswered, Payer!goto, Payer!database, Payer!gateway, seenReply, seenCharge
    <2> QED
      BY <2>3 DEF Payer!payerStep
  <1> QED
    BY <1>1, <1>2, <1>3, <1>4 DEF created

(* A poll, if the setting is sound: the last one concludes (pollUntilFinal).  *)
LEMMA PollRefines ==
  ASSUME AdapterInv, config.maxPollAttempts = MaxPollAttempts,
         NEW answer \in Answers, pollUntilFinal(answer)
  PROVE  Payer!payerStep("call")
  <1>1. /\ step = "poll" /\ charge # Null /\ result = unknown /\ UNCHANGED charge
        /\ attempt \in Nat /\ MaxPollAttempts \in Nat
        /\ exhausted <=> attempt >= MaxPollAttempts
    BY AdapterAssumption
    DEF pollUntilFinal, AdapterInv, AdapterTypeOK, SentOK, exhausted, pollsForEver, pollBudget
  <1>2. abstractPc = "poll"
    BY <1>1 DEF abstractPc
  <1>3. CASE fails(answer)
    BY <1>1, <1>3, FailsAsPayer DEF fails, Awaiting
  <1>4. CASE (toChargeResult.status # "PENDING" \/ exhausted) /\ conclude(toChargeResult)
    <2>1. /\ abstractPc' = "apply" /\ seenCharge' = seenCharge
          /\ abstractOutcome' = Payer!toChargeResult("call") /\ UNCHANGED seenReply
          /\ Payer!toChargeResult("call").status # "PENDING" \/ attempt >= MaxPollAttempts
          /\ attempt' = 0
      BY <1>1, <1>4, ResultAsOutcome DEF conclude
    <2>2. Payer!pollUntilFinal("call")
      BY <1>2, <2>1, OnlyCall
      DEF Payer!pollUntilFinal, Payer!applyOutcome, Payer!goto, Payer!database, Payer!gateway,
          seenReply, seenCharge
    <2> QED
      BY <2>2 DEF Payer!payerStep
  <1>5. CASE /\ toChargeResult.status = "PENDING" /\ ~exhausted
             /\ nextAttempt /\ UNCHANGED <<step, result>>
    <2>1. /\ UNCHANGED <<abstractPc, seenCharge, abstractOutcome, seenReply>>
          /\ attempt < MaxPollAttempts /\ attempt' = attempt + 1
      BY <1>1, <1>5 DEF abstractPc, abstractOutcome, seenCharge, seenReply, nextAttempt
    <2>2. Payer!toChargeResult("call").status = "PENDING"
      BY <1>1, <1>5 DEF Payer!toChargeResult, Payer!mapStatus, Payer!TransactionStatusEnum,
         toChargeResult, ChargeResult, mapStatus, TransactionStatusEnum
    <2>3. Payer!pollUntilFinal("call")
      BY <1>2, <2>1, <2>2, OnlyCall
      DEF Payer!pollUntilFinal, Payer!database, Payer!gateway, seenReply, seenCharge
    <2> QED
      BY <2>3 DEF Payer!payerStep
  <1> QED
    BY <1>1, <1>3, <1>4, <1>5 DEF pollUntilFinal

(* The gateway decides the same charge in both.                               *)
LEMMA SettleRefines ==
  ASSUME AdapterInv, settle
  PROVE  Payer!settle("call")
  <1>1. /\ charge = "PENDING" /\ charge # Null /\ charge' # Null /\ charge' \in Verdicts
        /\ UNCHANGED <<step, attempt, result>>
    BY AdapterAssumption DEF settle, RawStatuses, TransactionStatusEnum
  <1>2. UNCHANGED <<abstractPc, abstractOutcome, seenReply>>
    BY <1>1 DEF abstractPc, abstractOutcome, seenReply
  <1>3. /\ seenCharge = [tx |-> "tx", status |-> "PENDING"] /\ seenCharge # Null
        /\ seenCharge' = [seenCharge EXCEPT !.status = charge']
    <2>1. [tx |-> "tx", status |-> "PENDING"] \in [tx : {"tx"}, status : RawStatuses]
      BY DEF RawStatuses, TransactionStatusEnum
    <2> QED
      BY <1>1, <2>1, AdapterAssumption DEF seenCharge
  <1> QED
    BY <1>1, <1>2, <1>3, OnlyCall DEF Payer!settle, Payer!database, Payer!requests, seenReply, seenCharge

(* One call of charge, exchange by exchange, is a payer of Payments between   *)
(* loading the customer and applying the outcome: what is proved there of     *)
(* three abstract steps holds of the adapter's (charge, pollUntilFinal).      *)
THEOREM AdapterImplementsPayer == Spec => ImplementsPayer
  <1>1. AdapterInv /\ [Next]_adapterVars =>
          [config.maxPollAttempts = MaxPollAttempts => Payer!Next]_(Payer!vars)
    <2> SUFFICES ASSUME AdapterInv, [Next]_adapterVars, config.maxPollAttempts = MaxPollAttempts
                 PROVE  Payer!Next \/ UNCHANGED Payer!vars
      OBVIOUS
    <2>1. Payer!payerStep("call") \/ Payer!settle("call") => Payer!Next
      BY DEF Payer!Next
    <2>2. CASE UNCHANGED adapterVars
      BY <2>2, Unseen DEF adapterVars, abstractPc, abstractOutcome, seenCharge, seenReply
    <2> QED
      BY <2>1, <2>2, HandshakeRefines, CallThrowsRefines, PostRefines, CreatedRefines,
         PollRefines, SettleRefines DEF Next, adapterStep
  <1> QED
    BY <1>1, AdapterInductive, PTL DEF Spec, ImplementsPayer
=============================================================================
