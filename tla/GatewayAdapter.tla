--------------------------- MODULE GatewayAdapter ---------------------------
(* WompiPaymentGatewayAdapter.charge, one call of it: acceptance token, card  *)
(* token, POST /transactions, then polling. Payments abstracts the first      *)
(* three exchanges to one step and every way an exchange can fail to two;     *)
(* this module keeps them apart and is shown to take only the steps Payments  *)
(* allows a payer.                                                            *)
EXTENDS Integers, TransactionStatus

CONSTANTS
  MaxPollAttempts,   \* a sound value of the setting
  Verdicts,          \* raw statuses the gateway may settle a charge with
  NaN,               \* what Number() makes of a setting that is no number
  Null

ASSUME AdapterAssumption ==
  /\ MaxPollAttempts \in Nat \ {0}
  /\ Verdicts \subseteq RawStatuses \ {"PENDING"}
  /\ NaN \notin Nat
  /\ Null \notin RawStatuses \cup [tx : {"tx"}, status : RawStatuses]

(* What is fixed before the call: maxPollAttempts, which nothing checks (an   *)
(* empty variable is 0, other text NaN), whether AbortSignal.timeout takes    *)
(* requestTimeoutMs (it throws on NaN and on negative numbers), and whether   *)
(* the command has a card, which the body of the request may lack.            *)
Settings == [maxPollAttempts : {MaxPollAttempts, 0, NaN},
             timeoutIsValid : BOOLEAN, hasCard : BOOLEAN]

VARIABLES
  config,    \* PaymentGatewayConfig and the command
  step,      \* which exchange charge() awaits
  attempt,   \* pollUntilFinal's argument
  sent,      \* history: HTTP requests sent
  posted,    \* history: POST /transactions sent
  charge,    \* the gateway's raw status of our charge, Null if it opened none
  result     \* what charge() came to

adapterVars == <<config, step, attempt, sent, posted, charge, result>>

Awaiting == {"acceptance", "token", "create", "created", "poll"}

(* What comes back from one exchange. A timed-out or refused connection, a    *)
(* body that breaks off, an HTTP error status and a body that is not JSON all *)
(* become a GATEWAY_ERROR; JSON of another shape makes the callback that      *)
(* reads it throw, which no Result carries.                                   *)
Answers == {"noResponse", "noBody", "httpError", "notJson", "wrongShape", "ok"}

request(answer) ==
  CASE answer = "ok"         -> "value"
    [] answer = "wrongShape" -> "throws"
    [] OTHER                 -> "error"

(* How charge() ends: with a ChargeResult naming the charge, on the error     *)
(* track, or by throwing.                                                     *)
ChargeResult(status) == [kind |-> "result", status |-> status]

failure(kind) == [kind |-> kind, status |-> Null]

unknown == failure("none")

Init ==
  /\ config \in Settings
  /\ step = "acceptance"
  /\ attempt = 0 /\ sent = 0 /\ posted = 0
  /\ charge = Null
  /\ result = unknown

conclude(r) ==
  /\ step' = "done"
  /\ result' = r
  /\ attempt' = 0

(* The failure track of an exchange. *)
fails(answer) ==
  \/ request(answer) = "error"  /\ conclude(failure("gatewayError"))
  \/ request(answer) = "throws" /\ conclude(failure("thrown"))

(* A poll that finds PENDING is the last one when "attempt >= maxPollAttempts" *)
(* says so; comparing with NaN is always false.                               *)
pollsForEver == config.maxPollAttempts = NaN

pollBudget ==
  IF config.maxPollAttempts = 0 THEN 1 ELSE config.maxPollAttempts

(* Counted up to one beyond what a call may send.                             *)
countRequest == sent' = IF sent > 3 + MaxPollAttempts THEN sent ELSE sent + 1

proceedTo(s) == step' = s /\ UNCHANGED <<attempt, result>>

(* Building the request throws, and none is sent.                             *)
callThrows ==
  /\ \/ step = "acceptance" /\ ~config.timeoutIsValid
     \/ step = "token" /\ ~config.hasCard
  /\ conclude(failure("thrown"))
  /\ UNCHANGED <<config, sent, posted, charge>>

fetchAcceptanceToken(answer) ==
  /\ step = "acceptance" /\ config.timeoutIsValid
  /\ countRequest
  /\ (request(answer) = "value" /\ proceedTo("token")) \/ fails(answer)
  /\ UNCHANGED <<config, posted, charge>>

tokenizeCard(answer) ==
  /\ step = "token" /\ config.hasCard
  /\ countRequest
  /\ (request(answer) = "value" /\ proceedTo("create")) \/ fails(answer)
  /\ UNCHANGED <<config, posted, charge>>

(* The POST may open a charge whatever becomes of its answer.                 *)
postTransaction ==
  /\ step = "create"
  /\ countRequest
  /\ posted' = posted + 1
  /\ charge' \in {"PENDING", Null}
  /\ proceedTo("created")
  /\ UNCHANGED config

toChargeResultTrusting ==                                    \* seeded fault
  ChargeResult(IF charge \in TransactionStatusEnum THEN charge ELSE "APPROVED")
toChargeResult == ChargeResult(mapStatus(charge))

createdRetrying(answer) ==                                   \* seeded fault
  /\ step = "created"
  /\ \/ /\ answer = "noResponse" /\ charge = Null
        /\ proceedTo("create")
     \/ /\ charge # Null /\ request(answer) = "value"
        /\ conclude(toChargeResult)
     \/ answer # "noResponse" /\ fails(answer)
  /\ UNCHANGED <<config, sent, posted, charge>>

created(answer) ==
  /\ step = "created"
  /\ \/ /\ charge # Null /\ request(answer) = "value"
        /\ \/ /\ toChargeResult.status = "PENDING"
              /\ step' = "poll" /\ attempt' = 1 /\ UNCHANGED result
           \/ /\ toChargeResult.status # "PENDING"
              /\ conclude(toChargeResult)
     \/ fails(answer)
  /\ UNCHANGED <<config, sent, posted, charge>>

exhaustedLate == ~pollsForEver /\ attempt > config.maxPollAttempts      \* seeded fault
exhaustedEarly == ~pollsForEver /\ attempt + 1 >= config.maxPollAttempts \* seeded fault
exhausted == ~pollsForEver /\ attempt >= config.maxPollAttempts

nextAttemptForgotten == attempt' = attempt                               \* seeded fault
nextAttemptWrapping == attempt' = (attempt + 1) % MaxPollAttempts        \* seeded fault

(* Bound: beyond MaxPollAttempts, which only NaN allows, attempt alternates   *)
(* between two values.                                                        *)
nextAttempt ==
  attempt' = IF attempt > MaxPollAttempts THEN attempt - 1 ELSE attempt + 1

(* One round: the delay, then getTransactionStatus.                           *)
pollUntilFinal(answer) ==
  /\ step = "poll"
  /\ countRequest
  /\ \/ /\ request(answer) = "value"
        /\ toChargeResult.status # "PENDING" \/ exhausted
        /\ conclude(toChargeResult)
     \/ /\ request(answer) = "value"
        /\ toChargeResult.status = "PENDING" /\ ~exhausted
        /\ nextAttempt
        /\ UNCHANGED <<step, result>>
     \/ fails(answer)
  /\ UNCHANGED <<config, posted, charge>>

(* External: the gateway decides the charge.                                  *)
settle ==
  /\ charge = "PENDING"
  /\ charge' \in Verdicts
  /\ UNCHANGED <<config, step, attempt, sent, posted, result>>

adapterStep ==
  \/ \E answer \in Answers :
       \/ fetchAcceptanceToken(answer) \/ tokenizeCard(answer)
       \/ created(answer) \/ pollUntilFinal(answer)
  \/ postTransaction
  \/ callThrows

Next == adapterStep \/ settle

Spec == Init /\ [][Next]_adapterVars

(* AbortSignal.timeout ends every exchange and setTimeout every delay.        *)
FairSpec == Spec /\ WF_adapterVars(adapterStep)

-----------------------------------------------------------------------------
(* Properties                                                                 *)

AdapterTypeOK ==
  /\ config \in Settings
  /\ step \in Awaiting \cup {"done"}
  /\ IF pollsForEver THEN attempt \in 0..(MaxPollAttempts + 1)
                     ELSE attempt \in 0..pollBudget
  /\ sent \in Nat /\ posted \in Nat
  /\ charge \in RawStatuses \cup {Null}
  /\ \/ result \in {ChargeResult(s) : s \in TransactionStatusEnum}
     \/ result \in {failure(k) : k \in {"none", "gatewayError", "thrown"}}

(* One call never asks the gateway twice for the money, whatever it hears     *)
(* back and however it is configured, and keeps to its budget of requests     *)
(* where there is one (charge, pollUntilFinal).                               *)
AsksOnce ==
  /\ posted <= 1
  /\ ~pollsForEver => sent <= 3 + pollBudget

(* A result that is not a failure is the gateway's own word on the charge, and*)
(* PENDING is reported only after every poll was spent (toChargeResult).      *)
ResultIsHonest ==
  result.kind = "result" =>
    /\ result.status # "PENDING" => charge # Null /\ result.status = mapStatus(charge)
    /\ result.status = "PENDING" => ~pollsForEver /\ sent = 3 + pollBudget

(* How many exchanges a call still has before it, at most, and its result.    *)
exchangesLeft ==
  CASE step = "acceptance" -> pollBudget + 4
    [] step = "token"      -> pollBudget + 3
    [] step = "create"     -> pollBudget + 2
    [] step = "created"    -> pollBudget + 1
    [] step = "poll"       -> pollBudget + 1 - attempt
    [] OTHER               -> 0

(* Whatever comes back from an exchange, and whatever the gateway decides     *)
(* meanwhile, a call whose attempts are a number is brought nearer to its     *)
(* result by each of its own steps, a poll that repeats an exchange included, *)
(* and is never sent back to an exchange behind it (charge, pollUntilFinal).  *)
ExchangesAreBounded ==
  [][~pollsForEver /\ step # "done" =>
       exchangesLeft' < exchangesLeft
         \/ UNCHANGED <<step, attempt, sent, posted, result>>]_adapterVars

(* Every call comes back within its attempts, if these are a number           *)
(* (pollUntilFinal).                                                          *)
ChargeEnds == ~pollsForEver => <>(step = "done")

(* However it is configured, a call comes back once the gateway has decided,  *)
(* whatever it decided (pollUntilFinal, toChargeResult).                      *)
DecidedChargeEnds == charge \notin {"PENDING", Null} ~> step = "done"

(* The step-by-step adapter is a payer of Payments between loading the        *)
(* customer and applying the outcome; see ImplementsPayer.                    *)
abstractPc ==
  CASE step \in {"acceptance", "token", "create"}    -> "charge"
    [] step = "created" /\ charge = Null             -> "charge"
    [] step = "created" /\ charge # Null             -> "posted"
    [] step = "poll"                                 -> "poll"
    [] step = "done" /\ result.kind = "thrown"            -> "done"
    [] OTHER                                         -> "apply"

abstractOutcome ==
  CASE step # "done" \/ result.kind = "thrown" -> Null
    [] result.kind = "gatewayError" -> [status |-> "ERROR", gatewayId |-> Null]
    [] OTHER -> [status |-> result.status, gatewayId |-> "call"]

aRow == [status |-> "PENDING", gatewayId |-> Null, product |-> "product", quantity |-> 1]

Payer == INSTANCE Payments WITH
  Transactions <- {"tx"}, Products <- {"product"}, Quantities <- {1},
  InitialStock <- [p \in {"product"} |-> 1],
  Payers <- {"call"}, Hooks <- {}, IdempotentReference <- FALSE,
  Faults <- {"gateway"},
  transactions <- [t \in {"tx"} |-> aRow],
  stock <- [p \in {"product"} |-> 1],
  deliveries <- [t \in {"tx"} |-> "PENDING"],
  charges <- [c \in {"call"} |->
                IF charge = Null THEN Null ELSE [tx |-> "tx", status |-> charge]],
  acked <- {},
  pc <- [w \in {"call"} |-> abstractPc],
  target <- [w \in {"call"} |-> "tx"],
  outcome <- [w \in {"call"} |-> abstractOutcome],
  attempt <- [p \in {"call"} |-> attempt],
  reply <- [p \in {"call"} |-> IF result.kind = "thrown" THEN "UNEXPECTED_ERROR" ELSE "none"],
  taken <- [t \in {"tx"} |-> 0]

(* With a sound setting, that is: Payments knows no polling without end.      *)
ImplementsPayer ==
  [][config.maxPollAttempts = MaxPollAttempts => Payer!Next]_(Payer!vars)

-----------------------------------------------------------------------------
(* What makes the safety properties inductive: the requests sent so far are   *)
(* those of the exchanges behind, and of the polls counted; the charge comes  *)
(* with the POST, the count with the polls.                                   *)
SentOK ==
  /\ step \in {"acceptance", "token", "create"} => posted = 0 /\ charge = Null
  /\ step = "acceptance" => sent = 0
  /\ step = "token"      => sent = 1
  /\ step = "create"     => sent = 2
  /\ step = "created"    => sent = 3
  /\ step = "poll"       =>
       charge # Null /\ attempt > 0 /\ (~pollsForEver => sent = 2 + attempt)
  /\ step # "poll"       => attempt = 0
  /\ step # "done"       => result = unknown

(* The inductive invariant of one call of charge.                             *)
AdapterInv == AdapterTypeOK /\ SentOK /\ AsksOnce /\ ResultIsHonest
=============================================================================
