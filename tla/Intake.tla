------------------------------- MODULE Intake -------------------------------
(* What the service lets in. A request that changes something passes the      *)
(* ValidationPipe of its DTO and then the checks its use case makes before    *)
(* the first awaited call; what is admitted here is what Checkout, Payments   *)
(* and its webhook requests start from. The exception filter answers the      *)
(* rest.                                                                      *)
EXTENDS CardNumbers, RequestBodies, WebhookSignature, DomainErrors

CONSTANTS
  Texts,        \* texts a webhook event's values may have
  PathLists,    \* lists of properties an event may be signed over
  Timestamp, Secret, \* as texts
  SomeCard      \* a card number, where the number does not matter

idPath     == <<"transaction", "id">>
statusPath == <<"transaction", "status">>

(* The object as a whole and a path that leads nowhere are among them.        *)
Paths == {idPath, statusPath, <<"transaction">>, <<"transaction", "amount">>}

ASSUME IntakeAssumption ==
  /\ SomeCard \in Numbers /\ isLuhn(SomeCard)
  /\ Texts \subseteq Seq(STRING) /\ Timestamp \in Seq(STRING) /\ Secret \in Seq(STRING)
  /\ Secret # <<>>
  /\ PathLists \subseteq Seq(Paths)

VARIABLES
  request,   \* what arrived: its kind, and its content
  stage,     \* how far it got
  answer     \* what it was answered, "none" while it is under way or admitted

intakeVars == <<request, stage, answer>>

-----------------------------------------------------------------------------
(* The requests.                                                              *)

Checkouts ==
  [kind : {"checkout"}, body : bodiesNear(CreateTransactionDto), card : {SomeCard}]
  \cup [kind : {"checkout"}, body : {properBody(CreateTransactionDto)}, card : Numbers]

PaymentRequests == [kind : {"payment"}, body : bodiesNear(ProcessPaymentDto)]

Values ==
  {scalar(k, t) : k \in {"string", "number"}, t \in Texts} \cup {nullValue, undefinedValue}

transactionData(id, status) ==
  object([transaction |-> object([id |-> id, status |-> status])])

(* An event whose checksum is of the form f, taken of its own content or of   *)
(* something else.                                                            *)
eventOf(data, paths, properties, missing, f, genuine) ==
  [data |-> data, properties |-> properties, paths |-> paths,
   timestamp |-> Timestamp, missing |-> missing,
   checksum |-> [form |-> f,
                 digestOf |-> IF genuine
                              THEN buildChecksum(data, paths, Timestamp, Secret)
                              ELSE Secret]]

WebhookEvents ==
  {eventOf(transactionData(id, status), paths, "list", {}, f, genuine) :
     id \in Values, status \in Values, paths \in PathLists,
     f \in ChecksumForms, genuine \in BOOLEAN}
  \cup {eventOf(undefinedValue, <<idPath>>, properties, missing, "lowerHex", genuine) :
          properties \in {"list", "text"}, missing \in SUBSET SignatureParts,
          genuine \in BOOLEAN}

EventRequests ==
  [kind : {"event"}, event : WebhookEvents]
  \cup [kind : {"scriptEvent"},
        event : {scriptEvent(<<"r">>, status, id, Timestamp, Secret) :
                   status \in Texts, id \in Texts}]

isEvent == request.kind \in {"event", "scriptEvent"}

-----------------------------------------------------------------------------
Init ==
  /\ request \in Checkouts \cup PaymentRequests \cup EventRequests
  /\ stage = "arrived"
  /\ answer = "none"

refuseUnanswered(a) ==                                       \* seeded fault
  stage' = "refused" /\ UNCHANGED <<request, answer>>

(* unwrapOrThrow and the pipe throw, the filter answers.                      *)
refuse(a) == stage' = "refused" /\ answer' = a /\ UNCHANGED request
proceed(s) == stage' = s /\ UNCHANGED <<request, answer>>

(* The pipe leaves alone a parameter whose type is an interface.              *)
passes ==
  CASE request.kind = "checkout" -> passesPipe(CreateTransactionDto, request.body)
    [] request.kind = "payment"  -> passesPipe(ProcessPaymentDto, request.body)
    [] OTHER                     -> TRUE

validate ==
  /\ stage = "arrived"
  /\ (passes /\ proceed("handler")) \/ (~passes /\ refuse(ValidationError))

(* CreateTransactionUseCase.validateCard. *)
checkCard ==
  /\ stage = "handler" /\ request.kind = "checkout"
  /\ \/ isValidNumber(request.card) /\ proceed("admitted")
     \/ ~isValidNumber(request.card) /\ refuse("INVALID_CARD")

(* ProcessPaymentUseCase checks nothing of its input before it loads the      *)
(* transaction.                                                               *)
takePayment == stage = "handler" /\ request.kind = "payment" /\ proceed("admitted")

checkSignature ==
  /\ stage = "handler" /\ isEvent
  /\ LET verdict == verifySignature(request.event, Secret) IN
     \/ verdict = "valid" /\ proceed("admitted")
     \/ verdict = "invalid" /\ refuse("INVALID_WEBHOOK_SIGNATURE")
     \/ verdict = "throws" /\ refuse(UnexpectedError)

Next == validate \/ checkCard \/ takePayment \/ checkSignature

Spec == Init /\ [][Next]_intakeVars

-----------------------------------------------------------------------------
(* Properties                                                                 *)

IntakeTypeOK ==
  /\ stage \in {"arrived", "handler", "admitted", "refused"}
  /\ (answer = "none") = (stage # "refused")
  /\ stage = "refused" => toHttpStatus(answer) \in {400, 401, 422, 500}

(* Checkout accepts exactly the numbers the standard of the checksum accepts  *)
(* (isValidNumber).                                                           *)
AcceptsLuhn ==
  request.kind = "checkout" =>
    /\ stage = "admitted" => isLuhn(request.card)
    /\ answer = "INVALID_CARD" => ~isLuhn(request.card)

(* No slip of the hand turns an accepted number into another accepted one: a  *)
(* wrong digit, or two neighbours exchanged unless they are 0 and 9           *)
(* (isValidNumber, "structurally impossible card numbers").                   *)
CatchesSlips ==
  stage = "admitted" /\ request.kind = "checkout" =>
    LET number == request.card IN
    /\ \A i \in DOMAIN number, d \in Digits :
         d # number[i] => ~isLuhn([number EXCEPT ![i] = d])
    /\ \A i \in 1..(Len(number) - 1) :
         number[i] # number[i + 1] /\ {number[i], number[i + 1]} # {0, 9}
           => ~isLuhn(swapped(number, i))

(* The patterns, alternative by alternative, cover the ranges their comment   *)
(* names and nothing else: 51-55 and 2221-2720 for Mastercard, 4 for Visa     *)
(* (detectBrand).                                                             *)
BrandsByRange ==
  request.kind = "checkout" =>
    LET number == request.card IN
    Len(number) = 4 /\ allDigits(number) =>
      \A n \in 12..20 :
        LET brand == detectBrand(number, n) IN
        /\ (brand = "MASTERCARD") <=>
             (n = 16 /\ prefix(number) \in (5100..5599 \cup 2221..2720))
        /\ (brand = "VISA") <=>
             (n \in {13, 16, 19} /\ prefix(number) \in 4000..4999)

(* An admitted body has a sound value for everything the tables take no null  *)
(* for and everything the gateway is asked to tokenise, unless one of its     *)
(* nested objects is missing altogether (DTO decorators against the schema).  *)
AdmittedIsStorable ==
  stage = "admitted" /\ request.kind \in {"checkout", "payment"} =>
    LET body == request.body IN
    /\ \A f \in DOMAIN body.fields \cap RequiredFields : body.fields[f] = "proper"
    /\ \A n \in DOMAIN body.members : body.fields[n] = "object" =>
         \A f \in RequiredMembers[n] : body.members[n][f] = "proper"

(* Every event the development script signs verifies: the two implementations *)
(* of the provider's rule agree (build-webhook-event.js, buildChecksum).      *)
ScriptVerifies == request.kind = "scriptEvent" => stage # "refused"

replaced(event, path, value) ==
  [event EXCEPT !.data.members["transaction"].members[path[2]] = value]

(* What an admitted event lists is what was signed: put another text in place *)
(* of one value signature.properties lists, id or status, and the event no    *)
(* longer verifies. What is not listed, such as the reference, is not covered *)
(* (resolveProperty, buildChecksum, isValid).                                 *)
OneChangeIsNoticed ==
  stage = "admitted" /\ request.kind = "event" =>
    \A i \in DOMAIN request.event.paths :
      LET path == request.event.paths[i] IN
      path \in {idPath, statusPath} /\ request.event.data # undefinedValue =>
        \A k \in {"string", "number"}, t \in Texts :
          t # resolveProperty(request.event.data, path) =>
            verifySignature(replaced(request.event, path, scalar(k, t)), Secret) # "valid"
=============================================================================
