---------------------------- MODULE DomainErrors ----------------------------
(* How a request can end other than well: the codes of the failure track, an  *)
(* exception no Result carries, a connection that breaks off, and a body the  *)
(* ValidationPipe refuses; and the HTTP status its client sees.               *)
EXTENDS Integers

DomainErrorCode ==
  {"PRODUCT_NOT_FOUND", "TRANSACTION_NOT_FOUND", "INSUFFICIENT_STOCK",
   "INVALID_CARD", "INVALID_QUANTITY", "TRANSACTION_ALREADY_FINALIZED",
   "INVALID_WEBHOOK_SIGNATURE", "GATEWAY_ERROR", "PERSISTENCE_ERROR"}

UnexpectedError == "UNEXPECTED_ERROR"

NoAnswer == "NO_ANSWER"

ValidationError == "VALIDATION_ERROR"

Failures == DomainErrorCode \cup {UnexpectedError, NoAnswer}

STATUS_BY_CODE == [code \in DomainErrorCode |->
  CASE code \in {"PRODUCT_NOT_FOUND", "TRANSACTION_NOT_FOUND"}              -> 404
    [] code \in {"INSUFFICIENT_STOCK", "TRANSACTION_ALREADY_FINALIZED"}     -> 409
    [] code \in {"INVALID_CARD", "INVALID_QUANTITY"}                        -> 422
    [] code = "INVALID_WEBHOOK_SIGNATURE"                                   -> 401
    [] code = "GATEWAY_ERROR"                                               -> 502
    [] code = "PERSISTENCE_ERROR"                                           -> 500]

NoStatus == 0

(* The status of an answer: an exception that is no HttpException is a 500,   *)
(* a broken connection carries none, a refused body is a 400, and everything  *)
(* else succeeded.                                                            *)
toHttpStatus(answer) ==
  CASE answer \in DomainErrorCode -> STATUS_BY_CODE[answer]
    [] answer = UnexpectedError   -> 500
    [] answer = NoAnswer          -> NoStatus
    [] answer = ValidationError   -> 400
    [] answer \notin Failures \cup {ValidationError} -> 200
=============================================================================
