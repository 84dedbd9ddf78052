--------------------------- MODULE RequestBodies ---------------------------
(* The bodies of POST /transactions and POST /transactions/:id/payment, and   *)
(* what the global ValidationPipe lets pass of them: the decorators of the    *)
(* DTO classes as data, one rule per field.                                   *)
(*                                                                            *)
(* A plain field carries at least one decorator that refuses undefined and    *)
(* null, unless IsOptional exempts it. ValidateNested alone refuses what is   *)
(* neither an object nor a list, checks the members of what is there, and has *)
(* nothing to check in undefined, null and a list without members.            *)
EXTENDS Integers

CustomerDto ==
  [f \in {"email", "fullName", "document", "documentType", "phoneNumber"} |-> "required"]

DeliveryDtoOptionalRegion ==                                 \* seeded fault
  [recipientName |-> "required", address |-> "required", city |-> "required",
   region |-> "optional", country |-> "required", postalCode |-> "optional",
   phoneNumber |-> "required"]

DeliveryDto ==
  [recipientName |-> "required", address |-> "required", city |-> "required",
   region |-> "required", country |-> "required", postalCode |-> "optional",
   phoneNumber |-> "required"]

CreateTransactionDto ==
  [productId |-> "required", quantity |-> "required", cardNumber |-> "required",
   customer |-> "nested", delivery |-> "nested"]

CardDto ==
  [f \in {"number", "cvc", "expMonth", "expYear", "cardHolder"} |-> "required"]

ProcessPaymentDto == [installments |-> "required", card |-> "nested"]

(* The class a nested field is transformed to (@Type).                        *)
NestedTypes == [customer |-> CustomerDto, delivery |-> DeliveryDto, card |-> CardDto]

(* What a field may hold: "proper" fits every decorator of the field,         *)
(* "malformed" breaks one; a nested field is there as an "object" with        *)
(* members of its own, or it is not.                                          *)
PlainValues  == {"absent", "null", "malformed", "proper"}
NestedValues == {"absent", "null", "scalar", "emptyList", "object"}

valuesOf(rule) == IF rule = "nested" THEN NestedValues ELSE PlainValues

(* A body is [fields, members, extra]: its own fields, the members of its     *)
(* nested objects by field, and whether it has a property no class declares.  *)
properFields(dto) ==
  [f \in DOMAIN dto |-> IF dto[f] = "nested" THEN "object" ELSE "proper"]

nestedFields(dto) == {f \in DOMAIN dto : dto[f] = "nested"}

properBody(dto) ==
  [fields  |-> properFields(dto),
   members |-> [n \in nestedFields(dto) |-> properFields(NestedTypes[n])],
   extra   |-> FALSE]

(* The bodies that differ from a proper one in at most two places.            *)
variants(dto, body) ==
  {[body EXCEPT !.fields[f] = v] : f \in DOMAIN dto, v \in PlainValues \cup NestedValues}
  \cup {[body EXCEPT !.extra = TRUE]}
  \cup UNION {{[body EXCEPT !.members[n][f] = v] : f \in DOMAIN NestedTypes[n], v \in PlainValues}
              : n \in nestedFields(dto)}

isBody(dto, body) == \A f \in DOMAIN dto : body.fields[f] \in valuesOf(dto[f])

bodiesNear(dto) ==
  {b \in UNION {variants(dto, v) : v \in variants(dto, properBody(dto))} : isBody(dto, b)}

-----------------------------------------------------------------------------
(* class-validator, with whitelist and forbidNonWhitelisted.                  *)
passesRule(rule, value) ==
  CASE rule = "required" -> value = "proper"
    [] rule = "optional" -> value \in {"absent", "null", "proper"}
    [] rule = "nested"   -> value \in {"absent", "null", "emptyList", "object"}

passesPipe(dto, body) ==
  /\ ~body.extra
  /\ \A f \in DOMAIN dto : passesRule(dto[f], body.fields[f])
  /\ \A n \in nestedFields(dto) : body.fields[n] = "object" =>
       \A f \in DOMAIN NestedTypes[n] : passesRule(NestedTypes[n][f], body.members[n][f])

-----------------------------------------------------------------------------
(* What the rest of the service needs of a body that passed: the columns of   *)
(* the schema that take no null, and the card data the gateway asks for.      *)
RequiredMembers ==
  [customer |-> {"email", "fullName", "document", "documentType", "phoneNumber"},
   delivery |-> {"recipientName", "address", "city", "region", "country", "phoneNumber"},
   card     |-> {"number", "cvc", "expMonth", "expYear", "cardHolder"}]

RequiredFields == {"productId", "quantity", "cardNumber", "installments"}
=============================================================================
