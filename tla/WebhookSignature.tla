-------------------------- MODULE WebhookSignature --------------------------
(* WebhookSignatureService and the checks HandlePaymentWebhookUseCase makes   *)
(* before it: which events verify. Text is a sequence of characters, and a    *)
(* digest is the text it was taken of: equal digests mean equal texts.        *)
EXTENDS Integers, Sequences, SequencesExt

(* JSON values, and undefined.                                                *)
scalar(kind, text) == [kind |-> kind, text |-> text]
object(members)    == [kind |-> "object", members |-> members]
nullValue          == [kind |-> "null"]
undefinedValue     == [kind |-> "undefined"]

(* One key of a dotted path; a path is the sequence of its keys.              *)
member(value, key) ==
  IF value.kind = "object" /\ key \in DOMAIN value.members
    THEN value.members[key]
    ELSE undefinedValue

textOfStringsOnly(value) ==                                  \* seeded fault
  IF value.kind = "string" THEN value.text ELSE <<>>

(* Objects and nullish values never take part in the signature.               *)
textOf(value) ==
  IF value.kind \in {"string", "number", "boolean"} THEN value.text ELSE <<>>

resolveProperty(data, path) == textOf(FoldLeft(member, data, path))

(* The values of the listed properties, in their order.                       *)
concatenated(data, properties) ==
  FoldLeft(LAMBDA text, path : text \o resolveProperty(data, path), <<>>, properties)

buildChecksumSecretFirst(data, properties, timestamp, secret) ==  \* seeded fault
  concatenated(data, properties) \o secret \o timestamp

buildChecksum(data, properties, timestamp, secret) ==
  concatenated(data, properties) \o timestamp \o secret

(* A received checksum: "hex" digits of the digest of some text, in lower or  *)
(* upper case, a text of another length, or one as long as a digest with      *)
(* characters that UTF-8 encodes in several bytes.                            *)
ChecksumForms == {"lowerHex", "upperHex", "otherLength", "multiByte"}

(* Lengths are compared before the received text is lower-cased and encoded,  *)
(* and timingSafeEqual throws on buffers of different lengths.                *)
isValid(expected, received) ==
  CASE received.form = "otherLength" -> "invalid"
    [] received.form = "multiByte"   -> "throws"
    [] OTHER -> IF received.digestOf = expected THEN "valid" ELSE "invalid"

(* An event's body is not validated (PaymentWebhookEvent is an interface), so *)
(* any part of its signature may be missing, and properties may be a text,    *)
(* which has a length but no map.                                             *)
SignatureParts == {"properties", "checksum", "timestamp"}

verifySignature(event, secret) ==
  CASE event.missing # {}           -> "invalid"
    [] event.properties = "text"    -> "throws"
    [] event.paths = <<>>           -> "invalid"
    [] OTHER ->
         isValid(buildChecksum(event.data, event.paths, event.timestamp, secret),
                 event.checksum)

-----------------------------------------------------------------------------
(* scripts/build-webhook-event.js: the same rule, written a second time.      *)

scriptText(value) ==
  CASE value.kind \in {"null", "undefined"} -> <<>>
    [] value.kind = "object"               -> <<"[object Object]">>
    [] OTHER                               -> value.text

scriptData(reference, status, gatewayId) ==
  object([transaction |-> object(
    [id |-> scalar("string", gatewayId), reference |-> scalar("string", reference),
     status |-> scalar("string", status), status_message |-> nullValue])])

scriptProperties == << <<"transaction", "id">>, <<"transaction", "status">> >>

scriptConcatenated(data) ==
  FlattenSeq([i \in DOMAIN scriptProperties |->
                scriptText(FoldLeft(member, data, scriptProperties[i]))])

scriptEvent(reference, status, gatewayId, timestamp, secret) ==
  LET data == scriptData(reference, status, gatewayId) IN
  [data |-> data, properties |-> "list", paths |-> scriptProperties,
   timestamp |-> timestamp, missing |-> {},
   checksum |-> [form |-> "lowerHex",
                 digestOf |-> scriptConcatenated(data) \o timestamp \o secret]]
=============================================================================
