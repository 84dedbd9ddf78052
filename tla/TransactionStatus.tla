-------------------------- MODULE TransactionStatus --------------------------
(* The lifecycle states of a transaction and of its delivery, shared by every *)
(* module. Raw statuses are what the card gateway puts on the wire: the same  *)
(* five names, or a name this program does not know ("OTHER").                *)

TransactionStatusEnum == {"PENDING", "APPROVED", "DECLINED", "VOIDED", "ERROR"}

FinalStatuses == {"APPROVED", "DECLINED", "VOIDED", "ERROR"}

isFinalStatus(status) == status \in FinalStatuses

DeliveryStatusEnum ==
  {"PENDING", "ASSIGNED", "SHIPPED", "DELIVERED", "CANCELLED"}

RawStatuses == TransactionStatusEnum \cup {"OTHER"}

mapStatusPending(raw) ==                                     \* seeded fault
  IF raw \in TransactionStatusEnum THEN raw ELSE "PENDING"

(* A gateway status outside the enumeration is recorded as ERROR, by the      *)
(* webhook handler and by the gateway adapter alike.                          *)
mapStatus(raw) == IF raw \in TransactionStatusEnum THEN raw ELSE "ERROR"
=============================================================================
