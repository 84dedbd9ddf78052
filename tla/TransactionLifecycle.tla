------------------------ MODULE TransactionLifecycle ------------------------
(* What the transaction-states table of the README promises of every          *)
(* transaction, with no requests, gateway or failures in sight: it is decided *)
(* once, an approved one takes its units from the stock once, and only then   *)
(* is it shipped.                                                             *)
EXTENDS Integers, TransactionStatus

CONSTANT Transactions

VARIABLES
  status,   \* of each transaction, "ABSENT" where there is none
  units,    \* how many times its units were taken
  shipped   \* transactions whose delivery is assigned

vars == <<status, units, shipped>>

Init ==
  /\ status \in [Transactions -> {"PENDING", "ABSENT"}]
  /\ units = [t \in Transactions |-> 0]
  /\ shipped = {}

Record(t) ==
  /\ status[t] = "ABSENT"
  /\ status' = [status EXCEPT ![t] = "PENDING"]
  /\ UNCHANGED <<units, shipped>>

Decide(t) ==
  /\ status[t] = "PENDING"
  /\ \E s \in FinalStatuses : status' = [status EXCEPT ![t] = s]
  /\ UNCHANGED <<units, shipped>>

TakeUnits(t) ==
  /\ status[t] = "APPROVED"
  /\ units[t] = 0
  /\ units' = [units EXCEPT ![t] = 1]
  /\ UNCHANGED <<status, shipped>>

Ship(t) ==
  /\ units[t] = 1
  /\ shipped' = shipped \cup {t}
  /\ UNCHANGED <<status, units>>

Next == \E t \in Transactions : Record(t) \/ Decide(t) \/ TakeUnits(t) \/ Ship(t)

Spec == Init /\ [][Next]_vars
=============================================================================
