-------------------------- MODULE MCSerialPayments --------------------------
(* Instances of SerialPayments for TLC. *)
EXTENDS SerialPayments

CONSTANTS Units

MCInitialStock == [p \in Products |-> Units]
=============================================================================
