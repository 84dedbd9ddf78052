---------------------------- MODULE MCSerialShop ----------------------------
(* Instances of SerialShop for TLC. *)
EXTENDS SerialShop, TLC

CONSTANTS Units, UnitPrice

MCInitialStock == [p \in Products |-> Units]
MCPrice == [p \in Products |-> UnitPrice]

Interchangeable == Permutations(Transactions) \cup Permutations(Payers)
                   \cup Permutations(References)
=============================================================================
