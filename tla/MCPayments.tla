----------------------------- MODULE MCPayments -----------------------------
(* Instances of Payments for TLC. *)
EXTENDS Payments, TLC

CONSTANTS Units

MCInitialStock == [p \in Products |-> Units]

Interchangeable == Permutations(Transactions) \cup Permutations(Payers)
                   \cup Permutations(Hooks)
=============================================================================
