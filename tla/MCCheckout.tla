----------------------------- MODULE MCCheckout -----------------------------
(* Instances of Checkout for TLC. The stock a checkout sees is any value up   *)
(* to Units and does not change here: Shop lets payments spend it.            *)
EXTENDS Checkout, TLC

CONSTANTS Units, UnitPrice

MCPrice == [p \in Products |-> UnitPrice]

MCInit == stock \in [Products -> 0..Units] /\ Init

MCSpec == MCInit /\ [][Next]_checkoutVars

Interchangeable == Permutations(Transactions) \cup Permutations(References)
                   \cup Permutations(Emails) \cup Permutations(Details)
=============================================================================
