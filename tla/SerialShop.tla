----------------------------- MODULE SerialShop -----------------------------
(* The whole service under the discipline of SerialPayments: payments and     *)
(* webhook requests about one transaction do not overlap, while checkouts run *)
(* as they like. From the row a checkout records to the assigned delivery,    *)
(* every transaction then follows the lifecycle the README promises.          *)
EXTENDS Shop, SerialPayments

SerialShopNext == ShopNext /\ oneAtATime'

SerialShopSpec == ShopInit /\ [][SerialShopNext]_shopVars

-----------------------------------------------------------------------------
(* What SerialInv needs beside ShopInv to stand checkouts that add rows: the  *)
(* id a payment named is still the one its answer is about (execute).         *)
AnsweredKnow == \A p \in Payers : pc[p] # "idle" => target[p] \in Transactions

(* The inductive invariant of the whole service when requests about one       *)
(* transaction do not overlap.                                                *)
SerialShopInv == ShopInv /\ SerialInv /\ AnsweredKnow
=============================================================================
