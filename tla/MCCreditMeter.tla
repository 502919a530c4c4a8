--------------------------- MODULE MCCreditMeter ---------------------------
(***************************************************************************)
(* A small instance of CreditMeter for TLC.                                *)
(***************************************************************************)
EXTENDS CreditMeter, TLC

FineOrGift == {-1, 1}
Symmetry   == Permutations(Calls)
=============================================================================
