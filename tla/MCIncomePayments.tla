--------------------------- MODULE MCIncomePayments ---------------------------
(* Instances of IncomePayments.                                              *)
EXTENDS IncomePayments, TLC

CONSTANTS o1, o2, r1, b1

MCSymmetry == Permutations(Orders) \cup Permutations(Refunds) \cup Permutations(Rows)
===============================================================================
