-------------------------- MODULE MCSupplierPayments --------------------------
(* Instances of SupplierPayments: a payable of two, which one payment covers, *)
(* another in part, and both exceed.                                          *)
EXTENDS SupplierPayments, TLC

CONSTANTS r1, r2, p1, p2

MCAmount == [p \in Payments |-> IF p = p1 THEN 2 ELSE 1]
MCSymmetry == Permutations(Requests)
===============================================================================
