--------------------------- MODULE MCFinancialOutbox ---------------------------
(* The instance of FinancialOutbox: two processes, three rows taken by twos, *)
(* rounds of two attempts.                                                   *)
EXTENDS FinancialOutbox

CONSTANTS p1, p2
===============================================================================
