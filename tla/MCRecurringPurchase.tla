-------------------------- MODULE MCRecurringPurchase --------------------------
(* Two users' requests beside the daily job.                               *)
EXTENDS RecurringPurchase

CONSTANTS r1, r2
===============================================================================
