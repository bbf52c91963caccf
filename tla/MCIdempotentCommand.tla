-------------------------- MODULE MCIdempotentCommand --------------------------
(* The instance of IdempotentCommand: three calls under two keys, one of them *)
(* the key of a cancellation.                                                 *)
EXTENDS IdempotentCommand

CONSTANTS a1, a2, a3, k1, k2, q1, q2
===============================================================================
