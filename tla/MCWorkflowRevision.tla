-------------------------- MODULE MCWorkflowRevision --------------------------
(* Instances of WorkflowRevision.                                          *)
EXTENDS WorkflowRevision, TLC

CONSTANTS r1, r2

MCSymmetry == Permutations(Requests)
===============================================================================
