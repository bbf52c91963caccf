-------------------------- MODULE MCProductionOrder --------------------------
(***************************************************************************)
(* The instance of ProductionOrder for TLC: ProductionOrder.cfg gives its  *)
(* constants.                                                              *)
(***************************************************************************)
EXTENDS ProductionOrder

=============================================================================
