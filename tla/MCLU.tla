------------------------------- MODULE MCLU --------------------------------
(* LUDecomp, LUSolve and LUOps over the fields of Fields. *)
EXTENDS LUOps, Fields

ASSUME AssumptionsHold == Assumptions
=============================================================================
