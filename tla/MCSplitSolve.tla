---------------------------- MODULE MCSplitSolve ----------------------------
(***************************************************************************)
(* Solving with the routines of mv_generic.h: a behaviour either           *)
(* decomposes one matrix and solves with its factors (LUOps), or solves an *)
(* overdetermined system in two parts (SplitSolve), whose top part is      *)
(* square here, so that the determinant can be had from it.                *)
(***************************************************************************)
EXTENDS LUOps, Fields

CONSTANTS SysRows, SysCols, SysTop   \* NRow, NCol and NTop of SplitSolve

VARIABLES lu_A0, lu_A, lu_rp, lu_cp, lu_i, lu_pc, sys, sol, Y2, top, part

splitVars == <<lu_A0, lu_A, lu_rp, lu_cp, lu_i, lu_pc, sys, sol, Y2, top, part>>

ASSUME AssumptionsHold == Assumptions

Split == INSTANCE SplitSolve WITH
  NRow <- SysRows, NCol <- SysCols, NTop <- SysTop,
  A0 <- lu_A0, A <- lu_A, rp <- lu_rp, cp <- lu_cp, i <- lu_i, pc <- lu_pc, M <- sys, X0 <- sol
TopOps == INSTANCE LUOps WITH
  NRow <- SysTop, NCol <- SysCols,
  A0 <- lu_A0, A <- lu_A, rp <- lu_rp, cp <- lu_cp, i <- lu_i, pc <- lu_pc, Leftovers <- {},
  X0 <- <<>>, X <- <<>>, passed <- FALSE, k <- 0, phase <- "decomp"

(* What a behaviour does not do does not begin. *)
NoSystem ==
  /\ lu_A0 = <<>> /\ lu_A = <<>> /\ lu_rp = <<>> /\ lu_cp = <<>> /\ lu_i = 0 /\ lu_pc = "loop"
  /\ sys = <<>> /\ sol = <<>> /\ Y2 = <<>> /\ top = <<>> /\ part = "none"
ZeroMatrix == A0 = [r \in Rows |-> [c \in Cols |-> Zero]]

MCInit == SolveInit /\ (NoSystem \/ (ZeroMatrix /\ Split!Init))

SolveWhole == part = "none" /\ SolveNext /\ UNCHANGED splitVars
SolveParts == part # "none" /\ Split!Next /\ UNCHANGED vars
MCNext == SolveWhole \/ SolveParts

MCSpec == MCInit /\ [][MCNext]_<<vars, splitVars>>

-----------------------------------------------------------------------------
(* The properties of SplitSolve and of the factors of its top. *)

(* The two parts together give the solution of the whole system, and the   *)
(* elimination leaves no error branch to take.                             *)
SolvesInParts == Split!SolvesInParts
(* LU_det of the top factors is the determinant of the top rows, which may *)
(* be singular.                                                            *)
TopDetIsDeterminant == part = "top" => TopOps!DetIsDeterminant

=============================================================================
