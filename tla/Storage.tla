------------------------------ MODULE Storage -------------------------------
(***************************************************************************)
(* The two kinds of matrices in memory: m2v and m256v behind one           *)
(* interface.  A behaviour is one of three: calls on a bit matrix          *)
(* (BitCalls), calls on an octet matrix (OctCalls), or the decomposition   *)
(* of a bit matrix on its packed words (BitLU).  The constants of BitCalls *)
(* are those of both bit matrices; Zero and One are shared by all.         *)
(***************************************************************************)
EXTENDS BitCalls

CONSTANTS OctRows, OctCols, OctF, OctAdd(_, _), OctMul(_, _), Exp(_), Log(_),
          Contents, Alphas, MaxCalls   \* of OctCalls

VARIABLES kind,                    \* "bits", "octets" or "lu"
          C, calls,                \* of OctCalls
          A0, rp, cp, rank, stage  \* of BitLU; rank and stage are its i and pc

octVars == <<C, calls>>
luVars == <<A0, rp, cp, rank, stage>>
storageVars == <<kind, bitVars, octVars, luVars>>

Oct == INSTANCE OctCalls WITH
  NRow <- OctRows, NCol <- OctCols, F <- OctF, Add <- OctAdd, Mul <- OctMul, e <- mem, M <- matrix
Packed == INSTANCE BitLU WITH e <- mem, i <- rank, pc <- stage

NothingDecomposed == A0 = <<>> /\ rp = <<>> /\ cp = <<>> /\ rank = 0 /\ stage = "done"

StorageInit ==
  \/ kind = "bits" /\ BitInit /\ C = A /\ calls = 0 /\ NothingDecomposed
  \/ kind = "octets" /\ Oct!Init /\ NothingDecomposed
  \/ kind = "lu" /\ Packed!Init
     /\ matrix = <<>> /\ A = <<>> /\ B = <<>> /\ C = <<>> /\ calls = 0

CallBits == kind = "bits" /\ BitNext /\ UNCHANGED <<kind, octVars, luVars>>
CallOctets == kind = "octets" /\ Oct!Next /\ UNCHANGED <<kind, luVars>>
Decompose == kind = "lu" /\ Packed!Next /\ UNCHANGED <<kind, matrix, A, B, octVars>>

StorageNext == CallBits \/ CallOctets \/ Decompose

StorageSpec == StorageInit /\ [][StorageNext]_storageVars

-----------------------------------------------------------------------------
(* The properties of the three modules, each about its own behaviours. *)

(* The memory holds the matrix the calls describe, in every row and column *)
(* and not only those of the views, and no bit operation, nor the          *)
(* decomposition, writes behind the matrix.                                *)
MemoryHoldsMatrix ==
  /\ kind = "bits" => StorageHoldsMatrix
  /\ kind = "octets" => Oct!StorageHoldsMatrix
  /\ kind = "lu" => Packed!InsideMatrix

(* Zero tests see the bits, or octets, of the view and no others. *)
ZerosFound ==
  /\ kind = "bits" => ZeroRowsFound
  /\ kind = "octets" => Oct!ZeroFound

(* The decomposition over words implements LUDecomp over the elements they *)
(* hold: Packed!ImplementsLU, of the behaviours that decompose.            *)
ImplementsLU ==
  /\ kind = "lu" => Packed!LU!Init
  /\ [][kind = "lu" => [Packed!LU!Next]_(Packed!LU!luVars)]_storageVars

=============================================================================
