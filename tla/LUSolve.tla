------------------------------ MODULE LUSolve ------------------------------
(***************************************************************************)
(* Solving A X = Y with the factors: LU_invmult_inplace of                 *)
(* src/algebra/mv_generic.h and its caller RqInterExecute.  The module     *)
(* continues LUDecomp: once the decomposition is done, either a general    *)
(* caller passes rank, rowperm and inv_colperm, or the codec gathers the   *)
(* received symbols by rowperm itself and passes NULL for both.            *)
(*                                                                         *)
(* A row of X is a symbol; the octets of a symbol never mix, so a row is   *)
(* one element of F here.  X0 is the solution the caller's right-hand side *)
(* Y comes from: the intermediate symbols the encoder had.                 *)
(***************************************************************************)
EXTENDS LUDecomp

VARIABLES X0,      \* the solution that Y = A0 * X0 was built from
          X,       \* X_inout: in the codec, the intermediate block IB
          passed,  \* whether rowperm and inv_colperm are passed, or NULL
          k,       \* row the triangular solve stands at
          phase    \* "decomp", "forward", "backward", "solved"

solveVars == <<X0, X, passed, k, phase>>
vars == <<A0, A, rp, cp, i, pc, X0, X, passed, k, phase>>

MaxDim == IF NRow > NCol THEN NRow ELSE NCol
BufRows == 0 .. MaxDim - 1

(* Row r of the product of the caller's matrix with x. *)
Product(x, r) == Sum([c \in Cols |-> Mul(A0[r][c], x[c])], NCol)

SolveInit == /\ Init
             /\ X0 = <<>> /\ X = <<>>
             /\ passed = FALSE
             /\ k = 0
             /\ phase = "decomp"

Decompose == phase = "decomp" /\ Next /\ UNCHANGED solveVars

(* RqInterExecute, "Move data into the IB matrix".  Compile kept only the  *)
(* first L = NCol rows of LU; rowperm tells which row of the matrix each   *)
(* is.  Padding, LDPC and HDPC rows follow the n symbol rows and have zero *)
(* on the right-hand side.                                                 *)
Gather_Bug(y, n) == [r \in Cols |-> IF rp[r] > n THEN Zero ELSE y[rp[r]]]
Gather(y, n) == [r \in Cols |-> IF rp[r] >= n THEN Zero ELSE y[rp[r]]]

(* RqInterExecute for a block x0 that satisfies the constraint rows, as    *)
(* the encoder's does.  What lies in memory after the n symbols is One.    *)
LoadCodec(x0, n) ==
  /\ phase = "decomp" /\ pc = "done" /\ i = NCol
  /\ \A r \in n .. NRow - 1 : Product(x0, r) = Zero
  /\ X0' = x0
  /\ X' = Gather([r \in Rows |-> IF r < n THEN Product(x0, r) ELSE One], n)
  /\ passed' = FALSE
  /\ k' = 0
  /\ phase' = "forward"
  /\ UNCHANGED luVars

(* LU_invmult_inplace up to permute_rows(&Y, rowperm).  The buffer has as  *)
(* many rows as the larger dimension: Y in the first NRow, then garbage.   *)
LoadInplace(x0, garbage) ==
  /\ phase = "decomp" /\ pc = "done"
  /\ X0' = x0
  /\ X' = [r \in BufRows |-> IF r < NRow THEN Product(x0, rp[r]) ELSE garbage[r]]
  /\ passed' = TRUE
  /\ k' = 0
  /\ phase' = "forward"
  /\ UNCHANGED luVars

(* One row of L_invmult_inplace; the rank bounds the loop. *)
ForwardRows == i

ForwardRow ==
  /\ phase = "forward" /\ k < ForwardRows
  /\ X' = [X EXCEPT ![k] = Add(@, Sum([j \in 0 .. k - 1 |-> Mul(A[k][j], X[j])], k))]
  /\ k' = k + 1
  /\ UNCHANGED <<luVars, X0, passed, phase>>

ForwardDone ==
  /\ phase = "forward" /\ k = ForwardRows
  /\ phase' = "backward"
  /\ UNCHANGED <<luVars, X0, X, passed, k>>

(* Row r of U^-1: the sum runs over all columns right of the diagonal,     *)
(* those beyond the rank included, then the diagonal is divided out.       *)
BackSubstituted_Bug(r) ==
  Mul(Inv(A[r][r]), Add(X[r], Sum([j \in 0 .. i - r - 2 |->
                                     Mul(A[r][r + 1 + j], X[r + 1 + j])], i - r - 1)))
BackSubstituted(r) ==
  Mul(Inv(A[r][r]), Add(X[r], Sum([j \in 0 .. NCol - r - 2 |->
                                     Mul(A[r][r + 1 + j], X[r + 1 + j])], NCol - r - 1)))

BackwardRow ==
  /\ phase = "backward" /\ k > 0
  /\ X' = [X EXCEPT ![k - 1] = BackSubstituted(k - 1)]
  /\ k' = k - 1
  /\ UNCHANGED <<luVars, X0, passed, phase>>

(* permute_rows(&X, inv_colperm) moves row c of the solution to row cp[c]. *)
Unpermuted(x) ==
  [r \in DOMAIN x |-> IF r \in Cols THEN x[CHOOSE c \in Cols : cp[c] = r] ELSE x[r]]

Return ==
  /\ phase = "backward" /\ k = 0
  /\ X' = IF passed THEN Unpermuted(X) ELSE X
  /\ phase' = "solved"
  /\ UNCHANGED <<luVars, X0, passed, k>>

SolveNext ==
  \/ Decompose
  \/ \E x0 \in [Cols -> F] :
       \/ \E n \in 0 .. NRow : LoadCodec(x0, n)
       \/ \E garbage \in [NRow .. MaxDim - 1 -> F] : LoadInplace(x0, garbage)
  \/ ForwardRow
  \/ ForwardDone
  \/ BackwardRow
  \/ Return

SolveSpec == SolveInit /\ [][SolveNext]_vars

-----------------------------------------------------------------------------
(* Properties *)

(* RqInterExecute returns the encoder's intermediate block from any        *)
(* symbol set whose matrix has full column rank, although it never uses    *)
(* the column permutation and never looks at symbols it has too many of.   *)
CodecRecovers == phase = "solved" /\ ~passed => X = X0

(* LU_invmult_inplace solves A X = Y for every solvable Y: at any rank, in *)
(* either shape, whatever the buffer held beyond Y ("in such cases the     *)
(* inverse is not unique").                                                *)
SolvesInplace ==
  phase = "solved" /\ passed => \A r \in Rows : Product(X, r) = Product(X0, r)

=============================================================================
