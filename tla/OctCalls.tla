------------------------------ MODULE OctCalls ------------------------------
(***************************************************************************)
(* Calls of m256v operations in any order, on three views of one memory    *)
(* that may overlap: the aliasing the LU routines rely on ("some elements  *)
(* alias").                                                                *)
(***************************************************************************)
EXTENDS OctMatrix

CONSTANTS Contents,  \* what the memory may hold at the beginning
          Alphas,    \* multipliers the client uses
          MaxCalls   \* bound of the model: operations in a behaviour

VARIABLES e,        \* the memory
          M,        \* the matrix the calls describe
          A, B, C,  \* three views
          calls

vars == <<e, M, A, B, C, calls>>

Assumptions ==
  /\ NRow \in Nat \ {0} /\ NCol \in Nat \ {0}
  /\ LogDomain
  /\ Contents \subseteq [Octets -> F] /\ Alphas \subseteq F

Stored == [r \in 0 .. NRow - 1 |-> [c \in 0 .. NCol - 1 |-> get_el(e, m256v_make, r, c)]]

Init == /\ e \in Contents
        /\ M = Stored
        /\ A = m256v_make /\ B = m256v_make /\ C = m256v_make
        /\ calls = 0

Subviews(v) ==
  {get_subview(v, ro, co, n, k) : ro \in 0 .. v.n_row - 1, co \in 0 .. v.n_col - 1,
                                  n \in 1 .. v.n_row, k \in 1 .. v.n_col}
Inside(v, w) ==
  /\ v.r0 >= w.r0 /\ v.c0 >= w.c0
  /\ v.r0 + v.n_row <= w.r0 + w.n_row /\ v.c0 + v.n_col <= w.c0 + w.n_col

(* Views are taken before the operations; also views of views. *)
Subview ==
  /\ calls = 0
  /\ \E v \in {u \in Subviews(B) : Inside(u, B)} :
       A' = v /\ B' \in {v, A, m256v_make} /\ C' \in {B, m256v_make}
  /\ UNCHANGED <<e, M, calls>>

(* Row and column loops read what they have written when two views overlap *)
(* but are shifted; no caller does that.                                   *)
Aligned(v, w) == Overlap(v, w) => (v.r0 = w.r0 /\ v.c0 = w.c0)
SameCols(v, w) == v.n_col = w.n_col /\ (v.c0 = w.c0 \/ ~Overlap(v, w))
SameRows(v, w) == v.n_row = w.n_row /\ (v.r0 = w.r0 \/ ~Overlap(v, w))

SetEl(r, c, a) == e' = set_el(e, A, r, c, a) /\ M' = ElementSet(M, A, r, c, a)
SwapRows(r1, r2) == e' = swap_rows(e, A, r1, r2) /\ M' = RowsSwapped(M, A, r1, r2)
MultRow(r, alpha) == e' = mult_row(e, A, r, alpha) /\ M' = RowScaled(M, A, r, alpha)
SwapCols(c1, c2) == e' = swap_cols(e, A, c1, c2) /\ M' = ColsSwapped(M, A, c1, c2)
MultColFrom(c, offs, alpha) ==
  e' = mult_col_from(e, A, c, offs, alpha) /\ M' = ColScaled(M, A, c, offs, alpha)

MultAddRowFrom(r1, offs, alpha, rt) ==
  /\ SameCols(A, B)
  /\ e' = multadd_row_from(e, A, r1, offs, alpha, B, rt)
  /\ M' = RowAdded(M, A, r1, offs, alpha, B, rt)
CopyRow(r1, rt) ==
  /\ SameCols(A, B)
  /\ e' = copy_row(e, A, r1, B, rt) /\ M' = RowCopied(M, A, r1, B, rt)
CopyCol(c1, ct) ==
  /\ SameRows(A, B)
  /\ e' = copy_col(e, A, c1, B, ct) /\ M' = ColCopied(M, A, c1, B, ct)

Clear == e' = clear(e, A) /\ M' = Cleared(M, A)
Copy == /\ SameShape(A, B) /\ Aligned(A, B)
        /\ e' = copy(e, A, B) /\ M' = Copied(M, A, B)
CopySubmat(n, k, so, do) ==
  /\ ~Overlap(A, B)
  /\ n <= A.n_row /\ k <= A.n_col /\ so + n <= B.n_row /\ do + k <= B.n_col
  /\ e' = copy_submat(e, A, A.n_row - n, A.n_col - k, n, k, B, so, do)
  /\ M' = SubmatCopied(M, A, A.n_row - n, A.n_col - k, n, k, B, so, do)

(* add copies its first argument to the output before it reads the second, *)
(* so the output may be the first argument but not the second.             *)
SumOutput == Aligned(A, C) /\ ~Overlap(B, C)
AddOut == /\ SameShape(A, B) /\ SameShape(A, C) /\ SumOutput
          /\ e' = add(e, A, B, C) /\ M' = SumStored(M, A, B, C)
AddInplace == /\ SameShape(A, B) /\ Aligned(A, B)
              /\ e' = add_inplace(e, A, B) /\ M' = SumStored(M, A, B, B)
MulOut == /\ A.n_col = B.n_row /\ A.n_row = C.n_row /\ B.n_col = C.n_col
          /\ ~Overlap(A, C) /\ ~Overlap(B, C)
          /\ e' = mul(e, A, B, C) /\ M' = ProductStored(M, A, B, C)

Call ==
  /\ calls < MaxCalls /\ calls' = calls + 1
  /\ \/ \E r \in ViewRows(A) :
          \/ \E c \in ViewCols(A), a \in Alphas : SetEl(r, c, a)
          \/ \E r2 \in ViewRows(A) : SwapRows(r, r2)
          \/ \E alpha \in Alphas : MultRow(r, alpha)
          \/ \E rt \in ViewRows(B) :
               \/ CopyRow(r, rt)
               \/ \E offs \in 0 .. A.n_col, alpha \in Alphas : MultAddRowFrom(r, offs, alpha, rt)
     \/ \E c \in ViewCols(A) :
          \/ \E c2 \in ViewCols(A) : SwapCols(c, c2)
          \/ \E ct \in ViewCols(B) : CopyCol(c, ct)
          \/ \E offs \in 0 .. A.n_row, alpha \in Alphas : MultColFrom(c, offs, alpha)
     \/ \E n \in 1 .. NRow, k \in 1 .. NCol, so \in 0 .. NRow - 1, do \in 0 .. NCol - 1 :
          CopySubmat(n, k, so, do)
     \/ Clear \/ Copy \/ AddOut \/ AddInplace \/ MulOut
  /\ UNCHANGED <<A, B, C>>

Next == Subview \/ Call

Spec == Init /\ [][Next]_vars

-----------------------------------------------------------------------------
(* Properties *)

(* Every operation on views, overlapping ones and views of views included, *)
(* changes the memory as the matrix operation says, and not one octet      *)
(* outside of its view.                                                    *)
StorageHoldsMatrix == Stored = M

(* The zero tests see exactly the octets of the view. *)
ZeroFound ==
  /\ \A r \in ViewRows(A) : row_iszero(e, A, r) <=> RowIsZero(M, A, r)
  /\ iszero(e, A) <=> Cleared(M, A) = M

=============================================================================
