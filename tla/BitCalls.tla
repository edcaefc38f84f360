------------------------------ MODULE BitCalls ------------------------------
(***************************************************************************)
(* Calls of m2v operations in any order, on two views of one matrix.       *)
(***************************************************************************)
EXTENDS BitMatrix

CONSTANT Offsets   \* the values of offs that callers of multadd_row_from pass

(* No caller starts a sum behind the words of a row.                       *)
OffsetsInRow == Offsets \subseteq 0 .. Stride * W - 1

VARIABLES mem,     \* the memory
          matrix,  \* the matrix the calls describe
          A, B     \* two views

bitVars == <<mem, matrix, A, B>>

Unpacked == [r \in 0 .. NRow - 1 |-> [c \in 0 .. NCol - 1 |-> get_el(mem, m2v_make, r, c)]]

(* Any content, bits behind the last column included; a marker where the   *)
(* memory no longer belongs to the matrix.                                 *)
BitInit ==
  /\ mem \in [Words -> SUBSET Bits]
  /\ \A k \in Behind : mem[k] = {0}
  /\ matrix = Unpacked
  /\ A = m2v_make /\ B = m2v_make

(* The client narrows its views or starts over with the whole matrix. *)
Subview ==
  /\ \/ \E o \in 0 .. A.n_row - 1 : \E n \in 1 .. A.n_row - o : A' = get_subview(A, o, n)
     \/ A' = m2v_make
  /\ B' \in {A, B}
  /\ UNCHANGED <<mem, matrix>>

SetEl(r, c, val) ==
  mem' = set_el(mem, A, r, c, val) /\ matrix' = ElementSet(matrix, A, r, c, val)
ToggleEl(r, c) ==
  mem' = toggle_el(mem, A, r, c) /\ matrix' = ElementSet(matrix, A, r, c, 1 - At(matrix, A, r, c))
SwapRows(r1, r2) ==
  mem' = swap_rows(mem, A, r1, r2) /\ matrix' = RowsSwapped(matrix, A, r1, r2)
MultRow(r, alpha) ==
  mem' = mult_row(mem, A, r, alpha) /\ matrix' = RowScaled(matrix, A, r, alpha)
MultAddRow(r1, alpha, rt) ==
  mem' = multadd_row(mem, A, r1, alpha, B, rt) /\ matrix' = RowAdded(matrix, A, r1, 0, alpha, B, rt)
MultAddRowFrom(r1, offs, alpha, rt) ==
  /\ mem' = multadd_row_from(mem, A, r1, offs, alpha, B, rt)
  /\ matrix' = RowAdded(matrix, A, r1, offs, alpha, B, rt)
CopyRow(r1, rt) ==
  mem' = copy_row(mem, A, r1, B, rt) /\ matrix' = RowCopied(matrix, A, r1, B, rt)
SwapCols(c1, c2) ==
  mem' = swap_cols(mem, A, c1, c2) /\ matrix' = ColsSwapped(matrix, A, c1, c2)
MultColFrom(c, offs, alpha) ==
  mem' = mult_col_from(mem, A, c, offs, alpha) /\ matrix' = ColScaled(matrix, A, c, offs, alpha)
CopyCol(c1, ct) ==
  /\ A.n_row = B.n_row /\ (Overlap(A, B) => A = B)
  /\ mem' = copy_col(mem, A, c1, B, ct) /\ matrix' = ColCopied(matrix, A, c1, B, ct)

Call ==
  /\ \/ \E r \in ViewRows(A), c \in ViewCols(A) :
          ToggleEl(r, c) \/ \E val \in 0 .. 1 : SetEl(r, c, val)
     \/ \E r1, r2 \in ViewRows(A) : SwapRows(r1, r2)
     \/ \E r \in ViewRows(A), alpha \in 0 .. 1 : MultRow(r, alpha)
     \/ \E r1 \in ViewRows(A), rt \in ViewRows(B) :
          \/ CopyRow(r1, rt)
          \/ \E alpha \in 0 .. 1 :
               \/ MultAddRow(r1, alpha, rt)
               \/ \E offs \in Offsets : MultAddRowFrom(r1, offs, alpha, rt)
     \/ \E c1, c2 \in ViewCols(A) : SwapCols(c1, c2) \/ CopyCol(c1, c2)
     \/ \E c \in ViewCols(A), offs \in 0 .. A.n_row, alpha \in 0 .. 1 :
          MultColFrom(c, offs, alpha)
  /\ UNCHANGED <<A, B>>

BitNext == Subview \/ Call

BitSpec == BitInit /\ [][BitNext]_bitVars

-----------------------------------------------------------------------------
(* Properties *)

(* After any calls the packed words hold the matrix the calls describe,    *)
(* in every row and not only the rows of a view, and what lies behind the  *)
(* matrix is as it was: masks and strides neither miss a bit nor touch     *)
(* another row.                                                            *)
StorageHoldsMatrix == Unpacked = matrix /\ \A k \in Behind : mem[k] = {0}

(* row_iszero looks at the columns of the matrix only, whatever the bits   *)
(* behind the last column have become.                                     *)
ZeroRowsFound == \A r \in ViewRows(A) : row_iszero(mem, A, r) <=> RowIsZero(matrix, A, r)

=============================================================================
