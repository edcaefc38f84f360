------------------------------- MODULE BitLU --------------------------------
(***************************************************************************)
(* LU_decomp_inplace of src/algebra/mv_generic.h as m2v.c instantiates it: *)
(* every element is read and every row and column changed through the      *)
(* packed words of BitMatrix.  It is meant to implement LUDecomp over      *)
(* GF(2) with the words unpacked.                                          *)
(***************************************************************************)
EXTENDS BitMatrix, Fields

VARIABLES e,          \* the memory
          A0, rp, cp, i, pc  \* as in LUDecomp

vars == <<e, A0, rp, cp, i, pc>>

mat == m2v_make
Unpacked == [r \in 0 .. NRow - 1 |-> [c \in 0 .. NCol - 1 |-> get_el(e, mat, r, c)]]

LU == INSTANCE LUDecomp WITH A <- Unpacked, Inv <- LAMBDA a : One

(* Any matrix, with any bits behind the last column; a marker where the    *)
(* memory no longer belongs to the matrix.                                 *)
Init == /\ e \in [Words -> SUBSET Bits]
        /\ \A k \in Behind : e[k] = {0}
        /\ A0 = Unpacked
        /\ rp = [r \in 0 .. NRow - 1 |-> r]
        /\ cp = [c \in 0 .. NCol - 1 |-> c]
        /\ i = 0
        /\ pc = "loop"

(* The rows below the pivot, one after the other; finv is 1 in GF(2), so   *)
(* the column of L is not scaled.                                          *)
Eliminated(m) ==
  LET s[j \in i .. NRow - 1] ==
        IF j = i THEN m
        ELSE multadd_row_from(s[j - 1], mat, i, i + 1, get_el(s[j - 1], mat, j, i), mat, j)
  IN s[NRow - 1]

Pivot(prow, pcol) ==
  /\ pc = "loop" /\ i < NCol /\ i < NRow
  /\ prow >= i /\ pcol >= i
  /\ get_el(e, mat, prow, pcol) = 1
  /\ \A c \in i .. pcol, r \in i .. NRow - 1 :
       (c < pcol \/ r < prow) => get_el(e, mat, r, c) = 0
  /\ rp' = [rp EXCEPT ![i] = rp[prow], ![prow] = rp[i]]
  /\ cp' = [cp EXCEPT ![i] = cp[pcol], ![pcol] = cp[i]]
  /\ e' = Eliminated(mult_col_from(swap_cols(swap_rows(e, mat, i, prow), mat, i, pcol),
                                   mat, i, i + 1, 1))
  /\ i' = i + 1
  /\ UNCHANGED <<A0, pc>>

Finish ==
  /\ pc = "loop"
  /\ \A c \in i .. NCol - 1, r \in i .. NRow - 1 : get_el(e, mat, r, c) = 0
  /\ pc' = "done"
  /\ UNCHANGED <<e, A0, rp, cp, i>>

Next == (\E prow \in 0 .. NRow - 1, pcol \in 0 .. NCol - 1 : Pivot(prow, pcol)) \/ Finish

(* The decomposition runs to its end in the caller's thread. *)
Spec == Init /\ [][Next]_vars /\ WF_vars(Next)

-----------------------------------------------------------------------------
(* Properties *)

(* Every step on packed words is the step LUDecomp makes on the matrix, so *)
(* what is proved and checked of LUDecomp holds of m2v too.                *)
ImplementsLU == LU!Spec

(* Elimination in the last row leaves the memory behind the matrix alone.  *)
InsideMatrix == \A k \in Behind : e[k] = {0}

(* "Computes a factorization PLUQ of A. [...] In this implementation, the  *)
(* matrix A need not be square." (mv_generic.h:126-129)                    *)
Factorises == LU!Factorisation

=============================================================================
