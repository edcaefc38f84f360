------------------------------ MODULE LUDecomp ------------------------------
(***************************************************************************)
(* The in-place LU decomposition of src/algebra/mv_generic.h, the core of  *)
(* RqInterCompile: it turns an n_row x n_col matrix A into the factors L   *)
(* and U, stored over A, and two permutations rp and cp in "from" form,    *)
(* with full pivoting in column-major search order.                        *)
(*                                                                         *)
(* The header is instantiated for GF(256) (m256v) and for GF(2) (m2v); the *)
(* module is written for any finite field F of characteristic two, as the  *)
(* code subtracts by adding.  A0 remembers the matrix the caller passed.   *)
(***************************************************************************)
EXTENDS Integers, FiniteSets

CONSTANTS NRow, NCol,     \* dimensions of the matrix
          F, Zero, One,   \* the field: MV_GEN_ELTYPE, 0 and 1
          Add(_, _),      \* ^ and gf256_add
          Mul(_, _),      \* gf256_mul, & in GF(2)
          Inv(_)          \* finv

DimAssumption == NRow \in Nat /\ NCol \in Nat

(* What the decomposition relies on: F is closed, and adding a multiple    *)
(* of zero changes nothing.                                                *)
FieldAssumption ==
  /\ Zero \in F /\ One \in F
  /\ \A a, b \in F : Add(a, b) \in F /\ Mul(a, b) \in F
  /\ \A a \in F \ {Zero} : Inv(a) \in F
  /\ \A a \in F : Add(a, Zero) = a /\ Mul(a, Zero) = Zero /\ Mul(Zero, a) = Zero

(* What makes the factors those of the matrix: F is a finite field in      *)
(* which every element is its own negative.                                *)
FieldLaws ==
  /\ IsFiniteSet(F)
  /\ \A a, b \in F : Add(a, b) = Add(b, a) /\ Mul(a, b) = Mul(b, a)
  /\ \A a, b, c \in F : /\ Add(Add(a, b), c) = Add(a, Add(b, c))
                        /\ Mul(Mul(a, b), c) = Mul(a, Mul(b, c))
                        /\ Mul(a, Add(b, c)) = Add(Mul(a, b), Mul(a, c))
  /\ \A a \in F : Add(a, a) = Zero /\ Mul(One, a) = a
  /\ \A a \in F \ {Zero} : Mul(a, Inv(a)) = One

(* The runs' module assumes this, so that it is checked of their constants;*)
(* the theorems have it as their hypothesis, so that they hold of every    *)
(* instance of this module.                                                *)
Assumptions == DimAssumption /\ FieldAssumption /\ FieldLaws

Rows == 0 .. NRow - 1
Cols == 0 .. NCol - 1
Matrices == [Rows -> [Cols -> F]]

VARIABLES A0,   \* the matrix passed by the caller
          A,    \* the storage of A: L strictly below the diagonal, U above
          rp,   \* row permutation, "from" form
          cp,   \* column permutation, "from" form
          i,    \* number of pivots settled; the rank once done
          pc    \* "loop" or "done"

luVars == <<A0, A, rp, cp, i, pc>>

-----------------------------------------------------------------------------
(* Element and row operations *)

SwapAt_Bug(f, x, y) == [f EXCEPT ![x] = f[y]]
SwapAt(f, x, y) == [f EXCEPT ![x] = f[y], ![y] = f[x]]

(* Variants of the operations with a slip that is easy to make carry the   *)
(* suffix _Bug: PROJECT.json names the property that notices each.         *)
SwapRows(M, x, y) == SwapAt(M, x, y)

SwapCols_Bug(M, x, y) == [r \in Rows |-> IF r >= i THEN SwapAt(M[r], x, y) ELSE M[r]]
SwapCols(M, x, y) == [r \in Rows |-> SwapAt(M[r], x, y)]

MultColFrom(M, c, offs, alpha) ==
  [r \in Rows |-> IF r >= offs THEN [M[r] EXCEPT ![c] = Mul(@, alpha)] ELSE M[r]]

(* Row rt gains alpha times row r1, from column offs on. *)
MultAddRowFrom(M, r1, offs, alpha, rt) ==
  [c \in Cols |-> IF c >= offs THEN Add(M[rt][c], Mul(alpha, M[r1][c])) ELSE M[rt][c]]

Eliminate_Bug(M, k) ==
  [r \in Rows |-> IF r > k THEN MultAddRowFrom(M, k, k, M[r][k], r) ELSE M[r]]
Eliminate(M, k) ==
  [r \in Rows |-> IF r > k THEN MultAddRowFrom(M, k, k + 1, M[r][k], r) ELSE M[r]]

(* Column k of L is divided by U[k][k], then the rest is updated. *)
Step(M, k) == Eliminate(MultColFrom(M, k, k + 1, Inv(M[k][k])), k)

-----------------------------------------------------------------------------
(* The search runs column by column and, in a column, top down. *)
IsFirstPivot_Bug(prow, pcol) ==
  /\ prow >= i /\ pcol >= i
  /\ A[prow][pcol] # Zero
  /\ \A r \in Rows, c \in Cols :
       (r >= i /\ c >= i /\ (r < prow \/ (r = prow /\ c < pcol))) => A[r][c] = Zero
IsFirstPivot(prow, pcol) ==
  /\ prow >= i /\ pcol >= i
  /\ A[prow][pcol] # Zero
  /\ \A r \in Rows, c \in Cols :
       (r >= i /\ c >= i /\ (c < pcol \/ (c = pcol /\ r < prow))) => A[r][c] = Zero

NoPivotLeft_Bug == \A r \in Rows : r >= i => A[r][i] = Zero
NoPivotLeft == \A r \in Rows, c \in Cols : r >= i /\ c >= i => A[r][c] = Zero

Init == /\ A0 \in Matrices
        /\ A = A0
        /\ rp = [r \in Rows |-> r]
        /\ cp = [c \in Cols |-> c]
        /\ i = 0
        /\ pc = "loop"

(* One iteration of the main loop that finds a pivot. *)
Pivot(prow, pcol) ==
  /\ pc = "loop" /\ i < NCol /\ i < NRow
  /\ IsFirstPivot(prow, pcol)
  /\ rp' = SwapAt(rp, i, prow)
  /\ cp' = SwapAt(cp, i, pcol)
  /\ A' = Step(SwapCols(SwapRows(A, i, prow), pcol, i), i)
  /\ i' = i + 1
  /\ UNCHANGED <<A0, pc>>

(* The break out of the loop: the undecomposed part is zero. *)
NoPivot ==
  /\ pc = "loop" /\ i < NCol /\ i < NRow
  /\ NoPivotLeft
  /\ pc' = "done"
  /\ UNCHANGED <<A0, A, rp, cp, i>>

(* The loop condition fails. *)
Exhausted ==
  /\ pc = "loop" /\ (i >= NCol \/ i >= NRow)
  /\ pc' = "done"
  /\ UNCHANGED <<A0, A, rp, cp, i>>

Next == \/ \E prow \in Rows, pcol \in Cols : Pivot(prow, pcol)
        \/ NoPivot
        \/ Exhausted

Spec == Init /\ [][Next]_luVars

-----------------------------------------------------------------------------
(* Properties *)

IsPermutation(p, S) == p \in [S -> S] /\ \A x, y \in S : p[x] = p[y] => x = y

(* The factors stay matrices of the same shape over F, rp and cp stay      *)
(* permutations, and i counts pivots within both dimensions.               *)
TypeOK ==
  /\ A0 \in Matrices /\ A \in Matrices
  /\ IsPermutation(rp, Rows) /\ IsPermutation(cp, Cols)
  /\ i \in 0 .. NCol /\ i <= NRow
  /\ pc \in {"loop", "done"}

Sum(f, n) ==
  LET s[k \in 0 .. n] == IF k = 0 THEN Zero ELSE Add(s[k - 1], f[k - 1]) IN s[n]

(* The factors as the storage encodes them, of the i pivots settled. *)
LEntry(r, k) == IF k < r THEN A[r][k] ELSE IF k = r THEN One ELSE Zero
UEntry(k, c) == IF k <= c THEN A[k][c] ELSE Zero
Residual(r, c) == IF r >= i /\ c >= i THEN A[r][c] ELSE Zero

(* Loop invariant of the decomposition: at every iteration the permuted    *)
(* input is the product of the factors found so far plus the undecomposed  *)
(* part, so storing L and U over A loses nothing (mv_generic.h, "row i of  *)
(* U is computed correctly already").                                      *)
Factorisation ==
  \A r \in Rows, c \in Cols :
    A0[rp[r]][cp[c]] =
      Add(Sum([k \in 0 .. i - 1 |-> Mul(LEntry(r, k), UEntry(k, c))], i), Residual(r, c))

(* What RqInterCompile relies on, and NDEBUG keeps it from asserting: when *)
(* all columns have a pivot, no column was moved.                          *)
FullRankKeepsColumns == pc = "done" /\ i = NCol => cp = [c \in Cols |-> c]

(* The vectors the rows of A0 span. *)
RowSpan ==
  {[c \in Cols |-> Sum([r \in Rows |-> Mul(x[r], A0[r][c])], NRow)] : x \in [Rows -> F]}

Power(b, n) == Cardinality([1 .. n -> 1 .. b])

(* The returned i is the rank of the input: the rows of A0 span |F|^i      *)
(* vectors, so RQ_ERR_INSUFF_IDS is returned exactly for undecodable sets. *)
ReturnsRank ==
  [][pc # "done" /\ pc' = "done" => Cardinality(RowSpan) = Power(Cardinality(F), i')]_luVars

(* No step disturbs what is settled: the first i entries of the            *)
(* permutations stay, a settled entry of U stays with the column it        *)
(* belongs to, and a settled entry of L with its row.                      *)
FactorsTravel ==
  \A q \in 0 .. i - 1 :
    /\ rp'[q] = rp[q] /\ cp'[q] = cp[q]
    /\ \A c, d \in Cols : cp'[d] = cp[c] => A'[q][d] = A[q][c]
    /\ \A r, s \in Rows : rp'[s] = rp[r] => A'[s][q] = A[r][q]

(* Swapping whole rows and whole columns of the shared storage is what     *)
(* keeps the factors found so far true when a later pivot is fetched.      *)
SettledFactorsTravel == [][FactorsTravel]_luVars

=============================================================================
