------------------------------- MODULE LUOps --------------------------------
(***************************************************************************)
(* What can be done with the factors besides the codec's solve: LU_det,    *)
(* LU_mult, LU_invmult and LU_mult_inplace of src/algebra/mv_generic.h.    *)
(* They leave the factors alone, so they are operators on the state that   *)
(* LUDecomp ends in.  A row of X is one element, as in LUSolve.            *)
(***************************************************************************)
EXTENDS LUSolve

CONSTANT Leftovers   \* what output rows and spare rows of a buffer hold

Min2(a, b) == IF a < b THEN a ELSE b

(* Memory after step(m, r) for r = 0 .. n - 1, or for r = n - 1 .. 0.      *)
Ascending(m, n, step(_, _)) ==
  LET s[r \in 0 .. n] == IF r = 0 THEN m ELSE step(s[r - 1], r - 1) IN s[n]
Descending(m, n, step(_, _)) ==
  LET s[r \in 0 .. n] == IF r = n THEN m ELSE step(s[r + 1], r) IN s[0]

(* The sum of coefficients of row r of the factors times rows at[j] of m,  *)
(* over the columns from .. to - 1.                                        *)
Weighted(m, r, from, to, at) ==
  Sum([j \in 0 .. to - from - 1 |-> Mul(A[r][from + j], m[at[from + j]])], to - from)

LU_det_Bug ==
  LET d[n \in 0 .. NCol] == IF n = 0 THEN One ELSE Mul(d[n - 1], A[n - 1][n - 1]) IN d[i]
LU_det ==
  LET d[n \in 0 .. NCol] == IF n = 0 THEN One ELSE Mul(d[n - 1], A[n - 1][n - 1]) IN d[NCol]

(* The row of U that goes to Y, then the rows of L from the bottom up: a   *)
(* row is complete only after all rows below have read it.                 *)
LU_mult(x) ==
  LET u(m, r) == [m EXCEPT ![rp[r]] = Weighted(x, r, r, IF r < NCol THEN NCol ELSE r, cp)]
      l(m, r) == [m EXCEPT ![rp[r]] = Add(@, Weighted(m, r, 0, Min2(r, NCol), rp))]
  IN Descending(Ascending([r \in Rows |-> Zero], NRow, u), NRow, l)

(* Rows of X are addressed through the column permutation throughout; rows *)
(* without a pivot are cleared first.                                      *)
LU_invmult_Bug(y, out) ==
  LET l(m, r) == [m EXCEPT ![cp[r]] = Add(y[rp[r]], Weighted(m, r, 0, r, cp))]
      u(m, r) == [m EXCEPT ![cp[r]] =
                    Mul(Add(@, Weighted(m, r, r + 1, NCol, cp)), Inv(A[r][r]))]
  IN Descending(Ascending(out, i, l), i, u)
LU_invmult(y, out) ==
  LET clear(r) == [c \in Cols |-> IF \E q \in r .. NCol - 1 : cp[q] = c THEN Zero ELSE out[c]]
      l(m, r) == [m EXCEPT ![cp[r]] = Add(y[rp[r]], Weighted(m, r, 0, r, cp))]
      u(m, r) == [m EXCEPT ![cp[r]] =
                    Mul(Add(@, Weighted(m, r, r + 1, NCol, cp)), Inv(A[r][r]))]
  IN Descending(Ascending(clear(i), i, l), i, u)

(* Rows of X in place.                                                    *)
Here == [c \in Cols |-> c]

(* Top down: row r reads the rows below it, which are still those of X.    *)
URow(q, r) == [q EXCEPT ![r] = Add(Mul(A[r][r], @), Weighted(q, r, r + 1, NCol, Here))]
U_mult_inplace(m) == Ascending(m, Min2(NCol, NRow), URow)

(* Bottom up; rows below the square part start from zero.                  *)
LRow_Bug(q, r) == [q EXCEPT ![r] = Add(@, Weighted(q, r, 0, Min2(r, NCol), Here))]
LRow(q, r) ==
  [q EXCEPT ![r] = Add(IF r >= NCol THEN Zero ELSE @, Weighted(q, r, 0, Min2(r, NCol), Here))]
L_mult_inplace(m) == Descending(m, NRow, LRow)

LU_mult_inplace(buf) ==
  LET x == [r \in BufRows |-> IF r \in Cols THEN buf[cp[r]] ELSE buf[r]]
      y == L_mult_inplace(U_mult_inplace(x))
  IN [r \in BufRows |-> IF r \in Rows THEN y[CHOOSE q \in Rows : rp[q] = r] ELSE y[r]]

-----------------------------------------------------------------------------
(* Properties *)

Decomposed == phase = "decomp" /\ pc = "done"

(* The factors stand for the matrix that was decomposed, at any rank and  *)
(* shape.  Multiplying by them, into a cleared output or in place, is      *)
(* multiplying by the matrix.  LU_invmult solves every solvable system,    *)
(* and its answer does not depend on what the output held: of several      *)
(* solutions it is the one that is zero wherever a column has no pivot.    *)
FactorsStandForMatrix ==
  Decomposed =>
    \A x \in [Cols -> F], g \in Leftovers :
      LET out == LU_invmult([r \in Rows |-> Product(x, r)], [c \in Cols |-> g])
          buf == LU_mult_inplace([b \in BufRows |-> IF b \in Cols THEN x[b] ELSE g])
      IN /\ \A r \in Rows : /\ LU_mult(x)[r] = Product(x, r)
                          /\ buf[r] = Product(x, r)
                          /\ Product(out, r) = Product(x, r)
         /\ \A q \in i .. NCol - 1 : out[cp[q]] = Zero

(* The sum over all permutations; signs do not matter in characteristic 2. *)
Determinant ==
  LET perms == {p \in [Rows -> Cols] : IsPermutation(p, Rows)}
      term(p) == LET t[r \in 0 .. NRow] ==
                       IF r = 0 THEN One ELSE Mul(t[r - 1], A0[r - 1][p[r - 1]]) IN t[NRow]
      odd(v) == Cardinality({p \in perms : term(p) = v}) % 2 = 1
      pick[S \in SUBSET F] == IF S = {} THEN Zero
                              ELSE LET v == CHOOSE v \in S : TRUE
                                   IN IF odd(v) THEN Add(v, pick[S \ {v}]) ELSE pick[S \ {v}]
  IN pick[F]

(* LU_det is the determinant of the matrix that was decomposed, zero for a *)
(* singular one.                                                           *)
DetIsDeterminant == pc = "done" /\ NRow = NCol => LU_det = Determinant

=============================================================================
