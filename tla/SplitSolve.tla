----------------------------- MODULE SplitSolve -----------------------------
(***************************************************************************)
(* Solving an overdetermined system in two parts, as stest_lusplit of      *)
(* samples_tests/unit_tests/m256v_splitsolve.c does with the LU routines:  *)
(* decompose the top rows; if they do not settle all unknowns, eliminate   *)
(* the settled ones from the bottom rows and decompose what is left.       *)
(*                                                                         *)
(* Both decompositions are those of LUDecomp, which run in A0 .. pc.  A    *)
(* row of X and Y is one element.                                          *)
(***************************************************************************)
EXTENDS Integers

CONSTANTS NRow, NCol, NTop,   \* 0 < NTop < NRow and NCol <= NRow
          F, Zero, One, Add(_, _), Mul(_, _), Inv(_)

VARIABLES A0, A, rp, cp, i, pc,  \* the decomposition under way
          M,                     \* the matrix A of the system
          X0, Y2,                \* its solution, and Y, solved in place
          top,                   \* the finished decomposition of the top
          part                   \* "top", "bottom", "singular", "solved"

luVars == <<A0, A, rp, cp, i, pc>>
vars == <<luVars, M, X0, Y2, top, part>>

Top == INSTANCE LUDecomp WITH NRow <- NTop
Bottom(n) == INSTANCE LUDecomp WITH NRow <- NRow - NTop, NCol <- n

Sum(f, n) ==
  LET s[k \in 0 .. n] == IF k = 0 THEN Zero ELSE Add(s[k - 1], f[k - 1]) IN s[n]
Product(x, r) == Sum([c \in 0 .. NCol - 1 |-> Mul(M[r][c], x[c])], NCol)

FullRank(m) ==
  \A x \in [0 .. NCol - 1 -> F] :
    (\A r \in 0 .. NRow - 1 : Sum([c \in 0 .. NCol - 1 |-> Mul(m[r][c], x[c])], NCol) = Zero)
      => \A c \in 0 .. NCol - 1 : x[c] = Zero

(* get_lu_split_testcase, and the copy of the top rows. *)
Init ==
  /\ M \in {m \in [0 .. NRow - 1 -> [0 .. NCol - 1 -> F]] : FullRank(m)}
  /\ X0 \in [0 .. NCol - 1 -> F]
  /\ Y2 = [r \in 0 .. NRow - 1 |-> Product(X0, r)]
  /\ top = <<>> /\ part = "top"
  /\ A0 = [r \in 0 .. NTop - 1 |-> M[r]] /\ A = A0
  /\ rp = [r \in 0 .. NTop - 1 |-> r] /\ cp = [c \in 0 .. NCol - 1 |-> c]
  /\ i = 0 /\ pc = "loop"

DecomposeTop == part = "top" /\ Top!Next /\ UNCHANGED <<M, X0, Y2, top, part>>

(* L_invmult_inplace and U_invmult_inplace on rows base .. of y, with the  *)
(* first n columns of the factors lu.                                      *)
Forward(lu, rank, y, base) ==
  LET s[k \in 0 .. rank] ==
        IF k = 0 THEN y
        ELSE [s[k - 1] EXCEPT ![base + k - 1] =
               Add(@, Sum([j \in 0 .. k - 2 |-> Mul(lu[k - 1][j], s[k - 1][base + j])], k - 1))]
  IN s[rank]
Backward(lu, rank, n, y, base) ==
  LET s[k \in 0 .. rank] ==
        IF k = rank THEN y
        ELSE [s[k + 1] EXCEPT ![base + k] =
               Mul(Inv(lu[k][k]),
                   Add(@, Sum([j \in 0 .. n - k - 2 |-> Mul(lu[k][k + 1 + j], s[k + 1][base + k + 1 + j])],
                              n - k - 1)))]
  IN s[0]

(* permute_rows on the rows base .. base + n - 1. *)
Gathered(y, p, n, base) ==
  [r \in DOMAIN y |-> IF r \in base .. base + n - 1 THEN y[base + p[r - base]] ELSE y[r]]
Solved(lu, rank, n, p, rows, y, base) ==
  Backward(lu, rank, n, Forward(lu, rank, Gathered(y, p, rows, base), base), base)

(* perm_invert and permute_rows(&X2, inv_cp). *)
Reordered(y, p) ==
  [r \in DOMAIN y |-> IF r < NCol THEN y[CHOOSE c \in 0 .. NCol - 1 : p[c] = r] ELSE y[r]]

(* The top part settles all unknowns. *)
TopSuffices ==
  /\ part = "top" /\ pc = "done" /\ i = NCol
  /\ Y2' = Reordered(Solved(A, i, NCol, rp, NTop, Y2, 0), cp)
  /\ part' = "solved"
  /\ UNCHANGED <<luVars, M, X0, top>>

(* The columns of the bottom rows follow those of the top.                 *)
Permuted(r) == [c \in 0 .. NCol - 1 |-> M[NTop + r][cp[c]]]

(* Column c >= rank_top of the top factors, solved: the matrix B_tops. *)
BackSubstitution(c) ==
  Backward(A, i, i, [r \in 0 .. NTop - 1 |-> A[r][c]], 0)

Eliminate ==
  /\ part = "top" /\ pc = "done" /\ i < NCol
  /\ LET B    == [c \in i .. NCol - 1 |-> BackSubstitution(c)]
         y    == Solved(A, i, i, rp, NTop, Y2, 0)
         left == [r \in 0 .. NRow - NTop - 1 |-> Permuted(r)]
         gain(r, row) == Sum([q \in 0 .. i - 1 |-> Mul(left[r][q], row[q])], i)
     IN /\ top' = [rank |-> i, cp |-> cp, B |-> B]
        /\ Y2' = [r \in 0 .. NRow - 1 |-> IF r < NTop THEN y[r] ELSE Add(y[r], gain(r - NTop, y))]
        /\ A0' = [r \in 0 .. NRow - NTop - 1 |-> [c \in 0 .. NCol - i - 1 |->
                    Add(left[r][i + c], gain(r, B[i + c]))]]
        /\ cp' = [c \in 0 .. NCol - i - 1 |-> c]
  /\ A' = A0'
  /\ rp' = [r \in 0 .. NRow - NTop - 1 |-> r]
  /\ i' = 0 /\ pc' = "loop"
  /\ part' = "bottom"
  /\ UNCHANGED <<M, X0>>

DecomposeBottom ==
  /\ part = "bottom"
  /\ \E n \in 1 .. NCol : n = NCol - top.rank /\ Bottom(n)!Next
  /\ UNCHANGED <<M, X0, Y2, top, part>>

(* "Matrix not full rank." *)
Singular ==
  /\ part = "bottom" /\ pc = "done" /\ i < NCol - top.rank
  /\ part' = "singular"
  /\ UNCHANGED <<luVars, M, X0, Y2, top>>

(* The second solution moves up behind the settled unknowns. *)
Moved_Bug(y) == y
Moved(y) ==
  IF top.rank < NTop
    THEN [r \in DOMAIN y |-> IF r \in top.rank .. top.rank + NRow - NTop - 1
                             THEN y[NTop + r - top.rank] ELSE y[r]]
    ELSE y

(* Solve the bottom, back-substitute into the top, move and reorder. *)
SolveBottom ==
  /\ part = "bottom" /\ pc = "done" /\ i = NCol - top.rank
  /\ LET n == NCol - top.rank
         y == Solved(A, n, n, rp, NRow - NTop, Y2, NTop)
         back == [r \in DOMAIN y |->
                    IF r < top.rank
                    THEN Add(y[r], Sum([c \in 0 .. n - 1 |->
                                          Mul(top.B[top.rank + c][r], y[NTop + c])], n))
                    ELSE y[r]]
     IN Y2' = Reordered(Moved(back), top.cp)
  /\ part' = "solved"
  /\ UNCHANGED <<luVars, M, X0, top>>

Next == DecomposeTop \/ TopSuffices \/ Eliminate \/ DecomposeBottom \/ Singular \/ SolveBottom

Spec == Init /\ [][Next]_vars

-----------------------------------------------------------------------------
(* Properties *)

(* The two parts together give the solution, whatever the rank of the top. *)
(* What is left of a full rank matrix after the elimination has full rank, *)
(* so the test's error branch is never taken.                              *)
SolvesInParts ==
  /\ part # "singular"
  /\ part = "solved" => \A c \in 0 .. NCol - 1 : Y2[c] = X0[c]

=============================================================================
