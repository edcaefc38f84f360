----------------------------- MODULE MatrixOps ------------------------------
(***************************************************************************)
(* What the operations on matrix views promise, on matrices as functions.  *)
(* The interface is shared by m256v (octets with a row stride) and m2v     *)
(* (bits packed in words); OctMatrix and BitMatrix model the two storages  *)
(* and are checked against the definitions below.                          *)
(*                                                                         *)
(* A view v is a rectangle of a matrix m: v.n_row rows from row v.r0 on    *)
(* and v.n_col columns from column v.c0 on.  Rows and columns of an        *)
(* operation count inside the view, as in the code.                        *)
(***************************************************************************)
EXTENDS Integers

CONSTANTS F, Zero, One, Add(_, _), Mul(_, _)

At(m, v, r, c) == m[v.r0 + r][v.c0 + c]

(* m with the elements of rows rs and columns cs of view v replaced. *)
Put(m, v, rs, cs, el(_, _)) ==
  [x \in DOMAIN m |-> [y \in DOMAIN m[x] |->
     IF x - v.r0 \in rs /\ y - v.c0 \in cs THEN el(x - v.r0, y - v.c0) ELSE m[x][y]]]

ViewRows(v) == 0 .. v.n_row - 1
ViewCols(v) == 0 .. v.n_col - 1

ElementSet(m, v, r, c, a) == Put(m, v, {r}, {c}, LAMBDA x, y : a)
RowCleared(m, v, r) == Put(m, v, {r}, ViewCols(v), LAMBDA x, y : Zero)
RowScaled(m, v, r, a) == Put(m, v, {r}, ViewCols(v), LAMBDA x, y : Mul(a, At(m, v, x, y)))
RowsSwapped(m, v, r, s) ==
  Put(m, v, {r, s}, ViewCols(v), LAMBDA x, y : At(m, v, IF x = r THEN s ELSE r, y))
RowCopied(m, v, r, w, s) == Put(m, w, {s}, ViewCols(w), LAMBDA x, y : At(m, v, r, y))

(* Row s of w gains a times row r of v, from column offs on. *)
RowAdded(m, v, r, offs, a, w, s) ==
  Put(m, w, {s}, offs .. w.n_col - 1,
      LAMBDA x, y : Add(At(m, w, x, y), Mul(a, At(m, v, r, y))))

ColsSwapped(m, v, c, d) ==
  Put(m, v, ViewRows(v), {c, d}, LAMBDA x, y : At(m, v, x, IF y = c THEN d ELSE c))
ColScaled(m, v, c, offs, a) ==
  Put(m, v, offs .. v.n_row - 1, {c}, LAMBDA x, y : Mul(At(m, v, x, y), a))
ColCopied(m, v, c, w, d) == Put(m, w, ViewRows(w), {d}, LAMBDA x, y : At(m, v, x, c))

RowIsZero(m, v, r) == \A c \in ViewCols(v) : At(m, v, r, c) = Zero

(* Operations on whole views. *)
Cleared(m, v) == Put(m, v, ViewRows(v), ViewCols(v), LAMBDA x, y : Zero)
Copied(m, v, w) == Put(m, w, ViewRows(w), ViewCols(w), LAMBDA x, y : At(m, v, x, y))
SubmatCopied(m, v, ro, co, n, k, w, so, do) ==
  Put(m, w, so .. so + n - 1, do .. do + k - 1,
      LAMBDA x, y : At(m, v, x - so + ro, y - do + co))
SumStored(m, v, w, o) ==
  Put(m, o, ViewRows(o), ViewCols(o), LAMBDA x, y : Add(At(m, v, x, y), At(m, w, x, y)))

DotProduct(m, v, r, w, c) ==
  LET s[n \in 0 .. v.n_col] ==
        IF n = 0 THEN Zero
        ELSE Add(s[n - 1], Mul(At(m, v, r, n - 1), At(m, w, n - 1, c)))
  IN s[v.n_col]
ProductStored(m, v, w, o) ==
  Put(m, o, ViewRows(o), ViewCols(o), LAMBDA x, y : DotProduct(m, v, x, w, y))

SameShape(v, w) == v.n_row = w.n_row /\ v.n_col = w.n_col

(* Two rectangles share an element. *)
Overlap(v, w) ==
  /\ v.r0 < w.r0 + w.n_row /\ w.r0 < v.r0 + v.n_row
  /\ v.c0 < w.c0 + w.n_col /\ w.c0 < v.c0 + v.n_col

=============================================================================
