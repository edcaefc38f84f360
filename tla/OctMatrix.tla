----------------------------- MODULE OctMatrix ------------------------------
(***************************************************************************)
(* src/algebra/m256v.c: matrix views over octets.  e is the memory, one    *)
(* element per octet; a view is an address, a shape and a row stride, and  *)
(* views of the same memory may overlap.  Products are computed in the log *)
(* domain (Exp, Log: gf256_exp, gf256_log), special cases apart.           *)
(*                                                                         *)
(* Also the operations of mv_generic.h on whole views, which call these.   *)
(***************************************************************************)
EXTENDS MatrixOps

CONSTANTS NRow, NCol,   \* shape of the matrix that owns the memory
          Exp(_), Log(_)

(* What the tables are for: the laws of the field that the products use,   *)
(* and sums of logarithms for elements that are not zero.  gf256_log has   *)
(* type uint8_t, and one of the products relies on it.                     *)
LogDomain ==
  /\ Zero \in F /\ One \in F
  /\ \A a, b \in F : /\ Add(a, b) \in F /\ Add(a, b) = Add(b, a)
                      /\ Mul(a, b) \in F /\ Mul(a, b) = Mul(b, a)
  /\ \A a \in F : Add(a, Zero) = a /\ Mul(a, Zero) = Zero /\ Mul(One, a) = a
  /\ \A a \in F \ {Zero} : Log(a) \in 0 .. 255
  /\ \A a, b \in F \ {Zero} : Exp(Log(a) + Log(b)) = Mul(a, b)

Octets == 0 .. NRow * NCol - 1

m256v_make == [n_row |-> NRow, n_col |-> NCol, rstride |-> NCol, e |-> 0,
               r0 |-> 0, c0 |-> 0]

get_el_offs(v, r, c) == v.e + r * v.rstride + c

(* r0 and c0 only say which rectangle of the owner's matrix is shown. *)
get_subview(v, row_offs, col_offs, n_row, n_col) ==
  [n_row |-> n_row, n_col |-> n_col, rstride |-> v.rstride,
   e |-> get_el_offs(v, row_offs, col_offs), r0 |-> v.r0 + row_offs, c0 |-> v.c0 + col_offs]

get_el(e, v, r, c) == e[get_el_offs(v, r, c)]
set_el(e, v, r, c, a) == [e EXCEPT ![get_el_offs(v, r, c)] = a]

(* The addresses of a row from a column on, and of a column from a row on. *)
Row(v, r, from) == get_el_offs(v, r, from) .. get_el_offs(v, r, v.n_col) - 1
Col(v, c, from) == {get_el_offs(v, r, c) : r \in from .. v.n_row - 1}

(* Element products in the log domain; mult_row keeps the logarithm of     *)
(* alpha in an uint8_t, the others in an int.                              *)
Times(alpha, x) == IF x = Zero THEN x ELSE Exp(Log(x) + Log(alpha))
TimesByte_Bug(alpha, x) == IF x = Zero THEN x ELSE Exp((Log(x) + Log(alpha)) % 256)
TimesByte(alpha, x) == IF x = Zero THEN x ELSE Exp(Log(x) + (Log(alpha) % 256))
Gain(alpha, x, t) ==
  IF alpha = One THEN Add(t, x)
  ELSE IF x = Zero THEN t ELSE Add(t, Exp(Log(alpha) + Log(x)))

swap_rows(e, v, r1, r2) ==
  LET d == get_el_offs(v, r2, 0) - get_el_offs(v, r1, 0) IN
  [k \in DOMAIN e |-> CASE k \in Row(v, r1, 0) -> e[k + d]
                        [] k \in Row(v, r2, 0) -> e[k - d]
                        [] OTHER -> e[k]]

clear_row(e, v, r) == [k \in DOMAIN e |-> IF k \in Row(v, r, 0) THEN Zero ELSE e[k]]

mult_row(e, v, r, alpha) ==
  IF alpha = Zero THEN clear_row(e, v, r)
  ELSE [k \in DOMAIN e |-> IF k \in Row(v, r, 0) THEN TimesByte(alpha, e[k]) ELSE e[k]]

multadd_row_from(e, v, r1, offs, alpha, w, rt) ==
  LET d == get_el_offs(v, r1, offs) - get_el_offs(w, rt, offs) IN
  IF alpha = Zero THEN e
  ELSE [k \in DOMAIN e |-> IF k \in Row(w, rt, offs) THEN Gain(alpha, e[k + d], e[k]) ELSE e[k]]
multadd_row(e, v, r1, alpha, w, rt) == multadd_row_from(e, v, r1, 0, alpha, w, rt)

copy_row(e, v, r1, w, rt) ==
  LET d == get_el_offs(v, r1, 0) - get_el_offs(w, rt, 0) IN
  [k \in DOMAIN e |-> IF k \in Row(w, rt, 0) THEN e[k + d] ELSE e[k]]

row_iszero(e, v, r) == \A k \in Row(v, r, 0) : e[k] = Zero

swap_cols(e, v, c1, c2) ==
  [k \in DOMAIN e |-> CASE k \in Col(v, c1, 0) -> e[k + c2 - c1]
                        [] k \in Col(v, c2, 0) -> e[k + c1 - c2]
                        [] OTHER -> e[k]]

mult_col_from(e, v, c, offs, alpha) ==
  [k \in DOMAIN e |->
     IF k \in Col(v, c, offs) THEN IF alpha = Zero THEN Zero ELSE Times(alpha, e[k])
     ELSE e[k]]

copy_col(e, v, c1, w, ct) ==
  [k \in DOMAIN e |->
     IF k \in Col(w, ct, 0) THEN get_el(e, v, (k - w.e) \div w.rstride, c1) ELSE e[k]]

-----------------------------------------------------------------------------
(* mv_generic.h: operations on whole views, row by row *)

(* The memory after step(m, r) for r = 0 .. n - 1 in turn. *)
ForRows(e, n, step(_, _)) ==
  LET m[r \in 0 .. n] == IF r = 0 THEN e ELSE step(m[r - 1], r - 1) IN m[n]

iszero(e, v) == \A r \in ViewRows(v) : row_iszero(e, v, r)
clear(e, v) == ForRows(e, v.n_row, LAMBDA m, r : clear_row(m, v, r))
copy(e, v, w) == ForRows(e, v.n_row, LAMBDA m, r : copy_row(m, v, r, w, r))

copy_submat(e, v, ro, co, n, k, w, so, do) ==
  ForRows(e, n, LAMBDA m, r :
    ForRows(m, k, LAMBDA q, c : set_el(q, w, r + so, c + do, get_el(q, v, r + ro, c + co))))

add(e, v, w, o) ==
  ForRows(e, v.n_row, LAMBDA m, r : multadd_row(copy_row(m, v, r, o, r), w, r, One, o, r))
add_inplace(e, v, w) ==
  ForRows(e, w.n_row, LAMBDA m, r : multadd_row(m, v, r, One, w, r))

mul(e, v, w, o) ==
  ForRows(e, o.n_row, LAMBDA m, r : ForRows(m, o.n_col, LAMBDA q, c :
    LET x[n \in 0 .. v.n_col] ==
          IF n = 0 THEN Zero
          ELSE Add(x[n - 1], Mul(get_el(q, v, r, n - 1), get_el(q, w, n - 1, c)))
    IN set_el(q, o, r, c, x[v.n_col])))

=============================================================================
