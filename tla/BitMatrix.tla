----------------------------- MODULE BitMatrix ------------------------------
(***************************************************************************)
(* src/algebra/m2v.c: matrices over GF(2) packed into words, row by row.   *)
(* A word is the set of its bits that are set, so exclusive or is the      *)
(* symmetric difference and a mask is a set to intersect with; W bits fit  *)
(* into a word (32 in the code).  e is the memory: the words of a matrix   *)
(* of NRow x NCol, and the words that follow it in memory, which belong to *)
(* somebody else.  MatrixOps has the operations on the matrix it holds.    *)
(***************************************************************************)
EXTENDS MatrixOps, FiniteSets

CONSTANTS W, NRow, NCol   \* positive numbers

(* The element 1 of GF(2) is a bit that is set.  The run of MCStorage      *)
(* assumes this of its instances; theorems have it as their hypothesis.    *)
Assumptions ==
  /\ W \in Nat \ {0} /\ NRow \in Nat \ {0} /\ NCol \in Nat \ {0}
  /\ F = 0 .. 1 /\ Zero = 0 /\ One = 1
  /\ \A a, b \in 0 .. 1 : /\ Add(a, b) = IF a = b THEN 0 ELSE 1
                          /\ Mul(a, b) = IF a = 1 THEN b ELSE 0

Bits == 0 .. W - 1
Xor(w, x) == (w \ x) \cup (x \ w)

row_size(n_col) == (n_col + W - 1) \div W
Stride == row_size(NCol)

(* A width that is no multiple of the word size leaves a bit unused in the *)
(* last word of a row.  m2v does not ask for it; LU_decomp_inplace needs   *)
(* it, as BitLU shows.                                                     *)
LastWordPartial == NCol % W # 0

(* The words of the matrix and one row of words behind it. *)
Behind == NRow * Stride .. (NRow + 1) * Stride - 1
Words == 0 .. (NRow + 1) * Stride - 1

(* A view: m2v with the address of its first word.  r0 and c0 say which    *)
(* rectangle of M it shows.                                                *)
m2v_make == [n_row |-> NRow, n_col |-> NCol, row_stride |-> Stride, e |-> 0,
             r0 |-> 0, c0 |-> 0]
get_subview(v, row_offs, n_row) ==
  [v EXCEPT !.n_row = n_row, !.e = @ + row_offs * v.row_stride, !.r0 = @ + row_offs]

get_word(v, r, c) == v.e + v.row_stride * r + c \div W
get_bit(c) == c % W

(* The row_stride words of a row. *)
RowWords(v, r) == get_word(v, r, 0) .. get_word(v, r, 0) + v.row_stride - 1

get_el(e, v, r, c) == IF get_bit(c) \in e[get_word(v, r, c)] THEN 1 ELSE 0
WithBit(w, b, val) == IF val = 1 THEN w \cup {b} ELSE w \ {b}
set_el(e, v, r, c, val) == [e EXCEPT ![get_word(v, r, c)] = WithBit(@, get_bit(c), val)]
toggle_el(e, v, r, c) == [e EXCEPT ![get_word(v, r, c)] = Xor(@, {get_bit(c)})]

swap_rows(e, v, r1, r2) ==
  LET d == get_word(v, r2, 0) - get_word(v, r1, 0) IN
  [k \in DOMAIN e |-> IF k \in RowWords(v, r1) THEN e[k + d]
                      ELSE IF k \in RowWords(v, r2) THEN e[k - d] ELSE e[k]]

clear_row(e, v, r) == [k \in DOMAIN e |-> IF k \in RowWords(v, r) THEN {} ELSE e[k]]
mult_row(e, v, r, alpha) == IF alpha = 0 THEN clear_row(e, v, r) ELSE e

multadd_row(e, v, r1, alpha, w, rt) ==
  LET d == get_word(v, r1, 0) - get_word(w, rt, 0) IN
  IF alpha = 0 THEN e
  ELSE [k \in DOMAIN e |-> IF k \in RowWords(w, rt) THEN Xor(e[k], e[k + d]) ELSE e[k]]

(* The first word of the sum is partial: only its bits from the offset on. *)
(* It is added before the loop condition is looked at.                     *)
FirstWordMask_Bug(offs) == Bits
FirstWordMask(offs) == get_bit(offs) .. W - 1
RowEnd_Bug(v, r) == get_word(v, r + 1, 0) + 1
RowEnd(v, r) == get_word(v, r + 1, 0)
multadd_row_from(e, v, r1, offs, alpha, w, rt) ==
  LET o1 == get_word(v, r1, offs)
      ot == get_word(w, rt, offs)
      oe == RowEnd(w, rt)
  IN IF alpha = 0 THEN e
     ELSE [k \in DOMAIN e |->
             CASE k = ot -> Xor(e[k], e[o1] \cap FirstWordMask(offs))
               [] k \in ot + 1 .. oe - 1 -> Xor(e[k], e[k - ot + o1])
               [] OTHER -> e[k]]

copy_row(e, v, r1, w, rt) ==
  LET d == get_word(v, r1, 0) - get_word(w, rt, 0) IN
  [k \in DOMAIN e |-> IF k \in RowWords(w, rt) THEN e[k + d] ELSE e[k]]

(* Whole words before the last one, which may hold bits behind the row. *)
LastWordMask_Bug(v) == Bits
LastWordMask(v) == 0 .. get_bit(v.n_col - 1)
row_iszero(e, v, r) ==
  LET oe == get_word(v, r, v.n_col - 1) IN
  /\ \A k \in get_word(v, r, 0) .. oe - 1 : e[k] = {}
  /\ e[oe] \cap LastWordMask(v) = {}

(* Both cases of the code: the two columns in one word, or in two. *)
swap_cols(e, v, c1, c2) ==
  [k \in DOMAIN e |->
     LET r  == (k - v.e) \div v.row_stride
         w1 == IF k = get_word(v, r, c1)
               THEN WithBit(e[k], get_bit(c1), get_el(e, v, r, c2)) ELSE e[k]
     IN IF k < v.e \/ r >= v.n_row THEN e[k]
        ELSE IF k = get_word(v, r, c2)
             THEN WithBit(w1, get_bit(c2), get_el(e, v, r, c1)) ELSE w1]

mult_col_from(e, v, c, offs, alpha) ==
  IF alpha # 0 THEN e
  ELSE [k \in DOMAIN e |-> IF \E r \in offs .. v.n_row - 1 : k = get_word(v, r, c)
                           THEN e[k] \ {get_bit(c)} ELSE e[k]]

copy_col(e, v, c1, w, ct) ==
  [k \in DOMAIN e |->
     IF \E r \in ViewRows(w) : k = get_word(w, r, ct)
     THEN WithBit(e[k], get_bit(ct), get_el(e, v, (k - w.e) \div w.row_stride, c1))
     ELSE e[k]]

=============================================================================
