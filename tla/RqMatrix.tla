------------------------------ MODULE RqMatrix ------------------------------
(***************************************************************************)
(* src/tvrq: the matrix of a block, from the symbols' tuples and the two   *)
(* kinds of constraint rows.  A row of the LT and LDPC parts is the set of *)
(* the columns in which it has a one; an HDPC row is a function to octets. *)
(* P is a parameter set of RqParams.                                       *)
(***************************************************************************)
EXTENDS Tuples, Gf256, RqParams, FiniteSets

rq_matrix_get_dim(P, n_ESIs) ==
  [n_row |-> n_ESIs + (P.Kprime - P.K) + P.S + P.H, n_col |-> P.L]

-----------------------------------------------------------------------------
(* lt.c *)

LtColumn(P, T, j) == (T.b + j * T.a) % P.W

(* The first n indices of the PI walk that are below P; the P1 - P others  *)
(* are stepped over, each at most once.                                    *)
PiColumns(P, T, n) ==
  LET x(j) == (T.b1 + j * T.a1) % P.P1
      hits(k) == Cardinality({j \in 0 .. k : x(j) < P.P})
  IN {P.W + x(k) : k \in {k \in 0 .. n - 1 + (P.P1 - P.P) : x(k) < P.P /\ hits(k) <= n}}

LtRow(P, T) == {LtColumn(P, T, j) : j \in 0 .. T.d - 1} \cup PiColumns(P, T, T.d1)

-----------------------------------------------------------------------------
(* ldpc.c *)

LdpcRow(P, r) ==
  {c \in 0 .. P.B - 1 : r \in LdpcRows(P, c)}
    \cup {P.B + r} \cup {P.W + (r % P.P), P.W + ((r + 1) % P.P)}

-----------------------------------------------------------------------------
(* hdpc.c *)

(* The rows in which column j of the matrix MT has its two ones, a # b. *)
Flipped(P, j) ==
  LET a == Rand(Word(j + 1), 6, P.H)
      b == (a + Rand(Word(j + 1), 7, P.H - 1) + 1) % P.H
  IN {a, b}

(* Powers of 2, as the loop over val computes them. *)
PowersOf2(n) ==
  LET p[k \in 0 .. n] == IF k = 0 THEN 1 ELSE gf256_mul(p[k - 1], 2) IN p

(* Column c of the product of MT and GAMMA: entry j, c of GAMMA is a power *)
(* of 2 on and below the diagonal and zero above.                          *)
MT(P, p, r, j) ==
  IF j = P.Kprime + P.S - 1 THEN p[r] ELSE IF r \in Flipped(P, j) THEN 1 ELSE 0
ExactColumn(P, c) ==
  LET d == P.Kprime + P.S
      p == PowersOf2(d)
      dot(r) ==
        LET s[j \in c .. d] ==
              IF j = d THEN 0 ELSE gf256_add(s[j + 1], gf256_mul(MT(P, p, r, j), p[j - c]))
        IN s[c]
  IN [r \in 0 .. P.H - 1 |-> dot(r)]

IdentityColumn(P, c) == [r \in 0 .. P.H - 1 |-> IF c - (P.Kprime + P.S) = r THEN 1 ELSE 0]

hdpc_generate_mat_specexact(P) ==
  LET column == [c \in 0 .. P.L - 1 |->
                   IF c < P.Kprime + P.S THEN ExactColumn(P, c) ELSE IdentityColumn(P, c)]
  IN [r \in 0 .. P.H - 1 |-> [c \in 0 .. P.L - 1 |-> column[c][r]]]

(* The fast generator writes column by column from right to left into the  *)
(* memory m it was given: the last column first, each other column twice   *)
(* the one right of it with the two flipped rows added, the identity last. *)
LastColumn(P) == [r \in 0 .. P.H - 1 |-> PowersOf2(P.H)[r]]

(* Column j, from the one right of it; old is what the memory holds.       *)
NextColumn_Bug(P, right, old, j) ==
  [r \in 0 .. P.H - 1 |->
     gf256_add(IF r \in Flipped(P, j) THEN gf256_add(1, old[r]) ELSE 0, gf256_mul(2, right[r]))]
NextColumn(P, right, old, j) ==
  [r \in 0 .. P.H - 1 |->
     gf256_add(IF r \in Flipped(P, j) THEN 1 ELSE 0, gf256_mul(2, right[r]))]

(* Memory m with its column c replaced. *)
ColumnOf(m, c) == [r \in DOMAIN m |-> m[r][c]]
PutColumn(m, c, col) == [r \in DOMAIN m |-> [m[r] EXCEPT ![c] = col[r]]]

WithIdentity(P, m) ==
  [r \in DOMAIN m |-> [c \in DOMAIN m[r] |->
     IF c < P.Kprime + P.S THEN m[r][c] ELSE IdentityColumn(P, c)[r]]]

hdpc_generate_mat(P, m) ==
  LET d == P.Kprime + P.S
      g[j \in 0 .. d - 1] ==
        IF j = d - 1 THEN LastColumn(P) ELSE NextColumn(P, g[j + 1], ColumnOf(m, j), j)
  IN WithIdentity(P, [r \in DOMAIN m |-> [c \in DOMAIN m[r] |->
                        IF c < d THEN g[c][r] ELSE m[r][c]]])

-----------------------------------------------------------------------------
(* rq_matrix.c *)

(* The internal symbol IDs of the LT rows: the given symbols, then padding.*)
(* The shift is written out here and again in tuple.c.                     *)
Shifted_Bug(X, P) == WAdd(X, Word(IF WLess(X, Word(P.Kprime)) THEN 0 ELSE P.Kprime - P.K))
Shifted(X, P) == WAdd(X, Word(IF WLess(X, Word(P.K)) THEN 0 ELSE P.Kprime - P.K))
ISIs(P, ESIs) ==
  [k \in 1 .. Len(ESIs) |-> Shifted(ESIs[k], P)]
    \o [k \in 1 .. P.Kprime - P.K |-> Word(P.K + k - 1)]

(* The matrix in memory m, as rows of octets. *)
rq_matrix_generate(P, ESIs, m) ==
  LET X == ISIs(P, ESIs)
      lt == Len(X)
      ones(row) == [c \in 0 .. P.L - 1 |-> IF c \in row THEN 1 ELSE 0]
      hdpc == hdpc_generate_mat(P, [r \in 0 .. P.H - 1 |-> m[lt + P.S + r]])
  IN [r \in DOMAIN m |->
        IF r < lt THEN ones(LtRow(P, tuple_generate_from_ISI(X[r + 1], P)))
        ELSE IF r < lt + P.S THEN ones(LdpcRow(P, r - lt))
        ELSE hdpc[r - lt - P.S]]

=============================================================================
