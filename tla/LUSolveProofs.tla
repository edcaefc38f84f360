---------------------------- MODULE LUSolveProofs ----------------------------
(***************************************************************************)
(* Proofs about LUSolve: what the triangular solvers of                    *)
(* src/algebra/mv_generic.h compute from the factors of LUDecomp, for      *)
(* every dimension, rank, field and right-hand side.                       *)
(***************************************************************************)
EXTENDS LUOps, LUDecompProofs

-----------------------------------------------------------------------------
(* The factors as operators on vectors *)

(* Row q of U times the vector v. *)
URowTimes(q, v) == Sum([c \in Cols |-> Mul(UEntry(q, c), v[c])], NCol)

(* Row r of L times the vector z. *)
LRowTimes(r, z) == Sum([q \in 0 .. i - 1 |-> Mul(LEntry(r, q), z[q])], i)

LEMMA URowType ==
  ASSUME Assumptions, TypeOK, NEW q \in 0 .. i - 1, NEW v, \A c \in Cols : v[c] \in F
  PROVE  URowTimes(q, v) \in F
<1> DEFINE f == [c \in Cols |-> Mul(UEntry(q, c), v[c])]
<1>1. \A c \in 0 .. NCol - 1 : f[c] \in F
  BY EntryType DEF Assumptions, FieldAssumption, Cols
<1>2. Sum(f, NCol) \in F
  <2> HIDE DEF f
  <2> QED BY <1>1, SumType DEF Assumptions, DimAssumption
<1> QED BY <1>2 DEF URowTimes

(* A row of the matrix that was decomposed times a vector is the row of L  *)
(* times U times the vector, in the order of the columns of U.             *)
LEMMA FactorsTimes ==
  ASSUME Assumptions, LUInv, pc = "done",
         NEW x, \A c \in Cols : x[c] \in F,
         NEW v, \A c \in Cols : v[c] = x[cp[c]],
         NEW z, \A q \in 0 .. i - 1 : z[q] = URowTimes(q, v),
         NEW r \in Rows
  PROVE  Product(x, rp[r]) = LRowTimes(r, z)
<1>1. /\ TypeOK /\ i \in Nat /\ NCol \in Nat
      /\ \A q \in 0 .. i - 1 : q \in Rows /\ q \in Cols
  BY DEF Assumptions, DimAssumption, LUInv, TypeOK, Rows, Cols
<1>2. rp[r] \in Rows /\ IsPermutation(cp, Cols) /\ \A c \in Cols : cp[c] \in Cols
  BY <1>1 DEF TypeOK, IsPermutation
<1>3. \A s \in Rows, c \in Cols : A0[s][c] \in F
  BY <1>1 DEF TypeOK, Matrices
<1>4. \A c \in Cols : v[c] \in F
  BY <1>2
<1> DEFINE row == [c \in Cols |-> Mul(A0[rp[r]][c], x[c])]
           g == [c \in Cols |-> Mul(A0[rp[r]][cp[c]], v[c])]
           l == [q \in 0 .. i - 1 |-> Mul(LEntry(r, q), z[q])]
           t == [q \in 0 .. i - 1 |-> [c \in Cols |-> Mul(LEntry(r, q), Mul(UEntry(q, c), v[c]))]]
           u == [c \in Cols |-> [q \in 0 .. i - 1 |-> t[q][c]]]
<1>5. \A c \in Cols : row[c] \in F /\ g[c] = row[cp[c]]
  BY <1>2, <1>3 DEF Assumptions, FieldAssumption
<1>6. Sum(g, NCol) = Sum(row, NCol)
  <2> HIDE DEF g, row
  <2> QED BY <1>1, <1>2, <1>5, SumPermute DEF Cols
<1>7. ASSUME NEW q \in 0 .. i - 1, NEW c \in Cols
      PROVE  /\ t[q][c] = Mul(LEntry(r, q), Mul(UEntry(q, c), v[c]))
             /\ t[q][c] = Mul(v[c], Mul(LEntry(r, q), UEntry(q, c)))
             /\ t[q][c] \in F
             /\ Mul(UEntry(q, c), v[c]) \in F
  <2>1. t[q][c] = Mul(LEntry(r, q), Mul(UEntry(q, c), v[c]))
    OBVIOUS
  <2>2. LEntry(r, q) \in F /\ UEntry(q, c) \in F /\ v[c] \in F
    BY <1>1, <1>4, EntryType
  <2> HIDE DEF t
  <2>3. Mul(UEntry(q, c), v[c]) \in F /\ Mul(LEntry(r, q), UEntry(q, c)) \in F
    BY <2>2 DEF Assumptions, FieldAssumption
  <2>5. \A a, b, d \in F : Mul(a, Mul(b, d)) \in F /\ Mul(a, Mul(b, d)) = Mul(d, Mul(a, b))
    BY DEF Assumptions, FieldAssumption, FieldLaws
  <2>6. /\ Mul(LEntry(r, q), Mul(UEntry(q, c), v[c])) \in F
        /\ Mul(LEntry(r, q), Mul(UEntry(q, c), v[c])) = Mul(v[c], Mul(LEntry(r, q), UEntry(q, c)))
    BY <2>2, <2>5
  <2> QED BY <2>1, <2>3, <2>6
<1>8. ASSUME NEW q \in 0 .. i - 1
      PROVE  l[q] = Sum(t[q], NCol)
  <2> DEFINE uv == [c \in Cols |-> Mul(UEntry(q, c), v[c])]
  <2>1. \A c \in 0 .. NCol - 1 : uv[c] \in F /\ t[q][c] = Mul(LEntry(r, q), uv[c])
    BY <1>7 DEF Cols
  <2>2. LEntry(r, q) \in F
    BY <1>1, EntryType
  <2>3. Sum(t[q], NCol) = Mul(LEntry(r, q), Sum(uv, NCol))
    <3> HIDE DEF t, uv
    <3>1. Scaled(t[q], uv, LEntry(r, q), NCol)
      BY <2>1 DEF Scaled
    <3> QED BY <1>1, <2>2, <3>1, SumScale
  <2>4. z[q] = Sum(uv, NCol)
    BY DEF URowTimes
  <2> QED BY <2>3, <2>4
<1>9. ASSUME NEW c \in Cols
      PROVE  g[c] = Sum(u[c], i)
  <2> DEFINE lu == [q \in 0 .. i - 1 |-> Mul(LEntry(r, q), UEntry(q, c))]
             h == u[c]
  <2>1. A0[rp[r]][cp[c]] = Add(Sum(lu, i), Residual(r, c))
    BY DEF LUInv, Factorisation
  <2>2. Residual(r, c) = Zero
    BY DEF LUInv, NothingLeft, Residual
  <2>3. \A q \in 0 .. i - 1 : lu[q] \in F
    BY <1>1, EntryType DEF Assumptions, FieldAssumption
  <2>4. \A q \in 0 .. i - 1 : h[q] = Mul(v[c], lu[q])
    BY <1>7
  <2>5. Sum(lu, i) \in F
    <3> HIDE DEF lu
    <3> QED BY <1>1, <2>3, SumType
  <2>6. A0[rp[r]][cp[c]] = Sum(lu, i)
    BY <2>1, <2>2, <2>5 DEF Assumptions, FieldAssumption
  <2>7. Sum(h, i) = Mul(v[c], Sum(lu, i))
    <3> HIDE DEF lu, h
    <3>1. Scaled(h, lu, v[c], i)
      BY <2>3, <2>4 DEF Scaled
    <3>2. v[c] \in F
      BY <1>4
    <3> QED BY <1>1, <3>1, <3>2, SumScale
  <2>8. g[c] = Mul(A0[rp[r]][cp[c]], v[c])
    OBVIOUS
  <2>9. Mul(v[c], Sum(lu, i)) = Mul(Sum(lu, i), v[c])
    BY <1>4, <2>5 DEF Assumptions, FieldLaws
  <2> QED BY <2>6, <2>7, <2>8, <2>9
<1>10. Sum(l, i) = Sum(g, NCol)
  <2>1. \A q \in 0 .. i - 1, c \in 0 .. NCol - 1 : u[c][q] = t[q][c]
    BY DEF Cols
  <2>2. \A q \in 0 .. i - 1, c \in 0 .. NCol - 1 : t[q][c] \in F
    BY <1>7 DEF Cols
  <2>3. \A c \in 0 .. NCol - 1 : g[c] = Sum(u[c], i)
    BY <1>9 DEF Cols
  <2>4. \A q \in 0 .. i - 1 : l[q] = Sum(t[q], NCol)
    BY <1>8
  <2> HIDE DEF l, g, t, u
  <2>5. LineSums(t, u, l, g, i, NCol)
    BY <2>1, <2>2, <2>3, <2>4 DEF LineSums
  <2> QED BY <2>5, <1>1, SumSwap
<1>11. Product(x, rp[r]) = Sum(row, NCol)
  BY DEF Product
<1> QED BY <1>6, <1>10, <1>11 DEF LRowTimes

(* A row of L that has a pivot: what is left of the diagonal, and the      *)
(* diagonal, which is One and not stored.                                  *)
LEMMA LRowSplit ==
  ASSUME Assumptions, TypeOK, NEW r \in 0 .. i - 1, NEW z, \A q \in 0 .. i - 1 : z[q] \in F,
         NEW w, \A q \in 0 .. r - 1 : w[q] = Mul(A[r][q], z[q])
  PROVE  LRowTimes(r, z) = Add(Sum(w, r), z[r]) /\ Sum(w, r) \in F
<1> DEFINE f == [q \in 0 .. i - 1 |-> Mul(LEntry(r, q), z[q])]
           g == [q \in 0 .. i - r - 2 |-> f[r + 1 + q]]
<1>1. /\ i \in Nat /\ r \in Nat /\ r \in Rows
      /\ r + 1 \in Nat /\ i - r - 1 \in Nat /\ (r + 1) + (i - r - 1) = i
  BY DEF Assumptions, DimAssumption, TypeOK, Rows
<1>2. \A q \in 0 .. i - 1 : f[q] \in F
  BY <1>1, EntryType DEF Assumptions, FieldAssumption
<1>3. ASSUME NEW q \in 0 .. r - 1
      PROVE  w[q] = f[q] /\ w[q] \in F
  <2>1. q \in 0 .. i - 1 /\ q < r
    BY <1>1
  <2>2. f[q] = Mul(A[r][q], z[q])
    BY <2>1 DEF LEntry
  <2> QED BY <1>2, <2>1, <2>2
<1>4. f[r] = z[r]
  <2>1. f[r] = Mul(One, z[r])
    BY <1>1 DEF LEntry
  <2> QED BY <2>1 DEF Assumptions, FieldLaws
<1>5. ASSUME NEW q \in 0 .. (i - r - 1) - 1
      PROVE  g[q] = f[r + 1 + q] /\ g[q] = Zero
  <2>1. r + 1 + q \in 0 .. i - 1 /\ ~(r + 1 + q < r) /\ r + 1 + q # r /\ q \in 0 .. i - r - 2
    BY <1>1
  <2>2. f[r + 1 + q] = Mul(Zero, z[r + 1 + q])
    BY <2>1 DEF LEntry
  <2>3. Mul(Zero, z[r + 1 + q]) = Zero
    BY <2>1 DEF Assumptions, FieldAssumption
  <2> QED BY <2>1, <2>2, <2>3
<1> HIDE DEF f, g
<1>6. Sum(w, r) = Sum(f, r) /\ Sum(w, r) \in F
  BY <1>1, <1>3, SumEqual, SumType
<1>7. Sum(f, r + 1) = Add(Sum(f, r), f[r])
  BY <1>1, SumNext
<1>8. Sum(g, i - r - 1) = Zero
  BY <1>1, <1>5, SumZero
<1>9. Sum(f, i) = Add(Sum(f, r + 1), Sum(g, i - r - 1))
  <2> DEFINE m == r + 1
             d == i - r - 1
  <2>1. m \in Nat /\ d \in Nat /\ i = m + d
    BY <1>1
  <2>2. \A q \in 0 .. d - 1 : g[q] = f[m + q]
    BY <1>5
  <2> HIDE DEF m, d
  <2>3. Follows(g, f, m, d)
    BY <1>2, <2>1, <2>2 DEF Follows
  <2>4. Sum(f, i) = Add(Sum(f, m), Sum(g, d))
    BY <2>1, <2>3, SumSplit
  <2> QED BY <2>4 DEF m, d
<1>10. Sum(f, i) = LRowTimes(r, z)
  BY DEF LRowTimes, f
<1> QED BY <1>4, <1>6, <1>7, <1>8, <1>9, <1>10 DEF Assumptions, FieldAssumption

(* A row of U: the pivot, and what is right of it, as U_invmult_inplace    *)
(* adds it up.                                                             *)
LEMMA URowSplit ==
  ASSUME Assumptions, TypeOK, NEW q \in 0 .. i - 1, NEW v, \A c \in Cols : v[c] \in F,
         NEW w, \A c \in 0 .. NCol - q - 2 : w[c] = Mul(A[q][q + 1 + c], v[q + 1 + c])
  PROVE  /\ URowTimes(q, v) = Add(Mul(A[q][q], v[q]), Sum(w, NCol - q - 1))
         /\ Sum(w, NCol - q - 1) \in F
<1> DEFINE f == [c \in Cols |-> Mul(UEntry(q, c), v[c])]
<1>1. /\ i \in Nat /\ q \in Nat /\ q \in Rows /\ q \in Cols /\ NCol \in Nat
      /\ q + 1 \in Nat /\ NCol - q - 1 \in Nat /\ (q + 1) + (NCol - q - 1) = NCol
  BY SMTT(20) DEF Assumptions, DimAssumption, TypeOK, Rows, Cols
<1>2. \A c \in 0 .. NCol - 1 : f[c] \in F
  BY <1>1, EntryType DEF Assumptions, FieldAssumption, Cols
<1>3. \A c \in 0 .. q - 1 : f[c] = Zero
  <2> SUFFICES ASSUME NEW c \in 0 .. q - 1 PROVE f[c] = Zero
    OBVIOUS
  <2>1. c \in Cols /\ ~(q <= c)
    BY <1>1 DEF Cols
  <2>2. f[c] = Mul(Zero, v[c])
    BY <2>1 DEF UEntry
  <2> QED BY <2>1, <2>2 DEF Assumptions, FieldAssumption
<1>4. f[q] = Mul(A[q][q], v[q])
  BY <1>1 DEF UEntry
<1>5. ASSUME NEW c \in 0 .. (NCol - q - 1) - 1
      PROVE  w[c] = f[q + 1 + c] /\ w[c] \in F
  <2>1. q + 1 + c \in Cols /\ q + 1 + c \in 0 .. NCol - 1 /\ q <= q + 1 + c /\ c \in 0 .. NCol - q - 2
    BY <1>1 DEF Cols
  <2>2. f[q + 1 + c] = Mul(A[q][q + 1 + c], v[q + 1 + c])
    BY <2>1 DEF UEntry
  <2> QED BY <1>2, <2>1, <2>2
<1>6. URowTimes(q, v) = Sum(f, NCol)
  BY DEF URowTimes
<1> HIDE DEF f
<1>7. Sum(f, q) = Zero
  BY <1>1, <1>3, SumZero
<1>8. Sum(f, q + 1) = Add(Sum(f, q), f[q])
  BY <1>1, SumNext
<1>9. Sum(f, NCol) = Add(Sum(f, q + 1), Sum(w, NCol - q - 1))
  <2> DEFINE m == q + 1
             d == NCol - q - 1
  <2>1. m \in Nat /\ d \in Nat /\ NCol = m + d
    BY <1>1
  <2>2. \A c \in 0 .. d - 1 : w[c] = f[m + c]
    BY <1>5
  <2> HIDE DEF m, d
  <2>3. Follows(w, f, m, d)
    BY <1>2, <2>1, <2>2 DEF Follows
  <2>4. Sum(f, NCol) = Add(Sum(f, m), Sum(w, d))
    BY <2>1, <2>3, SumSplit
  <2> QED BY <2>4 DEF m, d
<1>10. f[q] \in F
  BY <1>1, <1>2
<1>11. Add(Zero, f[q]) = f[q]
  BY <1>10 DEF Assumptions, FieldAssumption, FieldLaws
<1>12. Sum(w, NCol - q - 1) \in F
  BY <1>1, <1>5, SumType
<1> QED BY <1>4, <1>6, <1>7, <1>8, <1>9, <1>11, <1>12

(* U determines a vector when every column has a pivot. *)
LEMMA UDetermines ==
  ASSUME Assumptions, LUInv, i = NCol,
         NEW v, NEW w, \A c \in Cols : v[c] \in F /\ w[c] \in F,
         \A q \in 0 .. i - 1 : URowTimes(q, v) = URowTimes(q, w)
  PROVE  \A c \in Cols : v[c] = w[c]
<1>1. TypeOK /\ NCol \in Nat /\ Cols = 0 .. NCol - 1
  BY DEF Assumptions, DimAssumption, LUInv, Cols
<1> DEFINE S == {n \in Nat : \A c \in Cols : c >= NCol - n => v[c] = w[c]}
<1>2. 0 \in S
  BY <1>1
<1>3. ASSUME NEW n \in Nat, n \in S PROVE n + 1 \in S
  <2> SUFFICES ASSUME NEW c \in Cols, c >= NCol - (n + 1) PROVE v[c] = w[c]
    OBVIOUS
  <2>1. \A d \in Cols : d > c => v[d] = w[d]
    BY <1>1, <1>3
  <2> DEFINE f == [d \in 0 .. NCol - c - 2 |-> Mul(A[c][c + 1 + d], v[c + 1 + d])]
             g == [d \in 0 .. NCol - c - 2 |-> Mul(A[c][c + 1 + d], w[c + 1 + d])]
  <2>2. ASSUME NEW d \in 0 .. (NCol - c - 1) - 1
        PROVE  f[d] = g[d]
    <3>1. c + 1 + d \in Cols /\ c + 1 + d > c /\ d \in 0 .. NCol - c - 2
      BY <1>1
    <3> QED BY <2>1, <3>1
  <2>3. c \in 0 .. i - 1 /\ NCol - c - 1 \in Nat
    BY <1>1
  <2>4. Sum(f, NCol - c - 1) = Sum(g, NCol - c - 1)
    <3> HIDE DEF f, g
    <3> QED BY <2>2, <2>3, SumEqual
  <2>5. /\ URowTimes(c, v) = Add(Mul(A[c][c], v[c]), Sum(f, NCol - c - 1))
        /\ Sum(f, NCol - c - 1) \in F
    <3>1. \A d \in 0 .. NCol - c - 2 : f[d] = Mul(A[c][c + 1 + d], v[c + 1 + d])
      OBVIOUS
    <3> HIDE DEF f
    <3> QED BY <1>1, <2>3, <3>1, URowSplit
  <2>6. URowTimes(c, w) = Add(Mul(A[c][c], w[c]), Sum(g, NCol - c - 1))
    <3>1. \A d \in 0 .. NCol - c - 2 : g[d] = Mul(A[c][c + 1 + d], w[c + 1 + d])
      OBVIOUS
    <3> HIDE DEF g
    <3> QED BY <1>1, <2>3, <3>1, URowSplit
  <2>7. A[c][c] \in F /\ A[c][c] # Zero
    BY <1>1, <2>3 DEF Assumptions, DimAssumption, LUInv, TypeOK, PivotsNonzero, Matrices, Rows
  <2>8. URowTimes(c, v) = URowTimes(c, w)
    BY <2>3
  <2>9. \A a, x, y, t \in F : a # Zero /\ Add(Mul(a, x), t) = Add(Mul(a, y), t) => x = y
    BY FieldCancel
  <2> HIDE DEF f, g
  <2> QED BY <2>4, <2>5, <2>6, <2>7, <2>8, <2>9
<1>4. NCol \in S
  <2> HIDE DEF S
  <2> QED BY <1>1, <1>2, <1>3, NatSet
<1> QED BY <1>1, <1>4

-----------------------------------------------------------------------------
(* The inductive invariant of the solve *)

(* Row q of U times the solution: what the forward pass makes of Y. *)
Intermediate(q) == URowTimes(q, [c \in Cols |-> X0[cp[c]]])

XRows == IF passed THEN BufRows ELSE Cols

(* The forward pass has turned the rows before k into those of U * X0; the *)
(* backward pass has turned the rows from k on into a solution of theirs.  *)
SolveInv ==
  phase # "decomp" =>
    /\ pc = "done" /\ (~passed => i = NCol)
    /\ X0 \in [Cols -> F] /\ X \in [XRows -> F]
    /\ k \in 0 .. i
    /\ phase = "forward" =>
         \A q \in 0 .. i - 1 : X[q] = IF q < k THEN Intermediate(q) ELSE Product(X0, rp[q])
    /\ phase = "backward" =>
         \A q \in 0 .. i - 1 : IF q < k THEN X[q] = Intermediate(q)
                                        ELSE URowTimes(q, X) = Intermediate(q)
    /\ phase = "solved" =>
         \A q \in 0 .. i - 1 :
           URowTimes(q, [c \in Cols |-> X[IF passed THEN cp[c] ELSE c]]) = Intermediate(q)
    /\ phase \in {"forward", "backward", "solved"}

SolveIInv == LUInv /\ SolveInv

LEMMA IntermediateType ==
  ASSUME Assumptions, TypeOK, X0 \in [Cols -> F], NEW q \in 0 .. i - 1
  PROVE  Intermediate(q) \in F
<1> DEFINE v == [c \in Cols |-> X0[cp[c]]]
<1>1. \A c \in Cols : v[c] \in F
  BY DEF TypeOK, IsPermutation
<1> HIDE DEF v
<1>2. URowTimes(q, v) \in F
  BY <1>1, URowType
<1> QED BY <1>2 DEF v, Intermediate

LEMMA ProductType ==
  ASSUME Assumptions, TypeOK, NEW x, \A c \in Cols : x[c] \in F, NEW r \in Rows
  PROVE  Product(x, r) \in F
<1> DEFINE f == [c \in Cols |-> Mul(A0[r][c], x[c])]
<1>1. \A c \in 0 .. NCol - 1 : f[c] \in F
  BY ZenonT(20) DEF Assumptions, FieldAssumption, TypeOK, Matrices, Cols
<1>2. Sum(f, NCol) \in F
  <2> HIDE DEF f
  <2> QED BY <1>1, SumType DEF Assumptions, DimAssumption
<1> QED BY <1>2 DEF Product

(* The system the forward pass solves: L times U times X0 is Y. *)
LEMMA ProductOfIntermediate ==
  ASSUME Assumptions, LUInv, pc = "done", X0 \in [Cols -> F], NEW r \in Rows,
         NEW z, \A q \in 0 .. i - 1 : z[q] = Intermediate(q)
  PROVE  Product(X0, rp[r]) = LRowTimes(r, z)
<1> DEFINE v == [c \in Cols |-> X0[cp[c]]]
<1>1. \A c \in Cols : v[c] = X0[cp[c]]
  OBVIOUS
<1>2. \A q \in 0 .. i - 1 : z[q] = URowTimes(q, v)
  BY DEF Intermediate
<1>3. \A c \in Cols : X0[c] \in F
  OBVIOUS
<1> HIDE DEF v
<1> QED BY <1>1, <1>2, <1>3, FactorsTimes

(* One row of a triangular solve from the top. *)
LEMMA ForwardSolves ==
  ASSUME Assumptions, LUInv, NEW r \in 0 .. i - 1, NEW z, \A q \in 0 .. i - 1 : z[q] \in F,
         NEW w, \A q \in 0 .. r - 1 : w[q] = Mul(A[r][q], z[q])
  PROVE  Add(LRowTimes(r, z), Sum(w, r)) = z[r]
<1>1. TypeOK
  BY DEF LUInv
<1>2. LRowTimes(r, z) = Add(Sum(w, r), z[r]) /\ Sum(w, r) \in F
  BY <1>1, LRowSplit
<1>3. z[r] \in F
  OBVIOUS
<1>4. Add(Sum(w, r), z[r]) = Add(z[r], Sum(w, r))
  BY <1>2, <1>3 DEF Assumptions, FieldLaws
<1>5. Add(Add(z[r], Sum(w, r)), Sum(w, r)) = z[r]
  BY <1>2, <1>3, FieldCancel
<1> QED BY <1>2, <1>4, <1>5

(* One row of a triangular solve from the bottom. *)
LEMMA BackwardSolves ==
  ASSUME Assumptions, LUInv, NEW q \in 0 .. i - 1, NEW v, \A c \in Cols : v[c] \in F,
         NEW w, \A c \in 0 .. NCol - q - 2 : w[c] = Mul(A[q][q + 1 + c], v[q + 1 + c]),
         NEW b, b = Mul(Inv(A[q][q]), Add(v[q], Sum(w, NCol - q - 1))),
         NEW y, \A c \in Cols : y[c] = IF c = q THEN b ELSE v[c]
  PROVE  b \in F /\ URowTimes(q, y) = v[q]
<1> DEFINE e == Add(v[q], Sum(w, NCol - q - 1))
<1>1. /\ TypeOK /\ i \in Nat /\ q \in Nat /\ q \in Rows /\ q \in Cols /\ NCol \in Nat
      /\ NCol - q - 1 \in Nat
  BY DEF Assumptions, DimAssumption, LUInv, TypeOK, Rows, Cols
<1>2. A[q][q] \in F /\ A[q][q] # Zero /\ Inv(A[q][q]) \in F
  BY <1>1 DEF Assumptions, FieldAssumption, LUInv, TypeOK, PivotsNonzero, Matrices
<1>3. Sum(w, NCol - q - 1) \in F
  BY <1>1, URowSplit
<1>4. e \in F /\ v[q] \in F
  BY <1>1, <1>3 DEF Assumptions, FieldAssumption
<1>5. b = Mul(Inv(A[q][q]), e)
  OBVIOUS
<1> HIDE DEF e
<1>6. b \in F
  BY <1>2, <1>4, <1>5 DEF Assumptions, FieldAssumption
<1>7. \A c \in Cols : y[c] \in F
  BY <1>6
<1>8. \A c \in 0 .. NCol - q - 2 : w[c] = Mul(A[q][q + 1 + c], y[q + 1 + c])
  <2> SUFFICES ASSUME NEW c \in 0 .. NCol - q - 2
               PROVE  w[c] = Mul(A[q][q + 1 + c], y[q + 1 + c])
    OBVIOUS
  <2>1. q + 1 + c \in Cols /\ q + 1 + c # q
    BY <1>1 DEF Cols
  <2>2. y[q + 1 + c] = v[q + 1 + c]
    BY <2>1
  <2> QED BY <2>2
<1>9. URowTimes(q, y) = Add(Mul(A[q][q], y[q]), Sum(w, NCol - q - 1))
  BY <1>1, <1>7, <1>8, URowSplit
<1>10. Mul(A[q][q], y[q]) = e
  <2>1. y[q] = Mul(Inv(A[q][q]), e)
    BY <1>1, <1>5
  <2> QED BY <2>1, <1>2, <1>4, FieldCancel
<1>11. Add(e, Sum(w, NCol - q - 1)) = v[q]
  BY <1>3, <1>4, FieldCancel DEF e
<1> QED BY <1>6, <1>9, <1>10, <1>11

(* One row of the forward pass. *)
LEMMA ForwardEntry ==
  ASSUME Assumptions, LUInv, pc = "done", X0 \in [Cols -> F], k \in 0 .. i - 1,
         \A q \in 0 .. i - 1 : X[q] = IF q < k THEN Intermediate(q) ELSE Product(X0, rp[q])
  PROVE  Add(X[k], Sum([j \in 0 .. k - 1 |-> Mul(A[k][j], X[j])], k)) = Intermediate(k)
<1> DEFINE z == [q \in 0 .. i - 1 |-> Intermediate(q)]
           w == [j \in 0 .. k - 1 |-> Mul(A[k][j], X[j])]
<1>1. TypeOK /\ i \in Nat /\ k \in Rows /\ k \in Int
  BY DEF Assumptions, DimAssumption, LUInv, TypeOK, Rows
<1>2. \A q \in 0 .. i - 1 : z[q] = Intermediate(q) /\ z[q] \in F
  BY <1>1, IntermediateType
<1>3. \A q \in 0 .. k - 1 : w[q] = Mul(A[k][q], z[q])
  <2> SUFFICES ASSUME NEW q \in 0 .. k - 1 PROVE w[q] = Mul(A[k][q], z[q])
    OBVIOUS
  <2>1. q \in 0 .. i - 1 /\ q < k
    BY <1>1
  <2> QED BY <1>2, <2>1
<1>4. X[k] = Product(X0, rp[k])
  BY <1>1
<1> HIDE DEF z, w
<1>5. Product(X0, rp[k]) = LRowTimes(k, z)
  BY <1>1, <1>2, ProductOfIntermediate
<1>6. Add(LRowTimes(k, z), Sum(w, k)) = z[k]
  BY <1>2, <1>3, ForwardSolves
<1> QED BY <1>2, <1>4, <1>5, <1>6 DEF w

(* One row of the backward pass: the row of U is satisfied. *)
LEMMA BackwardEntry ==
  ASSUME Assumptions, LUInv, NEW q \in 0 .. i - 1, \A c \in Cols : X[c] \in F, X[q] = Intermediate(q),
         X0 \in [Cols -> F],
         NEW Y, \A c \in Cols : Y[c] = IF c = q THEN BackSubstituted(q) ELSE X[c]
  PROVE  /\ BackSubstituted(q) \in F
         /\ URowTimes(q, Y) = Intermediate(q)
<1> DEFINE w == [j \in 0 .. NCol - q - 2 |-> Mul(A[q][q + 1 + j], X[q + 1 + j])]
<1>1. BackSubstituted(q) = Mul(Inv(A[q][q]), Add(X[q], Sum(w, NCol - q - 1)))
  BY DEF BackSubstituted
<1>2. \A c \in 0 .. NCol - q - 2 : w[c] = Mul(A[q][q + 1 + c], X[q + 1 + c])
  OBVIOUS
<1> HIDE DEF w
<1> QED BY <1>1, <1>2, BackwardSolves

(* A row of U does not see what is left of its diagonal. *)
LEMMA URowIgnores ==
  ASSUME Assumptions, TypeOK, NEW q \in 0 .. i - 1, NEW v, NEW w,
         \A c \in Cols : v[c] \in F /\ w[c] \in F,
         \A c \in Cols : c >= q => v[c] = w[c]
  PROVE  URowTimes(q, v) = URowTimes(q, w)
<1> DEFINE f == [c \in Cols |-> Mul(UEntry(q, c), v[c])]
           g == [c \in Cols |-> Mul(UEntry(q, c), w[c])]
<1>1. ASSUME NEW c \in 0 .. NCol - 1 PROVE f[c] = g[c]
  <2>1. c \in Cols /\ c \in Int /\ q \in Int
    BY DEF Cols
  <2>2. CASE q <= c
    BY <2>1, <2>2
  <2>3. CASE ~(q <= c)
    <3>1. f[c] = Mul(Zero, v[c]) /\ g[c] = Mul(Zero, w[c])
      BY <2>1, <2>3 DEF UEntry
    <3> QED BY <2>1, <3>1 DEF Assumptions, FieldAssumption
  <2> QED BY <2>2, <2>3
<1>2. Sum(f, NCol) = Sum(g, NCol)
  <2> HIDE DEF f, g
  <2> QED BY <1>1, SumEqual DEF Assumptions, DimAssumption
<1> QED BY <1>2 DEF URowTimes

-----------------------------------------------------------------------------
(* The invariant is inductive *)

(* What stays as it is while the factors and X0 do. *)
LEMMA FactorsStay ==
  ASSUME UNCHANGED <<luVars, X0>>
  PROVE  /\ \A q : Intermediate(q)' = Intermediate(q)
         /\ \A q : URowTimes(q, X)' = URowTimes(q, X')
         /\ \A r : Product(X0, r)' = Product(X0, r)
BY DEF luVars, Intermediate, URowTimes, UEntry, Product, Cols

LEMMA LoadCodecStep ==
  ASSUME Assumptions, SolveIInv, NEW x0 \in [Cols -> F], NEW n \in 0 .. NRow, LoadCodec(x0, n)
  PROVE  SolveInv'
<1>1. TypeOK /\ i = NCol /\ pc = "done" /\ i \in Nat /\ NRow \in Nat /\ NCol \in Nat
  BY DEF Assumptions, DimAssumption, SolveIInv, LUInv, LoadCodec, TypeOK
<1>2. /\ X0' = x0 /\ passed' = FALSE /\ k' = 0 /\ phase' = "forward"
      /\ X' = Gather([r \in Rows |-> IF r < n THEN Product(x0, r) ELSE One], n)
      /\ A0' = A0 /\ A' = A /\ rp' = rp /\ cp' = cp /\ i' = i /\ pc' = pc
      /\ \A r \in n .. NRow - 1 : Product(x0, r) = Zero
  BY DEF LoadCodec, luVars
<1>3. \A q \in Cols : q \in Rows /\ rp[q] \in Rows
  BY <1>1 DEF TypeOK, IsPermutation, Rows, Cols
<1>4. \A r \in Rows : Product(x0, r) \in F
  BY <1>1, ProductType
<1>5. ASSUME NEW q \in Cols
      PROVE  X'[q] = Product(x0, rp[q])
  <2>1. rp[q] \in Rows /\ rp[q] \in Int
    BY <1>3 DEF Rows
  <2>2. CASE rp[q] >= n
    <3>1. rp[q] \in n .. NRow - 1
      BY <2>1, <2>2 DEF Rows
    <3>2. X'[q] = Zero
      BY <1>2, <2>2 DEF Gather
    <3> QED BY <1>2, <3>1, <3>2
  <2>3. CASE ~(rp[q] >= n)
    BY <1>2, <2>1, <2>3 DEF Gather
  <2> QED BY <2>2, <2>3
<1>6. X' \in [Cols -> F]
  <2>1. X' = [q \in Cols |-> X'[q]]
    BY <1>2 DEF Gather
  <2> QED BY <2>1, <1>3, <1>4, <1>5
<1>7. ASSUME NEW q \in 0 .. i - 1
      PROVE  X'[q] = IF q < 0 THEN Intermediate(q)' ELSE Product(X0, rp[q])'
  <2>1. Product(X0, rp[q])' = Product(x0, rp[q])
    BY <1>2 DEF Product, Cols
  <2>2. q \in Cols /\ ~(q < 0)
    BY <1>1 DEF Cols
  <2> QED BY <1>5, <2>1, <2>2
<1> QED BY <1>1, <1>2, <1>6, <1>7 DEF SolveInv, XRows, Cols

LEMMA LoadInplaceStep ==
  ASSUME Assumptions, SolveIInv, NEW x0 \in [Cols -> F], NEW garbage \in [NRow .. MaxDim - 1 -> F],
         LoadInplace(x0, garbage)
  PROVE  SolveInv'
<1>1. TypeOK /\ pc = "done" /\ i \in Nat /\ i <= NRow /\ NRow \in Nat /\ NCol \in Nat
  BY DEF Assumptions, DimAssumption, SolveIInv, LUInv, LoadInplace, TypeOK
<1>2. /\ X0' = x0 /\ passed' = TRUE /\ k' = 0 /\ phase' = "forward"
      /\ X' = [r \in BufRows |-> IF r < NRow THEN Product(x0, rp[r]) ELSE garbage[r]]
      /\ A0' = A0 /\ A' = A /\ rp' = rp /\ cp' = cp /\ i' = i /\ pc' = pc
  BY DEF LoadInplace, luVars
<1>3. \A q \in Rows : rp[q] \in Rows
  BY <1>1 DEF TypeOK, IsPermutation
<1>4. \A r \in Rows : Product(x0, r) \in F
  BY <1>1, ProductType
<1>5. X' \in [BufRows -> F]
  <2> SUFFICES ASSUME NEW r \in BufRows
               PROVE  (IF r < NRow THEN Product(x0, rp[r]) ELSE garbage[r]) \in F
    BY <1>2
  <2>1. CASE r < NRow
    <3>1. r \in Rows
      BY <1>1, <2>1 DEF Rows, BufRows
    <3> QED BY <1>3, <1>4, <2>1, <3>1
  <2>2. CASE ~(r < NRow)
    <3>1. r \in NRow .. MaxDim - 1
      BY <1>1, <2>2 DEF BufRows, MaxDim
    <3> QED BY <2>2, <3>1
  <2> QED BY <2>1, <2>2
<1>6. ASSUME NEW q \in 0 .. i - 1
      PROVE  X'[q] = IF q < 0 THEN Intermediate(q)' ELSE Product(X0, rp[q])'
  <2>1. Product(X0, rp[q])' = Product(x0, rp[q])
    BY <1>2 DEF Product, Cols
  <2>2. q \in BufRows /\ q < NRow /\ ~(q < 0)
    BY <1>1 DEF BufRows, MaxDim
  <2> QED BY <1>2, <2>1, <2>2
<1>7. X' \in [XRows' -> F]
  BY <1>2, <1>5 DEF XRows, BufRows, MaxDim
<1> QED BY <1>1, <1>2, <1>6, <1>7 DEF SolveInv, Cols

LEMMA ForwardRowStep ==
  ASSUME Assumptions, SolveIInv, ForwardRow
  PROVE  SolveInv'
<1>1. /\ phase = "forward" /\ pc = "done" /\ (~passed => i = NCol)
      /\ X0 \in [Cols -> F] /\ X \in [XRows -> F] /\ k \in 0 .. i
      /\ \A q \in 0 .. i - 1 : X[q] = IF q < k THEN Intermediate(q) ELSE Product(X0, rp[q])
  BY DEF SolveIInv, SolveInv, ForwardRow
<1>2. /\ k < i /\ k' = k + 1 /\ UNCHANGED <<luVars, X0, passed, phase>>
      /\ X' = [X EXCEPT ![k] = Add(X[k], Sum([j \in 0 .. k - 1 |-> Mul(A[k][j], X[j])], k))]
  BY DEF ForwardRow, ForwardRows
<1>3. LUInv /\ TypeOK /\ i \in Nat /\ k \in 0 .. i - 1
  BY <1>1, <1>2 DEF Assumptions, DimAssumption, SolveIInv, LUInv, TypeOK
<1>4. Add(X[k], Sum([j \in 0 .. k - 1 |-> Mul(A[k][j], X[j])], k)) = Intermediate(k)
  BY <1>1, <1>3, ForwardEntry
<1>5. X' = [X EXCEPT ![k] = Intermediate(k)]
  BY <1>2, <1>4
<1>6. Intermediate(k) \in F
  BY <1>1, <1>3, IntermediateType
<1>7. X' \in [XRows -> F] /\ XRows' = XRows
  BY <1>1, <1>2, <1>5, <1>6 DEF XRows, BufRows, Cols
<1>8. k \in XRows
  BY <1>1, <1>3 DEF Assumptions, DimAssumption, XRows, BufRows, MaxDim, Cols, LUInv, TypeOK
<1>9. ASSUME NEW q \in 0 .. i - 1
      PROVE  X'[q] = IF q < k + 1 THEN Intermediate(q)' ELSE Product(X0, rp[q])'
  <2>1. Intermediate(q)' = Intermediate(q) /\ Product(X0, rp[q])' = Product(X0, rp[q])
    BY <1>2, FactorsStay DEF luVars
  <2>2. q \in XRows
    BY <1>1, <1>3 DEF Assumptions, DimAssumption, XRows, BufRows, MaxDim, Cols, LUInv, TypeOK
  <2>3. CASE q = k
    BY <1>1, <1>3, <1>5, <1>8, <2>1, <2>3
  <2>4. CASE q # k
    <3>1. X'[q] = X[q] /\ (q < k + 1 <=> q < k)
      BY <1>1, <1>3, <1>5, <2>4
    <3> QED BY <1>1, <2>1, <3>1
  <2> QED BY <2>3, <2>4
<1> QED BY <1>1, <1>2, <1>3, <1>7, <1>9 DEF SolveInv, luVars, Cols

LEMMA ForwardDoneStep ==
  ASSUME Assumptions, SolveIInv, ForwardDone
  PROVE  SolveInv'
<1>1. /\ phase = "forward" /\ pc = "done" /\ (~passed => i = NCol)
      /\ X0 \in [Cols -> F] /\ X \in [XRows -> F] /\ k \in 0 .. i
      /\ \A q \in 0 .. i - 1 : X[q] = IF q < k THEN Intermediate(q) ELSE Product(X0, rp[q])
  BY DEF SolveIInv, SolveInv, ForwardDone
<1>2. k = i /\ phase' = "backward" /\ UNCHANGED <<luVars, X0, X, passed, k>>
  BY DEF ForwardDone, ForwardRows
<1>3. i \in Nat
  BY DEF Assumptions, DimAssumption, SolveIInv, LUInv, TypeOK
<1>4. X' \in [XRows' -> F]
  BY <1>1, <1>2 DEF XRows, BufRows, Cols
<1>5. ASSUME NEW q \in 0 .. i - 1
      PROVE  q < k /\ X'[q] = Intermediate(q)'
  <2>1. Intermediate(q)' = Intermediate(q)
    BY <1>2, FactorsStay DEF luVars
  <2> QED BY <1>1, <1>2, <1>3, <2>1
<1> QED BY <1>1, <1>2, <1>4, <1>5 DEF SolveInv, luVars, Cols

LEMMA BackwardRowStep ==
  ASSUME Assumptions, SolveIInv, BackwardRow
  PROVE  SolveInv'
<1>1. /\ phase = "backward" /\ pc = "done" /\ (~passed => i = NCol)
      /\ X0 \in [Cols -> F] /\ X \in [XRows -> F] /\ k \in 0 .. i
      /\ \A q \in 0 .. i - 1 : IF q < k THEN X[q] = Intermediate(q)
                                        ELSE URowTimes(q, X) = Intermediate(q)
  BY DEF SolveIInv, SolveInv, BackwardRow
<1>2. /\ k > 0 /\ k' = k - 1 /\ UNCHANGED <<luVars, X0, passed, phase>>
      /\ X' = [X EXCEPT ![k - 1] = BackSubstituted(k - 1)]
  BY DEF BackwardRow
<1>3. LUInv /\ TypeOK /\ i \in Nat /\ k - 1 \in 0 .. i - 1 /\ k \in Int
  BY <1>1, <1>2 DEF Assumptions, DimAssumption, SolveIInv, LUInv, TypeOK
<1>4. Cols \subseteq XRows /\ 0 .. i - 1 \subseteq Cols /\ Cols \subseteq Int
  BY <1>1, <1>3 DEF Assumptions, DimAssumption, XRows, BufRows, MaxDim, Cols, TypeOK
<1>5. \A c \in Cols : X[c] \in F
  BY <1>1, <1>4
<1> DEFINE Y == [X EXCEPT ![k - 1] = BackSubstituted(k - 1)]
<1>6. \A c \in Cols : Y[c] = IF c = k - 1 THEN BackSubstituted(k - 1) ELSE X[c]
  BY <1>1, <1>4
<1>7. X[k - 1] = Intermediate(k - 1)
  BY <1>1, <1>3
<1>8. BackSubstituted(k - 1) \in F /\ URowTimes(k - 1, Y) = Intermediate(k - 1)
  <2> HIDE DEF Y
  <2> QED BY <1>1, <1>3, <1>5, <1>6, <1>7, BackwardEntry
<1>9. X' \in [XRows' -> F]
  <2>1. XRows' = XRows
    BY <1>2 DEF XRows, BufRows, Cols
  <2>2. Y \in [XRows -> F]
    BY <1>1, <1>8
  <2> QED BY <1>2, <2>1, <2>2
<1>10. ASSUME NEW q \in 0 .. i - 1
       PROVE  IF q < k - 1 THEN X'[q] = Intermediate(q)'
                           ELSE URowTimes(q, X)' = Intermediate(q)'
  <2>1. Intermediate(q)' = Intermediate(q) /\ URowTimes(q, X)' = URowTimes(q, X')
    BY <1>2, FactorsStay DEF luVars
  <2>2. X' = Y
    BY <1>2
  <2>3. CASE q < k - 1
    <3>1. q < k /\ q # k - 1 /\ q \in Cols
      BY <1>3, <1>4, <2>3
    <3>2. Y[q] = X[q]
      BY <1>6, <3>1
    <3> QED BY <1>1, <2>1, <2>2, <2>3, <3>1, <3>2
  <2>4. CASE q = k - 1
    <3>1. ~(q < k - 1)
      BY <1>3, <2>4
    <3> QED BY <1>8, <2>1, <2>2, <2>4, <3>1
  <2>5. CASE q >= k
    <3>1. ~(q < k - 1) /\ ~(q < k)
      BY <1>3, <2>5
    <3>2. \A c \in Cols : c >= q => c # k - 1
      BY <1>3, <1>4, <2>5
    <3>3. \A c \in Cols : c >= q => X[c] = Y[c]
      BY <1>6, <3>2
    <3>4. \A c \in Cols : X[c] \in F /\ Y[c] \in F
      BY <1>5, <1>6, <1>8
    <3>5. URowTimes(q, X) = URowTimes(q, Y)
      <4> HIDE DEF Y
      <4> QED BY <1>3, <3>3, <3>4, URowIgnores
    <3> QED BY <1>1, <2>1, <2>2, <3>1, <3>5
  <2> QED BY <1>3, <2>3, <2>4, <2>5
<1>11. /\ phase' = "backward" /\ pc' = "done" /\ (~passed' => i' = NCol')
       /\ X0' \in [Cols' -> F'] /\ k' \in 0 .. i'
  BY <1>1, <1>2, <1>3 DEF luVars, Cols
<1>12. \A q \in 0 .. i' - 1 : IF q < k' THEN X'[q] = Intermediate(q)'
                                         ELSE URowTimes(q, X)' = Intermediate(q)'
  <2>1. i' = i /\ k' = k - 1
    BY <1>2 DEF luVars
  <2> HIDE DEF Y
  <2> QED BY <1>10, <2>1
<1> HIDE DEF Y
<1> QED BY <1>9, <1>11, <1>12 DEF SolveInv

(* permute_rows(&X, inv_colperm) puts row c of the solution at cp[c]. *)
LEMMA UnpermutedEntry ==
  ASSUME Assumptions, TypeOK, NEW x, Cols \subseteq DOMAIN x
  PROVE  /\ \A c \in Cols : Unpermuted(x)[cp[c]] = x[c]
         /\ \A c \in Cols : \E d \in Cols : Unpermuted(x)[c] = x[d]
<1>1. IsPermutation(cp, Cols) /\ NCol \in Int
  BY DEF Assumptions, DimAssumption, TypeOK
<1>2. ASSUME NEW c \in Cols
      PROVE  Unpermuted(x)[cp[c]] = x[c]
  <2>1. cp[c] \in Cols /\ \A d \in Cols : cp[d] = cp[c] => d = c
    BY <1>1 DEF IsPermutation
  <2>2. (CHOOSE d \in Cols : cp[d] = cp[c]) = c
    BY <2>1
  <2>3. Unpermuted(x)[cp[c]] = x[CHOOSE d \in Cols : cp[d] = cp[c]]
    BY <2>1 DEF Unpermuted
  <2> QED BY <2>2, <2>3
<1>3. ASSUME NEW c \in Cols
      PROVE  \E d \in Cols : Unpermuted(x)[c] = x[d]
  <2>1. \A b \in Cols : \E d \in Cols : cp[d] = b
    BY <1>1, PermutationOnto, ZenonT(20) DEF Cols
  <2>2. PICK d \in Cols : cp[d] = c
    BY <2>1
  <2> QED BY <1>2, <2>2
<1> QED BY <1>2, <1>3

LEMMA ReturnStep ==
  ASSUME Assumptions, SolveIInv, Return
  PROVE  SolveInv'
<1>1. /\ phase = "backward" /\ pc = "done" /\ (~passed => i = NCol)
      /\ X0 \in [Cols -> F] /\ X \in [XRows -> F] /\ k \in 0 .. i
      /\ \A q \in 0 .. i - 1 : IF q < k THEN X[q] = Intermediate(q)
                                        ELSE URowTimes(q, X) = Intermediate(q)
  BY DEF SolveIInv, SolveInv, Return
<1>2. /\ k = 0 /\ phase' = "solved" /\ UNCHANGED <<luVars, X0, passed, k>>
      /\ X' = IF passed THEN Unpermuted(X) ELSE X
  BY DEF Return
<1>3. LUInv /\ TypeOK /\ i \in Nat
  BY DEF Assumptions, DimAssumption, SolveIInv, LUInv, TypeOK
<1>4. Cols \subseteq XRows /\ 0 .. i - 1 \subseteq Cols
  BY <1>1, <1>3 DEF Assumptions, DimAssumption, XRows, BufRows, MaxDim, Cols, TypeOK
<1>5. \A c \in Cols : X[c] \in F
  BY <1>1, <1>4
<1> DEFINE w == [c \in Cols |-> X'[IF passed THEN cp[c] ELSE c]]
<1>6. \A c \in Cols : w[c] = X[c]
  <2>1. CASE passed
    BY <1>1, <1>2, <1>3, <1>4, <2>1, UnpermutedEntry
  <2>2. CASE ~passed
    BY <1>2, <2>2
  <2> QED BY <2>1, <2>2
<1>7. X' \in [XRows' -> F]
  <2>1. XRows' = XRows
    BY <1>2 DEF XRows, BufRows, Cols
  <2>2. CASE passed
    <3>1. X' = Unpermuted(X) /\ DOMAIN X = XRows
      BY <1>1, <1>2, <2>2
    <3>2. \A r \in XRows : r \notin Cols => Unpermuted(X)[r] = X[r]
      BY <3>1 DEF Unpermuted
    <3>3. \A r \in XRows : Unpermuted(X)[r] \in F
      BY <1>1, <1>3, <1>4, <1>5, <3>1, <3>2, UnpermutedEntry
    <3>4. Unpermuted(X) = [r \in XRows |-> Unpermuted(X)[r]]
      BY <3>1 DEF Unpermuted
    <3> QED BY <2>1, <3>1, <3>3, <3>4
  <2>3. CASE ~passed
    BY <1>1, <1>2, <2>1, <2>3
  <2> QED BY <2>2, <2>3
<1>8. ASSUME NEW q \in 0 .. i - 1
      PROVE  URowTimes(q, [c \in Cols |-> X[IF passed THEN cp[c] ELSE c]])' = Intermediate(q)'
  <2>1. Intermediate(q)' = Intermediate(q)
    BY <1>2, FactorsStay DEF luVars
  <2>2. URowTimes(q, [c \in Cols |-> X[IF passed THEN cp[c] ELSE c]])' = URowTimes(q, w)
    BY <1>2 DEF luVars, URowTimes, UEntry, Cols
  <2>3. URowTimes(q, w) = URowTimes(q, X)
    <3> HIDE DEF w
    <3> QED BY <1>3, <1>5, <1>6, URowIgnores
  <2>4. ~(q < k)
    BY <1>2
  <2> QED BY <1>1, <2>1, <2>2, <2>3, <2>4
<1> QED BY <1>1, <1>2, <1>7, <1>8 DEF SolveInv, luVars, Cols

LEMMA SolveInvStep ==
  ASSUME Assumptions
  PROVE  SolveIInv /\ [SolveNext]_vars => SolveIInv'
<1> SUFFICES ASSUME SolveIInv, [SolveNext]_vars PROVE SolveIInv'
  OBVIOUS
<1>1. LUInv'
  <2>1. [Next]_luVars
    BY DEF SolveNext, Decompose, LoadCodec, LoadInplace, ForwardRow, ForwardDone, BackwardRow,
           Return, vars, luVars
  <2> QED BY <2>1, LUInvStep DEF SolveIInv
<1>2. SolveInv'
  <2>1. CASE Decompose
    BY <2>1 DEF Decompose, solveVars, SolveInv
  <2>2. ASSUME NEW x0 \in [Cols -> F], NEW n \in 0 .. NRow, LoadCodec(x0, n)
        PROVE  SolveInv'
    BY <2>2, LoadCodecStep
  <2>3. ASSUME NEW x0 \in [Cols -> F], NEW garbage \in [NRow .. MaxDim - 1 -> F],
               LoadInplace(x0, garbage)
        PROVE  SolveInv'
    BY <2>3, LoadInplaceStep
  <2>4. CASE ForwardRow
    BY <2>4, ForwardRowStep
  <2>5. CASE ForwardDone
    BY <2>5, ForwardDoneStep
  <2>6. CASE BackwardRow
    BY <2>6, BackwardRowStep
  <2>7. CASE Return
    BY <2>7, ReturnStep
  <2>8. CASE UNCHANGED vars
    BY <2>8 DEF vars, SolveIInv, SolveInv, XRows, BufRows, MaxDim, Cols, Product, Intermediate,
                URowTimes, UEntry
  <2> QED BY <2>1, <2>2, <2>3, <2>4, <2>5, <2>6, <2>7, <2>8 DEF SolveNext
<1> QED BY <1>1, <1>2 DEF SolveIInv

LEMMA SolveIInvHolds ==
  ASSUME Assumptions
  PROVE  SolveSpec => []SolveIInv
<1>1. SolveInit => SolveIInv
  BY LUInvInit DEF SolveInit, SolveIInv, SolveInv
<1> QED BY <1>1, SolveInvStep, PTL DEF SolveSpec

(* At full column rank the block is determined, and no column has moved. *)
LEMMA InvRecovers ==
  ASSUME Assumptions
  PROVE  SolveIInv => CodecRecovers
<1> SUFFICES ASSUME SolveIInv, phase = "solved", ~passed PROVE X = X0
  BY DEF CodecRecovers
<1>1. LUInv /\ TypeOK /\ pc = "done" /\ i = NCol /\ NCol \in Nat
  BY DEF Assumptions, DimAssumption, SolveIInv, SolveInv, LUInv
<1>2. X0 \in [Cols -> F] /\ X \in [Cols -> F]
  BY DEF SolveIInv, SolveInv, XRows
<1>3. \A c \in Cols : cp[c] = c
  BY <1>1 DEF LUInv, MovedForDeadColumn, DeadColumn, Cols
<1> DEFINE v == [c \in Cols |-> X[c]]
           w == [c \in Cols |-> X0[cp[c]]]
<1>4. \A q \in 0 .. i - 1 : URowTimes(q, v) = URowTimes(q, w)
  BY DEF SolveIInv, SolveInv, Intermediate
<1>5. \A c \in Cols : v[c] = X[c] /\ w[c] = X0[c] /\ v[c] \in F /\ w[c] \in F
  BY <1>2, <1>3
<1>6. \A c \in Cols : v[c] = w[c]
  <2> HIDE DEF v, w
  <2> QED BY <1>1, <1>4, <1>5, UDetermines
<1> HIDE DEF v, w
<1> QED BY <1>2, <1>5, <1>6

(* RqInterExecute gives back the block the symbols were made of, from any  *)
(* set of symbols whose matrix has full column rank: for every matrix,     *)
(* every block and every number of symbols.                                *)
THEOREM CodecRecoversHolds ==
  ASSUME Assumptions
  PROVE  SolveSpec => []CodecRecovers
BY InvRecovers, SolveIInvHolds, PTL

(* LU_invmult_inplace solves every solvable system, of any rank and shape: *)
(* what it returns multiplies to the right-hand side, in the rows without  *)
(* a pivot too.                                                            *)
THEOREM SolvesInplaceHolds ==
  ASSUME Assumptions
  PROVE  SolveSpec => []SolvesInplace
<1>1. SolveIInv => SolvesInplace
  <2> SUFFICES ASSUME SolveIInv, phase = "solved", passed, NEW r \in Rows
               PROVE  Product(X, r) = Product(X0, r)
    BY DEF SolvesInplace
  <2>1. LUInv /\ TypeOK /\ pc = "done" /\ NRow \in Int /\ NCol \in Nat
    BY DEF Assumptions, DimAssumption, SolveIInv, SolveInv, LUInv
  <2>2. X0 \in [Cols -> F] /\ X \in [BufRows -> F]
    BY DEF SolveIInv, SolveInv, XRows
  <2>3. PICK s \in Rows : rp[s] = r
    <3>1. \A t \in Rows : \E s \in Rows : rp[s] = t
      BY <2>1, PermutationOnto DEF TypeOK, Rows
    <3> QED BY <3>1
  <2> DEFINE v == [c \in Cols |-> X[cp[c]]]
             z == [q \in 0 .. i - 1 |-> Intermediate(q)]
  <2>4. \A c \in Cols : v[c] = X[cp[c]] /\ X[c] \in F
    BY <2>1, <2>2 DEF BufRows, MaxDim, Cols
  <2>5. \A q \in 0 .. i - 1 : z[q] = URowTimes(q, v) /\ z[q] = Intermediate(q)
    BY DEF SolveIInv, SolveInv
  <2> HIDE DEF v, z
  <2>6. Product(X, rp[s]) = LRowTimes(s, z)
    BY <2>1, <2>4, <2>5, FactorsTimes
  <2>7. Product(X0, rp[s]) = LRowTimes(s, z)
    BY <2>1, <2>2, <2>5, ProductOfIntermediate
  <2> QED BY <2>3, <2>6, <2>7
<1> QED BY <1>1, SolveIInvHolds, PTL

-----------------------------------------------------------------------------
(* What a caller may build on, from the invariant alone *)

(* The invariant holds when a decomposition starts, whatever X0 is.        *)
LEMMA SolveInvStarts ==
  ASSUME Assumptions
  PROVE  Init /\ phase = "decomp" => SolveIInv
BY LUInvInit DEF SolveIInv, SolveInv

(* L determines a vector. *)
LEMMA LDetermines ==
  ASSUME Assumptions, TypeOK,
         NEW z, NEW t, \A q \in 0 .. i - 1 : z[q] \in F /\ t[q] \in F,
         \A r \in 0 .. i - 1 : LRowTimes(r, z) = LRowTimes(r, t)
  PROVE  \A q \in 0 .. i - 1 : z[q] = t[q]
<1>1. i \in Nat
  BY DEF Assumptions, DimAssumption, TypeOK
<1> DEFINE S == {n \in Nat : \A q \in 0 .. i - 1 : q < n => z[q] = t[q]}
<1>2. 0 \in S
  BY <1>1
<1>3. ASSUME NEW n \in Nat, n \in S PROVE n + 1 \in S
  <2> SUFFICES ASSUME n \in 0 .. i - 1 PROVE z[n] = t[n]
    BY <1>3
  <2> DEFINE f == [q \in 0 .. n - 1 |-> Mul(A[n][q], z[q])]
             g == [q \in 0 .. n - 1 |-> Mul(A[n][q], t[q])]
  <2>1. \A q \in 0 .. n - 1 : f[q] = Mul(A[n][q], z[q]) /\ g[q] = Mul(A[n][q], t[q]) /\ f[q] = g[q]
    BY <1>1, <1>3
  <2> HIDE DEF f, g
  <2>2. Sum(f, n) = Sum(g, n)
    BY <2>1, SumEqual
  <2>3. LRowTimes(n, z) = Add(Sum(f, n), z[n]) /\ Sum(f, n) \in F
    BY <2>1, LRowSplit
  <2>4. LRowTimes(n, t) = Add(Sum(g, n), t[n])
    BY <2>1, LRowSplit
  <2>5. \A a, b, c \in F : Add(a, b) = Add(a, c) => b = c
    BY DEF Assumptions, FieldAssumption, FieldLaws
  <2> QED BY <2>2, <2>3, <2>4, <2>5
<1>4. i \in S
  <2> HIDE DEF S
  <2> QED BY <1>1, <1>2, <1>3, NatSet
<1> QED BY <1>1, <1>4

(* A matrix of full column rank takes different vectors apart.             *)
LEMMA ProductsDetermine ==
  ASSUME Assumptions, LUInv, pc = "done", i = NCol,
         NEW x \in [Cols -> F], NEW y \in [Cols -> F],
         \A r \in Rows : Product(x, r) = Product(y, r)
  PROVE  x = y
<1>1. /\ TypeOK /\ NCol \in Nat /\ Cols = 0 .. NCol - 1
      /\ \A q \in 0 .. i - 1 : q \in Rows /\ rp[q] \in Rows
      /\ \A c \in Cols : cp[c] \in Cols
  BY DEF Assumptions, DimAssumption, LUInv, TypeOK, IsPermutation, Rows, Cols
<1> DEFINE v == [c \in Cols |-> x[cp[c]]]
           w == [c \in Cols |-> y[cp[c]]]
           z == [q \in 0 .. i - 1 |-> URowTimes(q, v)]
           t == [q \in 0 .. i - 1 |-> URowTimes(q, w)]
<1>2. \A c \in Cols : v[c] = x[cp[c]] /\ w[c] = y[cp[c]] /\ v[c] \in F /\ w[c] \in F
  BY <1>1
<1> HIDE DEF v, w
<1>3. \A q \in 0 .. i - 1 : z[q] = URowTimes(q, v) /\ t[q] = URowTimes(q, w)
  OBVIOUS
<1>4. \A q \in 0 .. i - 1 : URowTimes(q, v) \in F /\ URowTimes(q, w) \in F
  BY <1>1, <1>2, URowType
<1> HIDE DEF z, t
<1>5. ASSUME NEW r \in 0 .. i - 1
      PROVE  LRowTimes(r, z) = LRowTimes(r, t)
  <2>1. r \in Rows /\ rp[r] \in Rows
    BY <1>1
  <2>2. Product(x, rp[r]) = LRowTimes(r, z)
    BY <1>2, <1>3, <2>1, FactorsTimes
  <2>3. Product(y, rp[r]) = LRowTimes(r, t)
    BY <1>2, <1>3, <2>1, FactorsTimes
  <2> QED BY <2>1, <2>2, <2>3
<1>6. \A q \in 0 .. i - 1 : z[q] = t[q]
  <2>1. \A q \in 0 .. i - 1 : z[q] \in F /\ t[q] \in F
    BY <1>3, <1>4
  <2>2. \A r \in 0 .. i - 1 : LRowTimes(r, z) = LRowTimes(r, t)
    BY <1>5
  <2> QED BY <1>1, <2>1, <2>2, LDetermines
<1>7. \A c \in Cols : v[c] = w[c]
  BY <1>2, <1>3, <1>6, UDetermines
<1>8. \A d \in Cols : \E c \in Cols : cp[c] = d
  BY <1>1, PermutationOnto DEF TypeOK
<1>9. \A d \in Cols : x[d] = y[d]
  BY <1>2, <1>7, <1>8
<1> QED BY <1>9

(* A square matrix of full rank has a solution for every right-hand side:  *)
(* the products with different vectors are different, and there are as     *)
(* many vectors as right-hand sides.                                       *)
LEMMA SquareSolvable ==
  ASSUME Assumptions, LUInv, pc = "done", i = NCol, NRow = NCol, NEW y \in [Rows -> F]
  PROVE  \E x \in [Cols -> F] : \A r \in Rows : Product(x, r) = y[r]
<1> DEFINE V == [Cols -> F]
           image == [x \in V |-> [r \in Rows |-> Product(x, r)]]
<1>1. TypeOK /\ NCol \in Nat /\ Rows = Cols /\ Cols = 0 .. NCol - 1
  BY DEF Assumptions, DimAssumption, LUInv, Rows, Cols
<1>2. IsFiniteSet(V)
  <2>1. IsFiniteSet(Cols)
    BY <1>1, FS_Interval
  <2> QED BY <2>1, FunctionsFinite DEF Assumptions, FieldLaws
<1>3. image \in [V -> V]
  <2>1. \A x \in V, r \in Rows : Product(x, r) \in F
    BY <1>1, ProductType
  <2> QED BY <1>1, <2>1
<1>4. ASSUME NEW x \in V, NEW w \in V, image[x] = image[w]
      PROVE  x = w
  <2>1. \A r \in Rows : Product(x, r) = Product(w, r)
    <3> SUFFICES ASSUME NEW r \in Rows PROVE Product(x, r) = Product(w, r)
      OBVIOUS
    <3>1. image[x][r] = image[w][r]
      BY <1>4
    <3> QED BY <3>1
  <2> QED BY <2>1, ProductsDetermine
<1>5. \A x \in V, r \in Rows : image[x][r] = Product(x, r)
  OBVIOUS
<1>6. y \in V
  BY <1>1
<1> HIDE DEF V, image
<1>7. image \in Injection(V, V)
  BY <1>3, <1>4 DEF Injection, IsInjective
<1>8. image \in Surjection(V, V)
  BY <1>2, <1>7, FS_Injection
<1>9. PICK x \in V : image[x] = y
  BY <1>6, <1>8 DEF Surjection
<1>10. \A r \in Rows : Product(x, r) = y[r]
  BY <1>5, <1>9
<1> QED BY <1>9, <1>10 DEF V

(* The product is additive. *)
LEMMA ProductAdd ==
  ASSUME Assumptions, TypeOK, NEW x \in [Cols -> F], NEW y \in [Cols -> F], NEW r \in Rows
  PROVE  Product([c \in Cols |-> Add(x[c], y[c])], r) = Add(Product(x, r), Product(y, r))
<1> DEFINE z == [c \in Cols |-> Add(x[c], y[c])]
           f == [c \in Cols |-> Mul(A0[r][c], x[c])]
           g == [c \in Cols |-> Mul(A0[r][c], y[c])]
           h == [c \in Cols |-> Mul(A0[r][c], z[c])]
<1>1. NCol \in Nat /\ Cols = 0 .. NCol - 1
  BY DEF Assumptions, DimAssumption, Cols
<1>2. ASSUME NEW c \in Cols
      PROVE  f[c] \in F /\ g[c] \in F /\ h[c] = Add(f[c], g[c])
  <2>1. A0[r][c] \in F /\ x[c] \in F /\ y[c] \in F
    BY DEF TypeOK, Matrices
  <2>2. Mul(A0[r][c], Add(x[c], y[c])) = Add(Mul(A0[r][c], x[c]), Mul(A0[r][c], y[c]))
    BY <2>1 DEF Assumptions, FieldLaws
  <2>3. Mul(A0[r][c], x[c]) \in F /\ Mul(A0[r][c], y[c]) \in F
    BY <2>1 DEF Assumptions, FieldAssumption
  <2> QED BY <2>2, <2>3
<1>3. Product(z, r) = Sum(h, NCol) /\ Product(x, r) = Sum(f, NCol) /\ Product(y, r) = Sum(g, NCol)
  BY DEF Product
<1> HIDE DEF z, f, g, h
<1>4. Sum(h, NCol) = Add(Sum(f, NCol), Sum(g, NCol))
  BY <1>1, <1>2, SumAdd
<1> QED BY <1>3, <1>4 DEF z

(* Where the row permutation takes a row from. *)
Pos(d) == CHOOSE q \in Rows : rp[q] = d

LEMMA RowPositions ==
  ASSUME Assumptions, LUInv
  PROVE  /\ \A q \in Rows : rp[q] \in Rows /\ Pos(rp[q]) = q
         /\ \A d \in Rows : Pos(d) \in Rows /\ rp[Pos(d)] = d
<1>1. NRow \in Int /\ Rows = 0 .. NRow - 1 /\ IsPermutation(rp, 0 .. NRow - 1)
  BY DEF Assumptions, DimAssumption, LUInv, TypeOK, Rows
<1>2. \A d \in 0 .. NRow - 1 : \E q \in 0 .. NRow - 1 : rp[q] = d
  BY <1>1, PermutationOnto, ZenonT(20)
<1>3. \A d \in Rows : Pos(d) \in Rows /\ rp[Pos(d)] = d
  BY <1>1, <1>2 DEF Pos
<1>4. \A q \in Rows : rp[q] \in Rows /\ \A t \in Rows : rp[q] = rp[t] => q = t
  BY <1>1 DEF IsPermutation
<1> QED BY <1>3, <1>4

(* A rank below the number of columns leaves the solution open: the vector *)
(* U x has fewer entries than x, so two different x have the same, and     *)
(* their difference can be added to any solution.                          *)
LEMMA DeficientUndetermined ==
  ASSUME Assumptions, LUInv, pc = "done", i < NCol, One # Zero, NEW x0 \in [Cols -> F]
  PROVE  \E y \in [Cols -> F] : y # x0 /\ \A r \in Rows : Product(y, r) = Product(x0, r)
<1> DEFINE V == [Cols -> F]
           image == [v \in V |-> [c \in Cols |-> IF c < i THEN URowTimes(c, v) ELSE Zero]]
<1>1. /\ TypeOK /\ NCol \in Nat /\ NRow \in Nat /\ Cols = 0 .. NCol - 1 /\ Rows = 0 .. NRow - 1
      /\ i \in Nat /\ Zero \in F /\ One \in F
      /\ \A c \in Cols : c < i => c \in 0 .. i - 1
  BY DEF Assumptions, DimAssumption, FieldAssumption, LUInv, TypeOK, Rows, Cols
<1>2. IsFiniteSet(V)
  <2>1. IsFiniteSet(Cols)
    BY <1>1, FS_Interval
  <2> QED BY <2>1, FunctionsFinite DEF Assumptions, FieldLaws
<1>3. image \in [V -> V]
  <2>1. ASSUME NEW v \in V, NEW c \in Cols
        PROVE  (IF c < i THEN URowTimes(c, v) ELSE Zero) \in F
    <3>1. \A b \in Cols : v[b] \in F
      OBVIOUS
    <3>2. c < i => URowTimes(c, v) \in F
      BY <1>1, <3>1, URowType
    <3> QED BY <1>1, <3>2
  <2> QED BY <2>1
<1>4. image[[c \in Cols |-> One]] \in V
  BY <1>1, <1>3
<1>5. \A v \in V : image[v][NCol - 1] = Zero
  BY <1>1
<1>6. \A v \in V, c \in Cols : c < i => image[v][c] = URowTimes(c, v)
  OBVIOUS
<1> HIDE DEF image
<1>7. image \notin Surjection(V, V)
  <2> DEFINE ones == [c \in Cols |-> One]
  <2>1. ones \in V /\ ones[NCol - 1] = One
    BY <1>1
  <2> HIDE DEF ones, V
  <2>2. \A v \in V : image[v] # ones
    BY <1>5, <2>1
  <2> QED BY <2>1, <2>2 DEF Surjection
<1>8. image \notin Injection(V, V)
  <2> HIDE DEF V
  <2> QED BY <1>2, <1>7, FS_Injection
<1>9. PICK v \in V, w \in V : v # w /\ image[v] = image[w]
  <2> HIDE DEF V
  <2> QED BY <1>3, <1>8 DEF Injection, IsInjective
<1> DEFINE x == Unpermuted(v)
           y == Unpermuted(w)
           z == [q \in 0 .. i - 1 |-> URowTimes(q, v)]
<1>10. /\ \A c \in Cols : x[cp[c]] = v[c] /\ y[cp[c]] = w[c]
       /\ x \in V /\ y \in V
  <2>1. Cols \subseteq DOMAIN v /\ Cols \subseteq DOMAIN w /\ DOMAIN v = Cols /\ DOMAIN w = Cols
    OBVIOUS
  <2>2. /\ \A c \in Cols : x[cp[c]] = v[c] /\ \E d \in Cols : x[c] = v[d]
        /\ \A c \in Cols : y[cp[c]] = w[c] /\ \E d \in Cols : y[c] = w[d]
    BY <1>1, <2>1, UnpermutedEntry
  <2>3. x = [c \in Cols |-> x[c]] /\ y = [c \in Cols |-> y[c]]
    BY <2>1 DEF Unpermuted
  <2> HIDE DEF x, y
  <2>4. \A c \in Cols : x[c] \in F /\ y[c] \in F
    BY <2>2
  <2> QED BY <2>2, <2>3, <2>4
<1> HIDE DEF x, y
<1>11. \A q \in 0 .. i - 1 : z[q] = URowTimes(q, v) /\ z[q] = URowTimes(q, w)
  <2> SUFFICES ASSUME NEW q \in 0 .. i - 1 PROVE z[q] = URowTimes(q, v) /\ z[q] = URowTimes(q, w)
    OBVIOUS
  <2>1. q \in Cols /\ q < i
    BY <1>1
  <2> QED BY <1>6, <1>9, <2>1
<1> HIDE DEF z
<1>12. ASSUME NEW r \in Rows
       PROVE  Product(x, r) = Product(y, r)
  <2>1. PICK q \in Rows : rp[q] = r
    BY RowPositions
  <2>2. \A c \in Cols : x[c] \in F /\ y[c] \in F
    BY <1>10
  <2>3. Product(x, rp[q]) = LRowTimes(q, z)
    BY <1>10, <1>11, <2>2, FactorsTimes
  <2>4. Product(y, rp[q]) = LRowTimes(q, z)
    BY <1>10, <1>11, <2>2, FactorsTimes
  <2> QED BY <2>1, <2>3, <2>4
<1> DEFINE d == [c \in Cols |-> Add(x[c], y[c])]
           u == [c \in Cols |-> Add(x0[c], d[c])]
<1>13. d \in V /\ u \in V
  <2>1. \A a, b \in F : Add(a, b) \in F
    BY DEF Assumptions, FieldAssumption
  <2> QED BY <1>10, <2>1
<1>14. ASSUME NEW r \in Rows
       PROVE  Product(u, r) = Product(x0, r)
  <2>1. Product(d, r) = Add(Product(x, r), Product(y, r))
    BY <1>1, <1>10, ProductAdd
  <2>2. \A c \in Cols : x[c] \in F /\ x0[c] \in F
    BY <1>10
  <2>3. Product(x, r) \in F /\ Product(x0, r) \in F
    BY <1>1, <2>2, ProductType
  <2>4. Product(d, r) = Zero
    BY <1>12, <2>1, <2>3 DEF Assumptions, FieldLaws
  <2> HIDE DEF d
  <2>5. Product(u, r) = Add(Product(x0, r), Product(d, r))
    BY <1>1, <1>13, ProductAdd
  <2> QED BY <2>3, <2>4, <2>5 DEF Assumptions, FieldAssumption
<1>15. u # x0
  <2>1. PICK c \in Cols : v[c] # w[c]
    BY <1>9
  <2>2. cp[c] \in Cols /\ x[cp[c]] # y[cp[c]]
    BY <1>1, <1>10, <2>1 DEF TypeOK, IsPermutation
  <2>3. PICK b \in Cols : x[b] # y[b]
    BY <2>2
  <2>4. x[b] \in F /\ y[b] \in F /\ x0[b] \in F /\ Add(x[b], y[b]) \in F
    BY <1>10 DEF Assumptions, FieldAssumption
  <2>5. Add(Add(x[b], y[b]), y[b]) = x[b] /\ Add(Zero, y[b]) = y[b]
    BY <2>4, <1>1, FieldCancel DEF Assumptions, FieldAssumption, FieldLaws
  <2>6. Add(x[b], y[b]) # Zero
    BY <2>3, <2>5
  <2>7. Add(x0[b], Add(x0[b], Add(x[b], y[b]))) = Add(x[b], y[b]) /\ Add(x0[b], x0[b]) = Zero
    BY <2>4, FieldCancel DEF Assumptions, FieldLaws
  <2>8. Add(x0[b], Add(x[b], y[b])) # x0[b]
    BY <2>6, <2>7
  <2>9. u[b] = Add(x0[b], Add(x[b], y[b]))
    OBVIOUS
  <2> HIDE DEF u
  <2> QED BY <2>8, <2>9
<1> HIDE DEF u
<1> QED BY <1>13, <1>14, <1>15

-----------------------------------------------------------------------------
(* Multiplying by the factors *)

(* A row of U times a vector; a row without a pivot is zero. *)
UTimes(r, v) == IF r < i THEN URowTimes(r, v) ELSE Zero

LEMMA UTimesType ==
  ASSUME Assumptions, TypeOK, NEW r \in Rows, NEW v, \A c \in Cols : v[c] \in F
  PROVE  UTimes(r, v) \in F
<1>1. i \in Nat /\ r \in Nat /\ Zero \in F
  BY DEF Assumptions, DimAssumption, FieldAssumption, TypeOK, Rows
<1>2. r < i => r \in 0 .. i - 1
  BY <1>1
<1>3. r < i => URowTimes(r, v) \in F
  BY <1>2, URowType
<1> QED BY <1>1, <1>3 DEF UTimes

(* The diagonal and what is right of it make the row, as U_mult_inplace    *)
(* adds it up.                                                             *)
LEMMA URowStored ==
  ASSUME Assumptions, LUInv, pc = "done", NEW r \in Rows, r < NCol,
         NEW v, \A c \in Cols : v[c] \in F,
         NEW w, \A c \in 0 .. NCol - r - 2 : w[c] = Mul(A[r][r + 1 + c], v[r + 1 + c])
  PROVE  /\ UTimes(r, v) = Add(Mul(A[r][r], v[r]), Sum(w, NCol - r - 1))
         /\ Mul(A[r][r], v[r]) \in F /\ Sum(w, NCol - r - 1) \in F
<1>1. /\ TypeOK /\ i \in Nat /\ NCol \in Nat /\ r \in Nat /\ r \in Cols /\ NCol - r - 1 \in Nat
      /\ Zero \in F
  BY DEF Assumptions, DimAssumption, FieldAssumption, LUInv, TypeOK, Rows, Cols
<1>2. \A c \in Cols : A[r][c] \in F
  BY <1>1 DEF TypeOK, Matrices
<1>3. Mul(A[r][r], v[r]) \in F
  BY <1>1, <1>2 DEF Assumptions, FieldAssumption
<1>4. CASE r < i
  <2>1. r \in 0 .. i - 1
    BY <1>1, <1>4
  <2>2. /\ URowTimes(r, v) = Add(Mul(A[r][r], v[r]), Sum(w, NCol - r - 1))
        /\ Sum(w, NCol - r - 1) \in F
    BY <1>1, <2>1, URowSplit
  <2> QED BY <1>3, <1>4, <2>2 DEF UTimes
<1>5. CASE ~(r < i)
  <2>1. \A c \in Cols : c >= r => A[r][c] = Zero
    BY <1>1, <1>5 DEF LUInv, NothingLeft, Cols
  <2>2. ASSUME NEW c \in 0 .. (NCol - r - 1) - 1 PROVE w[c] = Zero
    <3>1. r + 1 + c \in Cols /\ r + 1 + c >= r /\ c \in 0 .. NCol - r - 2
      BY <1>1 DEF Cols
    <3>2. w[c] = Mul(Zero, v[r + 1 + c])
      BY <2>1, <3>1
    <3> QED BY <3>1, <3>2 DEF Assumptions, FieldAssumption
  <2>3. Sum(w, NCol - r - 1) = Zero
    BY <1>1, <2>2, SumZero
  <2>4. Mul(A[r][r], v[r]) = Zero
    <3>1. A[r][r] = Zero
      BY <1>1, <2>1
    <3> QED BY <1>1, <3>1 DEF Assumptions, FieldAssumption
  <2>5. UTimes(r, v) = Zero /\ Add(Zero, Zero) = Zero
    BY <1>1, <1>5 DEF UTimes, Assumptions, FieldAssumption
  <2> QED BY <1>1, <1>3, <2>3, <2>4, <2>5
<1> QED BY <1>4, <1>5

(* The same in one sum, as LU_mult adds it up. *)
LEMMA URowWhole ==
  ASSUME Assumptions, LUInv, pc = "done", NEW r \in Rows, r < NCol,
         NEW v, \A c \in Cols : v[c] \in F,
         NEW w, \A c \in 0 .. NCol - r - 1 : w[c] = Mul(A[r][r + c], v[r + c])
  PROVE  Sum(w, NCol - r) = UTimes(r, v)
<1> DEFINE n == NCol - r - 1
           h == [c \in 0 .. n - 1 |-> w[c + 1]]
<1>1. NCol \in Nat /\ r \in Nat /\ n \in Nat /\ NCol - r = n + 1 /\ 0 \in 0 .. n /\ TypeOK
  BY DEF Assumptions, DimAssumption, LUInv, Rows
<1>2. ASSUME NEW c \in 0 .. n PROVE w[c] \in F
  <2>1. r + c \in Cols /\ c \in 0 .. NCol - r - 1
    BY <1>1 DEF Cols
  <2>2. A[r][r + c] \in F /\ v[r + c] \in F
    BY <1>1, <2>1 DEF TypeOK, Matrices
  <2> QED BY <2>1, <2>2 DEF Assumptions, FieldAssumption
<1>3. \A c \in 0 .. n - 1 : h[c] = IF c < 0 THEN w[c] ELSE w[c + 1]
  BY <1>1
<1>4. w[0] = Mul(A[r][r], v[r])
  <2>1. 0 \in 0 .. NCol - r - 1 /\ r + 0 = r
    BY <1>1
  <2> QED BY <2>1
<1>5. \A c \in 0 .. NCol - r - 2 : h[c] = Mul(A[r][r + 1 + c], v[r + 1 + c])
  <2> SUFFICES ASSUME NEW c \in 0 .. NCol - r - 2
               PROVE  h[c] = Mul(A[r][r + 1 + c], v[r + 1 + c])
    OBVIOUS
  <2>1. c + 1 \in 0 .. NCol - r - 1 /\ r + (c + 1) = r + 1 + c /\ c \in 0 .. n - 1
    BY <1>1
  <2>2. w[c + 1] = Mul(A[r][r + (c + 1)], v[r + (c + 1)])
    BY <2>1
  <2> QED BY <2>1, <2>2
<1> HIDE DEF h
<1>6. UTimes(r, v) = Add(Mul(A[r][r], v[r]), Sum(h, NCol - r - 1))
  BY <1>5, URowStored
<1>7. Sum(w, n + 1) = Add(w[0], Sum(h, n))
  <2> HIDE DEF n
  <2> QED BY <1>1, <1>2, <1>3, SumRemove
<1> QED BY <1>1, <1>4, <1>6, <1>7

(* A row of L, from what is stored left of the diagonal. *)
LEMMA LRowStored ==
  ASSUME Assumptions, LUInv, NEW r \in Rows,
         NEW z, \A q \in 0 .. i - 1 : z[q] \in F,
         NEW y, \A q \in Rows : y[q] = IF q < i THEN z[q] ELSE Zero,
         NEW w, \A q \in 0 .. Min2(r, NCol) - 1 : w[q] = Mul(A[r][q], y[q])
  PROVE  LRowTimes(r, z) = Add(y[r], Sum(w, Min2(r, NCol)))
<1> DEFINE n == Min2(r, NCol)
<1>1. /\ TypeOK /\ i \in Nat /\ i <= NCol /\ NCol \in Nat /\ NRow \in Nat /\ r \in Nat /\ n \in Nat
      /\ Zero \in F /\ n <= r /\ n <= NCol
  BY DEF Assumptions, DimAssumption, FieldAssumption, LUInv, TypeOK, Rows, Min2
<1>2. \A c \in Cols : A[r][c] \in F
  BY <1>1 DEF TypeOK, Matrices
<1>3. CASE r < i
  <2>1. n = r /\ r \in 0 .. i - 1 /\ y[r] = z[r]
    BY <1>1, <1>3 DEF Min2
  <2>2. \A q \in 0 .. r - 1 : w[q] = Mul(A[r][q], z[q])
    <3> SUFFICES ASSUME NEW q \in 0 .. r - 1 PROVE w[q] = Mul(A[r][q], z[q])
      OBVIOUS
    <3>1. q \in Rows /\ q < i /\ q \in 0 .. n - 1
      BY <1>1, <1>3, <2>1 DEF Rows
    <3> QED BY <3>1
  <2>3. LRowTimes(r, z) = Add(Sum(w, r), z[r]) /\ Sum(w, r) \in F
    BY <1>1, <2>1, <2>2, LRowSplit
  <2>4. z[r] \in F
    BY <2>1
  <2> QED BY <2>1, <2>3, <2>4 DEF Assumptions, FieldLaws
<1>4. CASE ~(r < i)
  <2> DEFINE f == [q \in 0 .. i - 1 |-> Mul(LEntry(r, q), z[q])]
             d == n - i
             g == [q \in 0 .. d - 1 |-> w[i + q]]
  <2>1. d \in Nat /\ i + d = n
    BY <1>1, <1>4 DEF Min2
  <2>2. ASSUME NEW q \in 0 .. n - 1
        PROVE  /\ q < i => w[q] = Mul(A[r][q], z[q]) /\ w[q] \in F
               /\ q >= i => w[q] = Zero
    <3>1. q \in Rows /\ q \in Cols /\ w[q] = Mul(A[r][q], y[q])
      BY <1>1 DEF Rows, Cols
    <3>2. A[r][q] \in F
      BY <1>2, <3>1
    <3>3. CASE q < i
      <4>1. q \in 0 .. i - 1
        BY <1>1, <3>3
      <4>2. w[q] = Mul(A[r][q], z[q]) /\ z[q] \in F
        BY <3>1, <3>3, <4>1
      <4> QED BY <1>1, <3>2, <3>3, <4>2 DEF Assumptions, FieldAssumption
    <3>4. CASE ~(q < i)
      <4>1. w[q] = Mul(A[r][q], Zero)
        BY <3>1, <3>4
      <4> QED BY <1>1, <3>2, <3>4, <4>1 DEF Assumptions, FieldAssumption
    <3> QED BY <3>3, <3>4
  <2>3. ASSUME NEW q \in 0 .. i - 1 PROVE f[q] = w[q] /\ w[q] \in F
    <3>1. q \in 0 .. n - 1 /\ q < i /\ q < r
      BY <1>1, <1>4, <2>1
    <3>2. f[q] = Mul(A[r][q], z[q])
      BY <3>1 DEF LEntry
    <3> QED BY <2>2, <3>1, <3>2
  <2>4. ASSUME NEW q \in 0 .. d - 1 PROVE g[q] = w[i + q] /\ g[q] = Zero
    <3>1. i + q \in 0 .. n - 1 /\ i + q >= i
      BY <1>1, <2>1
    <3> QED BY <2>2, <3>1
  <2>5. \A q \in 0 .. i + d - 1 : w[q] \in F
    BY <1>1, <2>1, <2>2
  <2>6. LRowTimes(r, z) = Sum(f, i)
    BY DEF LRowTimes
  <2> HIDE DEF f, g, d, n
  <2>7. Sum(f, i) = Sum(w, i) /\ Sum(w, i) \in F
    BY <1>1, <2>3, SumEqual, SumType
  <2>8. Sum(g, d) = Zero
    BY <2>1, <2>4, SumZero
  <2>9. Follows(g, w, i, d)
    BY <2>4, <2>5 DEF Follows
  <2>10. Sum(w, i + d) = Add(Sum(w, i), Sum(g, d))
    BY <1>1, <2>1, <2>9, SumSplit
  <2>11. y[r] = Zero
    BY <1>4
  <2>12. Sum(w, n) = Sum(w, i)
    BY <2>1, <2>7, <2>8, <2>10 DEF Assumptions, FieldAssumption
  <2>13. Add(Zero, Sum(w, n)) = Sum(w, n)
    BY <1>1, <2>7, <2>12 DEF Assumptions, FieldAssumption, FieldLaws
  <2> QED BY <2>6, <2>7, <2>11, <2>12, <2>13 DEF n
<1> QED BY <1>3, <1>4

(* LU_mult leaves in row rp[r] of its output what it adds up for row r.    *)
LEMMA MultRow ==
  ASSUME Assumptions, LUInv, NEW x, NEW r \in Rows,
         NEW y, \A q \in Rows : y[q] = Weighted(x, q, q, IF q < NCol THEN NCol ELSE q, cp),
         NEW w, \A q \in 0 .. Min2(r, NCol) - 1 : w[q] = Mul(A[r][q], y[q])
  PROVE  LU_mult(x)[rp[r]] = Add(y[r], Sum(w, Min2(r, NCol)))
<1> DEFINE W(q) == Weighted(x, q, q, IF q < NCol THEN NCol ELSE q, cp)
           Low(m, q) == Weighted(m, q, 0, Min2(q, NCol), rp)
           none == [q \in Rows |-> Zero]
           Ru(m, q) == [m EXCEPT ![rp[q]] = W(q)]
           Rl(m, q) == [m EXCEPT ![rp[q]] = Add(@, Low(m, q))]
           IsA(s) == s = [q \in 0 .. NRow |-> IF q = 0 THEN none ELSE Ru(s[q - 1], q - 1)]
           a == CHOOSE s : IsA(s)
           IsB(s, last) == s = [q \in 0 .. NRow |-> IF q = NRow THEN last ELSE Rl(s[q + 1], q)]
           b == CHOOSE s : IsB(s, a[NRow])
           f == [j \in 0 .. NRow |-> [d \in Rows |-> IF Pos(d) < j THEN W(Pos(d)) ELSE Zero]]
           u == f[NRow]
           g == [j \in 0 .. NRow |->
                   [d \in Rows |-> IF Pos(d) >= j THEN Add(u[d], Low(u, Pos(d))) ELSE u[d]]]
<1>1. LU_mult(x) = b[0]
  BY DEF LU_mult, Ascending, Descending
<1>2. /\ NRow \in Nat /\ NCol \in Nat /\ Rows = 0 .. NRow - 1 /\ 0 \in 0 .. NRow /\ NRow \in 0 .. NRow
      /\ \A q \in Rows : rp[q] \in Rows /\ Pos(rp[q]) = q
      /\ \A d \in Rows : Pos(d) \in Rows /\ rp[Pos(d)] = d
  <2>1. NRow \in Nat /\ NCol \in Nat /\ Rows = 0 .. NRow - 1
    BY DEF Assumptions, DimAssumption, Rows
  <2> QED BY <2>1, RowPositions
<1> HIDE DEF W
<1>3. f[0] = none
  <2>1. \A d \in Rows : ~(Pos(d) < 0)
    BY <1>2
  <2> QED BY <1>2, <2>1
<1>4. ASSUME NEW j \in 0 .. NRow - 1
      PROVE  f[j + 1] = Ru(f[j], j)
  <2>1. j \in 0 .. NRow /\ j + 1 \in 0 .. NRow /\ j \in Rows
    BY <1>2
  <2>2. ASSUME NEW d \in Rows
        PROVE  (IF Pos(d) < j + 1 THEN W(Pos(d)) ELSE Zero) =
               IF d = rp[j] THEN W(j) ELSE IF Pos(d) < j THEN W(Pos(d)) ELSE Zero
    <3>1. Pos(d) \in Int /\ j \in Int /\ (d = rp[j] <=> Pos(d) = j)
      BY <1>2, <2>1
    <3> QED BY <3>1
  <2> QED BY <2>1, <2>2
<1> HIDE DEF f, none
<1>5. IsA(f)
  <2>1. f = [q \in 0 .. NRow |-> f[q]]
    BY DEF f
  <2>2. \A q \in 0 .. NRow : f[q] = IF q = 0 THEN none ELSE Ru(f[q - 1], q - 1)
    <3> SUFFICES ASSUME NEW q \in 0 .. NRow, q # 0 PROVE f[q] = Ru(f[q - 1], q - 1)
      BY <1>3
    <3> HIDE DEF Ru
    <3>1. q - 1 \in 0 .. NRow - 1 /\ (q - 1) + 1 = q
      BY <1>2
    <3> QED BY <1>4, <3>1
  <2> HIDE DEF Ru
  <2> QED BY <2>1, <2>2
<1> HIDE DEF Ru
<1>6. a[NRow] = u
  <2>1. IsA(a)
    BY <1>5
  <2> HIDE DEF a
  <2>2. AlikeUp(a, f, NRow)
    <3>1. a[0] = none
      BY <1>2, <2>1
    <3>2. ASSUME NEW j \in 0 .. NRow - 1, a[j] = f[j] PROVE a[j + 1] = f[j + 1]
      <4>1. j + 1 \in 0 .. NRow /\ j + 1 # 0 /\ (j + 1) - 1 = j
        BY <1>2
      <4>2. a[j + 1] = Ru(a[j], j)
        BY <2>1, <4>1
      <4> QED BY <1>4, <3>2, <4>2
    <3> QED BY <1>3, <3>1, <3>2 DEF AlikeUp
  <2> QED BY <1>2, <2>2, UpEnds
<1>7. \A d \in Rows : u[d] = W(Pos(d))
  BY <1>2 DEF f
<1>8. u = [d \in Rows |-> u[d]]
  BY <1>2 DEF f
<1> HIDE DEF IsA, a, u
<1>9. g[NRow] = u
  <2>1. \A d \in Rows : ~(Pos(d) >= NRow)
    BY <1>2
  <2> QED BY <1>2, <1>8, <2>1
<1>10. ASSUME NEW j \in 0 .. NRow - 1
       PROVE  g[j] = Rl(g[j + 1], j)
  <2>1. j \in 0 .. NRow /\ j + 1 \in 0 .. NRow /\ j \in Rows
    BY <1>2
  <2>2. Low(g[j + 1], j) = Low(u, j)
    <3> DEFINE n == Min2(j, NCol) - 0
               l == [c \in 0 .. n - 1 |-> Mul(A[j][0 + c], g[j + 1][rp[0 + c]])]
               h == [c \in 0 .. n - 1 |-> Mul(A[j][0 + c], u[rp[0 + c]])]
    <3>1. n \in Nat /\ n <= j
      BY <1>2, <2>1 DEF Min2
    <3>2. Low(g[j + 1], j) = Sum(l, n) /\ Low(u, j) = Sum(h, n)
      BY DEF Weighted
    <3> HIDE DEF n
    <3>3. ASSUME NEW c \in 0 .. n - 1 PROVE g[j + 1][rp[0 + c]] = u[rp[0 + c]]
      <4>1. 0 + c \in Rows /\ ~(0 + c >= j + 1)
        BY <1>2, <2>1, <3>1
      <4>2. rp[0 + c] \in Rows /\ Pos(rp[0 + c]) = 0 + c
        BY <1>2, <4>1
      <4> QED BY <2>1, <4>1, <4>2
    <3>4. \A c \in 0 .. n - 1 : l[c] = h[c]
      BY <3>3
    <3> HIDE DEF l, h, Low, g
    <3> QED BY <3>1, <3>2, <3>4, SumEqual
  <2> HIDE DEF Low
  <2>3. ASSUME NEW d \in Rows
        PROVE  (IF Pos(d) >= j THEN Add(u[d], Low(u, Pos(d))) ELSE u[d]) =
               IF d = rp[j] THEN Add(u[d], Low(u, j))
               ELSE IF Pos(d) >= j + 1 THEN Add(u[d], Low(u, Pos(d))) ELSE u[d]
    <3>1. Pos(d) \in Int /\ j \in Int /\ (d = rp[j] <=> Pos(d) = j)
      BY <1>2, <2>1
    <3> QED BY <3>1
  <2>4. rp[j] \in Rows /\ ~(Pos(rp[j]) >= j + 1)
    BY <1>2, <2>1
  <2>5. g[j + 1][rp[j]] = u[rp[j]]
    BY <2>1, <2>4
  <2>6. Rl(g[j + 1], j) = [g[j + 1] EXCEPT ![rp[j]] = Add(u[rp[j]], Low(u, j))]
    BY <2>2, <2>5
  <2>7. \A d \in Rows : g[j][d] = IF d = rp[j] THEN Add(u[d], Low(u, j)) ELSE g[j + 1][d]
    BY <2>1, <2>3
  <2>8. g[j] = [d \in Rows |-> g[j][d]] /\ g[j + 1] = [d \in Rows |-> g[j + 1][d]]
    BY <2>1
  <2> HIDE DEF Rl, g
  <2> QED BY <2>4, <2>6, <2>7, <2>8
<1> HIDE DEF Rl, g
<1>11. IsB(g, a[NRow])
  <2>1. g = [q \in 0 .. NRow |-> g[q]]
    BY DEF g
  <2>2. \A q \in 0 .. NRow : g[q] = IF q = NRow THEN a[NRow] ELSE Rl(g[q + 1], q)
    <3> SUFFICES ASSUME NEW q \in 0 .. NRow, q # NRow PROVE g[q] = Rl(g[q + 1], q)
      BY <1>6, <1>9
    <3>1. q \in 0 .. NRow - 1
      BY <1>2
    <3> QED BY <1>10, <3>1
  <2> QED BY <2>1, <2>2
<1>12. b[0] = g[0]
  <2>1. IsB(b, a[NRow])
    BY <1>11
  <2> HIDE DEF b
  <2>2. AlikeDown(b, g, NRow)
    <3>1. b[NRow] = a[NRow]
      BY <1>2, <2>1
    <3>2. ASSUME NEW j \in 0 .. NRow - 1, b[j + 1] = g[j + 1] PROVE b[j] = g[j]
      <4>1. j \in 0 .. NRow /\ j # NRow
        BY <1>2
      <4>2. b[j] = Rl(b[j + 1], j)
        BY <2>1, <4>1
      <4> QED BY <1>10, <3>2, <4>2
    <3> QED BY <1>6, <1>9, <3>1, <3>2 DEF AlikeDown
  <2> QED BY <1>2, <2>2, DownEnds
<1>13. g[0][rp[r]] = Add(u[rp[r]], Low(u, r))
  <2>1. rp[r] \in Rows /\ Pos(rp[r]) = r /\ r >= 0
    BY <1>2
  <2> HIDE DEF Low
  <2> QED BY <1>2, <2>1 DEF g
<1>14. \A q \in Rows : u[rp[q]] = y[q]
  BY <1>2, <1>7 DEF W
<1>15. Low(u, r) = Sum(w, Min2(r, NCol))
  <2> DEFINE h == [c \in 0 .. Min2(r, NCol) - 0 - 1 |-> Mul(A[r][0 + c], u[rp[0 + c]])]
  <2>1. Min2(r, NCol) - 0 \in Nat /\ Min2(r, NCol) - 0 = Min2(r, NCol) /\ Min2(r, NCol) <= r
    BY <1>2 DEF Min2
  <2>2. \A c \in 0 .. Min2(r, NCol) - 1 : h[c] = w[c]
    <3> SUFFICES ASSUME NEW c \in 0 .. Min2(r, NCol) - 1 PROVE h[c] = w[c]
      OBVIOUS
    <3>1. 0 + c = c /\ c \in Rows /\ c \in 0 .. Min2(r, NCol) - 0 - 1
      BY <1>2, <2>1
    <3>2. h[c] = Mul(A[r][0 + c], u[rp[0 + c]])
      BY <3>1
    <3> QED BY <1>14, <3>1, <3>2
  <2>3. Low(u, r) = Sum(h, Min2(r, NCol) - 0)
    BY DEF Weighted
  <2> HIDE DEF h, Low
  <2> QED BY <2>1, <2>2, <2>3, SumEqual
<1> HIDE DEF Low
<1> QED BY <1>1, <1>12, <1>13, <1>14, <1>15

(* LU_mult_inplace leaves the same in the buffer, whatever it held beyond  *)
(* X: the rows below the square part are not read.                         *)
LEMMA InplaceRow ==
  ASSUME Assumptions, LUInv, NEW v, NEW buf, \A c \in Cols : buf[cp[c]] = v[c], NEW r \in Rows,
         NEW y, \A q \in Rows : y[q] = IF q < NCol
                                      THEN Add(Mul(A[q][q], v[q]), Weighted(v, q, q + 1, NCol, Here))
                                      ELSE Zero,
         NEW w, \A q \in 0 .. Min2(r, NCol) - 1 : w[q] = Mul(A[r][q], y[q])
  PROVE  LU_mult_inplace(buf)[rp[r]] = Add(y[r], Sum(w, Min2(r, NCol)))
<1> DEFINE x == [d \in BufRows |-> IF d \in Cols THEN buf[cp[d]] ELSE buf[d]]
           n == Min2(NCol, NRow)
           IsA(s) == s = [q \in 0 .. n |-> IF q = 0 THEN x ELSE URow(s[q - 1], q - 1)]
           a == CHOOSE s : IsA(s)
           IsB(s, last) == s = [q \in 0 .. NRow |-> IF q = NRow THEN last ELSE LRow(s[q + 1], q)]
           b == CHOOSE s : IsB(s, a[n])
           f == [j \in 0 .. n |-> [d \in BufRows |-> IF d < j THEN y[d] ELSE x[d]]]
           u == f[n]
           Low(m, q) == Weighted(m, q, 0, Min2(q, NCol), Here)
           Start(d) == IF d >= NCol THEN Zero ELSE u[d]
           g == [j \in 0 .. NRow |->
                   [d \in BufRows |-> IF d >= j /\ d < NRow THEN Add(Start(d), Low(u, d)) ELSE u[d]]]
<1>1. /\ NRow \in Nat /\ NCol \in Nat /\ Rows = 0 .. NRow - 1 /\ Cols = 0 .. NCol - 1
      /\ 0 \in 0 .. NRow /\ NRow \in 0 .. NRow
      /\ n \in Nat /\ n <= NCol /\ n <= NRow /\ 0 \in 0 .. n /\ n \in 0 .. n
      /\ Rows \subseteq BufRows /\ Cols \subseteq BufRows /\ BufRows \subseteq Nat
      /\ \A d \in Rows : d < NCol <=> d < n
  BY DEF Assumptions, DimAssumption, Rows, Cols, BufRows, MaxDim, Min2
<1>2. LU_mult_inplace(buf)[rp[r]] = b[0][r]
  <2>1. rp[r] \in Rows /\ rp[r] \in BufRows /\ Pos(rp[r]) = r
    BY <1>1, RowPositions
  <2>2. LU_mult_inplace(buf) = [d \in BufRows |-> IF d \in Rows THEN b[0][Pos(d)] ELSE b[0][d]]
    BY DEF LU_mult_inplace, L_mult_inplace, U_mult_inplace, Ascending, Descending, Pos
  <2> HIDE DEF b
  <2> QED BY <2>1, <2>2
<1>3. \A d \in BufRows : x[d] = IF d \in Cols THEN v[d] ELSE x[d]
  OBVIOUS
<1>4. x = [d \in BufRows |-> x[d]]
  OBVIOUS
<1> HIDE DEF x, n
<1>5. f[0] = x
  <2>1. \A d \in BufRows : ~(d < 0)
    BY <1>1
  <2> QED BY <1>1, <1>4, <2>1
<1>6. ASSUME NEW j \in 0 .. n - 1
      PROVE  f[j + 1] = URow(f[j], j)
  <2>1. j \in 0 .. n /\ j + 1 \in 0 .. n /\ j \in Rows /\ j \in Cols /\ j \in BufRows /\ j < NCol
    BY <1>1
  <2>2. Weighted(f[j], j, j + 1, NCol, Here) = Weighted(v, j, j + 1, NCol, Here)
    <3> DEFINE o == NCol - (j + 1)
               l == [c \in 0 .. o - 1 |-> Mul(A[j][(j + 1) + c], f[j][Here[(j + 1) + c]])]
               h == [c \in 0 .. o - 1 |-> Mul(A[j][(j + 1) + c], v[Here[(j + 1) + c]])]
    <3>1. Weighted(f[j], j, j + 1, NCol, Here) = Sum(l, o) /\ Weighted(v, j, j + 1, NCol, Here) = Sum(h, o)
      BY DEF Weighted
    <3>2. o \in Nat
      BY <1>1, <2>1
    <3>3. ASSUME NEW c \in 0 .. o - 1 PROVE f[j][Here[(j + 1) + c]] = v[Here[(j + 1) + c]]
      <4>1. (j + 1) + c \in Cols /\ ~((j + 1) + c < j)
        BY <1>1, <2>1
      <4>2. Here[(j + 1) + c] = (j + 1) + c /\ (j + 1) + c \in BufRows
        BY <1>1, <4>1 DEF Here
      <4> QED BY <1>3, <2>1, <4>1, <4>2
    <3>4. \A c \in 0 .. o - 1 : l[c] = h[c]
      BY <3>3
    <3> HIDE DEF o, l, h, f
    <3> QED BY <3>1, <3>2, <3>4, SumEqual
  <2>3. f[j][j] = v[j]
    BY <1>1, <1>3, <2>1
  <2>4. URow(f[j], j) = [f[j] EXCEPT ![j] = y[j]]
    <3>1. y[j] = Add(Mul(A[j][j], v[j]), Weighted(v, j, j + 1, NCol, Here))
      BY <2>1
    <3> HIDE DEF f
    <3> QED BY <2>2, <2>3, <3>1 DEF URow
  <2>5. \A d \in BufRows : f[j + 1][d] = IF d = j THEN y[j] ELSE f[j][d]
    <3> SUFFICES ASSUME NEW d \in BufRows PROVE f[j + 1][d] = IF d = j THEN y[j] ELSE f[j][d]
      OBVIOUS
    <3>1. d \in Nat /\ j \in Nat
      BY <1>1, <2>1
    <3>2. f[j + 1][d] = (IF d < j + 1 THEN y[d] ELSE x[d]) /\ f[j][d] = IF d < j THEN y[d] ELSE x[d]
      BY <2>1
    <3> HIDE DEF f
    <3> QED BY <3>1, <3>2
  <2>6. f[j] = [d \in BufRows |-> f[j][d]] /\ f[j + 1] = [d \in BufRows |-> f[j + 1][d]]
    BY <2>1
  <2> HIDE DEF f
  <2> QED BY <2>1, <2>4, <2>5, <2>6
<1>7. \A d \in Rows : d < NCol => u[d] = y[d]
  BY <1>1
<1>8. u = [d \in BufRows |-> u[d]]
  BY <1>1
<1>9. f = [q \in 0 .. n |-> f[q]]
  OBVIOUS
<1> HIDE DEF f
<1>10. IsA(f)
  <2>1. \A q \in 0 .. n : f[q] = IF q = 0 THEN x ELSE URow(f[q - 1], q - 1)
    <3> SUFFICES ASSUME NEW q \in 0 .. n, q # 0 PROVE f[q] = URow(f[q - 1], q - 1)
      BY <1>5
    <3>1. q - 1 \in 0 .. n - 1 /\ (q - 1) + 1 = q
      BY <1>1
    <3> QED BY <1>6, <3>1
  <2> QED BY <1>9, <2>1
<1>11. a[n] = u
  <2>1. IsA(a)
    BY <1>10
  <2> HIDE DEF a
  <2>2. AlikeUp(a, f, n)
    <3>1. a[0] = x
      BY <1>1, <2>1
    <3>2. ASSUME NEW j \in 0 .. n - 1, a[j] = f[j] PROVE a[j + 1] = f[j + 1]
      <4>1. j + 1 \in 0 .. n /\ j + 1 # 0 /\ (j + 1) - 1 = j
        BY <1>1
      <4>2. a[j + 1] = URow(a[j], j)
        BY <2>1, <4>1
      <4> QED BY <1>6, <3>2, <4>2
    <3> QED BY <1>5, <3>1, <3>2 DEF AlikeUp
  <2> QED BY <1>1, <2>2, UpEnds
<1> HIDE DEF IsA, a, u
<1>12. g[NRow] = u
  <2>1. \A d \in BufRows : ~(d >= NRow /\ d < NRow)
    BY <1>1
  <2> QED BY <1>1, <1>8, <2>1
<1>13. ASSUME NEW j \in 0 .. NRow - 1
       PROVE  g[j] = LRow(g[j + 1], j)
  <2>1. j \in 0 .. NRow /\ j + 1 \in 0 .. NRow /\ j \in Rows /\ j \in BufRows
    BY <1>1
  <2>2. \A d \in BufRows : /\ g[j + 1][d] = IF d >= j + 1 /\ d < NRow THEN Add(Start(d), Low(u, d)) ELSE u[d]
                           /\ g[j][d] = IF d >= j /\ d < NRow THEN Add(Start(d), Low(u, d)) ELSE u[d]
    BY <2>1
  <2>3. g[j] = [d \in BufRows |-> g[j][d]] /\ g[j + 1] = [d \in BufRows |-> g[j + 1][d]]
    BY <2>1
  <2> HIDE DEF g
  <2>4. Low(g[j + 1], j) = Low(u, j)
    <3> DEFINE o == Min2(j, NCol) - 0
               l == [c \in 0 .. o - 1 |-> Mul(A[j][0 + c], g[j + 1][Here[0 + c]])]
               h == [c \in 0 .. o - 1 |-> Mul(A[j][0 + c], u[Here[0 + c]])]
    <3>1. o \in Nat /\ o <= j /\ o <= NCol
      BY <1>1, <2>1 DEF Min2
    <3>2. Low(g[j + 1], j) = Sum(l, o) /\ Low(u, j) = Sum(h, o)
      BY DEF Weighted
    <3> HIDE DEF o
    <3>3. ASSUME NEW c \in 0 .. o - 1 PROVE g[j + 1][Here[0 + c]] = u[Here[0 + c]]
      <4>1. 0 + c \in Cols /\ ~(0 + c >= j + 1)
        BY <1>1, <2>1, <3>1
      <4>2. Here[0 + c] = 0 + c /\ 0 + c \in BufRows
        BY <1>1, <4>1 DEF Here
      <4> QED BY <2>2, <4>1, <4>2
    <3>4. \A c \in 0 .. o - 1 : l[c] = h[c]
      BY <3>3
    <3> HIDE DEF l, h, Low
    <3> QED BY <3>1, <3>2, <3>4, SumEqual
  <2>5. g[j + 1][j] = u[j]
    <3>1. ~(j >= j + 1)
      BY <1>1, <2>1
    <3> QED BY <2>1, <2>2, <3>1
  <2>6. LRow(g[j + 1], j) = [g[j + 1] EXCEPT ![j] = Add(Start(j), Low(u, j))]
    BY <2>4, <2>5 DEF LRow
  <2> HIDE DEF Start, Low
  <2>7. \A d \in BufRows : g[j][d] = IF d = j THEN Add(Start(j), Low(u, j)) ELSE g[j + 1][d]
    <3> SUFFICES ASSUME NEW d \in BufRows
                 PROVE  g[j][d] = IF d = j THEN Add(Start(j), Low(u, j)) ELSE g[j + 1][d]
      OBVIOUS
    <3>1. d \in Nat /\ j \in Nat /\ NRow \in Nat /\ j < NRow
      BY <1>1, <2>1
    <3> QED BY <2>2, <3>1
  <2> QED BY <2>1, <2>3, <2>6, <2>7
<1>14. g[0][r] = Add(Start(r), Low(u, r))
  <2>1. r \in BufRows /\ r >= 0 /\ r < NRow
    BY <1>1
  <2> HIDE DEF Low, Start
  <2> QED BY <1>1, <2>1
<1>15. g = [q \in 0 .. NRow |-> g[q]]
  OBVIOUS
<1> HIDE DEF g
<1>16. IsB(g, a[n])
  <2>1. \A q \in 0 .. NRow : g[q] = IF q = NRow THEN a[n] ELSE LRow(g[q + 1], q)
    <3> SUFFICES ASSUME NEW q \in 0 .. NRow, q # NRow PROVE g[q] = LRow(g[q + 1], q)
      BY <1>11, <1>12
    <3>1. q \in 0 .. NRow - 1
      BY <1>1
    <3> QED BY <1>13, <3>1
  <2> QED BY <1>15, <2>1
<1>17. b[0] = g[0]
  <2>1. IsB(b, a[n])
    BY <1>16
  <2> HIDE DEF b
  <2>2. AlikeDown(b, g, NRow)
    <3>1. b[NRow] = a[n]
      BY <1>1, <2>1
    <3>2. ASSUME NEW j \in 0 .. NRow - 1, b[j + 1] = g[j + 1] PROVE b[j] = g[j]
      <4>1. j \in 0 .. NRow /\ j # NRow
        BY <1>1
      <4>2. b[j] = LRow(b[j + 1], j)
        BY <2>1, <4>1
      <4> QED BY <1>13, <3>2, <4>2
    <3> QED BY <1>11, <1>12, <3>1, <3>2 DEF AlikeDown
  <2> QED BY <1>1, <2>2, DownEnds
<1>18. Start(r) = y[r]
  <2>1. r \in Nat
    BY <1>1
  <2> QED BY <1>1, <1>7, <2>1
<1>19. Low(u, r) = Sum(w, Min2(r, NCol))
  <2> DEFINE o == Min2(r, NCol) - 0
             h == [c \in 0 .. o - 1 |-> Mul(A[r][0 + c], u[Here[0 + c]])]
  <2>1. o \in Nat /\ o = Min2(r, NCol) /\ o <= r /\ o <= NCol
    BY <1>1 DEF Min2
  <2>2. Low(u, r) = Sum(h, o)
    BY DEF Weighted
  <2> HIDE DEF o
  <2>3. \A c \in 0 .. o - 1 : h[c] = w[c]
    <3> SUFFICES ASSUME NEW c \in 0 .. o - 1 PROVE h[c] = w[c]
      OBVIOUS
    <3>1. 0 + c = c /\ c \in Rows /\ c \in Cols /\ c < NCol /\ c \in 0 .. Min2(r, NCol) - 1
      BY <1>1, <2>1
    <3>2. h[c] = Mul(A[r][0 + c], u[Here[0 + c]])
      BY <3>1
    <3>3. Here[c] = c
      BY <3>1 DEF Here
    <3> QED BY <1>7, <3>1, <3>2, <3>3
  <2> HIDE DEF h, Low
  <2> QED BY <2>1, <2>2, <2>3, SumEqual
<1> HIDE DEF Low, Start
<1> QED BY <1>2, <1>14, <1>17, <1>18, <1>19

LEMMA ColPositions ==
  ASSUME Assumptions, LUInv
  PROVE  \E p \in [Cols -> Cols] : /\ \A c \in Cols : p[cp[c]] = c
                                   /\ \A d \in Cols : cp[p[d]] = d
<1>1. NCol \in Int /\ Cols = 0 .. NCol - 1 /\ IsPermutation(cp, 0 .. NCol - 1)
  BY DEF Assumptions, DimAssumption, LUInv, TypeOK, Cols
<1>2. \A d \in 0 .. NCol - 1 : \E c \in 0 .. NCol - 1 : cp[c] = d
  BY <1>1, PermutationOnto, ZenonT(20)
<1> DEFINE p == [d \in Cols |-> CHOOSE c \in Cols : cp[c] = d]
<1>3. \A d \in Cols : p[d] \in Cols /\ cp[p[d]] = d
  BY <1>1, <1>2
<1>4. \A c \in Cols : cp[c] \in Cols /\ \A d \in Cols : cp[c] = cp[d] => c = d
  BY <1>1 DEF IsPermutation
<1>5. p \in [Cols -> Cols]
  BY <1>3
<1> HIDE DEF p
<1>6. \A c \in Cols : p[cp[c]] = c
  BY <1>3, <1>4
<1> QED BY <1>3, <1>5, <1>6

(* LU_invmult turns y = L z into x with U x = z, and x is zero where no    *)
(* column has a pivot, whatever the output held.                           *)
LEMMA InvmultSolves ==
  ASSUME Assumptions, LUInv, NEW y, NEW out, NEW z, \A q \in 0 .. i - 1 : z[q] \in F,
         \A q \in 0 .. i - 1 : y[rp[q]] = LRowTimes(q, z)
  PROVE  LET x == LU_invmult(y, out)
         IN  /\ x \in [Cols -> F]
             /\ \A q \in 0 .. i - 1 : URowTimes(q, [c \in Cols |-> x[cp[c]]]) = z[q]
             /\ \A q \in i .. NCol - 1 : x[cp[q]] = Zero
<1> DEFINE clear == [c \in Cols |-> IF \E q \in i .. NCol - 1 : cp[q] = c THEN Zero ELSE out[c]]
           Rl(m, r) == [m EXCEPT ![cp[r]] = Add(y[rp[r]], Weighted(m, r, 0, r, cp))]
           Ru(m, r) == [m EXCEPT ![cp[r]] =
                          Mul(Add(@, Weighted(m, r, r + 1, NCol, cp)), Inv(A[r][r]))]
           IsA(s) == s = [q \in 0 .. i |-> IF q = 0 THEN clear ELSE Rl(s[q - 1], q - 1)]
           a == CHOOSE s : IsA(s)
           IsB(s, last) == s = [q \in 0 .. i |-> IF q = i THEN last ELSE Ru(s[q + 1], q)]
           b == CHOOSE s : IsB(s, a[i])
<1>1. LU_invmult(y, out) = b[0]
  BY DEF LU_invmult, Ascending, Descending
<1>2. /\ TypeOK /\ i \in Nat /\ i <= NCol /\ NCol \in Nat /\ Cols = 0 .. NCol - 1 /\ Zero \in F
      /\ 0 \in 0 .. i /\ i \in 0 .. i
      /\ \A q \in 0 .. i - 1 : q \in Cols /\ q \in Rows
  BY DEF Assumptions, DimAssumption, FieldAssumption, LUInv, TypeOK, Cols, Rows
<1>3. PICK p \in [Cols -> Cols] : /\ \A c \in Cols : p[cp[c]] = c
                                  /\ \A d \in Cols : cp[p[d]] = d
  BY ColPositions
<1>4. \A c \in Cols : cp[c] \in Cols
  BY <1>2 DEF TypeOK, IsPermutation
<1> DEFINE f == [j \in 0 .. i |-> [d \in Cols |-> IF p[d] < j THEN z[p[d]] ELSE clear[d]]]
           u == f[i]
<1>5. \A d \in Cols : p[d] >= i => clear[d] = Zero
  <2> SUFFICES ASSUME NEW d \in Cols, p[d] >= i PROVE clear[d] = Zero
    OBVIOUS
  <2>1. p[d] \in i .. NCol - 1 /\ cp[p[d]] = d
    BY <1>2, <1>3
  <2> QED BY <2>1
<1>6. clear = [d \in Cols |-> clear[d]]
  OBVIOUS
<1> HIDE DEF clear
<1>7. f[0] = clear
  <2>1. \A d \in Cols : ~(p[d] < 0)
    BY <1>2, <1>3
  <2> QED BY <1>2, <1>6, <2>1
<1>8. ASSUME NEW j \in 0 .. i - 1
      PROVE  f[j + 1] = Rl(f[j], j)
  <2>1. j \in 0 .. i /\ j + 1 \in 0 .. i /\ j \in Cols /\ cp[j] \in Cols /\ p[cp[j]] = j
    BY <1>2, <1>3, <1>4
  <2>2. Add(y[rp[j]], Weighted(f[j], j, 0, j, cp)) = z[j]
    <3> DEFINE o == j - 0
               l == [c \in 0 .. o - 1 |-> Mul(A[j][0 + c], f[j][cp[0 + c]])]
    <3>1. Weighted(f[j], j, 0, j, cp) = Sum(l, o)
      BY DEF Weighted
    <3>2. o = j
      BY <1>2, <2>1
    <3> HIDE DEF o
    <3>3. ASSUME NEW c \in 0 .. j - 1 PROVE l[c] = Mul(A[j][c], z[c])
      <4>1. 0 + c = c /\ c \in Cols /\ c < j /\ c \in 0 .. o - 1
        BY <1>2, <2>1, <3>2
      <4>2. cp[c] \in Cols /\ p[cp[c]] = c
        BY <1>3, <1>4, <4>1
      <4>3. f[j][cp[c]] = z[c]
        BY <2>1, <4>1, <4>2
      <4>4. l[c] = Mul(A[j][0 + c], f[j][cp[0 + c]])
        BY <4>1
      <4> HIDE DEF f
      <4> QED BY <4>1, <4>3, <4>4
    <3> HIDE DEF l
    <3>4. Add(LRowTimes(j, z), Sum(l, j)) = z[j]
      BY <3>3, ForwardSolves
    <3> HIDE DEF f
    <3> QED BY <3>1, <3>2, <3>4
  <2>3. Rl(f[j], j) = [f[j] EXCEPT ![cp[j]] = z[j]]
    <3> HIDE DEF f
    <3> QED BY <2>2
  <2>4. \A d \in Cols : f[j + 1][d] = IF d = cp[j] THEN z[j] ELSE f[j][d]
    <3> SUFFICES ASSUME NEW d \in Cols PROVE f[j + 1][d] = IF d = cp[j] THEN z[j] ELSE f[j][d]
      OBVIOUS
    <3>1. p[d] \in Nat /\ j \in Nat /\ (d = cp[j] <=> p[d] = j)
      BY <1>2, <1>3, <2>1
    <3>2. /\ f[j + 1][d] = (IF p[d] < j + 1 THEN z[p[d]] ELSE clear[d])
          /\ f[j][d] = IF p[d] < j THEN z[p[d]] ELSE clear[d]
      BY <2>1
    <3> HIDE DEF f
    <3> QED BY <3>1, <3>2
  <2>5. f[j] = [d \in Cols |-> f[j][d]] /\ f[j + 1] = [d \in Cols |-> f[j + 1][d]]
    BY <2>1
  <2> HIDE DEF f, Rl
  <2> QED BY <2>1, <2>3, <2>4, <2>5
<1>9. f = [q \in 0 .. i |-> f[q]]
  OBVIOUS
<1>10. /\ u \in [Cols -> F]
       /\ \A q \in Cols : u[cp[q]] = IF q < i THEN z[q] ELSE Zero
  <2>1. \A d \in Cols : u[d] = IF p[d] < i THEN z[p[d]] ELSE Zero
    <3> SUFFICES ASSUME NEW d \in Cols PROVE u[d] = IF p[d] < i THEN z[p[d]] ELSE Zero
      OBVIOUS
    <3>1. u[d] = IF p[d] < i THEN z[p[d]] ELSE clear[d]
      BY <1>2
    <3>2. p[d] \in Nat
      BY <1>2, <1>3
    <3> QED BY <1>2, <1>5, <3>1, <3>2
  <2>2. u = [d \in Cols |-> u[d]]
    BY <1>2
  <2> HIDE DEF u
  <2>3. ASSUME NEW d \in Cols PROVE u[d] \in F
    <3>1. p[d] < i => p[d] \in 0 .. i - 1
      BY <1>2, <1>3
    <3> QED BY <1>2, <2>1, <3>1
  <2>4. \A q \in Cols : cp[q] \in Cols /\ p[cp[q]] = q
    BY <1>3, <1>4
  <2> QED BY <2>1, <2>2, <2>3, <2>4
<1> HIDE DEF f, Rl
<1>11. IsA(f)
  <2>1. \A q \in 0 .. i : f[q] = IF q = 0 THEN clear ELSE Rl(f[q - 1], q - 1)
    <3> SUFFICES ASSUME NEW q \in 0 .. i, q # 0 PROVE f[q] = Rl(f[q - 1], q - 1)
      BY <1>7
    <3>1. q - 1 \in 0 .. i - 1 /\ (q - 1) + 1 = q
      BY <1>2
    <3> QED BY <1>8, <3>1
  <2> QED BY <1>9, <2>1
<1>12. a[i] = u
  <2>1. IsA(a)
    BY <1>11
  <2> HIDE DEF a
  <2>2. AlikeUp(a, f, i)
    <3>1. a[0] = clear
      BY <1>2, <2>1
    <3>2. ASSUME NEW j \in 0 .. i - 1, a[j] = f[j] PROVE a[j + 1] = f[j + 1]
      <4>1. j + 1 \in 0 .. i /\ j + 1 # 0 /\ (j + 1) - 1 = j
        BY <1>2
      <4>2. a[j + 1] = Rl(a[j], j)
        BY <2>1, <4>1
      <4> QED BY <1>8, <3>2, <4>2
    <3> QED BY <1>7, <3>1, <3>2 DEF AlikeUp
  <2> QED BY <1>2, <2>2, UpEnds
<1> HIDE DEF IsA, a, u
<1> DEFINE V == [Cols -> F]
           At(m) == [c \in Cols |-> m[cp[c]]]
<1>13. ASSUME NEW m \in V, NEW q \in 0 .. i - 1
       PROVE  /\ Ru(m, q) \in V
              /\ URowTimes(q, At(Ru(m, q))) = m[cp[q]]
              /\ \A c \in Cols : c # q => At(Ru(m, q))[c] = m[cp[c]]
  <2> DEFINE v == At(m)
             o == NCol - (q + 1)
             w == [c \in 0 .. o - 1 |-> Mul(A[q][(q + 1) + c], m[cp[(q + 1) + c]])]
             e == Mul(Add(m[cp[q]], Weighted(m, q, q + 1, NCol, cp)), Inv(A[q][q]))
             x == At(Ru(m, q))
  <2>1. q \in Cols /\ q \in Rows /\ cp[q] \in Cols /\ v[q] = m[cp[q]] /\ v[q] \in F
    BY <1>2, <1>4
  <2>2. \A c \in Cols : v[c] = m[cp[c]] /\ v[c] \in F
    BY <1>4
  <2>3. Weighted(m, q, q + 1, NCol, cp) = Sum(w, o)
    BY DEF Weighted
  <2>4. o = NCol - q - 1 /\ o \in Nat
    BY <1>2, <2>1
  <2>5. \A c \in 0 .. NCol - q - 2 : w[c] = Mul(A[q][q + 1 + c], v[q + 1 + c])
    <3> SUFFICES ASSUME NEW c \in 0 .. NCol - q - 2
                 PROVE  w[c] = Mul(A[q][q + 1 + c], v[q + 1 + c])
      OBVIOUS
    <3>1. (q + 1) + c \in Cols /\ c \in 0 .. o - 1 /\ q + 1 + c = (q + 1) + c
      <4> HIDE DEF o, v, w, e, x, Ru, At
      <4>1. q \in Int /\ NCol \in Int /\ c \in Int /\ 0 <= q /\ 0 <= c /\ c <= NCol - q - 2
        BY <1>2, <2>1
      <4>2. 0 <= (q + 1) + c /\ (q + 1) + c <= NCol - 1 /\ q + 1 + c = (q + 1) + c
        BY <4>1
      <4>3. o - 1 = NCol - q - 2
        BY <1>2, <2>1, <2>4
      <4> QED BY <1>2, <4>1, <4>2, <4>3
    <3> QED BY <2>2, <3>1
  <2>6. Ru(m, q) = [m EXCEPT ![cp[q]] = e]
    OBVIOUS
  <2>7. \A c \in Cols : x[c] = IF c = q THEN e ELSE v[c]
    <3> SUFFICES ASSUME NEW c \in Cols PROVE x[c] = IF c = q THEN e ELSE v[c]
      OBVIOUS
    <3>1. cp[c] \in Cols /\ (cp[c] = cp[q] <=> c = q)
      BY <1>3, <1>4, <2>1
    <3> HIDE DEF e
    <3> QED BY <2>1, <2>2, <2>6, <3>1
  <2>8. e = Mul(Inv(A[q][q]), Add(v[q], Sum(w, NCol - q - 1)))
    <3>1. Sum(w, NCol - q - 1) \in F
      <4> HIDE DEF v, w
      <4> QED BY <1>2, <2>2, <2>5, URowSplit
    <3>2. Inv(A[q][q]) \in F
      BY <1>2, <2>1 DEF Assumptions, FieldAssumption, LUInv, TypeOK, PivotsNonzero, Matrices
    <3>3. Add(v[q], Sum(w, NCol - q - 1)) \in F
      BY <2>1, <3>1 DEF Assumptions, FieldAssumption
    <3>4. e = Mul(Add(v[q], Sum(w, NCol - q - 1)), Inv(A[q][q]))
      BY <2>1, <2>3, <2>4
    <3> HIDE DEF e, v, w
    <3> QED BY <3>2, <3>3, <3>4 DEF Assumptions, FieldLaws
  <2> HIDE DEF v, w, e, x
  <2>9. e \in F /\ URowTimes(q, x) = v[q]
    BY <2>2, <2>5, <2>7, <2>8, BackwardSolves
  <2>10. [m EXCEPT ![cp[q]] = e] \in V
    BY <2>1, <2>9
  <2> HIDE DEF Ru
  <2>11. \A c \in Cols : c # q => x[c] = m[cp[c]]
    BY <2>2, <2>7
  <2> QED BY <2>1, <2>6, <2>9, <2>10, <2>11 DEF x
<1> HIDE DEF Ru
<1>14. PICK s \in [0 .. i -> V] : IsB(s, u)
  <2> DEFINE G == [h \in V \X (0 .. i - 1) |-> Ru(h[1], h[2])]
  <2>1. G \in [V \X (0 .. i - 1) -> V]
    <3> SUFFICES ASSUME NEW h \in V \X (0 .. i - 1) PROVE Ru(h[1], h[2]) \in V
      OBVIOUS
    <3>1. h[1] \in V /\ h[2] \in 0 .. i - 1
      OBVIOUS
    <3> HIDE DEF V
    <3> QED BY <1>13, <3>1
  <2>2. \A m \in V, q \in 0 .. i - 1 : G[<<m, q>>] = Ru(m, q)
    OBVIOUS
  <2>3. u \in V
    BY <1>10
  <2> HIDE DEF G, V
  <2>4. PICK t \in [0 .. i -> V] : IsDown(t, u, i, G)
    BY <1>2, <2>1, <2>3, DownExists
  <2>5. \A q \in 0 .. i : t[q] = IF q = i THEN u ELSE Ru(t[q + 1], q)
    <3> SUFFICES ASSUME NEW q \in 0 .. i PROVE t[q] = IF q = i THEN u ELSE Ru(t[q + 1], q)
      OBVIOUS
    <3>1. t[q] = IF q = i THEN u ELSE G[<<t[q + 1], q>>]
      BY <2>4 DEF IsDown
    <3>2. q # i => q \in 0 .. i - 1 /\ q + 1 \in 0 .. i
      BY <1>2
    <3>3. q # i => t[q + 1] \in V
      BY <3>2
    <3> QED BY <2>2, <3>1, <3>2, <3>3
  <2>6. t = [q \in 0 .. i |-> IF q = i THEN u ELSE Ru(t[q + 1], q)]
    BY <2>5
  <2> QED BY <2>6
<1>15. s[i] = u /\ \A q \in 0 .. i - 1 : s[q] = Ru(s[q + 1], q) /\ s[q] \in V /\ s[q + 1] \in V
  <2>1. \A q \in 0 .. i - 1 : q \in 0 .. i /\ q + 1 \in 0 .. i /\ q # i
    BY <1>2
  <2> HIDE DEF V
  <2> QED BY <1>2, <1>14, <2>1
<1>16. b[0] = s[0]
  <2>1. IsB(b, u)
    <3> HIDE DEF IsB
    <3>1. IsB(s, a[i])
      BY <1>12, <1>14
    <3>2. IsB(b, a[i])
      BY <3>1
    <3> HIDE DEF b
    <3> QED BY <1>12, <3>2
  <2> HIDE DEF b
  <2>2. AlikeDown(b, s, i)
    <3>1. b[i] = u
      BY <1>2, <2>1
    <3>2. ASSUME NEW j \in 0 .. i - 1, b[j + 1] = s[j + 1] PROVE b[j] = s[j]
      <4>1. j \in 0 .. i /\ j # i
        BY <1>2
      <4>2. b[j] = Ru(b[j + 1], j)
        BY <2>1, <4>1
      <4> QED BY <1>15, <3>2, <4>2
    <3> QED BY <1>15, <3>1, <3>2 DEF AlikeDown
  <2> QED BY <1>2, <2>2, DownEnds
<1> HIDE DEF IsB, b
<1> DEFINE Done(m, n) ==
             /\ m \in V
             /\ \A q \in 0 .. i - 1 : /\ q < n => m[cp[q]] = z[q]
                                      /\ q >= n => URowTimes(q, At(m)) = z[q]
             /\ \A q \in i .. NCol - 1 : m[cp[q]] = Zero
           S == {j \in Nat : j <= i => Done(s[i - j], i - j)}
<1>17. 0 \in S
  <2>1. Done(u, i)
    <3>1. \A q \in i .. NCol - 1 : q \in Cols /\ ~(q < i)
      BY <1>2
    <3>2. \A q \in 0 .. i - 1 : q < i /\ ~(q >= i) /\ q \in Cols
      BY <1>2
    <3> QED BY <1>10, <3>1, <3>2
  <2>2. i - 0 = i
    BY <1>2
  <2> HIDE DEF Done
  <2> QED BY <1>15, <2>1, <2>2
<1>18. ASSUME NEW j \in Nat, j \in S PROVE j + 1 \in S
  <2> SUFFICES ASSUME j + 1 <= i PROVE Done(s[i - (j + 1)], i - (j + 1))
    OBVIOUS
  <2> DEFINE q == i - (j + 1)
             m == s[q + 1]
  <2>1. q \in 0 .. i - 1 /\ q + 1 = i - j /\ q \in Nat /\ q \in Cols /\ j <= i
    BY <1>2
  <2>2. Done(m, q + 1)
    <3> HIDE DEF Done
    <3> QED BY <1>18, <2>1
  <2> HIDE DEF q, S
  <2>3. s[q] = Ru(m, q) /\ m \in V
    <3> HIDE DEF V
    <3> QED BY <1>15, <2>1
  <2> HIDE DEF m
  <2>4. /\ s[q] \in V
        /\ URowTimes(q, At(s[q])) = m[cp[q]]
        /\ \A c \in Cols : c # q => At(s[q])[c] = m[cp[c]]
    <3> HIDE DEF V, At
    <3> QED BY <1>13, <2>1, <2>3
  <2>5. /\ \A c \in Cols : At(s[q])[c] = s[q][cp[c]] /\ At(m)[c] = m[cp[c]]
        /\ \A c \in Cols : At(s[q])[c] \in F /\ At(m)[c] \in F
    BY <1>4, <2>3, <2>4
  <2>6. \A t \in 0 .. i - 1 : t < q + 1 => m[cp[t]] = z[t]
    <3> HIDE DEF At, V
    <3> QED BY <2>2
  <2> DEFINE x == At(s[q])
             v == At(m)
  <2>7. ASSUME NEW t \in 0 .. i - 1, t >= q + 1
        PROVE  URowTimes(t, x) = z[t]
    <3>1. t > q
      BY <2>1, <2>7
    <3>2. URowTimes(t, v) = z[t]
      BY <2>2, <2>7
    <3>3. ASSUME NEW c \in Cols, c >= t PROVE x[c] = v[c]
      <4>1. c # q
        BY <1>2, <2>1, <3>1, <3>3
      <4> HIDE DEF At
      <4> QED BY <2>4, <2>5, <4>1
    <3>4. \A c \in Cols : x[c] \in F /\ v[c] \in F
      <4> HIDE DEF At
      <4> QED BY <2>5
    <3> HIDE DEF x, v, At
    <3>5. URowTimes(t, x) = URowTimes(t, v)
      BY <1>2, <3>3, <3>4, URowIgnores
    <3> QED BY <3>2, <3>5
  <2>8. ASSUME NEW t \in 0 .. i - 1
        PROVE  /\ t < q => s[q][cp[t]] = z[t]
               /\ t >= q => URowTimes(t, At(s[q])) = z[t]
    <3>1. t \in Cols /\ t \in Nat
      BY <1>2
    <3>2. CASE t < q
      <4>1. m[cp[t]] = z[t] /\ t # q
        BY <2>1, <2>6, <3>1, <3>2
      <4> HIDE DEF At
      <4> QED BY <2>1, <2>4, <2>5, <3>1, <3>2, <4>1
    <3>3. CASE t = q
      <4> HIDE DEF At
      <4> QED BY <2>1, <2>4, <2>6, <3>3
    <3>4. CASE t > q
      <4> HIDE DEF At
      <4> QED BY <2>1, <2>7, <3>1, <3>4
    <3> QED BY <2>1, <3>1, <3>2, <3>3, <3>4
  <2>9. ASSUME NEW t \in i .. NCol - 1
        PROVE  s[q][cp[t]] = Zero
    <3>1. t \in Cols /\ t # q
      BY <1>2, <2>1
    <3>2. m[cp[t]] = Zero
      BY <2>2
    <3> HIDE DEF At
    <3> QED BY <2>4, <2>5, <3>1, <3>2
  <2>10. Done(s[q], q)
    <3> HIDE DEF At
    <3> QED BY <2>4, <2>8, <2>9
  <2> QED BY <2>10 DEF q
<1>19. Done(s[0], 0)
  <2> HIDE DEF S
  <2>1. i \in S
    BY <1>2, <1>17, <1>18, NatSet
  <2>2. i - i = 0 /\ i <= i
    BY <1>2
  <2> HIDE DEF Done
  <2> QED BY <2>1, <2>2 DEF S
<1> QED BY <1>1, <1>16, <1>19

(* What the factors make of a vector, row by row. *)
LEMMA FactorsMultiply ==
  ASSUME Assumptions, LUInv, pc = "done", NEW x \in [Cols -> F], NEW r \in Rows
  PROVE  /\ LU_mult(x)[rp[r]] = Product(x, rp[r])
         /\ \A buf : (\A c \in Cols : buf[c] = x[c]) => LU_mult_inplace(buf)[rp[r]] = Product(x, rp[r])
<1> DEFINE v == [c \in Cols |-> x[cp[c]]]
           z == [q \in 0 .. i - 1 |-> URowTimes(q, v)]
           y == [q \in Rows |-> UTimes(q, v)]
           w == [q \in 0 .. Min2(r, NCol) - 1 |-> Mul(A[r][q], y[q])]
<1>1. /\ TypeOK /\ i \in Nat /\ i <= NCol /\ NCol \in Nat /\ Cols = 0 .. NCol - 1 /\ Rows \subseteq Nat
      /\ \A c \in Cols : cp[c] \in Cols
  BY DEF Assumptions, DimAssumption, LUInv, TypeOK, IsPermutation, Cols, Rows
<1>2. \A c \in Cols : v[c] = x[cp[c]] /\ v[c] \in F
  BY <1>1
<1> HIDE DEF v
<1>3. \A q \in 0 .. i - 1 : z[q] = URowTimes(q, v) /\ z[q] \in F
  BY <1>1, <1>2, URowType
<1>4. \A q \in Rows : y[q] = UTimes(q, v) /\ y[q] = IF q < i THEN z[q] ELSE Zero
  BY <1>1 DEF UTimes
<1>5. \A q \in 0 .. Min2(r, NCol) - 1 : w[q] = Mul(A[r][q], y[q])
  OBVIOUS
<1> HIDE DEF z, y, w
<1>6. Product(x, rp[r]) = LRowTimes(r, z)
  <2>1. \A c \in Cols : x[c] \in F
    OBVIOUS
  <2> QED BY <1>2, <1>3, <2>1, FactorsTimes
<1>7. LRowTimes(r, z) = Add(y[r], Sum(w, Min2(r, NCol)))
  BY <1>3, <1>4, <1>5, LRowStored
<1>8. ASSUME NEW q \in Rows
      PROVE  y[q] = Weighted(x, q, q, IF q < NCol THEN NCol ELSE q, cp)
  <2>1. CASE q < NCol
    <3> DEFINE o == NCol - q
               h == [c \in 0 .. o - 1 |-> Mul(A[q][q + c], x[cp[q + c]])]
    <3>1. Weighted(x, q, q, NCol, cp) = Sum(h, o)
      BY DEF Weighted
    <3>2. \A c \in 0 .. NCol - q - 1 : h[c] = Mul(A[q][q + c], v[q + c])
      <4> SUFFICES ASSUME NEW c \in 0 .. NCol - q - 1 PROVE h[c] = Mul(A[q][q + c], v[q + c])
        OBVIOUS
      <4>1. q + c \in Cols /\ c \in 0 .. o - 1
        BY <1>1, <2>1
      <4> QED BY <1>2, <4>1
    <3> HIDE DEF h
    <3>3. Sum(h, NCol - q) = UTimes(q, v)
      BY <1>2, <2>1, <3>2, URowWhole
    <3> QED BY <1>4, <2>1, <3>1, <3>3
  <2>2. CASE ~(q < NCol)
    <3> DEFINE o == q - q
               h == [c \in 0 .. o - 1 |-> Mul(A[q][q + c], x[cp[q + c]])]
    <3>1. Weighted(x, q, q, q, cp) = Sum(h, o)
      BY DEF Weighted
    <3>2. o = 0 /\ ~(q < i)
      BY <1>1, <2>2
    <3> HIDE DEF o, h
    <3>3. Sum(h, 0) = Zero
      BY SumNone
    <3> QED BY <1>4, <2>2, <3>1, <3>2, <3>3
  <2> QED BY <2>1, <2>2
<1>9. LU_mult(x)[rp[r]] = Add(y[r], Sum(w, Min2(r, NCol)))
  BY <1>5, <1>8, MultRow
<1>10. ASSUME NEW q \in Rows
       PROVE  y[q] = IF q < NCol THEN Add(Mul(A[q][q], v[q]), Weighted(v, q, q + 1, NCol, Here)) ELSE Zero
  <2>1. CASE q < NCol
    <3> DEFINE o == NCol - (q + 1)
               h == [c \in 0 .. o - 1 |-> Mul(A[q][(q + 1) + c], v[Here[(q + 1) + c]])]
    <3>1. Weighted(v, q, q + 1, NCol, Here) = Sum(h, o)
      BY DEF Weighted
    <3>2. \A c \in 0 .. NCol - q - 2 : h[c] = Mul(A[q][q + 1 + c], v[q + 1 + c])
      <4> SUFFICES ASSUME NEW c \in 0 .. NCol - q - 2 PROVE h[c] = Mul(A[q][q + 1 + c], v[q + 1 + c])
        OBVIOUS
      <4>1. (q + 1) + c \in Cols /\ c \in 0 .. o - 1 /\ q + 1 + c = (q + 1) + c
        BY <1>1, <2>1
      <4>2. Here[(q + 1) + c] = (q + 1) + c
        BY <4>1 DEF Here
      <4> QED BY <4>1, <4>2
    <3>3. o = NCol - q - 1
      BY <1>1, <2>1
    <3> HIDE DEF o, h
    <3>4. UTimes(q, v) = Add(Mul(A[q][q], v[q]), Sum(h, NCol - q - 1))
      BY <1>2, <2>1, <3>2, URowStored
    <3> QED BY <1>4, <2>1, <3>1, <3>3, <3>4
  <2>2. CASE ~(q < NCol)
    <3>1. ~(q < i)
      BY <1>1, <2>2
    <3> QED BY <1>4, <2>2, <3>1
  <2> QED BY <2>1, <2>2
<1>11. ASSUME NEW buf, \A c \in Cols : buf[c] = x[c]
       PROVE  LU_mult_inplace(buf)[rp[r]] = Add(y[r], Sum(w, Min2(r, NCol)))
  <2>1. \A c \in Cols : buf[cp[c]] = v[c]
    BY <1>1, <1>2, <1>11
  <2> QED BY <1>5, <1>10, <2>1, InplaceRow
<1> QED BY <1>6, <1>7, <1>9, <1>11

(* LU_invmult finds a solution of every solvable system. *)
LEMMA InvmultSolvesProduct ==
  ASSUME Assumptions, LUInv, pc = "done", NEW x \in [Cols -> F], NEW y, NEW out,
         \A r \in Rows : y[r] = Product(x, r)
  PROVE  /\ \A r \in Rows : Product(LU_invmult(y, out), rp[r]) = Product(x, rp[r])
         /\ \A q \in i .. NCol - 1 : LU_invmult(y, out)[cp[q]] = Zero
<1> DEFINE v == [c \in Cols |-> x[cp[c]]]
           z == [q \in 0 .. i - 1 |-> URowTimes(q, v)]
           s == LU_invmult(y, out)
           u == [c \in Cols |-> s[cp[c]]]
<1>1. /\ TypeOK /\ \A c \in Cols : cp[c] \in Cols /\ x[cp[c]] \in F /\ x[c] \in F
      /\ \A q \in 0 .. i - 1 : q \in Rows
      /\ \A q \in Rows : rp[q] \in Rows
  BY DEF Assumptions, DimAssumption, LUInv, TypeOK, IsPermutation, Rows
<1>2. \A c \in Cols : v[c] = x[cp[c]] /\ v[c] \in F
  BY <1>1
<1> HIDE DEF v
<1>3. \A q \in 0 .. i - 1 : z[q] = URowTimes(q, v) /\ z[q] \in F
  BY <1>1, <1>2, URowType
<1> HIDE DEF z, s
<1>4. ASSUME NEW r \in Rows PROVE Product(x, rp[r]) = LRowTimes(r, z)
  BY <1>1, <1>2, <1>3, FactorsTimes
<1>5. \A q \in 0 .. i - 1 : y[rp[q]] = LRowTimes(q, z)
  BY <1>1, <1>4
<1>6. /\ s \in [Cols -> F]
      /\ \A q \in 0 .. i - 1 : URowTimes(q, u) = z[q]
      /\ \A q \in i .. NCol - 1 : s[cp[q]] = Zero
  BY <1>3, <1>5, InvmultSolves DEF s
<1>7. \A c \in Cols : u[c] = s[cp[c]] /\ s[c] \in F
  BY <1>6
<1> HIDE DEF u
<1>8. ASSUME NEW r \in Rows PROVE Product(s, rp[r]) = LRowTimes(r, z)
  BY <1>6, <1>7, FactorsTimes
<1> QED BY <1>4, <1>6, <1>8 DEF s

(* Multiplying and solving with the factors is multiplying and solving     *)
(* with the matrix that was decomposed, for every matrix of any shape and  *)
(* rank over any field, and whatever the outputs and buffers held.         *)
THEOREM FactorsStandForMatrixHolds ==
  ASSUME Assumptions
  PROVE  SolveSpec => []FactorsStandForMatrix
<1>1. SolveIInv => FactorsStandForMatrix
  <2> SUFFICES ASSUME LUInv, pc = "done", NEW x \in [Cols -> F], NEW g \in Leftovers
               PROVE  LET out == LU_invmult([r \in Rows |-> Product(x, r)], [c \in Cols |-> g])
                          buf == LU_mult_inplace([b \in BufRows |-> IF b \in Cols THEN x[b] ELSE g])
                      IN /\ \A r \in Rows : /\ LU_mult(x)[r] = Product(x, r)
                                            /\ buf[r] = Product(x, r)
                                            /\ Product(out, r) = Product(x, r)
                         /\ \A q \in i .. NCol - 1 : out[cp[q]] = Zero
    BY DEF FactorsStandForMatrix, Decomposed, SolveIInv
  <2> DEFINE y == [r \in Rows |-> Product(x, r)]
             out == LU_invmult(y, [c \in Cols |-> g])
             b0 == [b \in BufRows |-> IF b \in Cols THEN x[b] ELSE g]
             buf == LU_mult_inplace(b0)
  <2>1. \A c \in Cols : b0[c] = x[c]
    BY DEF Assumptions, DimAssumption, BufRows, MaxDim, Cols
  <2>2. \A r \in Rows : y[r] = Product(x, r)
    OBVIOUS
  <2> HIDE DEF y, b0
  <2>3. ASSUME NEW q \in Rows
        PROVE  LU_mult(x)[rp[q]] = Product(x, rp[q]) /\ buf[rp[q]] = Product(x, rp[q])
    BY <2>1, FactorsMultiply
  <2>4. /\ \A q \in Rows : Product(out, rp[q]) = Product(x, rp[q])
        /\ \A q \in i .. NCol - 1 : out[cp[q]] = Zero
    BY <2>2, InvmultSolvesProduct
  <2> HIDE DEF out, buf
  <2>5. \A r \in Rows : /\ LU_mult(x)[r] = Product(x, r)
                        /\ buf[r] = Product(x, r)
                        /\ Product(out, r) = Product(x, r)
    BY <2>3, <2>4, RowPositions
  <2> QED BY <2>4, <2>5 DEF out, buf, y, b0
<1> QED BY <1>1, SolveIInvHolds, PTL

=============================================================================
