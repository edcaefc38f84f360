--------------------------- MODULE StorageProofs ----------------------------
(***************************************************************************)
(* Proofs about matrices changed in place.                                 *)
(*                                                                         *)
(* First permute_rows and permute_cols (PermuteRows), for every number of  *)
(* lines and every permutation.  Then m2v: that the packed words hold the  *)
(* matrix after any calls (BitCalls), for every word size and shape, and   *)
(* that the decomposition working on the words implements LUDecomp         *)
(* (BitLU).  Then m256v: that the octets hold the matrix after any calls   *)
(* on three views that may overlap (OctCalls), for every shape and field.  *)
(* At the end the same of Storage, which is the three together.            *)
(***************************************************************************)
EXTENDS PermuteRows, Storage, Sequences, TLAPS

-----------------------------------------------------------------------------
(* Permuting in place *)

(* The visited lines are closed under taking what moves there: between two *)
(* cycles exactly, and during a cycle up to the line it started from and   *)
(* the line it has reached, which nothing visited comes from.              *)
CyclesClosed ==
  \A x \in Idx : visited[perm[x]] =>
    IF pc = "cycle" THEN x # e /\ (visited[x] \/ x = i) ELSE visited[x]

(* How far the walk is. *)
WalkState ==
  /\ \A x \in Idx : x < i => visited[x]
  /\ pc = "cycle" =>
       /\ ~visited[i]
       /\ e = i \/ visited[e]
       /\ e_next = perm[e]
       /\ buf = M0[i]
  /\ pc = "done" => i = N

(* The line x holds what belongs there already. *)
Moved(x) == IF pc = "cycle" THEN x # e /\ (visited[x] \/ x = i) ELSE visited[x]

(* A line that belongs to no walked cycle is as the caller passed it, and  *)
(* so is the first line of a cycle before the first copy.                  *)
Untouched(x) ==
  IF pc = "cycle" THEN ~visited[x] /\ (x # i \/ e = i) ELSE ~visited[x]

LinesRight ==
  \A x \in Idx : /\ Moved(x) => M[x] = M0[perm[x]]
                 /\ Untouched(x) => M[x] = M0[x]

IInv == TypeOK /\ CyclesClosed /\ WalkState /\ LinesRight

LEMMA InitHolds == Init => IInv
  BY NAssumption
  DEF Init, IInv, TypeOK, CyclesClosed, WalkState, LinesRight, Moved, Untouched, Idx, Perms

LEMMA SkipKeeps == IInv /\ Skip => IInv'
<1> SUFFICES ASSUME IInv, Skip PROVE IInv'
  OBVIOUS
<1> USE NAssumption
<1>1. i \in Idx /\ i' = i + 1 /\ i' \in 0 .. N
  BY DEF IInv, TypeOK, Skip, Idx
<1>2. TypeOK'
  BY <1>1 DEF IInv, TypeOK, Skip, Idx, Perms
<1>3. CyclesClosed'
  BY <1>1 DEF IInv, TypeOK, CyclesClosed, Skip, Perms
<1>4. WalkState'
  BY <1>1 DEF IInv, TypeOK, WalkState, Skip, Idx
<1>5. LinesRight'
  BY <1>1 DEF IInv, TypeOK, LinesRight, Moved, Untouched, Skip, Perms
<1> QED
  BY <1>2, <1>3, <1>4, <1>5 DEF IInv

LEMMA LiftKeeps == IInv /\ Lift => IInv'
<1> SUFFICES ASSUME IInv, Lift PROVE IInv'
  OBVIOUS
<1> USE NAssumption
<1>1. i \in Idx /\ perm[i] \in Idx
  BY DEF IInv, TypeOK, Lift, Idx, Perms
<1>2. TypeOK'
  BY <1>1 DEF IInv, TypeOK, Lift, Idx, Perms
<1>3. CyclesClosed'
  BY <1>1 DEF IInv, TypeOK, CyclesClosed, Lift, Perms
<1>4. WalkState'
  BY <1>1 DEF IInv, TypeOK, WalkState, LinesRight, Untouched, Lift, Idx
<1>5. LinesRight'
  BY <1>1 DEF IInv, TypeOK, LinesRight, Moved, Untouched, Lift
<1> QED
  BY <1>2, <1>3, <1>4, <1>5 DEF IInv

(* The line the walk is about to enter was not visited, by CyclesClosed    *)
(* applied to the line it stands on.                                       *)
LEMMA FreshLine == IInv => NeverVisitedTwice
  BY DEF IInv, TypeOK, CyclesClosed, WalkState, NeverVisitedTwice

LEMMA ShiftKeeps == IInv /\ Shift => IInv'
<1> SUFFICES ASSUME IInv, Shift PROVE IInv'
  OBVIOUS
<1> USE NAssumption
<1>1. /\ i \in Idx /\ e \in Idx /\ e_next \in Idx /\ perm[e_next] \in Idx
      /\ e_next = perm[e] /\ e_next # i /\ ~visited[e_next] /\ ~visited[i]
  BY FreshLine DEF IInv, TypeOK, WalkState, NeverVisitedTwice, Shift, Perms
<1>2. e_next # e
  BY <1>1 DEF IInv, WalkState, Shift
<1>3. TypeOK'
  BY <1>1 DEF IInv, TypeOK, Shift, Marked, Successor, Idx, Perms
<1>4. CyclesClosed'
  <2> SUFFICES ASSUME NEW x \in Idx, visited'[perm[x]]
               PROVE  x # e_next /\ (visited'[x] \/ x = i)
    BY DEF CyclesClosed, Shift
  <2>0. perm \in Perms /\ perm[x] \in Idx
    BY DEF IInv, TypeOK, Perms
  <2>1. CASE perm[x] = e_next
    <3>1. x = e
      BY <2>0, <2>1, <1>1 DEF Perms
    <3> QED
      BY <3>1, <1>1, <1>2 DEF IInv, TypeOK, WalkState, Shift, Marked
  <2>2. CASE perm[x] # e_next
    <3>1. visited[perm[x]]
      BY <2>0, <2>2 DEF IInv, TypeOK, Shift, Marked
    <3>2. visited[x] \/ x = i
      BY <3>1 DEF IInv, CyclesClosed, Shift
    <3> QED
      BY <3>2, <1>1 DEF IInv, TypeOK, Shift, Marked
  <2> QED
    BY <2>1, <2>2
<1>5. WalkState'
  BY <1>1 DEF IInv, TypeOK, WalkState, Shift, Marked, Successor, Idx
<1>6. M[e_next] = M0[perm[e]]
  BY <1>1 DEF IInv, LinesRight, Untouched, Shift
<1>7. LinesRight'
  <2> SUFFICES ASSUME NEW x \in Idx
               PROVE  /\ Moved(x)' => M'[x] = M0[perm[x]]
                      /\ Untouched(x)' => M'[x] = M0[x]
    BY DEF LinesRight, Shift
  <2>1. CASE x = e
    BY <2>1, <1>1, <1>2, <1>6 DEF IInv, TypeOK, WalkState, Moved, Untouched, Shift, Marked
  <2>2. CASE x # e
    <3>1. M'[x] = M[x]
      BY <2>2 DEF IInv, TypeOK, Shift
    <3> QED
      BY <3>1, <2>2, <1>1 DEF IInv, TypeOK, LinesRight, Moved, Untouched, Shift, Marked
  <2> QED
    BY <2>1, <2>2
<1> QED
  BY <1>3, <1>4, <1>5, <1>7 DEF IInv

LEMMA DropKeeps == IInv /\ Drop => IInv'
<1> SUFFICES ASSUME IInv, Drop PROVE IInv'
  OBVIOUS
<1> USE NAssumption
<1>1. /\ i \in Idx /\ e \in Idx /\ e_next = i /\ perm[e] = i /\ i + 1 \in 0 .. N
      /\ buf = M0[i] /\ perm \in Perms
  BY DEF IInv, TypeOK, WalkState, Drop, Idx
<1>2. TypeOK'
  BY <1>1 DEF IInv, TypeOK, Drop, LastLine, Idx
<1>3. CyclesClosed'
  BY <1>1 DEF IInv, TypeOK, CyclesClosed, WalkState, Drop, Perms
<1>4. WalkState'
  BY <1>1 DEF IInv, TypeOK, WalkState, Drop, Idx
<1>5. LinesRight'
  BY <1>1 DEF IInv, TypeOK, WalkState, LinesRight, Moved, Untouched, Drop, LastLine
<1> QED
  BY <1>2, <1>3, <1>4, <1>5 DEF IInv

LEMMA ReturnKeeps == IInv /\ Return => IInv'
  BY DEF IInv, TypeOK, CyclesClosed, WalkState, LinesRight, Moved, Untouched, Return

LEMMA StutterKeeps == IInv /\ UNCHANGED vars => IInv'
  BY DEF IInv, TypeOK, CyclesClosed, WalkState, LinesRight, Moved, Untouched, vars

LEMMA StepKeeps == IInv /\ [Next]_vars => IInv'
  BY SkipKeeps, LiftKeeps, ShiftKeeps, DropKeeps, ReturnKeeps, StutterKeeps DEF Next

LEMMA IInvHolds == Spec => []IInv
  BY InitHolds, StepKeeps, PTL DEF Spec

(* The walk stays inside the storage, whatever the permutation. *)
THEOREM TypeCorrect == Spec => []TypeOK
<1>1. IInv => TypeOK
  BY DEF IInv
<1> QED
  BY <1>1, IInvHolds, PTL

(* In-place cycle walking computes the permutation of the lines.  When the *)
(* outer loop ends, every line is visited, and LinesRight says the rest.   *)
THEOREM PermutedHolds == Spec => []Permuted
<1>1. IInv => Permuted
  <2> SUFFICES ASSUME IInv, pc = "done" PROVE M = [x \in Idx |-> M0[perm[x]]]
    BY DEF Permuted
  <2>1. \A x \in Idx : visited[x]
    BY NAssumption DEF IInv, WalkState, Idx
  <2>2. \A x \in Idx : M[x] = M0[perm[x]]
    BY <2>1 DEF IInv, LinesRight, Moved
  <2> QED
    BY <2>2 DEF IInv, TypeOK
<1> QED
  BY <1>1, IInvHolds, PTL

(* The assertion of the inner loop can never fail. *)
THEOREM NeverVisitedTwiceHolds == Spec => []NeverVisitedTwice
  BY FreshLine, IInvHolds, PTL

-----------------------------------------------------------------------------
(* Bit matrices *)

Rows == 0 .. NRow - 1
Cols == 0 .. NCol - 1
Memory == [Words -> SUBSET Bits]
Matrices == [Rows -> [Cols -> 0 .. 1]]

(* Word k of row x; row NRow is the one behind the matrix. *)
Place(x, k) == x * Stride + k

LEMMA Product ==
  ASSUME NEW d \in Nat, NEW a \in Int, NEW b \in Int, a < b
  PROVE  /\ a * d \in Int /\ b * d \in Int /\ a * d <= b * d
         /\ d > 0 => a * d + d <= b * d
<1>1. PICK n \in Nat : b = a + 1 + n
  <2>1. b - a - 1 \in Nat /\ b = a + 1 + (b - a - 1) OBVIOUS
  <2> QED BY <2>1
<1>2. b * d = a * d + d + n * d
  BY <1>1
<1>3. n * d \in Nat
  OBVIOUS
<1> QED BY <1>2, <1>3

(* The quotient is the only number with a remainder in range. *)
LEMMA Quotient ==
  ASSUME NEW n \in Int, NEW d \in Nat \ {0}
  PROVE  /\ n \div d \in Int /\ n % d \in 0 .. d - 1
         /\ n = (n \div d) * d + (n % d)
  OBVIOUS

LEMMA QuotientIs ==
  ASSUME NEW x \in Int, NEW z \in Int, NEW d \in Nat \ {0},
         NEW k \in 0 .. d - 1, NEW l \in 0 .. d - 1, x * d + k = z * d + l
  PROVE  x = z /\ k = l
<1>1. x < z => x * d + d <= z * d BY Product
<1>2. z < x => z * d + d <= x * d BY Product
<1>3. x * d \in Int /\ z * d \in Int OBVIOUS
<1>4. ~(x < z) /\ ~(z < x) BY <1>1, <1>2, <1>3
<1>5. x = z BY <1>4
<1> QED BY <1>3, <1>5

(* Every column has its place in the words of a row, its own.              *)
LEMMA WordsOfRow ==
  ASSUME Assumptions
  PROVE  /\ Stride \in Nat \ {0}
         /\ NCol <= Stride * W
         /\ (NCol - 1) \div W = Stride - 1
<1> DEFINE n == NCol + W - 1
           q == (NCol - 1) \div W
<1>1. W \in Nat \ {0} /\ NCol \in Nat \ {0} /\ n \in Nat
  BY DEF Assumptions
<1>2. Stride \in Int /\ n % W \in 0 .. W - 1 /\ n = Stride * W + (n % W)
  BY <1>1, Quotient DEF Stride, row_size
<1>3. q \in Int /\ (NCol - 1) % W \in 0 .. W - 1 /\ NCol - 1 = q * W + ((NCol - 1) % W)
  BY <1>1, Quotient
<1>4. n = (q + 1) * W + ((NCol - 1) % W)
  <2>1. (q + 1) * W = q * W + W
    BY <1>1, <1>3
  <2> QED BY <1>1, <1>3, <2>1
<1>5. Stride = q + 1
  <2> HIDE DEF n, q
  <2>1. q + 1 \in Int /\ Stride * W + (n % W) = (q + 1) * W + ((NCol - 1) % W)
    BY <1>2, <1>3, <1>4
  <2> QED BY <1>1, <1>2, <1>3, <2>1, QuotientIs
<1>6. ~(Stride <= 0)
  <2> SUFFICES ASSUME Stride <= 0 PROVE FALSE
    OBVIOUS
  <2>1. CASE Stride = 0
    BY <1>1, <1>2, <2>1
  <2>2. CASE Stride < 0
    <3>1. Stride * W + W <= 0 * W
      BY <1>1, <1>2, <2>2, Product
    <3>2. Stride * W \in Int
      BY <1>1, <1>2
    <3> QED BY <1>1, <1>2, <3>1, <3>2
  <2> QED BY <1>2, <2>1, <2>2
<1>7. Stride * W \in Int
  BY <1>1, <1>2
<1>8. NCol <= Stride * W
  BY <1>1, <1>2, <1>7
<1>9. Stride \in Nat \ {0}
  BY <1>2, <1>6
<1>10. q = Stride - 1
  <2> HIDE DEF q
  <2> QED BY <1>3, <1>5
<1> QED BY <1>8, <1>9, <1>10

LEMMA ColumnPlace ==
  ASSUME Assumptions, NEW c \in 0 .. Stride * W - 1
  PROVE  c \div W \in 0 .. Stride - 1 /\ c % W \in Bits
<1> DEFINE q == c \div W
<1>1. Stride \in Nat \ {0} /\ W \in Nat \ {0} /\ Stride * W \in Int
  BY WordsOfRow DEF Assumptions
<1>2. c \in Int /\ 0 <= c /\ c < Stride * W
  BY <1>1
<1>3. q \in Int /\ c % W \in 0 .. W - 1 /\ c = q * W + (c % W)
  BY <1>1, <1>2, Quotient
<1> HIDE DEF q
<1>4. q * W \in Int
  BY <1>1, <1>3
<1>5. ~(q < 0)
  <2> SUFFICES ASSUME q < 0 PROVE FALSE
    OBVIOUS
  <2>1. q * W + W <= 0 * W
    BY <1>1, <1>3, Product
  <2> QED BY <1>1, <1>2, <1>3, <1>4, <2>1
<1>6. ~(q >= Stride)
  <2> SUFFICES ASSUME q >= Stride PROVE FALSE
    OBVIOUS
  <2>1. CASE q = Stride
    BY <1>1, <1>2, <1>3, <2>1
  <2>2. CASE Stride < q
    <3>1. Stride * W <= q * W
      BY <1>1, <1>3, <2>2, Product
    <3> QED BY <1>1, <1>2, <1>3, <1>4, <3>1
  <2> QED BY <1>1, <1>3, <2>1, <2>2
<1>7. q \in 0 .. Stride - 1
  BY <1>1, <1>3, <1>5, <1>6
<1> QED BY <1>3, <1>7 DEF q, Bits

(* The column whose bit is b of word k. *)
LEMMA PlaceColumn ==
  ASSUME Assumptions, NEW k \in 0 .. Stride - 1, NEW b \in Bits
  PROVE  /\ k * W + b \in 0 .. Stride * W - 1
         /\ (k * W + b) \div W = k /\ (k * W + b) % W = b
<1> DEFINE c == k * W + b
<1>1. Stride \in Nat \ {0} /\ W \in Nat \ {0} /\ Stride * W \in Int /\ k * W \in Int
  BY WordsOfRow DEF Assumptions
<1>2. 0 * W <= k * W
  <2>1. k = 0 \/ 0 < k
    BY <1>1
  <2> QED BY <1>1, <2>1, Product
<1>3. k * W + W <= Stride * W
  BY <1>1, Product
<1>4. c \in 0 .. Stride * W - 1
  BY <1>1, <1>2, <1>3 DEF Bits
<1>5. c \in Int /\ b \in 0 .. W - 1
  BY <1>1 DEF Bits
<1>6. c \div W \in Int /\ c % W \in 0 .. W - 1 /\ c = (c \div W) * W + (c % W)
  BY <1>1, <1>5, Quotient
<1>7. (c \div W) * W + (c % W) = k * W + b
  BY <1>6
<1> HIDE DEF c
<1>8. c \div W = k /\ c % W = b
  BY <1>1, <1>5, <1>6, <1>7, QuotientIs
<1> QED BY <1>4, <1>8 DEF c

LEMMA ColumnApart ==
  ASSUME Assumptions, NEW c \in Int, NEW d \in Int,
         c \div W = d \div W, c % W = d % W
  PROVE  c = d
<1>1. W \in Nat \ {0}
  BY DEF Assumptions
<1> QED BY <1>1, Quotient

LEMMA PlaceApart ==
  ASSUME Assumptions, NEW x \in Int, NEW z \in Int,
         NEW k \in 0 .. Stride - 1, NEW l \in 0 .. Stride - 1
  PROVE  Place(x, k) = Place(z, l) <=> x = z /\ k = l
<1>1. Stride \in Nat \ {0}
  BY WordsOfRow
<1> QED BY <1>1, QuotientIs DEF Place

(* Words is made of the rows and the row behind.                           *)
LEMMA PlaceIn ==
  ASSUME Assumptions, NEW x \in 0 .. NRow, NEW k \in 0 .. Stride - 1
  PROVE  Place(x, k) \in Words /\ (Place(x, k) \in Behind <=> x = NRow)
<1>1. Stride \in Nat \ {0} /\ NRow \in Nat \ {0} /\ x \in Int
  BY WordsOfRow DEF Assumptions
<1>2. x * Stride \in Int /\ NRow * Stride \in Int /\ (NRow + 1) * Stride = NRow * Stride + Stride
  BY <1>1
<1>3. 0 <= x * Stride
  <2>1. x = 0 \/ 0 < x
    BY <1>1
  <2>2. 0 * Stride = 0
    BY <1>1
  <2> QED BY <1>1, <2>1, <2>2, Product
<1>4. x < NRow => x * Stride + Stride <= NRow * Stride
  BY <1>1, Product
<1>5. x < NRow \/ x = NRow
  BY <1>1
<1> QED BY <1>1, <1>2, <1>3, <1>4, <1>5 DEF Place, Words, Behind

LEMMA BehindPlace ==
  ASSUME Assumptions, NEW w \in Behind
  PROVE  w - NRow * Stride \in 0 .. Stride - 1 /\ w = Place(NRow, w - NRow * Stride)
<1>1. Stride \in Nat \ {0} /\ NRow \in Nat \ {0}
  BY WordsOfRow DEF Assumptions
<1>2. NRow * Stride \in Int /\ (NRow + 1) * Stride = NRow * Stride + Stride
  BY <1>1
<1> QED BY <1>1, <1>2 DEF Place, Behind

-----------------------------------------------------------------------------
(* Views *)

Fields == {"n_row", "n_col", "row_stride", "e", "r0", "c0"}

(* A view shows whole rows, in the memory where the matrix has them.       *)
IsView(v) ==
  /\ v.r0 \in Rows /\ v.n_row \in 1 .. NRow - v.r0
  /\ v.c0 = 0 /\ v.n_col = NCol
  /\ v.row_stride = Stride /\ v.e = v.r0 * Stride
  /\ v \in [Fields -> Int]

Get(m, x, y) == get_el(m, m2v_make, x, y)

LEMMA ViewTypes ==
  ASSUME Assumptions, NEW v, IsView(v)
  PROVE  /\ NRow \in Nat \ {0} /\ NCol \in Nat \ {0} /\ v.r0 \in Nat /\ v.n_row \in Nat \ {0}
         /\ \A r \in ViewRows(v) : r \in Nat /\ v.r0 + r \in Rows
         /\ ViewCols(v) = Cols
BY DEF Assumptions, IsView, Rows, Cols, ViewRows, ViewCols

LEMMA WholeIsView ==
  ASSUME Assumptions
  PROVE  IsView(m2v_make)
<1>1. Stride \in Nat \ {0} /\ NRow \in Nat \ {0}
  BY WordsOfRow DEF Assumptions
<1>2. m2v_make \in [Fields -> Int]
  BY <1>1 DEF m2v_make, Fields, Assumptions
<1> QED BY <1>1, <1>2 DEF IsView, m2v_make, Rows

LEMMA SubviewIsView ==
  ASSUME Assumptions, NEW v, IsView(v),
         NEW o \in 0 .. v.n_row - 1, NEW n \in 1 .. v.n_row - o
  PROVE  IsView(get_subview(v, o, n))
<1>1. Stride \in Nat \ {0} /\ NRow \in Nat \ {0}
  BY WordsOfRow DEF Assumptions
<1>2. v.r0 \in Nat /\ v.n_row \in Nat
  BY <1>1, ViewTypes
<1>3. (v.r0 + o) * Stride = v.r0 * Stride + o * Stride
  BY <1>1, <1>2
<1> DEFINE u == get_subview(v, o, n)
<1>4. u.n_row = n /\ u.e = v.e + o * v.row_stride /\ u.r0 = v.r0 + o
      /\ u.n_col = v.n_col /\ u.row_stride = v.row_stride /\ u.c0 = v.c0
  BY DEF get_subview, IsView, Fields
<1>5. u.r0 \in Rows /\ u.n_row \in 1 .. NRow - u.r0
  BY <1>1, <1>2, <1>4 DEF IsView, Rows
<1>6. u.c0 = 0 /\ u.n_col = NCol /\ u.row_stride = Stride
  BY <1>4 DEF IsView
<1>7. u.e = u.r0 * Stride
  BY <1>1, <1>2, <1>3, <1>4 DEF IsView
<1>8. u \in [Fields -> Int]
  <2>1. v \in [Fields -> Int] /\ v.e \in Int
    BY <1>1, <1>2 DEF IsView
  <2>2. v.e + o * v.row_stride \in Int /\ v.r0 + o \in Int /\ n \in Int
    BY <1>1, <1>2, <2>1 DEF IsView
  <2> QED BY <2>1, <2>2 DEF get_subview
<1> HIDE DEF u
<1>9. IsView(u)
  BY <1>5, <1>6, <1>7, <1>8 DEF IsView
<1> QED BY <1>9 DEF u

(* The address of word c \div W of a row of a view.                        *)
LEMMA WordIs ==
  ASSUME Assumptions, NEW v, IsView(v), NEW r \in Int, NEW c \in 0 .. Stride * W - 1
  PROVE  /\ v.r0 + r \in Int
         /\ get_word(v, r, c) = Place(v.r0 + r, c \div W)
         /\ get_word(v, r, 0) = Place(v.r0 + r, 0)
<1>1. Stride \in Nat \ {0} /\ W \in Nat \ {0}
  BY WordsOfRow DEF Assumptions
<1>2. v.r0 \in Nat
  BY ViewTypes
<1>3. Stride * r = r * Stride /\ v.r0 * Stride \in Int /\ r * Stride \in Int
      /\ (v.r0 + r) * Stride = v.r0 * Stride + r * Stride
  BY <1>1, <1>2
<1>4. c \div W \in Int /\ 0 \div W = 0
  <2>1. c \div W \in 0 .. Stride - 1
    BY ColumnPlace
  <2>2. Stride - 1 \in Int
    BY <1>1
  <2>3. 0 \div W = 0
    BY <1>1
  <2> QED BY <2>1, <2>2, <2>3
<1>5. v.e = v.r0 * Stride /\ v.row_stride = Stride
  BY DEF IsView
<1>6. get_word(v, r, c) = v.r0 * Stride + r * Stride + c \div W
      /\ get_word(v, r, 0) = v.r0 * Stride + r * Stride + 0
  BY <1>3, <1>4, <1>5 DEF get_word
<1> QED BY <1>2, <1>3, <1>4, <1>6 DEF Place

LEMMA RowWordsAre ==
  ASSUME Assumptions, NEW v, IsView(v), NEW r \in ViewRows(v)
  PROVE  /\ \A x \in 0 .. NRow, k \in 0 .. Stride - 1 :
              Place(x, k) \in RowWords(v, r) <=> x = v.r0 + r
         /\ \A w \in RowWords(v, r) : \E l \in 0 .. Stride - 1 : w = Place(v.r0 + r, l)
         /\ RowWords(v, r) \cap Behind = {}
<1>1. Stride \in Nat \ {0} /\ W \in Nat \ {0} /\ 0 \in 0 .. Stride * W - 1
  BY WordsOfRow DEF Assumptions
<1>2. v.r0 + r \in Rows /\ r \in Nat
  BY ViewTypes
<1>3. get_word(v, r, 0) = Place(v.r0 + r, 0) /\ v.row_stride = Stride
  BY <1>1, <1>2, WordIs DEF IsView
<1>4. RowWords(v, r) = Place(v.r0 + r, 0) .. Place(v.r0 + r, 0) + Stride - 1
  BY <1>3 DEF RowWords
<1> DEFINE z == v.r0 + r
<1>5. z \in Int /\ z < NRow /\ NRow \in Int
  BY <1>2, ViewTypes DEF Rows
<1>6. \A w \in RowWords(v, r) : w - z * Stride \in 0 .. Stride - 1 /\ w = Place(z, w - z * Stride)
  <2>1. z * Stride \in Int
    BY <1>1, <1>5
  <2> HIDE DEF z
  <2> QED BY <1>1, <1>4, <1>5, <2>1 DEF Place, z
<1>7. ASSUME NEW x \in 0 .. NRow, NEW k \in 0 .. Stride - 1
      PROVE  Place(x, k) \in RowWords(v, r) <=> x = z
  <2>1. x = z => Place(x, k) \in RowWords(v, r)
    <3>1. z * Stride \in Int
      BY <1>1, <1>5
    <3> HIDE DEF z
    <3> QED BY <1>1, <1>4, <1>5, <3>1, SMTT(20) DEF Place, z
  <2>2. Place(x, k) \in RowWords(v, r) => x = z
    <3> SUFFICES ASSUME Place(x, k) \in RowWords(v, r) PROVE x = z
      OBVIOUS
    <3> HIDE DEF z
    <3>1. PICK l \in 0 .. Stride - 1 : Place(x, k) = Place(z, l)
      BY <1>6
    <3>2. x \in Int
      BY <1>5
    <3> QED BY <1>5, <3>1, <3>2, PlaceApart
  <2> QED BY <2>1, <2>2
<1>8. RowWords(v, r) \cap Behind = {}
  <2> SUFFICES ASSUME NEW w \in RowWords(v, r), w \in Behind PROVE FALSE
    OBVIOUS
  <2> HIDE DEF z
  <2>1. PICK k \in 0 .. Stride - 1 : w = Place(z, k)
    BY <1>6
  <2>2. PICK l \in 0 .. Stride - 1 : w = Place(NRow, l)
    BY BehindPlace
  <2>3. z = NRow
    <3>1. Place(z, k) = Place(NRow, l)
      BY <2>1, <2>2
    <3> QED BY <1>5, <3>1, PlaceApart
  <2> QED BY <1>5, <2>3
<1> QED BY <1>6, <1>7, <1>8

(* An element is a bit of a word of its row.                               *)
LEMMA GetIs ==
  ASSUME Assumptions, NEW m \in Memory, NEW x \in Rows, NEW y \in Cols
  PROVE  /\ y \in 0 .. Stride * W - 1
         /\ Get(m, x, y) = IF y % W \in m[Place(x, y \div W)] THEN 1 ELSE 0
<1>1. Stride * W \in Int /\ NCol <= Stride * W /\ NCol \in Nat /\ NRow \in Nat
  BY WordsOfRow DEF Assumptions
<1>2. y \in 0 .. Stride * W - 1 /\ x \in Int
  BY <1>1 DEF Cols, Rows
<1>3. get_word(m2v_make, x, y) = Place(0 + x, y \div W)
  BY <1>2, WholeIsView, WordIs DEF m2v_make
<1>4. 0 + x = x
  BY <1>2
<1> QED BY <1>2, <1>3, <1>4 DEF Get, get_el, get_bit

LEMMA ElementIs ==
  ASSUME Assumptions, NEW m, NEW v, IsView(v), NEW r \in ViewRows(v), NEW y \in Cols
  PROVE  /\ get_el(m, v, r, y) = Get(m, v.r0 + r, y)
         /\ get_word(v, r, y) = Place(v.r0 + r, y \div W)
<1>1. Stride * W \in Int /\ NCol <= Stride * W /\ NCol \in Nat /\ NRow \in Nat
  BY WordsOfRow DEF Assumptions
<1>2. y \in 0 .. Stride * W - 1 /\ r \in Int /\ v.r0 + r \in Int
  BY <1>1, ViewTypes DEF Cols, Rows
<1>3. get_word(v, r, y) = Place(v.r0 + r, y \div W)
  BY <1>2, WordIs
<1>4. get_word(m2v_make, v.r0 + r, y) = Place(0 + (v.r0 + r), y \div W)
  BY <1>2, WholeIsView, WordIs DEF m2v_make
<1>5. 0 + (v.r0 + r) = v.r0 + r
  BY <1>2
<1> QED BY <1>3, <1>4, <1>5 DEF Get, get_el

-----------------------------------------------------------------------------
(* The operations *)

(* m holds the matrix X, and the marker behind it.                         *)
Holds(m, X) ==
  /\ m \in Memory /\ X \in Matrices
  /\ \A x \in Rows, y \in Cols : Get(m, x, y) = X[x][y]
  /\ \A w \in Behind : m[w] = {0}

LEMMA CellPlace ==
  ASSUME Assumptions, NEW x \in Rows, NEW y \in Cols
  PROVE  /\ x \in Int /\ x \in 0 .. NRow /\ y \in Int
         /\ y \div W \in 0 .. Stride - 1 /\ y % W \in Bits
         /\ Place(x, y \div W) \in Words /\ Place(x, y \div W) \notin Behind
<1>1. Stride * W \in Int /\ NCol <= Stride * W /\ NCol \in Nat \ {0} /\ NRow \in Nat \ {0}
  BY WordsOfRow DEF Assumptions
<1>2. y \in 0 .. Stride * W - 1 /\ x \in 0 .. NRow /\ x # NRow /\ x \in Int /\ y \in Int
  BY <1>1 DEF Cols, Rows
<1>3. y \div W \in 0 .. Stride - 1 /\ y % W \in Bits
  BY <1>2, ColumnPlace
<1> QED BY <1>2, <1>3, PlaceIn

LEMMA HoldsBits ==
  ASSUME Assumptions, NEW m, NEW X, Holds(m, X), NEW x \in Rows, NEW y \in Cols
  PROVE  X[x][y] \in 0 .. 1 /\ (y % W \in m[Place(x, y \div W)] <=> X[x][y] = 1)
<1>1. m \in Memory /\ X[x][y] \in 0 .. 1 /\ Get(m, x, y) = X[x][y]
  BY DEF Holds, Matrices
<1> QED BY <1>1, GetIs

LEMMA HoldsIf ==
  ASSUME Assumptions, NEW m, NEW X, Holds(m, X),
         NEW m2 \in Memory, NEW X2 \in Matrices,
         \A w \in Behind : m2[w] = m[w],
         \A x \in Rows, y \in Cols : y % W \in m2[Place(x, y \div W)] <=> X2[x][y] = 1
  PROVE  Holds(m2, X2)
<1>1. ASSUME NEW x \in Rows, NEW y \in Cols PROVE Get(m2, x, y) = X2[x][y]
  <2>1. X2[x][y] = 0 \/ X2[x][y] = 1
    <3>1. X2[x][y] \in 0 .. 1
      BY DEF Matrices
    <3> QED BY <3>1
  <2> QED BY <2>1, GetIs
<1> QED BY <1>1 DEF Holds

(* Corresponding words of two rows are as far apart as their first ones.   *)
LEMMA RowShift ==
  ASSUME Assumptions, NEW v, IsView(v), NEW r \in ViewRows(v),
         NEW w, IsView(w), NEW s \in ViewRows(w), NEW l \in 0 .. Stride - 1
  PROVE  Place(w.r0 + s, l) + (get_word(v, r, 0) - get_word(w, s, 0)) = Place(v.r0 + r, l)
<1>1. Stride \in Nat \ {0} /\ W \in Nat \ {0} /\ 0 \in 0 .. Stride * W - 1
  BY WordsOfRow DEF Assumptions
<1> DEFINE x == v.r0 + r
           z == w.r0 + s
<1>2. x \in Int /\ z \in Int /\ r \in Int /\ s \in Int
  BY ViewTypes DEF Rows
<1>3. get_word(v, r, 0) = Place(x, 0) /\ get_word(w, s, 0) = Place(z, 0)
  BY <1>1, <1>2, WordIs
<1>4. x * Stride \in Int /\ z * Stride \in Int /\ l \in Int
  BY <1>1, <1>2
<1> HIDE DEF x, z
<1> QED BY <1>3, <1>4 DEF Place, x, z

LEMMA SwapRowsHolds ==
  ASSUME Assumptions, NEW m, NEW X, Holds(m, X), NEW v, IsView(v),
         NEW r1 \in ViewRows(v), NEW r2 \in ViewRows(v)
  PROVE  Holds(swap_rows(m, v, r1, r2), RowsSwapped(X, v, r1, r2))
<1> DEFINE m2 == swap_rows(m, v, r1, r2)
           X2 == RowsSwapped(X, v, r1, r2)
           z1 == v.r0 + r1
           z2 == v.r0 + r2
           d  == get_word(v, r2, 0) - get_word(v, r1, 0)
           other(x) == IF x = z1 THEN z2 ELSE z1
<1>1. z1 \in Rows /\ z2 \in Rows /\ r1 \in Int /\ r2 \in Int /\ v.r0 \in Int /\ v.c0 = 0
      /\ Rows \subseteq Int /\ Cols \subseteq Int /\ ViewCols(v) = Cols
  BY ViewTypes, SMTT(20) DEF IsView, Rows, Cols
<1>2. m \in Memory /\ X \in Matrices
  BY DEF Holds
<1>3. /\ X2 \in Matrices
      /\ \A x \in Rows, y \in Cols :
           X2[x][y] = IF x \in {z1, z2} THEN X[other(x)][y] ELSE X[x][y]
  BY <1>1, <1>2 DEF RowsSwapped, Put, Matrices, At
<1>4. ASSUME NEW l \in 0 .. Stride - 1
      PROVE  /\ Place(z1, l) + d = Place(z2, l) /\ Place(z2, l) - d = Place(z1, l)
             /\ Place(z1, l) \in Words /\ Place(z2, l) \in Words
  <2>1. Place(z1, l) + d = Place(z2, l)
    BY RowShift
  <2>2. Place(z2, l) + (get_word(v, r1, 0) - get_word(v, r2, 0)) = Place(z1, l)
    BY RowShift
  <2>3. get_word(v, r1, 0) \in Int /\ get_word(v, r2, 0) \in Int
    <3>1. Stride \in Nat \ {0} /\ W \in Nat \ {0} /\ 0 \in 0 .. Stride * W - 1
      BY WordsOfRow DEF Assumptions
    <3>2. get_word(v, r1, 0) = Place(z1, 0) /\ get_word(v, r2, 0) = Place(z2, 0)
      BY <1>1, <3>1, WordIs
    <3>3. \A x \in Rows : Place(x, 0) \in Int /\ Place(x, l) \in Int
      BY <1>1, <3>1 DEF Place
    <3> QED BY <1>1, <3>2, <3>3
  <2>4. Place(z2, l) - d = Place(z1, l)
    <3>1. Place(z2, l) \in Int
      <4>1. Stride \in Nat
        BY WordsOfRow
      <4> QED BY <1>1, <4>1 DEF Place
    <3> QED BY <2>2, <2>3, <3>1
  <2>5. z1 \in 0 .. NRow /\ z2 \in 0 .. NRow
    BY <1>1, ViewTypes DEF Rows
  <2> QED BY <2>1, <2>4, <2>5, PlaceIn
<1>5. m2 = [k \in Words |-> IF k \in RowWords(v, r1) THEN m[k + d]
                              ELSE IF k \in RowWords(v, r2) THEN m[k - d] ELSE m[k]]
  BY <1>2 DEF swap_rows, Memory
<1>6. m2 \in Memory
  <2> SUFFICES ASSUME NEW k \in Words PROVE m2[k] \in SUBSET Bits
    BY <1>5 DEF Memory
  <2>1. CASE k \in RowWords(v, r1)
    <3>1. PICK l \in 0 .. Stride - 1 : k = Place(z1, l)
      BY <2>1, RowWordsAre
    <3>2. m2[k] = m[Place(z2, l)]
      <4> HIDE DEF d, m2
      <4>1. m2[k] = m[k + d]
        BY <1>5, <2>1
      <4>2. k + d = Place(z2, l)
        BY <1>4, <3>1
      <4> QED BY <4>1, <4>2
    <3> QED BY <1>2, <1>4, <3>2 DEF Memory
  <2>2. CASE k \notin RowWords(v, r1) /\ k \in RowWords(v, r2)
    <3>1. PICK l \in 0 .. Stride - 1 : k = Place(z2, l)
      BY <2>2, RowWordsAre
    <3>2. m2[k] = m[Place(z1, l)]
      <4> HIDE DEF d, m2
      <4>1. m2[k] = m[k - d]
        BY <1>5, <2>2
      <4>2. k - d = Place(z1, l)
        BY <1>4, <3>1
      <4> QED BY <4>1, <4>2
    <3> QED BY <1>2, <1>4, <3>2 DEF Memory
  <2>3. CASE k \notin RowWords(v, r1) /\ k \notin RowWords(v, r2)
    BY <1>2, <1>5, <2>3 DEF Memory
  <2> QED BY <2>1, <2>2, <2>3
<1>7. ASSUME NEW w \in Behind PROVE m2[w] = m[w]
  <2>1. w \notin RowWords(v, r1) /\ w \notin RowWords(v, r2)
    BY RowWordsAre
  <2>2. w \in Words
    <3>1. NRow \in 0 .. NRow
      BY DEF Assumptions
    <3> QED BY <3>1, BehindPlace, PlaceIn
  <2> QED BY <1>5, <2>1, <2>2
<1>8. ASSUME NEW x \in Rows, NEW y \in Cols
      PROVE  y % W \in m2[Place(x, y \div W)] <=> X2[x][y] = 1
  <2> DEFINE l == y \div W
  <2>1. l \in 0 .. Stride - 1 /\ Place(x, l) \in Words /\ x \in 0 .. NRow
    BY CellPlace
  <2>2. /\ Place(x, l) \in RowWords(v, r1) <=> x = z1
        /\ Place(x, l) \in RowWords(v, r2) <=> x = z2
    BY <2>1, RowWordsAre
  <2>3. m2[Place(x, l)] = IF x \in {z1, z2} THEN m[Place(other(x), l)] ELSE m[Place(x, l)]
    <3> HIDE DEF l, d, m2, z1, z2
    <3> QED BY <1>4, <1>5, <2>1, <2>2
  <2>4. other(x) \in Rows
    BY <1>1
  <2> HIDE DEF m2, X2
  <2> QED BY <1>3, <2>3, <2>4, HoldsBits
<1> HIDE DEF m2, X2
<1>9. Holds(m2, X2)
  BY <1>3, <1>6, <1>7, <1>8, HoldsIf
<1> QED BY <1>9 DEF m2, X2

LEMMA SetElHolds ==
  ASSUME Assumptions, NEW m, NEW X, Holds(m, X), NEW v, IsView(v),
         NEW r \in ViewRows(v), NEW c \in ViewCols(v), NEW val \in 0 .. 1
  PROVE  Holds(set_el(m, v, r, c, val), ElementSet(X, v, r, c, val))
<1> DEFINE m2 == set_el(m, v, r, c, val)
           X2 == ElementSet(X, v, r, c, val)
           z == v.r0 + r
<1>1. z \in Rows /\ z \in Int /\ r \in Int /\ v.r0 \in Int /\ v.c0 = 0 /\ c \in Cols
      /\ Rows \subseteq Int /\ Cols \subseteq Int /\ W \in Nat \ {0}
  BY ViewTypes, SMTT(20) DEF IsView, Rows, Cols, Assumptions
<1>2. m \in Memory /\ X \in Matrices
  BY DEF Holds
<1>3. /\ X2 \in Matrices
      /\ \A x \in Rows, y \in Cols : X2[x][y] = IF x = z /\ y = c THEN val ELSE X[x][y]
  BY <1>1, <1>2 DEF ElementSet, Put, Matrices
<1> DEFINE p == Place(z, c \div W)
<1>4. c \div W \in 0 .. Stride - 1 /\ c % W \in Bits
  BY <1>1, <1>2, GetIs, ColumnPlace
<1>5. p \in Words /\ p \notin Behind
  <2>1. z \in 0 .. NRow /\ z # NRow
    BY <1>1, ViewTypes DEF Rows
  <2> QED BY <1>4, <2>1, PlaceIn
<1>6. m2 = [m EXCEPT ![p] = WithBit(@, c % W, val)]
  BY <1>1, ElementIs DEF set_el, get_bit
<1>7. m2 \in Memory /\ \A w \in Behind : m2[w] = m[w]
  <2>1. WithBit(m[p], c % W, val) \in SUBSET Bits
    BY <1>2, <1>4, <1>5 DEF Memory, WithBit
  <2> HIDE DEF p, m2
  <2> QED BY <1>2, <1>5, <1>6, <2>1 DEF Memory
<1>8. ASSUME NEW x \in Rows, NEW y \in Cols
      PROVE  Get(m2, x, y) = X2[x][y]
  <2>1. y \in 0 .. Stride * W - 1 /\ y \div W \in 0 .. Stride - 1
    BY <1>2, GetIs, ColumnPlace
  <2>2. Place(x, y \div W) \in Words
    <3>1. x \in 0 .. NRow
      BY ViewTypes DEF Rows
    <3> QED BY <2>1, <3>1, PlaceIn
  <2>3. Place(x, y \div W) = p <=> x = z /\ y \div W = c \div W
    BY <1>1, <1>4, <2>1, PlaceApart
  <2>4. y \div W = c \div W /\ y % W = c % W => y = c
    BY <1>1, ColumnApart
  <2>5. Get(m, x, y) = IF y % W \in m[Place(x, y \div W)] THEN 1 ELSE 0
    BY <1>2, GetIs
  <2>6. Get(m2, x, y) = IF y % W \in m2[Place(x, y \div W)] THEN 1 ELSE 0
    BY <1>7, GetIs
  <2>7. Get(m, x, y) = X[x][y]
    BY DEF Holds
  <2>8. val = 0 \/ val = 1
    OBVIOUS
  <2> HIDE DEF p, z, X2, m2
  <2> QED
    BY <1>2, <1>3, <1>6, <2>2, <2>3, <2>4, <2>5, <2>6, <2>7, <2>8 DEF Memory, WithBit
<1> HIDE DEF m2, X2
<1> QED BY <1>3, <1>7, <1>8 DEF Holds, m2, X2

(* An operation that writes one row, word by word: g has the new words.    *)
WritesRow(m, X, m2, X2, w, s, g) ==
  /\ g \in [0 .. Stride - 1 -> SUBSET Bits]
  /\ m2 = [k \in Words |-> IF k \in RowWords(w, s) THEN m2[k] ELSE m[k]]
  /\ \A l \in 0 .. Stride - 1 : m2[Place(w.r0 + s, l)] = g[l]
  /\ X2 \in Matrices
  /\ \A x \in Rows, y \in Cols : x # w.r0 + s => X2[x][y] = X[x][y]
  /\ \A y \in Cols : y % W \in g[y \div W] <=> X2[w.r0 + s][y] = 1

LEMMA RowWritten ==
  ASSUME Assumptions, NEW m, NEW X, Holds(m, X), NEW w, IsView(w), NEW s \in ViewRows(w),
         NEW m2, NEW X2, NEW g, WritesRow(m, X, m2, X2, w, s, g)
  PROVE  Holds(m2, X2)
<1> USE DEF WritesRow
<1> DEFINE z == w.r0 + s
<1>1. m \in Memory /\ z \in Rows
  BY ViewTypes DEF Holds
<1>2. ASSUME NEW k \in Words PROVE m2[k] \in SUBSET Bits
  <2>1. CASE k \in RowWords(w, s)
    <3>1. PICK l \in 0 .. Stride - 1 : k = Place(z, l)
      BY <2>1, RowWordsAre
    <3> QED BY <3>1
  <2>2. CASE k \notin RowWords(w, s)
    <3>1. m2[k] = m[k]
      BY <2>2
    <3> QED BY <1>1, <3>1 DEF Memory
  <2> QED BY <2>1, <2>2
<1>3. m2 \in Memory
  BY <1>2 DEF Memory
<1>4. ASSUME NEW k \in Behind PROVE m2[k] = m[k]
  <2>1. k \notin RowWords(w, s)
    BY RowWordsAre
  <2>2. k \in Words
    <3>1. NRow \in 0 .. NRow
      BY DEF Assumptions
    <3> QED BY <3>1, BehindPlace, PlaceIn
  <2> QED BY <2>1, <2>2
<1>5. ASSUME NEW x \in Rows, NEW y \in Cols
      PROVE  y % W \in m2[Place(x, y \div W)] <=> X2[x][y] = 1
  <2> DEFINE l == y \div W
  <2>1. l \in 0 .. Stride - 1 /\ Place(x, l) \in Words /\ x \in 0 .. NRow
    BY CellPlace
  <2>2. CASE x = z
    BY <2>1, <2>2
  <2>3. CASE x # z
    <3>1. Place(x, l) \notin RowWords(w, s)
      BY <2>1, <2>3, RowWordsAre
    <3>2. m2[Place(x, l)] = m[Place(x, l)]
      BY <2>1, <3>1
    <3> HIDE DEF l
    <3> QED BY <2>3, <3>2, HoldsBits DEF l
  <2> QED BY <2>2, <2>3
<1> QED BY <1>3, <1>4, <1>5, HoldsIf

LEMMA ViewNumbers ==
  ASSUME Assumptions, NEW v, IsView(v)
  PROVE  /\ v.c0 = 0 /\ v.r0 \in Int /\ ViewCols(v) = Cols /\ v.n_col = NCol
         /\ Rows \subseteq Int /\ Cols \subseteq Int
         /\ \A r \in ViewRows(v) : r \in Int /\ v.r0 + r \in Rows /\ v.r0 + r \in 0 .. NRow
BY ViewTypes DEF IsView, Rows, Cols

LEMMA CopyRowHolds ==
  ASSUME Assumptions, NEW m, NEW X, Holds(m, X), NEW v, IsView(v), NEW w, IsView(w),
         NEW r \in ViewRows(v), NEW s \in ViewRows(w)
  PROVE  Holds(copy_row(m, v, r, w, s), RowCopied(X, v, r, w, s))
<1> DEFINE m2 == copy_row(m, v, r, w, s)
           X2 == RowCopied(X, v, r, w, s)
           x == v.r0 + r
           z == w.r0 + s
           d == get_word(v, r, 0) - get_word(w, s, 0)
           g == [l \in 0 .. Stride - 1 |-> m[Place(x, l)]]
<1>1. x \in Rows /\ z \in Rows /\ m \in Memory /\ X \in Matrices
  BY ViewNumbers DEF Holds
<1>2. /\ X2 \in Matrices
      /\ \A u \in Rows, y \in Cols : X2[u][y] = IF u = z THEN X[x][y] ELSE X[u][y]
  BY <1>1, ViewNumbers DEF RowCopied, Put, Matrices, At
<1>3. ASSUME NEW l \in 0 .. Stride - 1
      PROVE  /\ Place(z, l) + d = Place(x, l) /\ Place(x, l) \in Words /\ Place(z, l) \in Words
             /\ Place(z, l) \in RowWords(w, s) /\ m[Place(x, l)] \in SUBSET Bits
  <2>1. Place(z, l) + d = Place(x, l)
    BY RowShift
  <2>2. Place(x, l) \in Words /\ Place(z, l) \in Words
    BY ViewNumbers, PlaceIn
  <2>3. Place(z, l) \in RowWords(w, s)
    BY ViewNumbers, RowWordsAre
  <2> QED BY <1>1, <2>1, <2>2, <2>3 DEF Memory
<1>4. m2 = [k \in Words |-> IF k \in RowWords(w, s) THEN m[k + d] ELSE m[k]]
  BY <1>1 DEF copy_row, Memory
<1>5. \A l \in 0 .. Stride - 1 : m2[Place(z, l)] = g[l]
  <2> HIDE DEF m2, d, x, z
  <2> QED BY <1>3, <1>4
<1>6. m2 = [k \in Words |-> IF k \in RowWords(w, s) THEN m2[k] ELSE m[k]]
  <2> HIDE DEF m2, d
  <2> QED BY <1>4
<1>7. g \in [0 .. Stride - 1 -> SUBSET Bits]
  BY <1>3
<1>8. ASSUME NEW y \in Cols PROVE y % W \in g[y \div W] <=> X2[z][y] = 1
  <2>1. y \div W \in 0 .. Stride - 1
    BY <1>1, CellPlace
  <2>2. g[y \div W] = m[Place(x, y \div W)]
    BY <2>1
  <2> HIDE DEF g, X2, x, z
  <2> QED BY <1>1, <1>2, <2>2, HoldsBits
<1> HIDE DEF m2, X2, g
<1>9. WritesRow(m, X, m2, X2, w, s, g)
  BY <1>2, <1>5, <1>6, <1>7, <1>8 DEF WritesRow
<1>10. Holds(m2, X2)
  BY <1>9, RowWritten
<1> QED BY <1>10 DEF m2, X2

(* The matrix is as it was where the memory is.                            *)
LEMMA SameHolds ==
  ASSUME Assumptions, NEW m, NEW X, Holds(m, X), NEW X2 \in Matrices,
         \A x \in Rows, y \in Cols : X2[x][y] = X[x][y]
  PROVE  Holds(m, X2)
BY DEF Holds

LEMMA MultRowHolds ==
  ASSUME Assumptions, NEW m, NEW X, Holds(m, X), NEW v, IsView(v),
         NEW r \in ViewRows(v), NEW alpha \in 0 .. 1
  PROVE  Holds(mult_row(m, v, r, alpha), RowScaled(X, v, r, alpha))
<1> DEFINE m2 == mult_row(m, v, r, alpha)
           X2 == RowScaled(X, v, r, alpha)
           z == v.r0 + r
           g == [l \in 0 .. Stride - 1 |-> {}]
<1>1. z \in Rows /\ m \in Memory /\ X \in Matrices
  BY ViewNumbers DEF Holds
<1>2. \A b \in 0 .. 1 : Mul(alpha, b) = IF alpha = 1 THEN b ELSE 0
  BY DEF Assumptions
<1>3. /\ X2 \in Matrices
      /\ \A u \in Rows, y \in Cols :
           X2[u][y] = IF u = z /\ alpha = 0 THEN 0 ELSE X[u][y]
  <2>1. X2 = [u \in Rows |-> [y \in Cols |-> IF u = z THEN Mul(alpha, X[z][y]) ELSE X[u][y]]]
    BY <1>1, ViewNumbers DEF RowScaled, Put, Matrices, At
  <2>2. \A u \in Rows, y \in Cols : X[u][y] \in 0 .. 1
    BY <1>1 DEF Matrices
  <2>3. \A y \in Cols : Mul(alpha, X[z][y]) = IF alpha = 0 THEN 0 ELSE X[z][y]
    BY <1>1, <1>2, <2>2
  <2> HIDE DEF X2, z
  <2> QED BY <1>1, <2>1, <2>2, <2>3 DEF Matrices
<1>4. CASE alpha = 1
  <2>1. m2 = m
    BY <1>4 DEF mult_row
  <2> HIDE DEF X2, m2
  <2> QED BY <1>3, <1>4, <2>1, SameHolds DEF X2, m2
<1>5. CASE alpha = 0
  <2>1. m2 = [k \in Words |-> IF k \in RowWords(v, r) THEN {} ELSE m[k]]
    BY <1>1, <1>5 DEF mult_row, clear_row, Memory
  <2>2. ASSUME NEW l \in 0 .. Stride - 1 PROVE m2[Place(z, l)] = g[l]
    <3>1. Place(z, l) \in Words /\ Place(z, l) \in RowWords(v, r)
      BY ViewNumbers, PlaceIn, RowWordsAre
    <3> HIDE DEF m2
    <3> QED BY <2>1, <3>1
  <2>3. ASSUME NEW y \in Cols PROVE y % W \in g[y \div W] <=> X2[z][y] = 1
    <3>1. y \div W \in 0 .. Stride - 1
      BY <1>1, CellPlace
    <3> HIDE DEF X2
    <3> QED BY <1>1, <1>3, <1>5, <3>1
  <2> HIDE DEF m2, X2
  <2>4. g \in [0 .. Stride - 1 -> SUBSET Bits]
    OBVIOUS
  <2>5. m2 = [k \in Words |-> IF k \in RowWords(v, r) THEN m2[k] ELSE m[k]]
    BY <2>1
  <2> HIDE DEF g
  <2>6. WritesRow(m, X, m2, X2, v, r, g)
    BY <1>3, <2>2, <2>3, <2>4, <2>5 DEF WritesRow
  <2> QED BY <2>6, RowWritten DEF m2, X2
<1> QED BY <1>4, <1>5

(* Adding a multiple of a row, element by element.                         *)
LEMMA RowAddedIs ==
  ASSUME Assumptions, NEW X \in Matrices, NEW v, IsView(v), NEW w, IsView(w),
         NEW r \in ViewRows(v), NEW s \in ViewRows(w),
         NEW offs \in Nat, NEW alpha \in 0 .. 1
  PROVE  /\ RowAdded(X, v, r, offs, alpha, w, s) \in Matrices
         /\ \A u \in Rows, y \in Cols :
              RowAdded(X, v, r, offs, alpha, w, s)[u][y] =
                IF u = w.r0 + s /\ y >= offs /\ alpha = 1 /\ X[v.r0 + r][y] = 1
                THEN 1 - X[u][y] ELSE X[u][y]
<1> DEFINE X2 == RowAdded(X, v, r, offs, alpha, w, s)
           x == v.r0 + r
           z == w.r0 + s
<1>1. z \in Rows /\ x \in Rows
  BY ViewNumbers
<1>2. \A u \in Rows, y \in Cols : X[u][y] \in 0 .. 1
  BY DEF Matrices
<1>3. \A a, b \in 0 .. 1 :
        Add(a, Mul(alpha, b)) = IF alpha = 1 /\ b = 1 THEN 1 - a ELSE a
  <2> TAKE a, b \in 0 .. 1
  <2>1. Mul(alpha, b) \in 0 .. 1 /\ Mul(alpha, b) = IF alpha = 1 THEN b ELSE 0
    BY DEF Assumptions
  <2>2. Add(a, Mul(alpha, b)) = IF a = Mul(alpha, b) THEN 0 ELSE 1
    BY <2>1 DEF Assumptions
  <2>3. (a = 0 \/ a = 1) /\ (b = 0 \/ b = 1) /\ (alpha = 0 \/ alpha = 1)
    OBVIOUS
  <2> QED BY <2>1, <2>2, <2>3
<1>4. X2 = [u \in Rows |-> [y \in Cols |->
              IF u = z /\ y >= offs THEN Add(X[z][y], Mul(alpha, X[x][y])) ELSE X[u][y]]]
  <2>1. NCol \in Int
    BY DEF Assumptions
  <2>2. \A u, y : u - w.r0 \in {s} /\ u \in Rows <=> u = z
    BY <1>1, ViewNumbers
  <2>3. \A y \in Cols : y - w.c0 \in offs .. w.n_col - 1 <=> y >= offs
    BY <2>1, ViewNumbers DEF Cols
  <2>4. w.c0 = 0 /\ v.c0 = 0 /\ Cols \subseteq Int /\ Rows \subseteq Int /\ w.r0 \in Int /\ s \in Int
    BY ViewNumbers
  <2>5. DOMAIN X = Rows /\ \A u \in Rows : DOMAIN X[u] = Cols
    BY DEF Matrices
  <2>6. \A y \in Cols : y - 0 = y /\ 0 + y = y
    BY <2>4
  <2>7. \A u \in Rows : u = z => u - w.r0 = s
    BY <2>4
  <2>8. X2 = [u \in Rows |-> [y \in Cols |->
              IF u - w.r0 \in {s} /\ y - w.c0 \in offs .. w.n_col - 1
              THEN Add(X[w.r0 + (u - w.r0)][w.c0 + (y - w.c0)],
                       Mul(alpha, X[x][v.c0 + (y - w.c0)])) ELSE X[u][y]]]
    BY <2>5 DEF RowAdded, Put, At
  <2> HIDE DEF X2, x
  <2> QED BY <2>2, <2>3, <2>4, <2>6, <2>7, <2>8
<1>5. ASSUME NEW u \in Rows, NEW y \in Cols
      PROVE  X2[u][y] = IF u = z /\ y >= offs /\ alpha = 1 /\ X[x][y] = 1
                        THEN 1 - X[u][y] ELSE X[u][y]
  <2> HIDE DEF X2, x, z
  <2> QED BY <1>1, <1>2, <1>3, <1>4
<1>6. X2 \in Matrices
  <2> HIDE DEF X2, x, z
  <2>1. \A u \in Rows, y \in Cols : X2[u][y] \in 0 .. 1
    BY <1>2, <1>5
  <2>2. X2 = [u \in Rows |-> [y \in Cols |-> X2[u][y]]]
    BY <1>4
  <2> QED BY <2>1, <2>2 DEF Matrices
<1> QED BY <1>5, <1>6

(* Exclusive or of words adds the bits.                                    *)
LEMMA MultAddRowHolds ==
  ASSUME Assumptions, NEW m, NEW X, Holds(m, X), NEW v, IsView(v), NEW w, IsView(w),
         NEW r \in ViewRows(v), NEW s \in ViewRows(w), NEW alpha \in 0 .. 1
  PROVE  Holds(multadd_row(m, v, r, alpha, w, s), RowAdded(X, v, r, 0, alpha, w, s))
<1> DEFINE m2 == multadd_row(m, v, r, alpha, w, s)
           X2 == RowAdded(X, v, r, 0, alpha, w, s)
           x == v.r0 + r
           z == w.r0 + s
           d == get_word(v, r, 0) - get_word(w, s, 0)
           g == [l \in 0 .. Stride - 1 |-> Xor(m[Place(z, l)], m[Place(x, l)])]
<1>1. x \in Rows /\ z \in Rows /\ m \in Memory /\ X \in Matrices
  BY ViewNumbers DEF Holds
<1>2. /\ X2 \in Matrices
      /\ \A u \in Rows, y \in Cols :
           X2[u][y] = IF u = z /\ alpha = 1 /\ X[x][y] = 1 THEN 1 - X[u][y] ELSE X[u][y]
  <2>1. 0 \in Nat /\ \A y \in Cols : y >= 0
    BY DEF Assumptions, Cols
  <2>2. /\ RowAdded(X, v, r, 0, alpha, w, s) \in Matrices
        /\ \A u \in Rows, y \in Cols :
             RowAdded(X, v, r, 0, alpha, w, s)[u][y] =
               IF u = w.r0 + s /\ y >= 0 /\ alpha = 1 /\ X[v.r0 + r][y] = 1
               THEN 1 - X[u][y] ELSE X[u][y]
    <3> HIDE DEF X2, x, z
    <3> QED BY <1>1, <2>1, RowAddedIs, SMTT(20)
  <2> QED BY <2>1, <2>2
<1>3. CASE alpha = 0
  <2>1. m2 = m
    BY <1>3 DEF multadd_row
  <2> HIDE DEF X2, m2
  <2> QED BY <1>2, <1>3, <2>1, SameHolds DEF X2, m2
<1>4. CASE alpha # 0
  <2>1. m2 = [k \in Words |-> IF k \in RowWords(w, s) THEN Xor(m[k], m[k + d]) ELSE m[k]]
    BY <1>1, <1>4 DEF multadd_row, Memory
  <2>2. ASSUME NEW l \in 0 .. Stride - 1
        PROVE  /\ Place(z, l) + d = Place(x, l) /\ Place(z, l) \in Words
               /\ Place(z, l) \in RowWords(w, s) /\ g[l] \in SUBSET Bits
    <3>1. Place(z, l) + d = Place(x, l)
      BY RowShift
    <3>2. Place(x, l) \in Words /\ Place(z, l) \in Words
      BY ViewNumbers, PlaceIn
    <3>3. Place(z, l) \in RowWords(w, s)
      BY ViewNumbers, RowWordsAre
    <3>4. m[Place(x, l)] \in SUBSET Bits /\ m[Place(z, l)] \in SUBSET Bits
      BY <1>1, <3>2 DEF Memory
    <3> QED BY <3>1, <3>2, <3>3, <3>4 DEF Xor
  <2>3. \A l \in 0 .. Stride - 1 : m2[Place(z, l)] = g[l]
    <3> HIDE DEF m2, d, x, z
    <3> QED BY <2>1, <2>2
  <2>4. m2 = [k \in Words |-> IF k \in RowWords(w, s) THEN m2[k] ELSE m[k]]
    <3> HIDE DEF m2, d
    <3> QED BY <2>1
  <2>5. g \in [0 .. Stride - 1 -> SUBSET Bits]
    BY <2>2
  <2>6. ASSUME NEW y \in Cols PROVE y % W \in g[y \div W] <=> X2[z][y] = 1
    <3>1. y \div W \in 0 .. Stride - 1
      BY <1>1, CellPlace
    <3>2. g[y \div W] = Xor(m[Place(z, y \div W)], m[Place(x, y \div W)])
      BY <3>1
    <3>3. /\ X[x][y] \in 0 .. 1 /\ (y % W \in m[Place(x, y \div W)] <=> X[x][y] = 1)
          /\ X[z][y] \in 0 .. 1 /\ (y % W \in m[Place(z, y \div W)] <=> X[z][y] = 1)
      BY <1>1, HoldsBits
    <3>4. alpha = 1
      BY <1>4
    <3> HIDE DEF g, X2, x, z
    <3> QED BY <1>1, <1>2, <3>2, <3>3, <3>4 DEF Xor
  <2> HIDE DEF m2, X2, g
  <2>7. WritesRow(m, X, m2, X2, w, s, g)
    BY <1>2, <2>3, <2>4, <2>5, <2>6 DEF WritesRow
  <2> QED BY <2>7, RowWritten DEF m2, X2
<1> QED BY <1>3, <1>4

(* Columns are ordered by word, then by bit.                               *)
LEMMA ColumnOrder ==
  ASSUME Assumptions, NEW c \in 0 .. Stride * W - 1, NEW y \in 0 .. Stride * W - 1
  PROVE  y >= c <=> y \div W > c \div W \/ (y \div W = c \div W /\ y % W >= c % W)
<1> DEFINE p == c \div W
           q == y \div W
<1>1. W \in Nat \ {0} /\ Stride * W \in Int /\ c \in Int /\ y \in Int
  BY WordsOfRow DEF Assumptions
<1>2. p \in Int /\ c % W \in 0 .. W - 1 /\ c = p * W + (c % W)
  BY <1>1, Quotient
<1>3. q \in Int /\ y % W \in 0 .. W - 1 /\ y = q * W + (y % W)
  BY <1>1, Quotient
<1> HIDE DEF p, q
<1>4. p * W \in Int /\ q * W \in Int
  BY <1>1, <1>2, <1>3
<1>5. p < q => p * W + W <= q * W
  BY <1>1, <1>2, <1>3, Product
<1>6. q < p => q * W + W <= p * W
  BY <1>1, <1>2, <1>3, Product
<1>7. p < q \/ q < p \/ p = q
  BY <1>2, <1>3
<1>8. y >= c <=> q > p \/ (q = p /\ y % W >= c % W)
  BY <1>1, <1>2, <1>3, <1>4, <1>5, <1>6, <1>7
<1> QED BY <1>8 DEF p, q

LEMMA MultAddRowFromHolds ==
  ASSUME Assumptions, NEW m, NEW X, Holds(m, X), NEW v, IsView(v), NEW w, IsView(w),
         NEW r \in ViewRows(v), NEW s \in ViewRows(w), NEW alpha \in 0 .. 1,
         NEW offs \in 0 .. Stride * W - 1
  PROVE  Holds(multadd_row_from(m, v, r, offs, alpha, w, s), RowAdded(X, v, r, offs, alpha, w, s))
<1> DEFINE m2 == multadd_row_from(m, v, r, offs, alpha, w, s)
           X2 == RowAdded(X, v, r, offs, alpha, w, s)
           x == v.r0 + r
           z == w.r0 + s
           o == offs \div W
           mask == offs % W .. W - 1
           g == [l \in 0 .. Stride - 1 |->
                   IF l = o THEN Xor(m[Place(z, l)], m[Place(x, l)] \cap mask)
                   ELSE IF l > o THEN Xor(m[Place(z, l)], m[Place(x, l)]) ELSE m[Place(z, l)]]
<1>1. x \in Rows /\ z \in Rows /\ m \in Memory /\ X \in Matrices
  BY ViewNumbers DEF Holds
<1>2. Stride \in Nat \ {0} /\ W \in Nat \ {0} /\ offs \in Nat
      /\ o \in 0 .. Stride - 1 /\ offs % W \in 0 .. W - 1 /\ x \in Int /\ z \in Int
      /\ s \in Int /\ r \in Int /\ 0 \in 0 .. Stride * W - 1
  <2>1. Stride \in Nat \ {0} /\ W \in Nat \ {0} /\ Stride * W \in Int
    BY WordsOfRow DEF Assumptions
  <2>2. o \in 0 .. Stride - 1 /\ offs % W \in 0 .. W - 1
    BY ColumnPlace DEF Bits
  <2>3. x \in Int /\ z \in Int /\ s \in Int /\ r \in Int
    BY <1>1, ViewNumbers
  <2> QED BY <2>1, <2>2, <2>3
<1>3. /\ X2 \in Matrices
      /\ \A u \in Rows, y \in Cols :
           X2[u][y] = IF u = z /\ y >= offs /\ alpha = 1 /\ X[x][y] = 1
                      THEN 1 - X[u][y] ELSE X[u][y]
  <2> HIDE DEF o, mask, g, m2
  <2>1. X \in Matrices /\ offs \in Nat
    BY <1>1, <1>2
  <2> QED BY <2>1, RowAddedIs
<1>4. CASE alpha = 0
  <2>1. m2 = m
    BY <1>4 DEF multadd_row_from
  <2> HIDE DEF X2, m2
  <2> QED BY <1>3, <1>4, <2>1, SameHolds DEF X2, m2
<1>5. CASE alpha # 0
  <2> DEFINE ot == Place(z, o)
             o1 == Place(x, o)
             oe == Place(z + 1, 0)
  <2>1. get_word(v, r, offs) = o1 /\ get_word(w, s, offs) = ot
    BY <1>2, WordIs
  <2>2. get_word(w, s + 1, 0) = oe
    <3>1. s + 1 \in Int /\ w.r0 + (s + 1) = z + 1
      BY <1>2, ViewNumbers
    <3> QED BY <1>2, <3>1, WordIs
  <2>3. m2 = [k \in Words |->
                CASE k = ot -> Xor(m[k], m[o1] \cap mask)
                  [] k \in ot + 1 .. oe - 1 -> Xor(m[k], m[k - ot + o1])
                  [] OTHER -> m[k]]
    BY <1>1, <1>5, <2>1, <2>2
    DEF multadd_row_from, FirstWordMask, RowEnd, get_bit, Memory
  <2>4. oe = z * Stride + Stride /\ z * Stride \in Int /\ x * Stride \in Int
    BY <1>2 DEF Place
  <2>5. ASSUME NEW l \in 0 .. Stride - 1
        PROVE  /\ Place(z, l) = ot <=> l = o
               /\ Place(z, l) \in ot + 1 .. oe - 1 <=> l > o
               /\ Place(z, l) - ot + o1 = Place(x, l)
               /\ Place(z, l) \in Words /\ Place(z, l) \in RowWords(w, s)
               /\ m[Place(z, l)] \in SUBSET Bits /\ m[Place(x, l)] \in SUBSET Bits
    <3>1. Place(x, l) \in Words /\ Place(z, l) \in Words
      BY ViewNumbers, PlaceIn
    <3>2. Place(z, l) \in RowWords(w, s)
      BY ViewNumbers, RowWordsAre
    <3>3. m[Place(x, l)] \in SUBSET Bits /\ m[Place(z, l)] \in SUBSET Bits
      BY <1>1, <3>1 DEF Memory
    <3>4. /\ Place(z, l) = ot <=> l = o
          /\ Place(z, l) \in ot + 1 .. oe - 1 <=> l > o
          /\ Place(z, l) - ot + o1 = Place(x, l)
      <4> HIDE DEF x, z, o
      <4>1. Place(z, l) = z * Stride + l /\ ot = z * Stride + o /\ o1 = x * Stride + o
            /\ Place(x, l) = x * Stride + l
        BY DEF Place
      <4> HIDE DEF ot, o1, oe
      <4> QED BY <1>2, <2>4, <4>1
    <3> QED BY <3>1, <3>2, <3>3, <3>4
  <2>6. ASSUME NEW k \in Words, k \notin RowWords(w, s) PROVE m2[k] = m[k]
    <3>1. k # ot
      <4>1. Place(z, o) \in RowWords(w, s)
        BY <1>2, <2>5
      <4> QED BY <2>6, <4>1
    <3>2. k \notin ot + 1 .. oe - 1
      <4> SUFFICES ASSUME k \in ot + 1 .. oe - 1 PROVE FALSE
        OBVIOUS
      <4> DEFINE l == k - z * Stride
      <4>1. l \in 0 .. Stride - 1 /\ k = Place(z, l)
        <5> HIDE DEF x, z, o
        <5>1. ot = z * Stride + o
          BY DEF Place
        <5> HIDE DEF ot, oe
        <5> QED BY <1>2, <2>4, <5>1 DEF Place
      <4> HIDE DEF l
      <4>2. Place(z, l) \in RowWords(w, s)
        BY <2>5, <4>1
      <4> QED BY <2>6, <4>1, <4>2
    <3> HIDE DEF m2, ot, o1, oe, mask
    <3> QED BY <2>3, <3>1, <3>2
  <2>7. ASSUME NEW l \in 0 .. Stride - 1 PROVE m2[Place(z, l)] = g[l]
    <3>1. l \in Int /\ o \in Int
      BY <1>2
    <3>2. m2[Place(z, l)] = IF l = o THEN Xor(m[Place(z, l)], m[o1] \cap mask)
                            ELSE IF l > o THEN Xor(m[Place(z, l)], m[Place(x, l)])
                            ELSE m[Place(z, l)]
      <4> HIDE DEF m2, ot, o1, oe, x, z, o, mask
      <4>1. CASE l = o
        BY <2>3, <2>5, <4>1
      <4>2. CASE l # o /\ l > o
        BY <2>3, <2>5, <4>2
      <4>3. CASE l # o /\ ~(l > o)
        BY <2>3, <2>5, <4>3
      <4> QED BY <4>1, <4>2, <4>3
    <3> HIDE DEF m2, x, z, o, mask
    <3> QED BY <3>2
  <2>8. g \in [0 .. Stride - 1 -> SUBSET Bits]
    <3>1. \A l \in 0 .. Stride - 1 : g[l] \in SUBSET Bits
      <4> HIDE DEF x, z, o, mask
      <4> QED BY <2>5 DEF Xor
    <3> QED BY <3>1
  <2>9. ASSUME NEW y \in Cols PROVE y % W \in g[y \div W] <=> X2[z][y] = 1
    <3> DEFINE l == y \div W
    <3>1. l \in 0 .. Stride - 1 /\ y % W \in 0 .. W - 1 /\ y \in 0 .. Stride * W - 1
      <4>1. Stride * W \in Int /\ NCol <= Stride * W /\ NCol \in Nat
        BY WordsOfRow DEF Assumptions
      <4> QED BY <1>1, <4>1, CellPlace DEF Bits, Cols
    <3>2. /\ X[x][y] \in 0 .. 1 /\ (y % W \in m[Place(x, l)] <=> X[x][y] = 1)
          /\ X[z][y] \in 0 .. 1 /\ (y % W \in m[Place(z, l)] <=> X[z][y] = 1)
      BY <1>1, HoldsBits
    <3>3. y >= offs <=> l > o \/ (l = o /\ y % W >= offs % W)
      BY <3>1, ColumnOrder
    <3>4. y % W \in mask <=> y % W >= offs % W
      BY <1>2, <3>1
    <3>5. alpha = 1
      BY <1>5
    <3>6. X2[z][y] = IF y >= offs /\ X[x][y] = 1 THEN 1 - X[z][y] ELSE X[z][y]
      <4> HIDE DEF X2, x, z
      <4> QED BY <1>1, <1>3, <3>5
    <3>7. y % W \in g[l] <=>
            IF l > o \/ (l = o /\ y % W \in mask)
            THEN (y % W \in m[Place(z, l)]) # (y % W \in m[Place(x, l)])
            ELSE y % W \in m[Place(z, l)]
      <4>1. g[l] = IF l = o THEN Xor(m[Place(z, l)], m[Place(x, l)] \cap mask)
                   ELSE IF l > o THEN Xor(m[Place(z, l)], m[Place(x, l)]) ELSE m[Place(z, l)]
        BY <3>1
      <4>2. l \in Int /\ o \in Int
        BY <1>2, <3>1
      <4> HIDE DEF g, l, o, x, z, mask
      <4> QED BY <4>1, <4>2 DEF Xor
    <3> HIDE DEF g, l, o, x, z, mask, X2
    <3> QED BY <3>2, <3>3, <3>4, <3>6, <3>7 DEF l
  <2> HIDE DEF m2, X2, g
  <2>10. m2 = [k \in Words |-> IF k \in RowWords(w, s) THEN m2[k] ELSE m[k]]
    <3> HIDE DEF x, z, o, mask, ot, o1, oe
    <3>1. m2 = [k \in Words |-> m2[k]]
      BY <2>3
    <3> QED BY <2>6, <3>1
  <2>11. WritesRow(m, X, m2, X2, w, s, g)
    BY <1>3, <2>7, <2>8, <2>9, <2>10 DEF WritesRow
  <2> QED BY <2>11, RowWritten DEF m2, X2
<1> QED BY <1>4, <1>5

LEMMA ToggleElHolds ==
  ASSUME Assumptions, NEW m, NEW X, Holds(m, X), NEW v, IsView(v),
         NEW r \in ViewRows(v), NEW c \in ViewCols(v)
  PROVE  Holds(toggle_el(m, v, r, c), ElementSet(X, v, r, c, 1 - At(X, v, r, c)))
<1> DEFINE z == v.r0 + r
           b == 1 - At(X, v, r, c)
           p == Place(z, c \div W)
<1>1. z \in Rows /\ c \in Cols /\ v.c0 + c = c /\ m \in Memory
  BY ViewNumbers DEF Holds
<1>2. X[z][c] \in 0 .. 1 /\ (c % W \in m[p] <=> X[z][c] = 1)
  BY <1>1, HoldsBits
<1>3. b = 1 - X[z][c] /\ b \in 0 .. 1 /\ (b = 1 <=> c % W \notin m[p])
  BY <1>1, <1>2 DEF At
<1>4. Xor(m[p], {c % W}) = WithBit(m[p], c % W, b)
  <2> HIDE DEF b, p
  <2> QED BY <1>3 DEF Xor, WithBit
<1>5. get_word(v, r, c) = p
  BY <1>1, ElementIs
<1>6. toggle_el(m, v, r, c) = set_el(m, v, r, c, b)
  <2> HIDE DEF b, p
  <2> QED BY <1>4, <1>5 DEF toggle_el, set_el, get_bit
<1>7. Holds(set_el(m, v, r, c, b), ElementSet(X, v, r, c, b))
  <2> HIDE DEF b
  <2> QED BY <1>3, SetElHolds
<1> QED BY <1>6, <1>7

(* The row of a word, as seen from a view.                                 *)
LEMMA RowOf ==
  ASSUME Assumptions, NEW v, IsView(v), NEW x \in Rows \cup {NRow}, NEW l \in 0 .. Stride - 1
  PROVE  /\ (Place(x, l) - v.e) \div v.row_stride = x - v.r0
         /\ Place(x, l) < v.e <=> x < v.r0
<1>1. Stride \in Nat \ {0} /\ x \in Int /\ v.r0 \in Int /\ l \in Int
      /\ v.e = v.r0 * Stride /\ v.row_stride = Stride
  BY WordsOfRow, ViewNumbers DEF IsView, Assumptions
<1>2. (x - v.r0) * Stride = x * Stride - v.r0 * Stride
  BY <1>1
<1> DEFINE n == Place(x, l) - v.e
<1>3. n = (x - v.r0) * Stride + l /\ n \in Int
      /\ x * Stride \in Int /\ v.r0 * Stride \in Int
  BY <1>1, <1>2 DEF Place
<1>4. n \div Stride \in Int /\ n % Stride \in 0 .. Stride - 1
      /\ n = (n \div Stride) * Stride + (n % Stride)
  <2> HIDE DEF n
  <2> QED BY <1>1, <1>3, Quotient, ZenonT(20)
<1>5. n \div Stride = x - v.r0
  <2> HIDE DEF n
  <2>1. (n \div Stride) * Stride + (n % Stride) = (x - v.r0) * Stride + l /\ x - v.r0 \in Int
    BY <1>1, <1>3, <1>4
  <2> DEFINE q == n \div Stride
             u == x - v.r0
             t == n % Stride
  <2>2. q \in Int /\ u \in Int /\ t \in 0 .. Stride - 1 /\ q * Stride + t = u * Stride + l
    BY <1>4, <2>1
  <2> HIDE DEF q, u, t
  <2>3. q = u
    BY <1>1, <2>2, QuotientIs
  <2> QED BY <2>3 DEF q, u
<1>6. x < v.r0 => x * Stride + Stride <= v.r0 * Stride
  BY <1>1, Product
<1>7. v.r0 < x => v.r0 * Stride + Stride <= x * Stride
  BY <1>1, Product
<1>8. Place(x, l) < v.e <=> x < v.r0
  BY <1>1, <1>3, <1>6, <1>7 DEF Place
<1> QED BY <1>1, <1>5, <1>8

LEMMA SwapColsHolds ==
  ASSUME Assumptions, NEW m, NEW X, Holds(m, X), NEW v, IsView(v),
         NEW c \in ViewCols(v), NEW d \in ViewCols(v)
  PROVE  Holds(swap_cols(m, v, c, d), ColsSwapped(X, v, c, d))
<1> DEFINE m2 == swap_cols(m, v, c, d)
           X2 == ColsSwapped(X, v, c, d)
           row(k) == (k - v.e) \div v.row_stride
           half(k) == IF k = get_word(v, row(k), c)
                      THEN WithBit(m[k], c % W, get_el(m, v, row(k), d)) ELSE m[k]
           shown(x) == x - v.r0 \in ViewRows(v)
<1>1. m \in Memory /\ X \in Matrices /\ c \in Cols /\ d \in Cols /\ NRow \in Nat \ {0}
  BY ViewNumbers DEF Holds, Assumptions
<1>2. 0 \in Rows
  BY <1>1 DEF Rows
<1>3. c % W \in Bits /\ d % W \in Bits /\ c \div W \in 0 .. Stride - 1 /\ d \div W \in 0 .. Stride - 1
  BY <1>1, <1>2, CellPlace
<1>4. /\ X2 \in Matrices
      /\ \A x \in Rows, y \in Cols :
           X2[x][y] = IF shown(x) /\ y = c THEN X[x][d]
                      ELSE IF shown(x) /\ y = d THEN X[x][c] ELSE X[x][y]
  <2>1. X2 = [x \in Rows |-> [y \in Cols |->
                IF shown(x) /\ y \in {c, d} THEN X[x][IF y = c THEN d ELSE c] ELSE X[x][y]]]
    BY <1>1, ViewNumbers DEF ColsSwapped, Put, At, Matrices
  <2> HIDE DEF X2, shown
  <2> QED BY <1>1, <2>1 DEF Matrices
<1>5. m2 = [k \in Words |->
              IF k < v.e \/ row(k) >= v.n_row THEN m[k]
              ELSE IF k = get_word(v, row(k), d)
                   THEN WithBit(half(k), d % W, get_el(m, v, row(k), c)) ELSE half(k)]
  BY <1>1 DEF swap_cols, get_bit, Memory
<1>6. m2 \in Memory
  <2> SUFFICES ASSUME NEW k \in Words PROVE m2[k] \in SUBSET Bits
    BY <1>5 DEF Memory
  <2>1. m[k] \in SUBSET Bits
    BY <1>1 DEF Memory
  <2>2. half(k) \in SUBSET Bits
    BY <1>3, <2>1 DEF WithBit
  <2> HIDE DEF half, m2, row
  <2> QED BY <1>3, <1>5, <2>1, <2>2 DEF WithBit
<1>7. ASSUME NEW w \in Behind PROVE m2[w] = m[w]
  <2>1. PICK l \in 0 .. Stride - 1 : w = Place(NRow, l)
    BY BehindPlace
  <2>2. w \in Words
    <3>1. NRow \in 0 .. NRow
      BY <1>1
    <3> QED BY <2>1, <3>1, PlaceIn
  <2>3. row(w) >= v.n_row
    <3>1. row(w) = NRow - v.r0
      BY <2>1, RowOf
    <3> QED BY <1>1, <3>1, ViewNumbers DEF IsView
  <2> HIDE DEF half, m2, row
  <2> QED BY <1>5, <2>2, <2>3
<1>8. ASSUME NEW x \in Rows, NEW y \in Cols
      PROVE  y % W \in m2[Place(x, y \div W)] <=> X2[x][y] = 1
  <2> DEFINE l == y \div W
             k == Place(x, l)
  <2>1. l \in 0 .. Stride - 1 /\ k \in Words /\ x \in Int /\ y \in Int /\ c \in Int /\ d \in Int
    BY <1>1, CellPlace, ViewNumbers
  <2>2. row(k) = x - v.r0 /\ (k < v.e <=> x < v.r0)
    BY <2>1, RowOf
  <2>3. shown(x) <=> ~(k < v.e \/ row(k) >= v.n_row)
    <3>1. v.r0 \in Int /\ v.n_row \in Int
      BY ViewTypes
    <3> HIDE DEF k, row
    <3> QED BY <2>1, <2>2, <3>1 DEF ViewRows
  <2>4. y % W \in m[k] <=> X[x][y] = 1
    BY HoldsBits
  <2>5. CASE ~shown(x)
    <3>1. m2[k] = m[k]
      <4> HIDE DEF half, m2, row, k, shown
      <4> QED BY <1>5, <2>1, <2>3, <2>5
    <3> HIDE DEF m2, X2, shown
    <3> QED BY <1>4, <2>4, <2>5, <3>1
  <2>6. CASE shown(x)
    <3> DEFINE r == x - v.r0
    <3>1. r \in ViewRows(v) /\ v.r0 + r = x
      BY <2>1, <2>6, ViewNumbers
    <3>2. /\ get_word(v, r, c) = Place(x, c \div W) /\ get_el(m, v, r, c) = Get(m, x, c)
          /\ get_word(v, r, d) = Place(x, d \div W) /\ get_el(m, v, r, d) = Get(m, x, d)
      <4> HIDE DEF r
      <4> QED BY <1>1, <3>1, ElementIs
    <3>3. Get(m, x, c) = X[x][c] /\ Get(m, x, d) = X[x][d]
      BY <1>1 DEF Holds
    <3>4. /\ k = Place(x, c \div W) <=> l = c \div W
          /\ k = Place(x, d \div W) <=> l = d \div W
      BY <1>3, <2>1, PlaceApart
    <3>5. half(k) = IF l = c \div W THEN WithBit(m[k], c % W, X[x][d]) ELSE m[k]
      <4> HIDE DEF k, l
      <4> QED BY <2>2, <3>2, <3>3, <3>4
    <3>6. m2[k] = IF l = d \div W THEN WithBit(half(k), d % W, X[x][c]) ELSE half(k)
      <4>1. m2[k] = IF k = get_word(v, r, d)
                    THEN WithBit(half(k), d % W, get_el(m, v, r, c)) ELSE half(k)
        <5> HIDE DEF half, m2, row, k, shown
        <5> QED BY <1>5, <2>1, <2>2, <2>3, <2>6
      <4> HIDE DEF half, m2, k, l
      <4> QED BY <3>2, <3>3, <3>4, <4>1
    <3>7. /\ l = c \div W /\ y % W = c % W <=> y = c
          /\ l = d \div W /\ y % W = d % W <=> y = d
      BY <2>1, ColumnApart
    <3>8. y % W \in half(k) <=> IF y = c THEN X[x][d] = 1 ELSE X[x][y] = 1
      <4> HIDE DEF half, k, l
      <4> QED BY <2>4, <3>5, <3>7 DEF WithBit
    <3>9. y % W \in m2[k] <=> IF y = d THEN X[x][c] = 1
                              ELSE IF y = c THEN X[x][d] = 1 ELSE X[x][y] = 1
      <4> HIDE DEF half, k, l, m2
      <4> QED BY <3>6, <3>7, <3>8 DEF WithBit
    <3>10. X2[x][y] = IF y = c THEN X[x][d] ELSE IF y = d THEN X[x][c] ELSE X[x][y]
      <4> HIDE DEF X2, shown
      <4> QED BY <1>4, <2>6
    <3>11. c = d \/ c # d
      OBVIOUS
    <3> HIDE DEF m2, X2, k
    <3> QED BY <3>9, <3>10, <3>11 DEF k
  <2> QED BY <2>5, <2>6
<1> HIDE DEF m2, X2
<1>9. Holds(m2, X2)
  BY <1>4, <1>6, <1>7, <1>8, HoldsIf
<1> QED BY <1>9 DEF m2, X2

LEMMA MultColFromHolds ==
  ASSUME Assumptions, NEW m, NEW X, Holds(m, X), NEW v, IsView(v),
         NEW c \in ViewCols(v), NEW offs \in 0 .. v.n_row, NEW alpha \in 0 .. 1
  PROVE  Holds(mult_col_from(m, v, c, offs, alpha), ColScaled(X, v, c, offs, alpha))
<1> DEFINE m2 == mult_col_from(m, v, c, offs, alpha)
           X2 == ColScaled(X, v, c, offs, alpha)
           span == offs .. v.n_row - 1
           hit(k) == \E r \in span : k = get_word(v, r, c)
           shown(x) == x - v.r0 \in span
<1>1. m \in Memory /\ X \in Matrices /\ c \in Cols /\ span \subseteq ViewRows(v)
  BY ViewTypes DEF Holds, ViewRows
<1>2. /\ X2 \in Matrices
      /\ \A x \in Rows, y \in Cols :
           X2[x][y] = IF shown(x) /\ y = c /\ alpha = 0 THEN 0 ELSE X[x][y]
  <2>1. X2 = [x \in Rows |-> [y \in Cols |->
                IF shown(x) /\ y = c THEN Mul(X[x][y], alpha) ELSE X[x][y]]]
    BY <1>1, ViewNumbers DEF ColScaled, Put, At, Matrices
  <2>2. \A b \in 0 .. 1 : Mul(b, alpha) = IF alpha = 0 THEN 0 ELSE b
    <3> SUFFICES ASSUME NEW b \in 0 .. 1 PROVE Mul(b, alpha) = IF alpha = 0 THEN 0 ELSE b
      OBVIOUS
    <3>1. Mul(b, alpha) = IF b = 1 THEN alpha ELSE 0
      BY DEF Assumptions
    <3> QED BY <3>1
  <2>3. \A x \in Rows, y \in Cols : X[x][y] \in 0 .. 1
    BY <1>1 DEF Matrices
  <2>4. \A x \in Rows, y \in Cols :
          X2[x][y] = IF shown(x) /\ y = c /\ alpha = 0 THEN 0 ELSE X[x][y]
    <3> HIDE DEF X2, shown
    <3> QED BY <2>1, <2>2, <2>3
  <2>5. \A x \in Rows, y \in Cols : X2[x][y] \in 0 .. 1
    <3> HIDE DEF X2, shown
    <3> QED BY <2>3, <2>4
  <2>6. X2 = [x \in Rows |-> [y \in Cols |-> X2[x][y]]]
    <3> HIDE DEF X2, shown
    <3>1. \A x \in Rows : X2[x] = [y \in Cols |-> X2[x][y]]
      BY <2>1
    <3> QED BY <2>1, <3>1
  <2> HIDE DEF X2, shown
  <2> QED BY <2>4, <2>5, <2>6 DEF Matrices
<1>3. CASE alpha # 0
  <2>1. m2 = m
    BY <1>3 DEF mult_col_from
  <2> HIDE DEF X2, m2, shown
  <2>2. \A x \in Rows, y \in Cols : X2[x][y] = X[x][y]
    BY <1>2, <1>3
  <2> QED BY <1>2, <2>1, <2>2, SameHolds DEF X2, m2
<1>4. CASE alpha = 0
  <2>1. m2 = [k \in Words |-> IF hit(k) THEN m[k] \ {c % W} ELSE m[k]]
    BY <1>1, <1>4 DEF mult_col_from, get_bit, Memory
  <2>2. \A r \in span : get_word(v, r, c) = Place(v.r0 + r, c \div W) /\ v.r0 + r \in Rows
    BY <1>1, ElementIs, ViewNumbers
  <2>3. m2 \in Memory
    <3> HIDE DEF hit
    <3> QED BY <1>1, <2>1 DEF Memory
  <2>4. ASSUME NEW w \in Behind PROVE m2[w] = m[w]
    <3>1. ~hit(w)
      <4> SUFFICES ASSUME NEW r \in span, w = get_word(v, r, c) PROVE FALSE
        OBVIOUS
      <4>1. w = Place(v.r0 + r, c \div W) /\ v.r0 + r \in Rows
        BY <2>2
      <4> QED BY <1>1, <4>1, CellPlace
    <3>2. w \in Words
      <4>1. NRow \in 0 .. NRow
        BY DEF Assumptions
      <4> QED BY <4>1, BehindPlace, PlaceIn
    <3> HIDE DEF hit, m2
    <3> QED BY <2>1, <3>1, <3>2
  <2>5. ASSUME NEW x \in Rows, NEW y \in Cols
        PROVE  y % W \in m2[Place(x, y \div W)] <=> X2[x][y] = 1
    <3> DEFINE l == y \div W
               k == Place(x, l)
    <3>1. l \in 0 .. Stride - 1 /\ k \in Words /\ x \in Int /\ y \in Int /\ c \in Int
          /\ c \div W \in 0 .. Stride - 1
      BY <1>1, CellPlace, ViewNumbers
    <3>2. hit(k) <=> shown(x) /\ l = c \div W
      <4>1. ASSUME hit(k) PROVE shown(x) /\ l = c \div W
        <5>1. PICK r \in span : k = get_word(v, r, c)
          BY <4>1
        <5>2. k = Place(v.r0 + r, c \div W) /\ v.r0 + r \in Rows
          BY <2>2, <5>1
        <5>3. v.r0 + r \in Int /\ v.r0 \in Int /\ r \in Int
          BY <1>1, ViewNumbers
        <5>4. x = v.r0 + r /\ l = c \div W
          <6> HIDE DEF l
          <6> QED BY <3>1, <5>2, <5>3, PlaceApart
        <5> QED BY <5>3, <5>4
      <4>2. ASSUME shown(x), l = c \div W PROVE hit(k)
        <5> DEFINE r == x - v.r0
        <5>1. r \in span /\ v.r0 + r = x
          BY <3>1, <4>2, ViewNumbers
        <5>2. k = get_word(v, r, c)
          <6> HIDE DEF r
          <6> QED BY <2>2, <4>2, <5>1
        <5> QED BY <5>1, <5>2
      <4> QED BY <4>1, <4>2
    <3>3. l = c \div W /\ y % W = c % W <=> y = c
      BY <3>1, ColumnApart
    <3>4. y % W \in m[k] <=> X[x][y] = 1
      BY HoldsBits
    <3>5. m2[k] = IF shown(x) /\ l = c \div W THEN m[k] \ {c % W} ELSE m[k]
      <4> HIDE DEF hit, m2, k, shown, l
      <4> QED BY <2>1, <3>1, <3>2
    <3> HIDE DEF m2, X2, k, shown, l
    <3>6. y % W \in m2[k] <=> X2[x][y] = 1
      BY <1>2, <1>4, <3>3, <3>4, <3>5
    <3> QED BY <3>6 DEF k, l
  <2> HIDE DEF m2, X2
  <2>6. Holds(m2, X2)
    BY <1>2, <2>3, <2>4, <2>5, HoldsIf
  <2> QED BY <2>6 DEF m2, X2
<1> QED BY <1>3, <1>4

LEMMA CopyColHolds ==
  ASSUME Assumptions, NEW m, NEW X, Holds(m, X), NEW v, IsView(v), NEW w, IsView(w),
         v.n_row = w.n_row, NEW c \in ViewCols(v), NEW d \in ViewCols(w)
  PROVE  Holds(copy_col(m, v, c, w, d), ColCopied(X, v, c, w, d))
<1> DEFINE m2 == copy_col(m, v, c, w, d)
           X2 == ColCopied(X, v, c, w, d)
           row(k) == (k - w.e) \div w.row_stride
           hit(k) == \E r \in ViewRows(w) : k = get_word(w, r, d)
           shown(x) == x - w.r0 \in ViewRows(w)
           from(x) == v.r0 + (x - w.r0)
<1>1. m \in Memory /\ X \in Matrices /\ c \in Cols /\ d \in Cols /\ ViewRows(v) = ViewRows(w)
  BY ViewNumbers DEF Holds, ViewRows
<1>2. \A x \in Rows : shown(x) => from(x) \in Rows
  BY <1>1, ViewNumbers
<1>3. /\ X2 \in Matrices
      /\ \A x \in Rows, y \in Cols :
           X2[x][y] = IF shown(x) /\ y = d THEN X[from(x)][c] ELSE X[x][y]
  <2>1. X2 = [x \in Rows |-> [y \in Cols |->
                IF shown(x) /\ y = d THEN X[from(x)][c] ELSE X[x][y]]]
    BY <1>1, ViewNumbers DEF ColCopied, Put, At, Matrices
  <2> HIDE DEF X2, shown, from
  <2> QED BY <1>1, <1>2, <2>1 DEF Matrices
<1>4. \A r \in ViewRows(w) : get_word(w, r, d) = Place(w.r0 + r, d \div W) /\ w.r0 + r \in Rows
  BY <1>1, ElementIs, ViewNumbers
<1>5. m2 = [k \in Words |-> IF hit(k) THEN WithBit(m[k], d % W, get_el(m, v, row(k), c)) ELSE m[k]]
  BY <1>1 DEF copy_col, get_bit, Memory
<1>6. d % W \in Bits /\ d \div W \in 0 .. Stride - 1
  <2>1. 0 \in Rows
    BY DEF Rows, Assumptions
  <2> QED BY <1>1, <2>1, CellPlace
<1>7. m2 \in Memory
  <2> HIDE DEF hit, row
  <2> QED BY <1>1, <1>5, <1>6 DEF Memory, WithBit
<1>8. ASSUME NEW k \in Behind PROVE m2[k] = m[k]
  <2>1. ~hit(k)
    <3> SUFFICES ASSUME NEW r \in ViewRows(w), k = get_word(w, r, d) PROVE FALSE
      OBVIOUS
    <3>1. k = Place(w.r0 + r, d \div W) /\ w.r0 + r \in Rows
      BY <1>4
    <3> QED BY <1>1, <3>1, CellPlace
  <2>2. k \in Words
    <3>1. NRow \in 0 .. NRow
      BY DEF Assumptions
    <3> QED BY <3>1, BehindPlace, PlaceIn
  <2> HIDE DEF hit, m2, row
  <2> QED BY <1>5, <2>1, <2>2
<1>9. ASSUME NEW x \in Rows, NEW y \in Cols
      PROVE  y % W \in m2[Place(x, y \div W)] <=> X2[x][y] = 1
  <2> DEFINE l == y \div W
             k == Place(x, l)
  <2>1. l \in 0 .. Stride - 1 /\ k \in Words /\ x \in Int /\ y \in Int /\ d \in Int
    BY <1>1, CellPlace, ViewNumbers
  <2>2. hit(k) <=> shown(x) /\ l = d \div W
    <3>1. ASSUME hit(k) PROVE shown(x) /\ l = d \div W
      <4>1. PICK r \in ViewRows(w) : k = get_word(w, r, d)
        BY <3>1
      <4>2. k = Place(w.r0 + r, d \div W) /\ w.r0 + r \in Rows
        BY <1>4, <4>1
      <4>3. w.r0 + r \in Int /\ w.r0 \in Int /\ r \in Int
        BY ViewNumbers
      <4>4. x = w.r0 + r /\ l = d \div W
        <5> HIDE DEF l
        <5> QED BY <1>6, <2>1, <4>2, <4>3, PlaceApart
      <4>5. x - w.r0 = r
        BY <4>3, <4>4
      <4> QED BY <4>4, <4>5
    <3>2. ASSUME shown(x), l = d \div W PROVE hit(k)
      <4> DEFINE r == x - w.r0
      <4>1. r \in ViewRows(w) /\ w.r0 + r = x
        BY <2>1, <3>2, ViewNumbers
      <4>2. k = get_word(w, r, d)
        <5> HIDE DEF r
        <5> QED BY <1>4, <3>2, <4>1
      <4> QED BY <4>1, <4>2
    <3> QED BY <3>1, <3>2
  <2>3. row(k) = x - w.r0
    BY <2>1, RowOf
  <2>4. l = d \div W /\ y % W = d % W <=> y = d
    BY <2>1, ColumnApart
  <2>5. y % W \in m[k] <=> X[x][y] = 1
    BY HoldsBits
  <2>6. shown(x) => get_el(m, v, x - w.r0, c) = X[from(x)][c]
    <3> SUFFICES ASSUME shown(x) PROVE get_el(m, v, x - w.r0, c) = X[from(x)][c]
      OBVIOUS
    <3>1. get_el(m, v, x - w.r0, c) = Get(m, from(x), c)
      <4> DEFINE r == x - w.r0
      <4>1. r \in ViewRows(v)
        BY <1>1
      <4> HIDE DEF r
      <4>2. get_el(m, v, r, c) = Get(m, v.r0 + r, c)
        BY <1>1, <4>1, ElementIs
      <4> QED BY <4>2 DEF r
    <3> QED BY <1>1, <1>2, <3>1 DEF Holds
  <2>7. m2[k] = IF shown(x) /\ l = d \div W THEN WithBit(m[k], d % W, X[from(x)][c]) ELSE m[k]
    <3> HIDE DEF hit, m2, k, shown, l, row, from
    <3> QED BY <1>5, <2>1, <2>2, <2>3, <2>6
  <2> HIDE DEF m2, X2, k, shown, l, from
  <2>8. y % W \in m2[k] <=> X2[x][y] = 1
    BY <1>3, <2>4, <2>5, <2>7 DEF WithBit
  <2> QED BY <2>8 DEF k, l
<1> HIDE DEF m2, X2
<1>10. Holds(m2, X2)
  BY <1>3, <1>7, <1>8, <1>9, HoldsIf
<1> QED BY <1>10 DEF m2, X2

(* The mask of the last word leaves out the bits behind the row only.      *)
LEMMA RowIsZeroSeen ==
  ASSUME Assumptions, NEW m, NEW X, Holds(m, X), NEW v, IsView(v), NEW r \in ViewRows(v)
  PROVE  row_iszero(m, v, r) <=> RowIsZero(X, v, r)
<1> DEFINE z == v.r0 + r
           last == NCol - 1
           oe == Place(z, Stride - 1)
           mask == 0 .. last % W
<1>1. /\ Stride \in Nat \ {0} /\ W \in Nat \ {0} /\ NCol \in Nat \ {0} /\ Stride * W \in Int
      /\ NCol <= Stride * W /\ last \div W = Stride - 1
  BY WordsOfRow DEF Assumptions
<1>2. m \in Memory /\ z \in Rows /\ z \in Int /\ r \in Int /\ last \in Cols
      /\ last \in 0 .. Stride * W - 1 /\ 0 \in 0 .. Stride * W - 1
      /\ Cols \subseteq 0 .. Stride * W - 1
  <2>1. m \in Memory /\ z \in Rows /\ z \in Int /\ r \in Int
    BY ViewNumbers DEF Holds
  <2>2. last \in Cols /\ last \in 0 .. Stride * W - 1 /\ 0 \in 0 .. Stride * W - 1
        /\ Cols \subseteq 0 .. Stride * W - 1
    BY <1>1 DEF Cols
  <2> QED BY <2>1, <2>2
<1>3. get_word(v, r, 0) = Place(z, 0) /\ get_word(v, r, last) = oe
  <2> HIDE DEF last
  <2> QED BY <1>1, <1>2, WordIs
<1>4. row_iszero(m, v, r) <=> /\ \A k \in Place(z, 0) .. oe - 1 : m[k] = {}
                              /\ m[oe] \cap mask = {}
  <2>1. v.n_col = NCol
    BY ViewNumbers
  <2> QED BY <1>3, <2>1 DEF row_iszero, LastWordMask, get_bit
<1>5. RowIsZero(X, v, r) <=> \A y \in Cols : X[z][y] = 0
  BY ViewNumbers DEF RowIsZero, At, Assumptions
<1>6. ASSUME NEW y \in Cols
      PROVE  /\ y \div W \in 0 .. Stride - 1
             /\ y \div W = Stride - 1 => y % W \in mask
             /\ y % W \in m[Place(z, y \div W)] <=> X[z][y] # 0
  <2>1. y \div W \in 0 .. Stride - 1 /\ y % W \in 0 .. W - 1 /\ last % W \in 0 .. W - 1
    BY <1>2, CellPlace DEF Bits
  <2>2. y \in 0 .. Stride * W - 1 /\ last >= y
    BY <1>1, <1>2 DEF Cols
  <2>3. last \div W > y \div W \/ (last \div W = y \div W /\ last % W >= y % W)
    <3> HIDE DEF last
    <3> QED BY <1>2, <2>2, ColumnOrder
  <2>4. y \div W = Stride - 1 => y % W \in mask
    <3>1. y \div W \in Int /\ Stride - 1 \in Int
      BY <1>1, <2>1
    <3> HIDE DEF last
    <3> QED BY <1>1, <2>1, <2>3, <3>1
  <2>5. X[z][y] \in 0 .. 1 /\ (y % W \in m[Place(z, y \div W)] <=> X[z][y] = 1)
    BY <1>2, HoldsBits
  <2> QED BY <2>1, <2>4, <2>5
<1>7. ASSUME NEW l \in 0 .. Stride - 1, NEW b \in Bits, l < Stride - 1 \/ b \in mask
      PROVE  \E y \in Cols : y \div W = l /\ y % W = b
  <2> DEFINE y == l * W + b
  <2>1. y \in 0 .. Stride * W - 1 /\ y \div W = l /\ y % W = b
    BY PlaceColumn
  <2>2. last >= y
    <3>1. last % W \in 0 .. W - 1 /\ b \in 0 .. W - 1
      BY <1>2, CellPlace DEF Bits
    <3>2. Stride - 1 > l \/ (Stride - 1 = l /\ last % W >= b)
      <4> HIDE DEF last
      <4> QED BY <1>1, <1>7, <3>1
    <3> HIDE DEF y, last
    <3> QED BY <1>1, <1>2, <2>1, <3>2, ColumnOrder
  <2>3. y \in Cols
    <3> HIDE DEF y
    <3> QED BY <1>1, <2>1, <2>2 DEF Cols
  <2> QED BY <2>1, <2>3
<1>8. ASSUME NEW k \in Place(z, 0) .. oe - 1
      PROVE  \E l \in 0 .. Stride - 1 : l < Stride - 1 /\ k = Place(z, l)
  <2>1. z * Stride \in Int
    BY <1>1, <1>2
  <2> DEFINE l == k - z * Stride
  <2> HIDE DEF z
  <2>2. l \in 0 .. Stride - 1 /\ l < Stride - 1 /\ k = Place(z, l)
    BY <1>1, <2>1 DEF Place
  <2> QED BY <2>2
<1>9. ASSUME row_iszero(m, v, r), NEW y \in Cols PROVE X[z][y] = 0
  <2> DEFINE l == y \div W
  <2>1. CASE l = Stride - 1
    BY <1>4, <1>6, <1>9, <2>1
  <2>2. CASE l # Stride - 1
    <3>1. Place(z, l) \in Place(z, 0) .. oe - 1
      <4>1. z * Stride \in Int /\ l \in 0 .. Stride - 1
        BY <1>1, <1>2, <1>6
      <4> HIDE DEF z, l
      <4> QED BY <1>1, <2>2, <4>1 DEF Place
    <3>2. m[Place(z, l)] = {}
      BY <1>4, <1>9, <3>1
    <3> QED BY <1>6, <3>2
  <2> QED BY <2>1, <2>2
<1>10. ASSUME \A y \in Cols : X[z][y] = 0, NEW l \in 0 .. Stride - 1, NEW b \in m[Place(z, l)],
              l < Stride - 1 \/ b \in mask
       PROVE  FALSE
  <2>1. Place(z, l) \in Words
    BY <1>2, ViewNumbers, PlaceIn
  <2>2. b \in Bits
    BY <1>2, <2>1 DEF Memory
  <2>3. PICK y \in Cols : y \div W = l /\ y % W = b
    BY <1>7, <1>10, <2>2
  <2> QED BY <1>6, <1>10, <2>3
<1>11. ASSUME \A y \in Cols : X[z][y] = 0 PROVE row_iszero(m, v, r)
  <2>1. ASSUME NEW k \in Place(z, 0) .. oe - 1 PROVE m[k] = {}
    <3>1. PICK l \in 0 .. Stride - 1 : l < Stride - 1 /\ k = Place(z, l)
      BY <1>8
    <3> QED BY <1>10, <1>11, <3>1
  <2>2. m[oe] \cap mask = {}
    <3>1. Stride - 1 \in 0 .. Stride - 1
      BY <1>1
    <3> QED BY <1>10, <1>11, <3>1
  <2> QED BY <1>4, <2>1, <2>2
<1> QED BY <1>5, <1>9, <1>11

-----------------------------------------------------------------------------
(* The calls *)

BitIInv == Holds(mem, matrix) /\ IsView(A) /\ IsView(B)

LEMMA BitInitHolds ==
  ASSUME Assumptions, BitInit
  PROVE  BitIInv
<1>1. mem \in Memory
  BY DEF BitInit, Memory
<1>2. matrix = [x \in Rows |-> [y \in Cols |-> Get(mem, x, y)]]
  BY DEF BitInit, Unpacked, Rows, Cols, Get
<1>3. \A x \in Rows, y \in Cols : Get(mem, x, y) \in 0 .. 1
  BY DEF Get, get_el
<1>4. Holds(mem, matrix)
  <2>1. matrix \in Matrices /\ \A x \in Rows, y \in Cols : Get(mem, x, y) = matrix[x][y]
    BY <1>2, <1>3 DEF Matrices
  <2> QED BY <1>1, <2>1 DEF Holds, BitInit
<1> QED BY <1>4, WholeIsView DEF BitIInv, BitInit

LEMMA SubviewKeeps ==
  ASSUME Assumptions, BitIInv, Subview
  PROVE  BitIInv'
<1>1. IsView(A) /\ IsView(B) /\ Holds(mem, matrix) /\ UNCHANGED <<mem, matrix>> /\ B' \in {A, B}
  BY DEF BitIInv, Subview
<1>2. IsView(A')
  BY <1>1, SubviewIsView, WholeIsView DEF Subview
<1>3. IsView(B')
  BY <1>1
<1>4. Holds(mem', matrix')
  BY <1>1
<1> QED BY <1>2, <1>3, <1>4 DEF BitIInv, Holds, Get, IsView

LEMMA CallKeeps ==
  ASSUME Assumptions, OffsetsInRow, BitIInv, Call
  PROVE  BitIInv'
<1>1. IsView(A) /\ IsView(B) /\ Holds(mem, matrix) /\ UNCHANGED <<A, B>>
  BY DEF BitIInv, Call
<1>2. ASSUME NEW r \in ViewRows(A), NEW c \in ViewCols(A), ToggleEl(r, c)
      PROVE  Holds(mem', matrix')
  BY <1>1, <1>2, ToggleElHolds DEF ToggleEl
<1>3. ASSUME NEW r \in ViewRows(A), NEW c \in ViewCols(A), NEW val \in 0 .. 1, SetEl(r, c, val)
      PROVE  Holds(mem', matrix')
  BY <1>1, <1>3, SetElHolds DEF SetEl
<1>4. ASSUME NEW r1 \in ViewRows(A), NEW r2 \in ViewRows(A), SwapRows(r1, r2)
      PROVE  Holds(mem', matrix')
  BY <1>1, <1>4, SwapRowsHolds DEF SwapRows
<1>5. ASSUME NEW r \in ViewRows(A), NEW alpha \in 0 .. 1, MultRow(r, alpha)
      PROVE  Holds(mem', matrix')
  BY <1>1, <1>5, MultRowHolds DEF MultRow
<1>6. ASSUME NEW r1 \in ViewRows(A), NEW rt \in ViewRows(B), CopyRow(r1, rt)
      PROVE  Holds(mem', matrix')
  BY <1>1, <1>6, CopyRowHolds DEF CopyRow
<1>7. ASSUME NEW r1 \in ViewRows(A), NEW rt \in ViewRows(B), NEW alpha \in 0 .. 1,
             MultAddRow(r1, alpha, rt)
      PROVE  Holds(mem', matrix')
  BY <1>1, <1>7, MultAddRowHolds DEF MultAddRow
<1>8. ASSUME NEW r1 \in ViewRows(A), NEW rt \in ViewRows(B), NEW alpha \in 0 .. 1,
             NEW offs \in Offsets, MultAddRowFrom(r1, offs, alpha, rt)
      PROVE  Holds(mem', matrix')
  <2>1. offs \in 0 .. Stride * W - 1
    BY DEF OffsetsInRow
  <2> QED BY <1>1, <1>8, <2>1, MultAddRowFromHolds DEF MultAddRowFrom
<1>9. ASSUME NEW c1 \in ViewCols(A), NEW c2 \in ViewCols(A), SwapCols(c1, c2)
      PROVE  Holds(mem', matrix')
  BY <1>1, <1>9, SwapColsHolds DEF SwapCols
<1>10. ASSUME NEW c1 \in ViewCols(A), NEW c2 \in ViewCols(A), CopyCol(c1, c2)
       PROVE  Holds(mem', matrix')
  <2>1. c2 \in ViewCols(B)
    BY <1>1, ViewTypes
  <2> QED BY <1>1, <1>10, <2>1, CopyColHolds DEF CopyCol
<1>11. ASSUME NEW c \in ViewCols(A), NEW offs \in 0 .. A.n_row, NEW alpha \in 0 .. 1,
              MultColFrom(c, offs, alpha)
       PROVE  Holds(mem', matrix')
  BY <1>1, <1>11, MultColFromHolds DEF MultColFrom
<1>12. Holds(mem', matrix')
  BY <1>2, <1>3, <1>4, <1>5, <1>6, <1>7, <1>8, <1>9, <1>10, <1>11 DEF Call
<1> QED BY <1>1, <1>12 DEF BitIInv, Holds, Get, IsView

LEMMA CallsKeep ==
  ASSUME Assumptions, OffsetsInRow, BitIInv, [BitNext]_bitVars
  PROVE  BitIInv'
<1>1. CASE BitNext
  BY <1>1, SubviewKeeps, CallKeeps DEF BitNext
<1>2. CASE UNCHANGED bitVars
  BY <1>2 DEF bitVars, BitIInv, Holds, Get, IsView
<1> QED BY <1>1, <1>2

LEMMA BitIInvHolds ==
  ASSUME Assumptions, OffsetsInRow
  PROVE  BitSpec => []BitIInv
<1>1. BitInit => BitIInv
  BY BitInitHolds
<1>2. BitIInv /\ [BitNext]_bitVars => BitIInv'
  BY CallsKeep
<1> QED BY <1>1, <1>2, PTL DEF BitSpec

LEMMA BitIInvStorage == ASSUME Assumptions, BitIInv PROVE StorageHoldsMatrix
<1>1. Holds(mem, matrix)
  BY DEF BitIInv
<1>2. Unpacked = [x \in Rows |-> [y \in Cols |-> Get(mem, x, y)]]
  BY DEF Unpacked, Rows, Cols, Get
<1>3. matrix = [x \in Rows |-> [y \in Cols |-> matrix[x][y]]]
  BY <1>1 DEF Holds, Matrices
<1> QED BY <1>1, <1>2, <1>3 DEF Holds, StorageHoldsMatrix

LEMMA BitIInvZero == ASSUME Assumptions, BitIInv PROVE ZeroRowsFound
BY RowIsZeroSeen DEF BitIInv, ZeroRowsFound

(* Whatever m2v operations a client calls on whatever views, the bits of   *)
(* the matrix are those the calls describe, in every row and column, and   *)
(* nothing behind the matrix is written: for every word size and shape, as *)
(* long as no sum starts behind the words of its row.                      *)
THEOREM StorageHoldsMatrixHolds ==
  ASSUME Assumptions, OffsetsInRow
  PROVE  BitSpec => []StorageHoldsMatrix
<1>1. BitIInv => StorageHoldsMatrix
  BY BitIInvStorage
<1> QED BY <1>1, BitIInvHolds, PTL

(* m2v_row_iszero is right about the columns of the matrix, whatever the   *)
(* operations have left in the bits behind the last column: after calls    *)
(* that start no sum behind the words of its row.                          *)
THEOREM ZeroRowsFoundHolds ==
  ASSUME Assumptions, OffsetsInRow
  PROVE  BitSpec => []ZeroRowsFound
<1>1. BitIInv => ZeroRowsFound
  BY BitIInvZero
<1> QED BY <1>1, BitIInvHolds, PTL

-----------------------------------------------------------------------------
(* The decomposition *)

(* LUDecomp over the elements the words hold, with its theorems.           *)
Reciprocal(a) == One
Factors == INSTANCE LUDecompProofs WITH
  A <- Packed!Unpacked, Inv <- Reciprocal, i <- rank, pc <- stage

(* GF(2) is a field of the kind LUDecomp is about.                         *)
LEMMA BinaryField ==
  ASSUME Assumptions
  PROVE  Factors!Assumptions
<1>1. \A a \in 0 .. 1 : a = 0 \/ a = 1
  OBVIOUS
<1>2. /\ Add(0, 0) = 0 /\ Add(0, 1) = 1 /\ Add(1, 0) = 1 /\ Add(1, 1) = 0
      /\ Mul(0, 0) = 0 /\ Mul(0, 1) = 0 /\ Mul(1, 0) = 0 /\ Mul(1, 1) = 1
      /\ F = 0 .. 1 /\ Zero = 0 /\ One = 1
  BY DEF Assumptions
<1>3. Factors!DimAssumption
  BY DEF Factors!DimAssumption, Assumptions
<1>4. Factors!FieldAssumption
  BY <1>1, <1>2 DEF Factors!FieldAssumption, Reciprocal
<1>5. Factors!IsFiniteSet(F)
  <2>1. <<0, 1>> \in Seq(F) /\ Len(<<0, 1>>) = 2 /\ <<0, 1>>[1] = 0 /\ <<0, 1>>[2] = 1
    BY <1>2
  <2>2. \A a \in F : \E n \in 1 .. Len(<<0, 1>>) : <<0, 1>>[n] = a
    BY <1>1, <1>2, <2>1
  <2> QED BY <2>1, <2>2 DEF Factors!IsFiniteSet
<1>6. Factors!FieldLaws
  BY <1>1, <1>2, <1>5 DEF Factors!FieldLaws, Reciprocal
<1> QED BY <1>3, <1>4, <1>6 DEF Factors!Assumptions

(* X after the rows from k + 1 to n were updated by row k.                 *)
Updated(X, k, n) ==
  [r \in Rows |-> [c \in Cols |->
     IF r > k /\ r <= n /\ c > k /\ X[r][k] = 1 /\ X[k][c] = 1 THEN 1 - X[r][c] ELSE X[r][c]]]

LEMMA UpdateNext ==
  ASSUME Assumptions, NEW X \in Matrices, NEW k \in Rows, NEW n \in Rows, k < n, k \in Cols
  PROVE  LET Y == Updated(X, k, n - 1) IN
         /\ Y \in Matrices
         /\ Y[n][k] \in 0 .. 1
         /\ RowAdded(Y, m2v_make, k, k + 1, Y[n][k], m2v_make, n) = Updated(X, k, n)
<1> DEFINE Y == Updated(X, k, n - 1)
           Z == RowAdded(Y, m2v_make, k, k + 1, Y[n][k], m2v_make, n)
<1>1. /\ Rows \subseteq Int /\ Cols \subseteq Int /\ k \in Nat
      /\ \A r \in Rows, c \in Cols : X[r][c] \in 0 .. 1
  BY DEF Rows, Cols, Matrices, Assumptions
<1>2. Y \in Matrices
  BY <1>1 DEF Updated, Matrices
<1>3. Y[n][k] = X[n][k] /\ \A c \in Cols : Y[k][c] = X[k][c] /\ Y[n][c] = X[n][c]
  BY <1>1 DEF Updated
<1>4. Y[n][k] \in 0 .. 1
  BY <1>1, <1>3
<1>5. n \in ViewRows(m2v_make) /\ k \in ViewRows(m2v_make) /\ m2v_make.r0 = 0 /\ k + 1 \in Nat
  BY <1>1 DEF ViewRows, m2v_make, Rows
<1>6. /\ Z \in Matrices
      /\ \A u \in Rows, y \in Cols :
           Z[u][y] = IF u = 0 + n /\ y >= k + 1 /\ Y[n][k] = 1 /\ Y[0 + k][y] = 1
                     THEN 1 - Y[u][y] ELSE Y[u][y]
  <2> DEFINE alpha == Y[n][k]
             v == m2v_make
  <2>1. Y \in Matrices /\ alpha \in 0 .. 1 /\ IsView(v) /\ v.r0 = 0
        /\ k \in ViewRows(v) /\ n \in ViewRows(v) /\ k + 1 \in Nat
    BY <1>2, <1>4, <1>5, WholeIsView
  <2> HIDE DEF Y, alpha, v
  <2>2. /\ RowAdded(Y, v, k, k + 1, alpha, v, n) \in Matrices
        /\ \A u \in Rows, y \in Cols :
              RowAdded(Y, v, k, k + 1, alpha, v, n)[u][y] =
                IF u = v.r0 + n /\ y >= k + 1 /\ alpha = 1 /\ Y[v.r0 + k][y] = 1
                THEN 1 - Y[u][y] ELSE Y[u][y]
    BY <2>1, RowAddedIs, SMTT(20)
  <2> QED BY <2>1, <2>2 DEF alpha, v
<1>7. ASSUME NEW r \in Rows, NEW c \in Cols
      PROVE  Z[r][c] = Updated(X, k, n)[r][c]
  <2>1. 0 + n = n /\ 0 + k = k /\ r \in Int /\ c \in Int /\ n \in Int
    BY <1>1
  <2>2. Z[r][c] = IF r = n /\ c > k /\ X[n][k] = 1 /\ X[k][c] = 1 THEN 1 - Y[r][c] ELSE Y[r][c]
    <3> HIDE DEF Y, Z
    <3> QED BY <1>1, <1>3, <1>6, <2>1
  <2>3. Y[r][c] = IF r > k /\ r <= n - 1 /\ c > k /\ X[r][k] = 1 /\ X[k][c] = 1
                  THEN 1 - X[r][c] ELSE X[r][c]
    BY DEF Updated
  <2>4. Updated(X, k, n)[r][c] = IF r > k /\ r <= n /\ c > k /\ X[r][k] = 1 /\ X[k][c] = 1
                                 THEN 1 - X[r][c] ELSE X[r][c]
    BY DEF Updated
  <2> HIDE DEF Y, Z
  <2> QED BY <1>1, <2>1, <2>2, <2>3, <2>4
<1>8. Updated(X, k, n) \in Matrices
  BY <1>1 DEF Updated, Matrices
<1>9. Z = Updated(X, k, n)
  <2> HIDE DEF Y, Z
  <2> QED BY <1>6, <1>7, <1>8 DEF Matrices
<1> QED BY <1>2, <1>4, <1>9

(* BitLU calls the operations of BitMatrix.                                *)
LEMMA SameOperations ==
  /\ Packed!mat = m2v_make /\ Packed!m2v_make = m2v_make
  /\ Packed!Behind = Behind /\ Packed!Words = Words /\ Packed!Bits = Bits
  /\ \A m, v, x, y : Packed!get_el(m, v, x, y) = get_el(m, v, x, y)
BY DEF Packed!mat, Packed!m2v_make, m2v_make, Packed!Behind, Behind, Packed!Words, Words,
       Packed!Bits, Bits, Packed!get_el, get_el, Packed!get_word, get_word, Packed!get_bit, get_bit,
       Packed!Stride, Stride, Packed!row_size, row_size

LEMMA SameRowOperations ==
  /\ \A m, v, x, y : Packed!swap_rows(m, v, x, y) = swap_rows(m, v, x, y)
  /\ \A m, v, x, o, a, w, y : Packed!multadd_row_from(m, v, x, o, a, w, y)
                               = multadd_row_from(m, v, x, o, a, w, y)
BY DEF Packed!swap_rows, swap_rows, Packed!RowWords, RowWords, Packed!get_word, get_word,
       Packed!multadd_row_from, multadd_row_from, Packed!Xor, Xor, Packed!RowEnd, RowEnd,
       Packed!FirstWordMask, FirstWordMask, Packed!get_bit, get_bit

LEMMA SameColumnOperations ==
  /\ \A m, v, x, y : Packed!swap_cols(m, v, x, y) = swap_cols(m, v, x, y)
  /\ \A m, v, x, o, a : Packed!mult_col_from(m, v, x, o, a) = mult_col_from(m, v, x, o, a)
BY DEF Packed!swap_cols, swap_cols, Packed!get_word, get_word, Packed!get_bit, get_bit,
       Packed!WithBit, WithBit, Packed!get_el, get_el, Packed!mult_col_from, mult_col_from

(* The row j, updated by the row of the pivot.                             *)
Update(m, k, j) == multadd_row_from(m, m2v_make, k, k + 1, get_el(m, m2v_make, j, k), m2v_make, j)

(* The memories after the rows up to k + n.                                *)
IsUpdates(s, m, k, n) ==
  s = [j \in k .. k + n |-> IF j = k THEN m ELSE Update(s[j - 1], k, j)]

LEMMA UpdatesExist ==
  ASSUME NEW m, NEW k \in Nat, NEW n \in Nat
  PROVE  \E s : IsUpdates(s, m, k, n)
<1> DEFINE S == {l \in Nat : \E s : IsUpdates(s, m, k, l)}
<1>1. 0 \in S
  <2> DEFINE s == [j \in k .. k + 0 |-> m]
  <2>1. IsUpdates(s, m, k, 0)
    BY DEF IsUpdates
  <2> QED BY <2>1
<1>2. ASSUME NEW l \in Nat, l \in S PROVE l + 1 \in S
  <2>1. PICK s : IsUpdates(s, m, k, l)
    BY <1>2
  <2> DEFINE t == [j \in k .. k + (l + 1) |-> IF j = k + l + 1 THEN Update(s[k + l], k, j) ELSE s[j]]
  <2>2. ASSUME NEW j \in k .. k + (l + 1)
        PROVE  t[j] = IF j = k THEN m ELSE Update(t[j - 1], k, j)
    <3>1. CASE j = k + l + 1
      <4>1. j # k /\ j - 1 = k + l /\ k + l \in k .. k + (l + 1) /\ k + l # k + l + 1
        BY <3>1
      <4>2. t[j - 1] = s[k + l] /\ t[j] = Update(s[k + l], k, j)
        BY <3>1, <4>1
      <4> HIDE DEF t
      <4> QED BY <4>1, <4>2
    <3>2. CASE j # k + l + 1
      <4>1. j \in k .. k + l /\ t[j] = s[j]
        BY <3>2
      <4>2. s[j] = IF j = k THEN m ELSE Update(s[j - 1], k, j)
        BY <4>1, <2>1 DEF IsUpdates
      <4>3. j # k => j - 1 \in k .. k + (l + 1) /\ j - 1 # k + l + 1
        BY <4>1
      <4>4. j # k => t[j - 1] = s[j - 1]
        BY <4>3
      <4> HIDE DEF t
      <4> QED BY <4>1, <4>2, <4>4
    <3> QED BY <3>1, <3>2
  <2>3. IsUpdates(t, m, k, l + 1)
    <3> HIDE DEF t
    <3>1. t = [j \in k .. k + (l + 1) |-> t[j]]
      BY DEF t
    <3>2. t = [j \in k .. k + (l + 1) |-> IF j = k THEN m ELSE Update(t[j - 1], k, j)]
      BY <2>2, <3>1
    <3> QED BY <3>2 DEF IsUpdates
  <2> QED BY <2>3
<1>3. n \in S
  <2> HIDE DEF S
  <2> QED BY <1>1, <1>2, Factors!NatSet
<1> QED BY <1>3

LEMMA DividesEvenly ==
  ASSUME NEW d \in Nat \ {0}, NEW q \in Int
  PROVE  (q * d) % d = 0
<1> DEFINE n == q * d
           x == n \div d
           k == n % d
           l == 0
<1>1. n \in Int
  OBVIOUS
<1> HIDE DEF n
<1>2. x \in Int /\ k \in 0 .. d - 1 /\ n = x * d + k
  BY <1>1, Quotient
<1> HIDE DEF x, k
<1>3. l \in 0 .. d - 1 /\ n = q * d + l
  BY DEF n
<1> HIDE DEF l
<1>4. x * d + k = q * d + l
  BY <1>2, <1>3
<1>5. x \in Int /\ k \in 0 .. d - 1 /\ l \in 0 .. d - 1
  BY <1>2, <1>3
<1>6. k = l
  BY <1>4, <1>5, QuotientIs
<1> QED BY <1>6 DEF k, l, n

LEMMA OffsetInRow ==
  ASSUME Assumptions, LastWordPartial, NEW k \in Cols
  PROVE  k + 1 \in 0 .. Stride * W - 1
<1>1. /\ W \in Nat \ {0} /\ NCol \in Nat \ {0} /\ Stride \in Nat \ {0} /\ Stride * W \in Int
      /\ NCol <= Stride * W
  BY WordsOfRow DEF Assumptions
<1>2. NCol # Stride * W
  <2>1. (Stride * W) % W = 0
    BY <1>1, DividesEvenly
  <2> QED BY <2>1 DEF LastWordPartial
<1> QED BY <1>1, <1>2 DEF Cols

LEMMA EliminatedHolds ==
  ASSUME Assumptions, LastWordPartial, rank \in Rows, rank \in Cols,
         NEW m, NEW X, Holds(m, X)
  PROVE  Holds(Packed!Eliminated(m), Updated(X, rank, NRow - 1))
<1> DEFINE n == NRow - 1 - rank
<1>1. rank \in Nat /\ n \in Nat /\ rank + n = NRow - 1 /\ Rows \subseteq Int /\ NRow \in Nat \ {0}
  BY DEF Rows, Assumptions
<1> DEFINE s == CHOOSE s : s = [j \in rank .. NRow - 1 |->
                    IF j = rank THEN m
                    ELSE multadd_row_from(s[j - 1], Packed!mat, rank, rank + 1,
                           get_el(s[j - 1], Packed!mat, j, rank), Packed!mat, j)]
<1>2. Packed!mat = m2v_make
  BY SameOperations
<1>3. Packed!Eliminated(m) = s[NRow - 1]
  BY SameOperations, SameRowOperations DEF Packed!Eliminated
<1>4. s = CHOOSE t : IsUpdates(t, m, rank, n)
  BY <1>1, <1>2 DEF IsUpdates, Update
<1> HIDE DEF s
<1>5. IsUpdates(s, m, rank, n)
  <2> HIDE DEF n
  <2> QED BY <1>1, <1>4, UpdatesExist
<1> DEFINE S == {l \in Nat : l <= n => Holds(s[rank + l], Updated(X, rank, rank + l))}
<1>6. X \in Matrices
  BY DEF Holds
<1>7. 0 \in S
  <2>1. rank \in rank .. rank + n /\ rank + 0 = rank
    BY <1>1
  <2>2. s[rank] = m
    <3> HIDE DEF n
    <3> QED BY <1>5, <2>1 DEF IsUpdates
  <2>3. Updated(X, rank, rank) = X
    <3>1. \A r \in Rows : ~(r > rank /\ r <= rank)
      BY <1>1
    <3>2. Updated(X, rank, rank) = [r \in Rows |-> [c \in Cols |-> X[r][c]]]
      BY <3>1 DEF Updated
    <3> QED BY <1>6, <3>2 DEF Matrices
  <2> QED BY <2>1, <2>2, <2>3
<1>8. ASSUME NEW l \in Nat, l \in S PROVE l + 1 \in S
  <2> SUFFICES ASSUME l + 1 <= n
               PROVE  Holds(s[rank + (l + 1)], Updated(X, rank, rank + (l + 1)))
    OBVIOUS
  <2> DEFINE j == rank + (l + 1)
             Y == Updated(X, rank, j - 1)
             mm == s[j - 1]
             v == m2v_make
             alpha == get_el(mm, v, j, rank)
  <2>1. j \in rank .. rank + n /\ j # rank /\ j \in Rows /\ rank < j /\ j - 1 = rank + l
    BY <1>1 DEF Rows
  <2>2. Holds(mm, Y)
    <3>1. l <= n => Holds(s[rank + l], Updated(X, rank, rank + l))
      BY <1>8
    <3>2. l <= n
      BY <1>1
    <3> HIDE DEF j, n
    <3> QED BY <2>1, <3>1, <3>2
  <2>3. s[j] = Update(mm, rank, j)
    <3> HIDE DEF n, j
    <3> QED BY <1>5, <2>1 DEF IsUpdates
  <2>4. IsView(v) /\ v.r0 = 0 /\ j \in ViewRows(v) /\ rank \in ViewRows(v) /\ ViewRows(v) = Rows
    <3>1. v.r0 = 0 /\ ViewRows(v) = Rows
      BY DEF m2v_make, ViewRows, Rows
    <3> HIDE DEF v, j
    <3> QED BY <2>1, <3>1, WholeIsView DEF v
  <2>5. alpha = Y[j][rank] /\ alpha \in 0 .. 1
    <3> HIDE DEF v, j, mm, Y
    <3>1. get_el(mm, v, j, rank) = Get(mm, v.r0 + j, rank)
      BY <2>4, ElementIs
    <3>2. v.r0 + j = j
      BY <1>1, <2>1, <2>4
    <3>3. Get(mm, j, rank) = Y[j][rank] /\ Y[j][rank] \in 0 .. 1
      BY <2>1, <2>2 DEF Holds, Matrices
    <3> QED BY <3>1, <3>2, <3>3
  <2>6. rank + 1 \in 0 .. Stride * W - 1
    BY OffsetInRow
  <2>7. Holds(multadd_row_from(mm, v, rank, rank + 1, alpha, v, j),
              RowAdded(Y, v, rank, rank + 1, alpha, v, j))
    <3> HIDE DEF v, j, mm, Y, alpha
    <3> QED BY <2>2, <2>4, <2>5, <2>6, MultAddRowFromHolds
  <2>8. RowAdded(Y, v, rank, rank + 1, Y[j][rank], v, j) = Updated(X, rank, j)
    <3> HIDE DEF j
    <3> QED BY <1>6, <2>1, UpdateNext
  <2>9. Holds(s[j], Updated(X, rank, j))
    <3> HIDE DEF j, Y, mm
    <3> QED BY <2>3, <2>5, <2>7, <2>8 DEF Update
  <2> QED BY <2>9
<1>9. n \in S
  <2> HIDE DEF S, n
  <2> QED BY <1>1, <1>7, <1>8, Factors!NatSet
<1> QED BY <1>1, <1>3, <1>9

(* The elements the words hold are those of the matrix.                    *)
LEMMA UnpackedIs ==
  ASSUME NEW X, Holds(mem, X)
  PROVE  Packed!Unpacked = X
<1>1. Packed!Unpacked = [x \in Rows |-> [y \in Cols |-> Get(mem, x, y)]]
  BY SameOperations DEF Packed!Unpacked, Rows, Cols, Get
<1>2. X = [x \in Rows |-> [y \in Cols |-> X[x][y]]]
  BY DEF Holds, Matrices
<1> QED BY <1>1, <1>2 DEF Holds

LInv == Holds(mem, Packed!Unpacked) /\ rank \in Nat

LEMMA LUStarts ==
  ASSUME Assumptions, Packed!Init
  PROVE  LInv /\ Factors!Init
<1>1. mem \in Memory /\ \A w \in Behind : mem[w] = {0}
  BY SameOperations DEF Packed!Init, Memory
<1>2. Packed!Unpacked = [x \in Rows |-> [y \in Cols |-> Get(mem, x, y)]]
  BY SameOperations DEF Packed!Unpacked, Rows, Cols, Get
<1>3. \A x \in Rows, y \in Cols : Get(mem, x, y) \in 0 .. 1
  BY DEF Get, get_el
<1>4. Packed!Unpacked \in Matrices
  BY <1>2, <1>3 DEF Matrices
<1>5. Holds(mem, Packed!Unpacked)
  BY <1>1, <1>2, <1>4 DEF Holds
<1>6. rank = 0 /\ A0 = Packed!Unpacked /\ F = 0 .. 1
  BY DEF Packed!Init, Assumptions
<1>7. Factors!Init
  BY <1>4, <1>6 DEF Factors!Init, Packed!Init, Matrices, Rows, Cols,
     Factors!Matrices, Factors!Rows, Factors!Cols
<1> QED BY <1>5, <1>6, <1>7 DEF LInv

(* One pivot: the swaps, the division by 1 and the elimination.            *)
Fetched(X, k, x, y) == ColsSwapped(RowsSwapped(X, m2v_make, k, x), m2v_make, k, y)

LEMMA FetchedHolds ==
  ASSUME Assumptions, NEW m, NEW X, Holds(m, X), NEW k \in Rows, k \in Cols,
         NEW x \in Rows, NEW y \in Cols
  PROVE  Holds(mult_col_from(swap_cols(swap_rows(m, m2v_make, k, x), m2v_make, k, y),
                             m2v_make, k, k + 1, 1), Fetched(X, k, x, y))
<1> DEFINE v == m2v_make
<1>1. IsView(v) /\ ViewRows(v) = Rows /\ ViewCols(v) = Cols
  BY WholeIsView DEF m2v_make, ViewRows, ViewCols, Rows, Cols
<1> HIDE DEF v
<1>2. Holds(swap_rows(m, v, k, x), RowsSwapped(X, v, k, x))
  BY <1>1, SwapRowsHolds
<1>3. Holds(swap_cols(swap_rows(m, v, k, x), v, k, y), ColsSwapped(RowsSwapped(X, v, k, x), v, k, y))
  BY <1>1, <1>2, SwapColsHolds
<1>4. 1 # 0
  OBVIOUS
<1> QED BY <1>3, <1>4 DEF v, Fetched, mult_col_from

LEMMA FetchedIs ==
  ASSUME Assumptions, NEW X \in Matrices, NEW k \in Rows, k \in Cols,
         NEW x \in Rows, NEW y \in Cols
  PROVE  /\ Fetched(X, k, x, y) \in Matrices
         /\ Fetched(X, k, x, y) = Factors!SwapCols(Factors!SwapRows(X, k, x), y, k)
<1> DEFINE R == RowsSwapped(X, m2v_make, k, x)
<1>1. R = [r \in Rows |-> [c \in Cols |-> X[IF r = k THEN x ELSE IF r = x THEN k ELSE r][c]]]
  <2>1. /\ m2v_make.r0 = 0 /\ m2v_make.c0 = 0 /\ ViewCols(m2v_make) = Cols
        /\ Rows \subseteq Int /\ Cols \subseteq Int
        /\ DOMAIN X = Rows /\ \A r \in Rows : DOMAIN X[r] = Cols
    BY DEF m2v_make, ViewCols, Matrices, Rows, Cols
  <2>2. R = [r \in Rows |-> [c \in Cols |->
               IF r - 0 \in {k, x} /\ c - 0 \in Cols
               THEN X[0 + (IF r - 0 = k THEN x ELSE k)][0 + (c - 0)] ELSE X[r][c]]]
    BY <2>1 DEF RowsSwapped, Put, At
  <2>3. ASSUME NEW r \in Rows, NEW c \in Cols
        PROVE  (IF r - 0 \in {k, x} /\ c - 0 \in Cols
                THEN X[0 + (IF r - 0 = k THEN x ELSE k)][0 + (c - 0)] ELSE X[r][c])
               = X[IF r = k THEN x ELSE IF r = x THEN k ELSE r][c]
    <3>1. r - 0 = r /\ c - 0 = c /\ 0 + c = c /\ 0 + x = x /\ 0 + k = k
      BY <2>1
    <3> QED BY <3>1
  <2> HIDE DEF R
  <2> QED BY <2>2, <2>3
<1>2. R \in Matrices
  BY <1>1 DEF Matrices
<1>3. R = Factors!SwapRows(X, k, x)
  <2>1. \A r \in Rows : X[r] = [c \in Cols |-> X[r][c]]
    BY DEF Matrices
  <2>2. R = [r \in Rows |-> X[IF r = k THEN x ELSE IF r = x THEN k ELSE r]]
    BY <1>1, <2>1
  <2> HIDE DEF R
  <2> QED BY <2>2 DEF Factors!SwapRows, Factors!SwapAt, Matrices
<1> HIDE DEF R
<1> DEFINE S == ColsSwapped(R, m2v_make, k, y)
<1>4. S = [r \in Rows |-> [c \in Cols |-> R[r][IF c = k THEN y ELSE IF c = y THEN k ELSE c]]]
  BY <1>2 DEF ColsSwapped, Put, At, m2v_make, ViewRows, Matrices, Rows, Cols
<1>5. S \in Matrices
  BY <1>2, <1>4 DEF Matrices
<1>6. S = Factors!SwapCols(R, y, k)
  <2>1. \A r \in Rows : [c \in Cols |-> R[r][IF c = k THEN y ELSE IF c = y THEN k ELSE c]]
                       = [R[r] EXCEPT ![y] = R[r][k], ![k] = R[r][y]]
    BY <1>2 DEF Matrices
  <2> HIDE DEF S
  <2> QED BY <1>4, <2>1 DEF Factors!SwapCols, Factors!SwapAt, Factors!Rows, Rows
<1> QED BY <1>3, <1>5, <1>6 DEF Fetched, R

(* In GF(2) the column of the pivot needs no division, and a row below is  *)
(* changed where it and the row of the pivot both hold a one.              *)
LEMMA StepIs ==
  ASSUME Assumptions, NEW Y \in Matrices, NEW k \in Rows, k \in Cols
  PROVE  Factors!Step(Y, k) = Updated(Y, k, NRow - 1)
<1>1. /\ Rows \subseteq Int /\ Cols \subseteq Int /\ k \in Nat /\ NRow \in Nat
      /\ \A r \in Rows, c \in Cols : Y[r][c] = 0 \/ Y[r][c] = 1
  BY DEF Rows, Cols, Matrices, Assumptions
<1>2. /\ Add(0, 0) = 0 /\ Add(0, 1) = 1 /\ Add(1, 0) = 1 /\ Add(1, 1) = 0
      /\ Mul(0, 0) = 0 /\ Mul(0, 1) = 0 /\ Mul(1, 0) = 0 /\ Mul(1, 1) = 1 /\ One = 1
  BY DEF Assumptions
<1>3. Factors!MultColFrom(Y, k, k + 1, One) = Y
  <2>1. \A r \in Rows : [Y[r] EXCEPT ![k] = Mul(Y[r][k], One)] = Y[r]
    <3> TAKE r \in Rows
    <3>1. Mul(Y[r][k], One) = Y[r][k]
      BY <1>1, <1>2
    <3>2. Y[r] \in [Cols -> 0 .. 1]
      BY DEF Matrices
    <3> QED BY <3>1, <3>2
  <2>2. \A r \in Rows : (IF r >= k + 1 THEN [Y[r] EXCEPT ![k] = Mul(@, One)] ELSE Y[r]) = Y[r]
    BY <2>1
  <2>3. Factors!MultColFrom(Y, k, k + 1, One)
        = [r \in Rows |-> IF r >= k + 1 THEN [Y[r] EXCEPT ![k] = Mul(@, One)] ELSE Y[r]]
    BY DEF Factors!MultColFrom, Factors!Rows, Rows
  <2>4. Y = [r \in Rows |-> Y[r]]
    BY DEF Matrices
  <2> QED BY <2>2, <2>3, <2>4
<1>4. ASSUME NEW r \in Rows
      PROVE  (IF r > k THEN Factors!MultAddRowFrom(Y, k, k + 1, Y[r][k], r) ELSE Y[r])
             = Updated(Y, k, NRow - 1)[r]
  <2>1. Y[r] = [c \in Cols |-> Y[r][c]]
    BY DEF Matrices
  <2>2. r <= NRow - 1
    BY <1>1 DEF Rows
  <2>3. Updated(Y, k, NRow - 1)[r] =
          [c \in Cols |-> IF r > k /\ c > k /\ Y[r][k] = 1 /\ Y[k][c] = 1
                          THEN 1 - Y[r][c] ELSE Y[r][c]]
    BY <2>2 DEF Updated
  <2>4. CASE r > k
    <3>1. ASSUME NEW c \in Cols
          PROVE  (IF c >= k + 1 THEN Add(Y[r][c], Mul(Y[r][k], Y[k][c])) ELSE Y[r][c])
                 = (IF r > k /\ c > k /\ Y[r][k] = 1 /\ Y[k][c] = 1 THEN 1 - Y[r][c] ELSE Y[r][c])
      <4>1. Add(Y[r][c], Mul(Y[r][k], Y[k][c]))
            = IF Y[r][k] = 1 /\ Y[k][c] = 1 THEN 1 - Y[r][c] ELSE Y[r][c]
        <5>1. Mul(Y[r][k], Y[k][c]) = IF Y[r][k] = 1 /\ Y[k][c] = 1 THEN 1 ELSE 0
          BY <1>1, <1>2
        <5>2. Y[r][c] = 0 \/ Y[r][c] = 1
          BY <1>1
        <5>3. Add(Y[r][c], 0) = Y[r][c] /\ Add(Y[r][c], 1) = 1 - Y[r][c]
          BY <1>2, <5>2
        <5> QED BY <5>1, <5>3
      <4>2. c >= k + 1 <=> c > k
        BY <1>1
      <4> QED BY <2>4, <4>1, <4>2
    <3>2. Factors!MultAddRowFrom(Y, k, k + 1, Y[r][k], r) =
            [c \in Cols |-> IF c >= k + 1 THEN Add(Y[r][c], Mul(Y[r][k], Y[k][c])) ELSE Y[r][c]]
      BY DEF Factors!MultAddRowFrom, Factors!Cols, Cols
    <3> QED BY <2>3, <2>4, <3>1, <3>2
  <2>5. CASE ~(r > k)
    <3>1. Updated(Y, k, NRow - 1)[r] = [c \in Cols |-> Y[r][c]]
      BY <2>3, <2>5
    <3> QED BY <2>1, <2>5, <3>1
  <2> QED BY <2>4, <2>5
<1>5. Factors!Eliminate(Y, k) = [r \in Rows |-> Updated(Y, k, NRow - 1)[r]]
  BY <1>4 DEF Factors!Eliminate, Factors!Rows, Rows
<1>6. Updated(Y, k, NRow - 1) = [r \in Rows |-> Updated(Y, k, NRow - 1)[r]]
  BY DEF Updated
<1> QED BY <1>3, <1>5, <1>6 DEF Factors!Step, Reciprocal

LEMMA PivotImplements ==
  ASSUME Assumptions, LastWordPartial, LInv,
         NEW prow \in Rows, NEW pcol \in Cols, Packed!Pivot(prow, pcol)
  PROVE  LInv' /\ Factors!Pivot(prow, pcol)
<1> DEFINE X == Packed!Unpacked
           v == m2v_make
           Y == Fetched(X, rank, prow, pcol)
           m == mult_col_from(swap_cols(swap_rows(mem, v, rank, prow), v, rank, pcol),
                              v, rank, rank + 1, 1)
<1>1. /\ stage = "loop" /\ rank < NCol /\ rank < NRow /\ prow >= rank /\ pcol >= rank
      /\ rank' = rank + 1 /\ UNCHANGED <<A0, stage>>
      /\ rp' = [rp EXCEPT ![rank] = rp[prow], ![prow] = rp[rank]]
      /\ cp' = [cp EXCEPT ![rank] = cp[pcol], ![pcol] = cp[rank]]
  BY DEF Packed!Pivot
<1>2. /\ Get(mem, prow, pcol) = 1
      /\ \A c \in rank .. pcol, r \in rank .. NRow - 1 :
           (c < pcol \/ r < prow) => Get(mem, r, c) = 0
      /\ mem' = Packed!Eliminated(m)
  BY SameOperations, SameRowOperations, SameColumnOperations DEF Packed!Pivot, Get
<1>3. Holds(mem, X) /\ X \in Matrices /\ rank \in Nat /\ rank \in Rows /\ rank \in Cols
      /\ Rows \subseteq Int /\ Cols \subseteq Int /\ NRow \in Nat /\ NCol \in Nat
      /\ Rows = 0 .. NRow - 1 /\ Cols = 0 .. NCol - 1 /\ Zero = 0
      /\ \A r \in Rows, c \in Cols : Get(mem, r, c) = X[r][c]
  BY <1>1 DEF LInv, Holds, Rows, Cols, Assumptions
<1> HIDE DEF X
<1>4. Holds(m, Y) /\ Y \in Matrices
      /\ Y = Factors!SwapCols(Factors!SwapRows(X, rank, prow), pcol, rank)
  BY <1>3, FetchedHolds, FetchedIs
<1> HIDE DEF m, Y
<1>5. Holds(mem', Updated(Y, rank, NRow - 1))
  BY <1>2, <1>3, <1>4, EliminatedHolds
<1>6. Packed!Unpacked' = Updated(Y, rank, NRow - 1)
  <2>1. Packed!Unpacked' = [x \in Rows |-> [y \in Cols |-> Get(mem', x, y)]]
    BY SameOperations DEF Packed!Unpacked, Rows, Cols, Get
  <2> DEFINE Z == Updated(Y, rank, NRow - 1)
  <2>2. Holds(mem', Z)
    BY <1>5
  <2> HIDE DEF Z
  <2>3. Z = [x \in Rows |-> [y \in Cols |-> Z[x][y]]]
    BY <2>2 DEF Holds, Matrices
  <2> QED BY <2>1, <2>2, <2>3 DEF Holds, Z
<1>7. LInv'
  BY <1>1, <1>3, <1>5, <1>6 DEF LInv, Holds, Get
<1>8. Factors!IsFirstPivot(prow, pcol)
  <2>1. X[prow][pcol] # Zero
    BY <1>2, <1>3
  <2>2. ASSUME NEW r \in Rows, NEW c \in Cols, r >= rank, c >= rank,
               c < pcol \/ (c = pcol /\ r < prow)
        PROVE  X[r][c] = Zero
    <3>1. c \in rank .. pcol /\ r \in rank .. NRow - 1
      BY <1>3, <2>2
    <3> QED BY <1>2, <1>3, <2>2, <3>1
  <2> QED BY <1>1, <2>1, <2>2 DEF Factors!IsFirstPivot, Factors!Rows, Factors!Cols, Rows, Cols, X
<1>9. Packed!Unpacked' = Factors!Step(Factors!SwapCols(Factors!SwapRows(X, rank, prow), pcol, rank), rank)
  BY <1>3, <1>4, <1>6, StepIs
<1> QED BY <1>1, <1>7, <1>8, <1>9 DEF X, Factors!Pivot, Factors!SwapAt

LEMMA FinishImplements ==
  ASSUME Assumptions, LInv, Packed!Finish
  PROVE  LInv' /\ (Factors!NoPivot \/ Factors!Exhausted)
<1>1. /\ stage = "loop" /\ stage' = "done" /\ UNCHANGED <<mem, A0, rp, cp, rank>>
      /\ \A c \in rank .. NCol - 1, r \in rank .. NRow - 1 : Get(mem, r, c) = 0
  BY SameOperations DEF Packed!Finish, Get
<1>2. Packed!Unpacked' = Packed!Unpacked
  BY <1>1 DEF Packed!Unpacked
<1>3. LInv'
  BY <1>1, <1>2 DEF LInv, Holds, Get
<1>4. NRow \in Nat /\ NCol \in Nat /\ rank \in Nat /\ Zero = 0
      /\ \A r \in Rows, c \in Cols : Get(mem, r, c) = Packed!Unpacked[r][c]
  BY DEF LInv, Holds, Assumptions
<1>5. CASE rank < NCol /\ rank < NRow
  <2>1. ASSUME NEW r \in Rows, NEW c \in Cols, r >= rank, c >= rank
        PROVE  Packed!Unpacked[r][c] = Zero
    <3>1. c \in rank .. NCol - 1 /\ r \in rank .. NRow - 1
      BY <1>4, <2>1 DEF Rows, Cols
    <3> QED BY <1>1, <1>4, <3>1
  <2>2. Factors!NoPivotLeft
    BY <2>1 DEF Factors!NoPivotLeft, Factors!Rows, Factors!Cols, Rows, Cols
  <2> QED BY <1>1, <1>2, <1>3, <1>5, <2>2 DEF Factors!NoPivot
<1>6. CASE rank >= NCol \/ rank >= NRow
  BY <1>1, <1>2, <1>3, <1>6 DEF Factors!Exhausted
<1> QED BY <1>4, <1>5, <1>6

LEMMA NextImplements ==
  ASSUME Assumptions, LastWordPartial, LInv, [Packed!Next]_(Packed!vars)
  PROVE  LInv' /\ [Factors!Next]_(Factors!luVars)
<1>1. ASSUME NEW prow \in 0 .. NRow - 1, NEW pcol \in 0 .. NCol - 1, Packed!Pivot(prow, pcol)
      PROVE  LInv' /\ Factors!Next
  BY <1>1, PivotImplements DEF Factors!Next, Factors!Rows, Factors!Cols, Rows, Cols
<1>2. CASE Packed!Finish
  BY <1>2, FinishImplements DEF Factors!Next
<1>3. CASE UNCHANGED Packed!vars
  <2>1. UNCHANGED <<mem, A0, rp, cp, rank, stage>>
    BY <1>3 DEF Packed!vars
  <2>2. Packed!Unpacked' = Packed!Unpacked
    BY <2>1 DEF Packed!Unpacked
  <2>3. LInv'
    BY <2>1, <2>2 DEF LInv, Holds, Get
  <2> QED BY <2>1, <2>2, <2>3 DEF Factors!luVars
<1> QED BY <1>1, <1>2, <1>3 DEF Packed!Next

(* The module BitLU refers to is the one the theorems of Factors are about.*)
LEMMA SameInit == Packed!LU!Init <=> Factors!Init
BY DEF Packed!LU!Init, Factors!Init, Packed!LU!Matrices, Factors!Matrices,
   Packed!LU!Rows, Factors!Rows, Packed!LU!Cols, Factors!Cols

LEMMA SameNext == [Packed!LU!Next]_(Packed!LU!luVars) <=> [Factors!Next]_(Factors!luVars)
<1>1. Packed!LU!Rows = Factors!Rows /\ Packed!LU!Cols = Factors!Cols
  BY DEF Packed!LU!Rows, Factors!Rows, Packed!LU!Cols, Factors!Cols
<1>2. Packed!LU!luVars = Factors!luVars /\ (UNCHANGED Packed!LU!luVars <=> UNCHANGED Factors!luVars)
  BY DEF Packed!LU!luVars, Factors!luVars
<1>3. Packed!LU!NoPivot <=> Factors!NoPivot
  BY <1>1 DEF Packed!LU!NoPivot, Factors!NoPivot, Packed!LU!NoPivotLeft, Factors!NoPivotLeft
<1>4. Packed!LU!Exhausted <=> Factors!Exhausted
  BY DEF Packed!LU!Exhausted, Factors!Exhausted
<1>5. ASSUME NEW prow \in Factors!Rows, NEW pcol \in Factors!Cols
      PROVE  Packed!LU!Pivot(prow, pcol) <=> Factors!Pivot(prow, pcol)
  <2>1. Packed!LU!IsFirstPivot(prow, pcol) <=> Factors!IsFirstPivot(prow, pcol)
    BY <1>1 DEF Packed!LU!IsFirstPivot, Factors!IsFirstPivot
  <2>2. \A f, x, y : Packed!LU!SwapAt(f, x, y) = Factors!SwapAt(f, x, y)
    BY DEF Packed!LU!SwapAt, Factors!SwapAt
  <2>3. \A Y : Packed!LU!Step(Y, rank) = Factors!Step(Y, rank)
    BY DEF Packed!LU!Step, Factors!Step, Packed!LU!Eliminate, Factors!Eliminate,
       Packed!LU!MultColFrom, Factors!MultColFrom, Packed!LU!MultAddRowFrom, Factors!MultAddRowFrom,
       Packed!LU!Rows, Factors!Rows, Packed!LU!Cols, Factors!Cols, Reciprocal
  <2>4. \A Y, x, y : /\ Packed!LU!SwapRows(Y, x, y) = Factors!SwapRows(Y, x, y)
                     /\ Packed!LU!SwapCols(Y, x, y) = Factors!SwapCols(Y, x, y)
    BY <1>1, <2>2 DEF Packed!LU!SwapRows, Factors!SwapRows, Packed!LU!SwapCols, Factors!SwapCols
  <2> QED BY <2>1, <2>2, <2>3, <2>4 DEF Packed!LU!Pivot, Factors!Pivot
<1> QED BY <1>1, <1>2, <1>3, <1>4, <1>5 DEF Packed!LU!Next, Factors!Next

LEMMA SameFactorisation == Packed!LU!Factorisation <=> Factors!Factorisation
BY DEF Packed!LU!Factorisation, Factors!Factorisation, Packed!LU!Sum, Factors!Sum,
   Packed!LU!LEntry, Factors!LEntry, Packed!LU!UEntry, Factors!UEntry,
   Packed!LU!Residual, Factors!Residual, Packed!LU!Rows, Factors!Rows, Packed!LU!Cols, Factors!Cols

(* m2v's instance of LU_decomp_inplace, working on packed words, makes the *)
(* steps of LUDecomp on the matrix they hold: for every word size and      *)
(* every shape whose width is no multiple of the word size.                *)
THEOREM ImplementsLUHolds ==
  ASSUME Assumptions, LastWordPartial
  PROVE  Packed!Spec => Packed!ImplementsLU
<1>1. Packed!Init => LInv /\ Packed!LU!Init
  BY LUStarts, SameInit
<1>2. LInv /\ [Packed!Next]_(Packed!vars) => LInv' /\ [Packed!LU!Next]_(Packed!LU!luVars)
  BY NextImplements, SameNext
<1> QED BY <1>1, <1>2, PTL DEF Packed!Spec, Packed!ImplementsLU, Packed!LU!Spec

(* Nor does it write behind the matrix.  LastWordPartial is needed: with a *)
(* full last word the sum after the last column starts in the next row.    *)
THEOREM InsideMatrixHolds ==
  ASSUME Assumptions, LastWordPartial
  PROVE  Packed!Spec => []Packed!InsideMatrix
<1>1. Packed!Init => LInv
  BY LUStarts
<1>2. LInv /\ [Packed!Next]_(Packed!vars) => LInv'
  BY NextImplements
<1>3. LInv => Packed!InsideMatrix
  BY SameOperations DEF LInv, Holds, Packed!InsideMatrix
<1> QED BY <1>1, <1>2, <1>3, PTL DEF Packed!Spec

(* So what it leaves in the words is a factorisation of the matrix.        *)
THEOREM FactorisesHolds ==
  ASSUME Assumptions, LastWordPartial
  PROVE  Packed!Spec => []Packed!Factorises
<1>1. Packed!Init => LInv /\ Factors!Init
  BY LUStarts
<1>2. LInv /\ [Packed!Next]_(Packed!vars) => LInv' /\ [Factors!Next]_(Factors!luVars)
  BY NextImplements
<1>3. Packed!Spec => Factors!Spec
  BY <1>1, <1>2, PTL DEF Packed!Spec, Factors!Spec
<1>4. Factors!Spec => []Factors!Factorisation
  BY BinaryField, Factors!FactorisationHolds
<1>5. Factors!Factorisation => Packed!Factorises
  BY SameFactorisation DEF Packed!Factorises
<1> QED BY <1>3, <1>4, <1>5, PTL

-----------------------------------------------------------------------------
(* Where octets are *)

OctRowSet == 0 .. OctRows - 1
OctColSet == 0 .. OctCols - 1
OctMemory == [Oct!Octets -> OctF]
OctMatrices == [OctRowSet -> [OctColSet -> OctF]]

(* The octet of a row and a column. *)
Cell(x, y) == x * OctCols + y

LEMMA CellIn ==
  ASSUME Oct!Assumptions, NEW x \in OctRowSet, NEW y \in OctColSet
  PROVE  /\ Cell(x, y) \in Oct!Octets /\ Cell(x, y) \in Int
         /\ x \in Int /\ y \in Int
<1>1. OctRows \in Nat \ {0} /\ OctCols \in Nat \ {0}
  BY DEF Oct!Assumptions
<1>2. x \in Int /\ x < OctRows /\ y \in Int /\ 0 <= y /\ y < OctCols /\ 0 <= x
  BY <1>1 DEF OctRowSet, OctColSet
<1>3. /\ x * OctCols \in Int /\ OctRows * OctCols \in Int
      /\ x * OctCols + OctCols <= OctRows * OctCols
  BY <1>1, <1>2, Product
<1>4. x * OctCols >= 0
  BY <1>1, <1>2
<1> QED BY <1>1, <1>2, <1>3, <1>4 DEF Cell, Oct!Octets

LEMMA CellApart ==
  ASSUME Oct!Assumptions, NEW x \in Int, NEW z \in Int, NEW y \in OctColSet, NEW t \in OctColSet,
         Cell(x, y) = Cell(z, t)
  PROVE  x = z /\ y = t
BY QuotientIs DEF Oct!Assumptions, OctColSet, Cell

LEMMA CellOf ==
  ASSUME Oct!Assumptions, NEW j \in Oct!Octets
  PROVE  \E x \in OctRowSet, y \in OctColSet : j = Cell(x, y)
<1>1. OctRows \in Nat \ {0} /\ OctCols \in Nat \ {0}
  BY DEF Oct!Assumptions
<1>2. j \in Int /\ 0 <= j /\ j < OctRows * OctCols
  <2>1. OctRows * OctCols \in Int
    BY <1>1
  <2> QED BY <2>1 DEF Oct!Octets
<1> DEFINE x == j \div OctCols
           y == j % OctCols
<1>3. x \in Int /\ y \in 0 .. OctCols - 1 /\ j = x * OctCols + y
  BY <1>1, <1>2, Quotient
<1> HIDE DEF x, y
<1>4. x * OctCols \in Int /\ OctRows * OctCols \in Int
  BY <1>1, <1>3
<1>5. x >= 0
  <2> SUFFICES ASSUME x < 0 PROVE FALSE
    BY <1>3
  <2>1. x * OctCols + OctCols <= 0 * OctCols
    BY <1>1, <1>3, Product
  <2>2. 0 * OctCols = 0
    BY <1>1
  <2> QED BY <1>1, <1>2, <1>3, <1>4, <2>1, <2>2
<1>6. x < OctRows
  <2> SUFFICES ASSUME OctRows <= x PROVE FALSE
    BY <1>1, <1>3
  <2>1. OctRows * OctCols <= x * OctCols
    <3>1. CASE OctRows < x
      BY <1>1, <1>3, <3>1, Product
    <3>2. CASE OctRows = x
      BY <1>4, <3>2
    <3> QED BY <1>1, <1>3, <3>1, <3>2
  <2> QED BY <1>1, <1>2, <1>3, <1>4, <2>1
<1>7. x \in OctRowSet /\ y \in OctColSet /\ j = Cell(x, y)
  BY <1>1, <1>3, <1>5, <1>6 DEF OctRowSet, OctColSet, Cell
<1> QED BY <1>7

(* A view is a rectangle of the matrix that owns the memory.               *)
OctFields == {"n_row", "n_col", "rstride", "e", "r0", "c0"}

IsRect(v) ==
  /\ v \in [OctFields -> Int]
  /\ v.r0 >= 0 /\ v.c0 >= 0 /\ v.n_row > 0 /\ v.n_col > 0
  /\ v.r0 + v.n_row <= OctRows /\ v.c0 + v.n_col <= OctCols
  /\ v.rstride = OctCols /\ v.e = Cell(v.r0, v.c0)

LEMMA RectNumbers ==
  ASSUME Oct!Assumptions, NEW v, IsRect(v)
  PROVE  /\ OctRows \in Nat \ {0} /\ OctCols \in Nat \ {0}
         /\ v.r0 \in Nat /\ v.c0 \in Nat /\ v.n_row \in Nat /\ v.n_col \in Nat
         /\ v.r0 + v.n_row <= OctRows /\ v.c0 + v.n_col <= OctCols
         /\ \A r \in Oct!ViewRows(v) : r \in Nat /\ v.r0 + r \in OctRowSet
         /\ \A c \in Oct!ViewCols(v) : c \in Nat /\ v.c0 + c \in OctColSet
         /\ \A x \in OctRowSet : x \in Nat
         /\ \A y \in OctColSet : y \in Nat
<1>1. OctRows \in Nat \ {0} /\ OctCols \in Nat \ {0}
  BY DEF Oct!Assumptions
<1>2. v.r0 \in Int /\ v.c0 \in Int /\ v.n_row \in Int /\ v.n_col \in Int
  BY DEF IsRect, OctFields
<1>3. v.r0 \in Nat /\ v.c0 \in Nat /\ v.n_row \in Nat /\ v.n_col \in Nat
  BY <1>2 DEF IsRect
<1>4. v.r0 + v.n_row <= OctRows /\ v.c0 + v.n_col <= OctCols
  BY DEF IsRect
<1> QED BY <1>1, <1>3, <1>4 DEF Oct!ViewRows, Oct!ViewCols, OctRowSet, OctColSet

LEMMA WholeIsRect ==
  ASSUME Oct!Assumptions
  PROVE  IsRect(Oct!m256v_make)
<1>1. OctRows \in Nat \ {0} /\ OctCols \in Nat \ {0}
  BY DEF Oct!Assumptions
<1>2. Oct!m256v_make \in [OctFields -> Int]
  BY <1>1 DEF Oct!m256v_make, OctFields
<1>3. Cell(0, 0) = 0
  BY <1>1 DEF Cell
<1> QED BY <1>1, <1>2, <1>3 DEF IsRect, Oct!m256v_make

(* The address of an element of a view.                                    *)
LEMMA OffsIs ==
  ASSUME Oct!Assumptions, NEW v, IsRect(v), NEW r \in Int, NEW c \in Int
  PROVE  Oct!get_el_offs(v, r, c) = Cell(v.r0 + r, v.c0 + c)
<1>1. OctCols \in Nat /\ v.r0 \in Nat /\ v.c0 \in Nat
  BY RectNumbers
<1>2. (v.r0 + r) * OctCols = v.r0 * OctCols + r * OctCols /\ v.r0 * OctCols \in Int /\ r * OctCols \in Int
  BY <1>1
<1>3. v.e = v.r0 * OctCols + v.c0 /\ v.rstride = OctCols
  BY DEF IsRect, Cell
<1> QED BY <1>1, <1>2, <1>3 DEF Oct!get_el_offs, Cell

LEMMA SubviewIsRect ==
  ASSUME Oct!Assumptions, NEW w, IsRect(w), NEW u \in Oct!Subviews(w), Oct!Inside(u, w)
  PROVE  IsRect(u)
<1>1. PICK ro \in 0 .. w.n_row - 1, co \in 0 .. w.n_col - 1, n \in 1 .. w.n_row, q \in 1 .. w.n_col :
        u = Oct!get_subview(w, ro, co, n, q)
  BY DEF Oct!Subviews
<1>2. /\ w.r0 \in Nat /\ w.c0 \in Nat /\ w.n_row \in Nat /\ w.n_col \in Nat
      /\ OctRows \in Nat /\ OctCols \in Nat
      /\ w.r0 + w.n_row <= OctRows /\ w.c0 + w.n_col <= OctCols
  BY RectNumbers
<1>3. ro \in Nat /\ co \in Nat /\ n \in Nat \ {0} /\ q \in Nat \ {0}
  BY <1>2
<1>4. /\ u.n_row = n /\ u.n_col = q /\ u.rstride = w.rstride
      /\ u.e = Oct!get_el_offs(w, ro, co) /\ u.r0 = w.r0 + ro /\ u.c0 = w.c0 + co
  BY <1>1 DEF Oct!get_subview
<1>5. u.e = Cell(u.r0, u.c0) /\ u.rstride = OctCols
  BY <1>3, <1>4, OffsIs DEF IsRect
<1>6. u.r0 + u.n_row <= OctRows /\ u.c0 + u.n_col <= OctCols
  BY <1>2, <1>3, <1>4 DEF Oct!Inside
<1>7. u.e \in Int
  <2>1. u.r0 * OctCols \in Int
    BY <1>2, <1>3, <1>4
  <2> QED BY <1>2, <1>3, <1>4, <1>5, <2>1 DEF Cell
<1>8. u \in [OctFields -> Int]
  <2>1. u = [n_row |-> n, n_col |-> q, rstride |-> OctCols, e |-> u.e, r0 |-> w.r0 + ro, c0 |-> w.c0 + co]
    BY <1>1, <1>4, <1>5 DEF Oct!get_subview
  <2>2. n \in Int /\ q \in Int /\ OctCols \in Int /\ w.r0 + ro \in Int /\ w.c0 + co \in Int
    BY <1>2, <1>3
  <2> QED BY <1>7, <2>1, <2>2 DEF OctFields
<1> QED BY <1>2, <1>3, <1>4, <1>5, <1>6, <1>8 DEF IsRect

(* The octets of a row of a view, from a column on.                        *)
LEMMA RowIs ==
  ASSUME Oct!Assumptions, NEW v, IsRect(v), NEW r \in Oct!ViewRows(v), NEW from \in 0 .. v.n_col,
         NEW x \in OctRowSet, NEW y \in OctColSet
  PROVE  Cell(x, y) \in Oct!Row(v, r, from) <=> x = v.r0 + r /\ y - v.c0 \in from .. v.n_col - 1
<1>1. /\ OctCols \in Nat \ {0} /\ v.r0 \in Nat /\ v.c0 \in Nat /\ v.n_col \in Nat /\ r \in Nat
      /\ v.c0 + v.n_col <= OctCols /\ x \in Nat /\ y \in Nat /\ y < OctCols /\ from \in Nat
      /\ from <= v.n_col
  BY RectNumbers DEF OctColSet
<1> DEFINE z == v.r0 + r
<1>2. z \in Nat
  BY <1>1
<1> DEFINE p == x * OctCols
           q == z * OctCols
<1>3. p \in Int /\ q \in Int
  BY <1>1, <1>2
<1>4. (x < z => p + OctCols <= q) /\ (z < x => q + OctCols <= p) /\ (x = z => p = q)
  <2>1. x < z => x * OctCols + OctCols <= z * OctCols
    BY <1>1, <1>2, Product
  <2>2. z < x => z * OctCols + OctCols <= x * OctCols
    BY <1>1, <1>2, Product
  <2> QED BY <2>1, <2>2
<1>5. Oct!Row(v, r, from) = q + (v.c0 + from) .. q + (v.c0 + v.n_col) - 1
  <2>1. from \in Int /\ v.n_col \in Int /\ r \in Int
    BY <1>1
  <2>2. Oct!get_el_offs(v, r, from) = Cell(z, v.c0 + from)
    BY <2>1, OffsIs
  <2>3. Oct!get_el_offs(v, r, v.n_col) = Cell(z, v.c0 + v.n_col)
    BY <2>1, OffsIs
  <2>4. Oct!Row(v, r, from) = (q + (v.c0 + from)) .. ((q + (v.c0 + v.n_col)) - 1)
    BY <2>2, <2>3 DEF Oct!Row, Cell
  <2> HIDE DEF q
  <2> QED BY <1>1, <1>3, <2>4
<1>6. Cell(x, y) = p + y
  BY DEF Cell
<1> HIDE DEF z, p, q
<1>7. p + y \in q + (v.c0 + from) .. q + (v.c0 + v.n_col) - 1
        <=> x = z /\ y - v.c0 \in from .. v.n_col - 1
  <2>1. CASE x = z
    BY <1>1, <1>2, <1>3, <1>4, <2>1
  <2>2. CASE x < z
    BY <1>1, <1>2, <1>3, <1>4, <2>2
  <2>3. CASE z < x
    BY <1>1, <1>2, <1>3, <1>4, <2>3
  <2> QED BY <1>1, <1>2, <2>1, <2>2, <2>3
<1> QED BY <1>5, <1>6, <1>7 DEF z

(* The octets of a column, from a row on.                                  *)
LEMMA ColIs ==
  ASSUME Oct!Assumptions, NEW v, IsRect(v), NEW c \in Oct!ViewCols(v), NEW from \in 0 .. v.n_row,
         NEW x \in OctRowSet, NEW y \in OctColSet
  PROVE  Cell(x, y) \in Oct!Col(v, c, from) <=> y = v.c0 + c /\ x - v.r0 \in from .. v.n_row - 1
<1>1. /\ v.r0 \in Nat /\ v.n_row \in Nat /\ c \in Nat /\ x \in Nat /\ y \in Nat /\ from \in Nat
      /\ v.c0 + c \in OctColSet
  BY RectNumbers
<1>2. \A r \in from .. v.n_row - 1 : r \in Int /\ Oct!get_el_offs(v, r, c) = Cell(v.r0 + r, v.c0 + c)
  BY <1>1, OffsIs
<1>3. ASSUME Cell(x, y) \in Oct!Col(v, c, from)
      PROVE  y = v.c0 + c /\ x - v.r0 \in from .. v.n_row - 1
  <2>1. PICK r \in from .. v.n_row - 1 : Cell(x, y) = Cell(v.r0 + r, v.c0 + c)
    BY <1>2, <1>3 DEF Oct!Col
  <2> DEFINE z == v.r0 + r
             t == v.c0 + c
  <2>2. r \in Int /\ z \in Int /\ x \in Int /\ t \in OctColSet /\ Cell(x, y) = Cell(z, t)
    BY <1>1, <2>1
  <2>3. x = z /\ y = t
    <3> HIDE DEF z, t
    <3> QED BY <2>2, CellApart
  <2> QED BY <1>1, <2>2, <2>3
<1>4. ASSUME y = v.c0 + c, x - v.r0 \in from .. v.n_row - 1
      PROVE  Cell(x, y) \in Oct!Col(v, c, from)
  <2> DEFINE r == x - v.r0
  <2>1. r \in from .. v.n_row - 1 /\ v.r0 + r = x
    BY <1>1, <1>4
  <2>2. Oct!get_el_offs(v, r, c) = Cell(x, y)
    BY <1>2, <1>4, <2>1
  <2> HIDE DEF r
  <2> QED BY <2>1, <2>2 DEF Oct!Col
<1> QED BY <1>3, <1>4

-----------------------------------------------------------------------------
(* Operations on a row, a column or an element *)

(* m holds the matrix X. *)
OctShows(m, X) ==
  /\ m \in OctMemory /\ X \in OctMatrices
  /\ \A x \in OctRowSet, y \in OctColSet : m[Cell(x, y)] = X[x][y]

LEMMA ShowsIf ==
  ASSUME Oct!Assumptions, NEW m, m = [j \in Oct!Octets |-> m[j]], NEW X \in OctMatrices,
         \A x \in OctRowSet, y \in OctColSet : m[Cell(x, y)] = X[x][y]
  PROVE  OctShows(m, X)
<1>1. ASSUME NEW j \in Oct!Octets PROVE m[j] \in OctF
  <2>1. PICK x \in OctRowSet, y \in OctColSet : j = Cell(x, y)
    BY CellOf
  <2> QED BY <2>1, ZenonT(20) DEF OctMatrices
<1> QED BY <1>1 DEF OctShows, OctMemory

LEMMA ShowsValues ==
  ASSUME Oct!Assumptions, NEW m, NEW X, OctShows(m, X)
  PROVE  /\ DOMAIN m = Oct!Octets /\ X \in OctMatrices
         /\ \A x \in OctRowSet, y \in OctColSet :
              /\ Cell(x, y) \in Oct!Octets /\ m[Cell(x, y)] = X[x][y] /\ X[x][y] \in OctF
              /\ x \in Nat /\ y \in Nat
<1>1. OctRows \in Nat /\ OctCols \in Nat
  BY DEF Oct!Assumptions
<1> QED BY <1>1, CellIn DEF OctShows, OctMemory, OctMatrices, OctRowSet, OctColSet

(* Corresponding octets of two rows are as far apart as their first ones.  *)
LEMMA OctRowShift ==
  ASSUME Oct!Assumptions, NEW v, IsRect(v), NEW r \in Oct!ViewRows(v), NEW w, IsRect(w),
         NEW s \in Oct!ViewRows(w), NEW offs \in Int, NEW y \in Int
  PROVE  Cell(w.r0 + s, y) + (Oct!get_el_offs(v, r, offs) - Oct!get_el_offs(w, s, offs))
           = Cell(v.r0 + r, v.c0 + (y - w.c0))
<1> DEFINE x == v.r0 + r
           z == w.r0 + s
<1>1. OctCols \in Int /\ x \in Int /\ z \in Int /\ v.c0 \in Int /\ w.c0 \in Int /\ r \in Int /\ s \in Int
  BY RectNumbers
<1>2. Oct!get_el_offs(v, r, offs) = Cell(x, v.c0 + offs)
        /\ Oct!get_el_offs(w, s, offs) = Cell(z, w.c0 + offs)
  BY <1>1, OffsIs
<1>3. x * OctCols \in Int /\ z * OctCols \in Int
  BY <1>1
<1> HIDE DEF x, z
<1> QED BY <1>1, <1>2, <1>3 DEF Cell, x, z

LEMMA OctSetElHolds ==
  ASSUME Oct!Assumptions, NEW m, NEW X, OctShows(m, X), NEW v, IsRect(v),
         NEW r \in Oct!ViewRows(v), NEW c \in Oct!ViewCols(v), NEW a \in OctF
  PROVE  OctShows(Oct!set_el(m, v, r, c, a), Oct!ElementSet(X, v, r, c, a))
<1> DEFINE m2 == Oct!set_el(m, v, r, c, a)
           X2 == Oct!ElementSet(X, v, r, c, a)
           z == v.r0 + r
           t == v.c0 + c
<1>1. z \in OctRowSet /\ t \in OctColSet /\ r \in Nat /\ c \in Nat /\ v.r0 \in Nat /\ v.c0 \in Nat
  BY RectNumbers
<1>2. \A x \in OctRowSet, y \in OctColSet :
        X2[x][y] = IF x = z /\ y = t THEN a ELSE X[x][y]
  BY <1>1, ShowsValues DEF Oct!ElementSet, Oct!Put, OctMatrices
<1>3. X2 \in OctMatrices
  BY ShowsValues DEF Oct!ElementSet, Oct!Put, OctMatrices
<1>4. m2 = [m EXCEPT ![Cell(z, t)] = a]
  <2>1. r \in Int /\ c \in Int
    BY <1>1
  <2>2. Oct!get_el_offs(v, r, c) = Cell(z, t)
    BY <2>1, OffsIs
  <2> QED BY <2>2 DEF Oct!set_el
<1>5. m2 = [j \in Oct!Octets |-> m2[j]]
  BY <1>4, ShowsValues
<1>6. ASSUME NEW x \in OctRowSet, NEW y \in OctColSet PROVE m2[Cell(x, y)] = X2[x][y]
  <2>1. Cell(x, y) = Cell(z, t) <=> x = z /\ y = t
    <3>1. x \in Int /\ z \in Int
      BY CellIn, <1>1
    <3> HIDE DEF z, t
    <3> QED BY <1>1, <3>1, CellApart
  <2> HIDE DEF m2, X2, z, t
  <2> QED BY <1>2, <1>4, <2>1, ShowsValues
<1> HIDE DEF m2, X2
<1>7. OctShows(m2, X2)
  BY <1>3, <1>5, <1>6, ShowsIf
<1> QED BY <1>7 DEF m2, X2

LEMMA OctSwapRowsHolds ==
  ASSUME Oct!Assumptions, NEW m, NEW X, OctShows(m, X), NEW v, IsRect(v),
         NEW r \in Oct!ViewRows(v), NEW s \in Oct!ViewRows(v)
  PROVE  OctShows(Oct!swap_rows(m, v, r, s), Oct!RowsSwapped(X, v, r, s))
<1> DEFINE m2 == Oct!swap_rows(m, v, r, s)
           X2 == Oct!RowsSwapped(X, v, r, s)
           z1 == v.r0 + r
           z2 == v.r0 + s
           d == Oct!get_el_offs(v, s, 0) - Oct!get_el_offs(v, r, 0)
           in(y) == y - v.c0 \in Oct!ViewCols(v)
           other(x) == IF x = z1 THEN z2 ELSE z1
<1>1. z1 \in OctRowSet /\ z2 \in OctRowSet /\ r \in Nat /\ s \in Nat /\ v.r0 \in Nat /\ v.c0 \in Nat
      /\ v.n_col \in Nat /\ 0 \in 0 .. v.n_col
  BY RectNumbers
<1>2. \A x \in OctRowSet, y \in OctColSet :
        X2[x][y] = IF x \in {z1, z2} /\ in(y) THEN X[other(x)][y] ELSE X[x][y]
  BY <1>1, ShowsValues DEF Oct!RowsSwapped, Oct!Put, OctMatrices, Oct!At
<1>3. X2 \in OctMatrices
  <2>1. X2 = [x \in OctRowSet |-> [y \in OctColSet |-> X2[x][y]]]
    BY ShowsValues DEF Oct!RowsSwapped, Oct!Put, OctMatrices
  <2> HIDE DEF X2
  <2> QED BY <1>1, <1>2, <2>1, ShowsValues DEF OctMatrices
<1>4. m2 = [j \in Oct!Octets |-> CASE j \in Oct!Row(v, r, 0) -> m[j + d]
                               [] j \in Oct!Row(v, s, 0) -> m[j - d]
                               [] OTHER -> m[j]]
  BY ShowsValues DEF Oct!swap_rows
<1>5. ASSUME NEW x \in OctRowSet, NEW y \in OctColSet PROVE m2[Cell(x, y)] = X2[x][y]
  <2>1. /\ Cell(x, y) \in Oct!Row(v, r, 0) <=> x = z1 /\ in(y)
        /\ Cell(x, y) \in Oct!Row(v, s, 0) <=> x = z2 /\ in(y)
    BY <1>1, RowIs DEF Oct!ViewCols
  <2>2. y \in Int /\ v.c0 + (y - v.c0) = y /\ 0 \in Int
    BY <1>1, CellIn
  <2>3. Cell(z1, y) + d = Cell(z2, y)
    BY <2>2, OctRowShift
  <2>4. d \in Int /\ Cell(z2, y) \in Int
    <3>1. Oct!get_el_offs(v, s, 0) = Cell(z2, v.c0 + 0) /\ Oct!get_el_offs(v, r, 0) = Cell(z1, v.c0 + 0)
      BY <1>1, OffsIs
    <3>2. OctCols \in Int /\ z1 \in Int /\ z2 \in Int
      BY <1>1, RectNumbers
    <3>3. z1 * OctCols \in Int /\ z2 * OctCols \in Int
      BY <3>2
    <3> HIDE DEF z1, z2
    <3> QED BY <1>1, <2>2, <3>1, <3>2, <3>3 DEF Cell, d
  <2>5. Cell(z2, y) - d = Cell(z1, y)
    <3>1. Cell(z1, y) \in Int
      BY <1>1, CellIn
    <3> HIDE DEF d, z1, z2
    <3> QED BY <2>3, <2>4, <3>1
  <2>6. Cell(x, y) \in Oct!Octets
    BY CellIn
  <2>7. m[Cell(x, y)] = X[x][y] /\ m[Cell(z1, y)] = X[z1][y] /\ m[Cell(z2, y)] = X[z2][y]
    BY <1>1, ShowsValues
  <2> HIDE DEF m2, X2, z1, z2, d, in
  <2>8. CASE ~in(y) \/ x \notin {z1, z2}
    BY <1>2, <1>4, <2>1, <2>6, <2>7, <2>8
  <2>9. CASE in(y) /\ x \in {z1, z2}
    <3>1. Cell(x, y) \in Oct!Row(v, r, 0) => m[Cell(x, y) + d] = X2[x][y]
      BY <1>2, <2>1, <2>3, <2>7, <2>9
    <3>2. Cell(x, y) \in Oct!Row(v, s, 0) => m[Cell(x, y) - d] = X2[x][y]
      BY <1>2, <2>1, <2>5, <2>7, <2>9
    <3>3. Cell(x, y) \in Oct!Row(v, r, 0) \/ Cell(x, y) \in Oct!Row(v, s, 0)
      BY <2>1, <2>9
    <3> QED BY <1>4, <2>6, <3>1, <3>2, <3>3
  <2> QED BY <2>8, <2>9
<1> HIDE DEF m2, X2
<1>6. m2 = [j \in Oct!Octets |-> m2[j]]
  BY <1>4
<1>7. OctShows(m2, X2)
  BY <1>3, <1>5, <1>6, ShowsIf
<1> QED BY <1>7 DEF m2, X2

(* What the operations do to one element.                                  *)
LEMMA ProductsAre ==
  ASSUME Oct!Assumptions, NEW alpha \in OctF, NEW x \in OctF
  PROVE  /\ OctMul(alpha, x) \in OctF /\ OctMul(Zero, x) = Zero
         /\ alpha # Zero => /\ Oct!TimesByte(alpha, x) = OctMul(alpha, x)
                            /\ Oct!Times(alpha, x) = OctMul(x, alpha)
                            /\ \A t \in OctF : Oct!Gain(alpha, x, t) = OctAdd(t, OctMul(alpha, x))
<1>1. Oct!LogDomain
  BY DEF Oct!Assumptions
<1>2. OctMul(alpha, x) \in OctF /\ OctMul(Zero, x) = Zero
  BY <1>1 DEF Oct!LogDomain
<1>3. ASSUME alpha # Zero
      PROVE  /\ Oct!TimesByte(alpha, x) = OctMul(alpha, x) /\ Oct!Times(alpha, x) = OctMul(x, alpha)
             /\ \A t \in OctF : Oct!Gain(alpha, x, t) = OctAdd(t, OctMul(alpha, x))
  <2>1. CASE x = Zero
    <3>1. OctMul(alpha, x) = x /\ OctMul(x, alpha) = x
      BY <1>1, <2>1 DEF Oct!LogDomain
    <3>2. \A t \in OctF : OctAdd(t, x) = t
      BY <1>1, <2>1 DEF Oct!LogDomain
    <3> QED BY <2>1, <3>1, <3>2 DEF Oct!TimesByte, Oct!Times, Oct!Gain
  <2>2. CASE x # Zero
    <3>1. /\ Log(alpha) \in 0 .. 255
          /\ Exp(Log(x) + Log(alpha)) = OctMul(x, alpha) /\ Exp(Log(alpha) + Log(x)) = OctMul(alpha, x)
      BY <1>1, <1>3, <2>2 DEF Oct!LogDomain
    <3>2. Log(alpha) % 256 = Log(alpha)
      BY <3>1
    <3>3. OctMul(x, alpha) = OctMul(alpha, x) /\ (alpha = One => OctMul(alpha, x) = x)
      BY <1>1 DEF Oct!LogDomain
    <3>4. Oct!TimesByte(alpha, x) = OctMul(alpha, x)
      BY <2>2, <3>1, <3>2, <3>3 DEF Oct!TimesByte
    <3>5. Oct!Times(alpha, x) = OctMul(x, alpha)
      BY <2>2, <3>1 DEF Oct!Times
    <3>6. \A t \in OctF : Oct!Gain(alpha, x, t) = OctAdd(t, OctMul(alpha, x))
      BY <2>2, <3>1, <3>3 DEF Oct!Gain
    <3> QED BY <3>4, <3>5, <3>6
  <2> QED BY <2>1, <2>2
<1> QED BY <1>2, <1>3

LEMMA OctMultRowHolds ==
  ASSUME Oct!Assumptions, NEW m, NEW X, OctShows(m, X), NEW v, IsRect(v),
         NEW r \in Oct!ViewRows(v), NEW alpha \in OctF
  PROVE  OctShows(Oct!mult_row(m, v, r, alpha), Oct!RowScaled(X, v, r, alpha))
<1> DEFINE m2 == Oct!mult_row(m, v, r, alpha)
           X2 == Oct!RowScaled(X, v, r, alpha)
           z == v.r0 + r
           in(y) == y - v.c0 \in Oct!ViewCols(v)
<1>1. z \in OctRowSet /\ r \in Nat /\ v.r0 \in Nat /\ v.c0 \in Nat
      /\ v.n_col \in Nat /\ 0 \in 0 .. v.n_col
  BY RectNumbers
<1>2. \A x \in OctRowSet, y \in OctColSet :
        X2[x][y] = IF x = z /\ in(y) THEN OctMul(alpha, X[x][y]) ELSE X[x][y]
  BY <1>1, ShowsValues DEF Oct!RowScaled, Oct!Put, OctMatrices, Oct!At
<1>3. X2 \in OctMatrices
  <2>1. X2 = [x \in OctRowSet |-> [y \in OctColSet |-> X2[x][y]]]
    BY ShowsValues DEF Oct!RowScaled, Oct!Put, OctMatrices
  <2> HIDE DEF X2
  <2> QED BY <1>2, <2>1, ShowsValues, ProductsAre DEF OctMatrices
<1>4. m2 = [j \in Oct!Octets |-> IF j \in Oct!Row(v, r, 0)
                               THEN IF alpha = Zero THEN Zero ELSE Oct!TimesByte(alpha, m[j])
                               ELSE m[j]]
  BY ShowsValues DEF Oct!mult_row, Oct!clear_row
<1>5. ASSUME NEW x \in OctRowSet, NEW y \in OctColSet PROVE m2[Cell(x, y)] = X2[x][y]
  <2>1. Cell(x, y) \in Oct!Row(v, r, 0) <=> x = z /\ in(y)
    BY <1>1, RowIs DEF Oct!ViewCols
  <2>2. Cell(x, y) \in Oct!Octets /\ m[Cell(x, y)] = X[x][y] /\ X[x][y] \in OctF
    BY ShowsValues
  <2>3. OctMul(alpha, X[x][y]) = IF alpha = Zero THEN Zero ELSE Oct!TimesByte(alpha, X[x][y])
    BY <2>2, ProductsAre
  <2> HIDE DEF m2, X2, z, in
  <2> QED BY <1>2, <1>4, <2>1, <2>2, <2>3
<1> HIDE DEF m2, X2
<1>6. m2 = [j \in Oct!Octets |-> m2[j]]
  BY <1>4
<1>7. OctShows(m2, X2)
  BY <1>3, <1>5, <1>6, ShowsIf
<1> QED BY <1>7 DEF m2, X2

LEMMA OctMultAddRowFromHolds ==
  ASSUME Oct!Assumptions, NEW m, NEW X, OctShows(m, X), NEW v, IsRect(v), NEW w, IsRect(w),
         v.n_col = w.n_col, NEW r \in Oct!ViewRows(v), NEW s \in Oct!ViewRows(w),
         NEW offs \in 0 .. v.n_col, NEW alpha \in OctF
  PROVE  OctShows(Oct!multadd_row_from(m, v, r, offs, alpha, w, s), Oct!RowAdded(X, v, r, offs,
           alpha, w, s))
<1> DEFINE m2 == Oct!multadd_row_from(m, v, r, offs, alpha, w, s)
           X2 == Oct!RowAdded(X, v, r, offs, alpha, w, s)
           x1 == v.r0 + r
           z == w.r0 + s
           d == Oct!get_el_offs(v, r, offs) - Oct!get_el_offs(w, s, offs)
           in(y) == y - w.c0 \in offs .. w.n_col - 1
           from(y) == v.c0 + (y - w.c0)
<1>1. /\ z \in OctRowSet /\ x1 \in OctRowSet /\ r \in Nat /\ s \in Nat /\ w.r0 \in Nat /\ w.c0 \in Nat
      /\ v.r0 \in Nat /\ v.c0 \in Nat
      /\ v.n_col \in Nat /\ offs \in 0 .. w.n_col /\ offs \in Int
  BY RectNumbers
<1>2. ASSUME NEW y \in OctColSet, in(y) PROVE from(y) \in OctColSet
  <2>1. y - w.c0 \in Oct!ViewCols(v)
    BY <1>1, <1>2, CellIn DEF Oct!ViewCols
  <2> QED BY <2>1, RectNumbers
<1>3. \A x \in OctRowSet, y \in OctColSet :
        X2[x][y] = IF x = z /\ in(y) THEN OctAdd(X[x][y], OctMul(alpha, X[x1][from(y)])) ELSE X[x][y]
  BY <1>1, ShowsValues DEF Oct!RowAdded, Oct!Put, OctMatrices, Oct!At
<1>4. ASSUME NEW x \in OctRowSet, NEW y \in OctColSet PROVE X2[x][y] \in OctF
  <2>1. CASE x = z /\ in(y)
    <3>1. X[x1][from(y)] \in OctF /\ X[x][y] \in OctF
      BY <1>1, <1>2, <2>1, ShowsValues
    <3>2. OctMul(alpha, X[x1][from(y)]) \in OctF
      BY <3>1, ProductsAre
    <3>3. Oct!LogDomain
      BY DEF Oct!Assumptions
    <3> HIDE DEF X2, in, from, z
    <3> QED BY <1>3, <2>1, <3>1, <3>2, <3>3 DEF Oct!LogDomain
  <2>2. CASE ~(x = z /\ in(y))
    <3> HIDE DEF X2, in, from, z
    <3> QED BY <1>3, <2>2, ShowsValues
  <2> QED BY <2>1, <2>2
<1>5. X2 \in OctMatrices
  <2>1. X2 = [x \in OctRowSet |-> [y \in OctColSet |-> X2[x][y]]]
    BY ShowsValues DEF Oct!RowAdded, Oct!Put, OctMatrices
  <2> HIDE DEF X2
  <2> QED BY <1>4, <2>1 DEF OctMatrices
<1>6. m2 = [j \in Oct!Octets |-> IF j \in Oct!Row(w, s, offs) /\ alpha # Zero
                               THEN Oct!Gain(alpha, m[j + d], m[j]) ELSE m[j]]
  <2>1. CASE alpha = Zero
    BY <2>1, ShowsValues DEF Oct!multadd_row_from, OctShows, OctMemory
  <2>2. CASE alpha # Zero
    BY <2>2, ShowsValues DEF Oct!multadd_row_from
  <2> QED BY <2>1, <2>2
<1>7. ASSUME NEW x \in OctRowSet, NEW y \in OctColSet PROVE m2[Cell(x, y)] = X2[x][y]
  <2>1. Cell(x, y) \in Oct!Row(w, s, offs) <=> x = z /\ in(y)
    BY <1>1, RowIs
  <2>2. Cell(x, y) \in Oct!Octets /\ m[Cell(x, y)] = X[x][y] /\ X[x][y] \in OctF
    BY ShowsValues
  <2>3. CASE x = z /\ in(y)
    <3>1. y \in Int
      BY CellIn
    <3>2. Cell(z, y) + d = Cell(x1, from(y))
      BY <1>1, <3>1, OctRowShift
    <3>3. X[x1][from(y)] \in OctF /\ m[Cell(x1, from(y))] = X[x1][from(y)]
      BY <1>1, <1>2, <2>3, ShowsValues
    <3>4. Oct!LogDomain
      BY DEF Oct!Assumptions
    <3> DEFINE b == X[x1][from(y)]
    <3>5. b \in OctF /\ m[Cell(x, y) + d] = b
      BY <2>3, <3>2, <3>3
    <3> HIDE DEF b
    <3>6. CASE alpha = Zero
      <4>1. OctMul(alpha, b) = Zero
        BY <3>5, <3>6, <3>4, ProductsAre DEF Oct!LogDomain
      <4>2. OctAdd(X[x][y], OctMul(alpha, b)) = X[x][y]
        BY <4>1, <2>2, <3>4 DEF Oct!LogDomain
      <4> HIDE DEF m2, X2, d, in, z
      <4> QED BY <1>3, <1>6, <2>2, <2>3, <3>6, <4>2 DEF b
    <3>7. CASE alpha # Zero
      <4>1. Oct!Gain(alpha, b, X[x][y]) = OctAdd(X[x][y], OctMul(alpha, b))
        <5>1. \A u \in OctF : Oct!Gain(alpha, b, u) = OctAdd(u, OctMul(alpha, b))
          BY <3>5, <3>7, ProductsAre
        <5> QED BY <2>2, <5>1
      <4>2. m2[Cell(x, y)] = Oct!Gain(alpha, b, X[x][y])
        <5> HIDE DEF m2, X2, d, in, z
        <5> QED BY <1>6, <2>1, <2>2, <2>3, <3>5, <3>7
      <4> HIDE DEF m2, X2, d, in, z
      <4> QED BY <1>3, <2>3, <4>1, <4>2 DEF b
    <3> QED BY <3>6, <3>7
  <2>4. CASE ~(x = z /\ in(y))
    <3> HIDE DEF m2, X2, d, in, z
    <3> QED BY <1>3, <1>6, <2>1, <2>2, <2>4
  <2> QED BY <2>3, <2>4
<1> HIDE DEF m2, X2
<1>8. m2 = [j \in Oct!Octets |-> m2[j]]
  BY <1>6
<1>9. OctShows(m2, X2)
  BY <1>5, <1>7, <1>8, ShowsIf
<1> QED BY <1>9 DEF m2, X2

LEMMA OctCopyRowHolds ==
  ASSUME Oct!Assumptions, NEW m, NEW X, OctShows(m, X), NEW v, IsRect(v), NEW w, IsRect(w),
         v.n_col = w.n_col, NEW r \in Oct!ViewRows(v), NEW s \in Oct!ViewRows(w)
  PROVE  OctShows(Oct!copy_row(m, v, r, w, s), Oct!RowCopied(X, v, r, w, s))
<1> DEFINE m2 == Oct!copy_row(m, v, r, w, s)
           X2 == Oct!RowCopied(X, v, r, w, s)
           x1 == v.r0 + r
           z == w.r0 + s
           d == Oct!get_el_offs(v, r, 0) - Oct!get_el_offs(w, s, 0)
           in(y) == y - w.c0 \in Oct!ViewCols(w)
           from(y) == v.c0 + (y - w.c0)
<1>1. /\ z \in OctRowSet /\ x1 \in OctRowSet /\ r \in Nat /\ s \in Nat /\ w.r0 \in Nat /\ w.c0 \in Nat
      /\ v.r0 \in Nat /\ v.c0 \in Nat
      /\ v.n_col \in Nat /\ 0 \in 0 .. w.n_col /\ 0 \in Int
  BY RectNumbers
<1>2. ASSUME NEW y \in OctColSet, in(y) PROVE from(y) \in OctColSet
  <2>1. y - w.c0 \in Oct!ViewCols(v)
    BY <1>1, <1>2, CellIn DEF Oct!ViewCols
  <2> QED BY <2>1, RectNumbers
<1>3. \A x \in OctRowSet, y \in OctColSet :
        X2[x][y] = IF x = z /\ in(y) THEN X[x1][from(y)] ELSE X[x][y]
  BY <1>1, ShowsValues DEF Oct!RowCopied, Oct!Put, OctMatrices, Oct!At
<1>4. X2 \in OctMatrices
  <2>1. X2 = [x \in OctRowSet |-> [y \in OctColSet |-> X2[x][y]]]
    BY ShowsValues DEF Oct!RowCopied, Oct!Put, OctMatrices
  <2> HIDE DEF X2, from, in, z
  <2> QED BY <1>1, <1>2, <1>3, <2>1, ShowsValues DEF OctMatrices
<1>5. m2 = [j \in Oct!Octets |-> IF j \in Oct!Row(w, s, 0) THEN m[j + d] ELSE m[j]]
  BY ShowsValues DEF Oct!copy_row
<1>6. ASSUME NEW x \in OctRowSet, NEW y \in OctColSet PROVE m2[Cell(x, y)] = X2[x][y]
  <2>1. Cell(x, y) \in Oct!Row(w, s, 0) <=> x = z /\ in(y)
    BY <1>1, RowIs DEF Oct!ViewCols
  <2>2. Cell(x, y) \in Oct!Octets /\ m[Cell(x, y)] = X[x][y]
    BY ShowsValues
  <2>3. CASE x = z /\ in(y)
    <3>1. y \in Int
      BY CellIn
    <3>2. Cell(z, y) + d = Cell(x1, from(y))
      BY <1>1, <3>1, OctRowShift
    <3>3. m[Cell(x1, from(y))] = X[x1][from(y)]
      BY <1>1, <1>2, <2>3, ShowsValues
    <3> HIDE DEF m2, X2, d, in, z, from
    <3> QED BY <1>3, <1>5, <2>1, <2>2, <2>3, <3>2, <3>3
  <2>4. CASE ~(x = z /\ in(y))
    <3> HIDE DEF m2, X2, d, in, z
    <3> QED BY <1>3, <1>5, <2>1, <2>2, <2>4
  <2> QED BY <2>3, <2>4
<1> HIDE DEF m2, X2
<1>7. m2 = [j \in Oct!Octets |-> m2[j]]
  BY <1>5
<1>8. OctShows(m2, X2)
  BY <1>4, <1>6, <1>7, ShowsIf
<1> QED BY <1>8 DEF m2, X2

LEMMA OctSwapColsHolds ==
  ASSUME Oct!Assumptions, NEW m, NEW X, OctShows(m, X), NEW v, IsRect(v),
         NEW c \in Oct!ViewCols(v), NEW t \in Oct!ViewCols(v)
  PROVE  OctShows(Oct!swap_cols(m, v, c, t), Oct!ColsSwapped(X, v, c, t))
<1> DEFINE m2 == Oct!swap_cols(m, v, c, t)
           X2 == Oct!ColsSwapped(X, v, c, t)
           y1 == v.c0 + c
           y2 == v.c0 + t
           in(x) == x - v.r0 \in Oct!ViewRows(v)
           other(y) == IF y = y1 THEN y2 ELSE y1
<1>1. y1 \in OctColSet /\ y2 \in OctColSet /\ c \in Nat /\ t \in Nat /\ v.r0 \in Nat /\ v.c0 \in Nat
      /\ v.n_row \in Nat /\ 0 \in 0 .. v.n_row
  BY RectNumbers
<1>2. \A x \in OctRowSet, y \in OctColSet :
        X2[x][y] = IF y \in {y1, y2} /\ in(x) THEN X[x][other(y)] ELSE X[x][y]
  BY <1>1, ShowsValues DEF Oct!ColsSwapped, Oct!Put, OctMatrices, Oct!At
<1>3. X2 \in OctMatrices
  <2>1. X2 = [x \in OctRowSet |-> [y \in OctColSet |-> X2[x][y]]]
    BY ShowsValues DEF Oct!ColsSwapped, Oct!Put, OctMatrices
  <2> HIDE DEF X2
  <2> QED BY <1>1, <1>2, <2>1, ShowsValues DEF OctMatrices
<1>4. m2 = [j \in Oct!Octets |-> CASE j \in Oct!Col(v, c, 0) -> m[j + t - c]
                               [] j \in Oct!Col(v, t, 0) -> m[j + c - t]
                               [] OTHER -> m[j]]
  BY ShowsValues DEF Oct!swap_cols
<1>5. ASSUME NEW x \in OctRowSet, NEW y \in OctColSet PROVE m2[Cell(x, y)] = X2[x][y]
  <2>1. /\ Cell(x, y) \in Oct!Col(v, c, 0) <=> y = y1 /\ in(x)
        /\ Cell(x, y) \in Oct!Col(v, t, 0) <=> y = y2 /\ in(x)
    BY <1>1, ColIs DEF Oct!ViewRows
  <2>2. x * OctCols \in Int
    BY CellIn DEF Oct!Assumptions
  <2>3. Cell(x, y1) + t - c = Cell(x, y2) /\ Cell(x, y2) + c - t = Cell(x, y1)
    BY <1>1, <2>2 DEF Cell
  <2>4. Cell(x, y) \in Oct!Octets
    BY CellIn
  <2>5. m[Cell(x, y)] = X[x][y] /\ m[Cell(x, y1)] = X[x][y1] /\ m[Cell(x, y2)] = X[x][y2]
    BY <1>1, ShowsValues
  <2> HIDE DEF m2, X2, y1, y2, in
  <2>6. CASE ~in(x) \/ y \notin {y1, y2}
    BY <1>2, <1>4, <2>1, <2>4, <2>5, <2>6
  <2>7. CASE in(x) /\ y \in {y1, y2}
    <3>1. Cell(x, y) \in Oct!Col(v, c, 0) => m[Cell(x, y) + t - c] = X2[x][y]
      BY <1>2, <2>1, <2>3, <2>5, <2>7
    <3>2. Cell(x, y) \in Oct!Col(v, t, 0) => m[Cell(x, y) + c - t] = X2[x][y]
      BY <1>2, <2>1, <2>3, <2>5, <2>7
    <3>3. Cell(x, y) \in Oct!Col(v, c, 0) \/ Cell(x, y) \in Oct!Col(v, t, 0)
      BY <2>1, <2>7
    <3> QED BY <1>4, <2>4, <3>1, <3>2, <3>3
  <2> QED BY <2>6, <2>7
<1> HIDE DEF m2, X2
<1>6. m2 = [j \in Oct!Octets |-> m2[j]]
  BY <1>4
<1>7. OctShows(m2, X2)
  BY <1>3, <1>5, <1>6, ShowsIf
<1> QED BY <1>7 DEF m2, X2

LEMMA OctMultColFromHolds ==
  ASSUME Oct!Assumptions, NEW m, NEW X, OctShows(m, X), NEW v, IsRect(v),
         NEW c \in Oct!ViewCols(v), NEW offs \in 0 .. v.n_row, NEW alpha \in OctF
  PROVE  OctShows(Oct!mult_col_from(m, v, c, offs, alpha), Oct!ColScaled(X, v, c, offs, alpha))
<1> DEFINE m2 == Oct!mult_col_from(m, v, c, offs, alpha)
           X2 == Oct!ColScaled(X, v, c, offs, alpha)
           y1 == v.c0 + c
           in(x) == x - v.r0 \in offs .. v.n_row - 1
<1>1. y1 \in OctColSet /\ c \in Nat /\ v.r0 \in Nat /\ v.c0 \in Nat /\ v.n_row \in Nat /\ offs \in Nat
  BY RectNumbers
<1>2. \A x \in OctRowSet, y \in OctColSet :
        X2[x][y] = IF y = y1 /\ in(x) THEN OctMul(X[x][y], alpha) ELSE X[x][y]
  BY <1>1, ShowsValues DEF Oct!ColScaled, Oct!Put, OctMatrices, Oct!At
<1>3. X2 \in OctMatrices
  <2>1. X2 = [x \in OctRowSet |-> [y \in OctColSet |-> X2[x][y]]]
    BY ShowsValues DEF Oct!ColScaled, Oct!Put, OctMatrices
  <2>2. \A b \in OctF : OctMul(b, alpha) \in OctF
    BY ProductsAre
  <2> HIDE DEF X2
  <2> QED BY <1>2, <2>1, <2>2, ShowsValues DEF OctMatrices
<1>4. m2 = [j \in Oct!Octets |-> IF j \in Oct!Col(v, c, offs)
                               THEN IF alpha = Zero THEN Zero ELSE Oct!Times(alpha, m[j])
                               ELSE m[j]]
  BY ShowsValues DEF Oct!mult_col_from
<1>5. ASSUME NEW x \in OctRowSet, NEW y \in OctColSet PROVE m2[Cell(x, y)] = X2[x][y]
  <2>1. Cell(x, y) \in Oct!Col(v, c, offs) <=> y = y1 /\ in(x)
    BY <1>1, ColIs
  <2>2. Cell(x, y) \in Oct!Octets /\ m[Cell(x, y)] = X[x][y] /\ X[x][y] \in OctF
    BY ShowsValues
  <2>3. Oct!LogDomain
    BY DEF Oct!Assumptions
  <2>4. OctMul(X[x][y], alpha) = IF alpha = Zero THEN Zero ELSE Oct!Times(alpha, X[x][y])
    BY <2>2, <2>3, ProductsAre DEF Oct!LogDomain
  <2> HIDE DEF m2, X2, y1, in
  <2> QED BY <1>2, <1>4, <2>1, <2>2, <2>4
<1> HIDE DEF m2, X2
<1>6. m2 = [j \in Oct!Octets |-> m2[j]]
  BY <1>4
<1>7. OctShows(m2, X2)
  BY <1>3, <1>5, <1>6, ShowsIf
<1> QED BY <1>7 DEF m2, X2

LEMMA OctCopyColHolds ==
  ASSUME Oct!Assumptions, NEW m, NEW X, OctShows(m, X), NEW v, IsRect(v), NEW w, IsRect(w),
         v.n_row = w.n_row, NEW c \in Oct!ViewCols(v), NEW t \in Oct!ViewCols(w)
  PROVE  OctShows(Oct!copy_col(m, v, c, w, t), Oct!ColCopied(X, v, c, w, t))
<1> DEFINE m2 == Oct!copy_col(m, v, c, w, t)
           X2 == Oct!ColCopied(X, v, c, w, t)
           y1 == v.c0 + c
           y2 == w.c0 + t
           in(x) == x - w.r0 \in Oct!ViewRows(w)
           from(x) == v.r0 + (x - w.r0)
<1>1. /\ y1 \in OctColSet /\ y2 \in OctColSet /\ c \in Nat /\ t \in Nat /\ v.r0 \in Nat /\ w.r0 \in Nat
      /\ v.c0 \in Nat /\ w.c0 \in Nat /\ w.n_row \in Nat /\ 0 \in 0 .. w.n_row
  BY RectNumbers
<1>2. ASSUME NEW x \in OctRowSet, in(x)
      PROVE  from(x) \in OctRowSet /\ x - w.r0 \in Oct!ViewRows(v) /\ x - w.r0 \in Int
  <2>1. x - w.r0 \in Oct!ViewRows(v)
    BY <1>2 DEF Oct!ViewRows
  <2> QED BY <2>1, RectNumbers
<1>3. \A x \in OctRowSet, y \in OctColSet :
        X2[x][y] = IF y = y2 /\ in(x) THEN X[from(x)][y1] ELSE X[x][y]
  BY <1>1, ShowsValues DEF Oct!ColCopied, Oct!Put, OctMatrices, Oct!At
<1>4. X2 \in OctMatrices
  <2>1. X2 = [x \in OctRowSet |-> [y \in OctColSet |-> X2[x][y]]]
    BY ShowsValues DEF Oct!ColCopied, Oct!Put, OctMatrices
  <2> HIDE DEF X2, from, in, y1, y2
  <2> QED BY <1>1, <1>2, <1>3, <2>1, ShowsValues DEF OctMatrices
<1>5. m2 = [j \in Oct!Octets |-> IF j \in Oct!Col(w, t, 0)
        THEN m[Oct!get_el_offs(v, (j - w.e) \div w.rstride, c)]
                               ELSE m[j]]
  BY ShowsValues DEF Oct!copy_col, Oct!get_el
<1>6. ASSUME NEW x \in OctRowSet, NEW y \in OctColSet PROVE m2[Cell(x, y)] = X2[x][y]
  <2>1. Cell(x, y) \in Oct!Col(w, t, 0) <=> y = y2 /\ in(x)
    BY <1>1, ColIs DEF Oct!ViewRows
  <2>2. Cell(x, y) \in Oct!Octets /\ m[Cell(x, y)] = X[x][y]
    BY ShowsValues
  <2>3. CASE y = y2 /\ in(x)
    <3> DEFINE l == x - w.r0
    <3>1. l \in Int /\ from(x) \in OctRowSet /\ OctCols \in Nat \ {0} /\ t < OctCols /\ 0 <= t
            /\ w.r0 * OctCols \in Int
      BY <1>1, <1>2, <2>3, RectNumbers DEF OctColSet
    <3>2. Cell(x, y2) - w.e = l * OctCols + t
      <4>1. x = w.r0 + l
        BY <1>1, CellIn
      <4>2. l * OctCols \in Int
        BY <3>1
      <4>3. (w.r0 + l) * OctCols = w.r0 * OctCols + l * OctCols
        BY <1>1, <3>1
      <4>4. w.e = w.r0 * OctCols + w.c0
        BY DEF IsRect, Cell
      <4> HIDE DEF l
      <4> QED BY <1>1, <3>1, <4>1, <4>2, <4>3, <4>4 DEF Cell
    <3>3. (l * OctCols + t) \div OctCols = l
      <4> DEFINE n == l * OctCols + t
      <4> HIDE DEF l
      <4>1. n \in Int /\ t \in 0 .. OctCols - 1
        BY <1>1, <3>1
      <4> HIDE DEF n
      <4>2. /\ n \div OctCols \in Int /\ n % OctCols \in 0 .. OctCols - 1
            /\ n = (n \div OctCols) * OctCols + (n % OctCols)
        BY <3>1, <4>1, Quotient
      <4>3. (n \div OctCols) * OctCols + (n % OctCols) = l * OctCols + t
        BY <4>2 DEF n
      <4>4. n \div OctCols = l
        BY <3>1, <4>1, <4>2, <4>3, QuotientIs
      <4> QED BY <4>4 DEF n
    <3>4. (Cell(x, y) - w.e) \div w.rstride = l
      BY <2>3, <3>2, <3>3 DEF IsRect
    <3>5. Oct!get_el_offs(v, l, c) = Cell(from(x), y1)
      BY <1>1, <3>1, OffsIs
    <3>6. m[Cell(from(x), y1)] = X[from(x)][y1]
      BY <1>1, <3>1, ShowsValues
    <3> HIDE DEF m2, X2, l, in, y1, y2, from
    <3> QED BY <1>3, <1>5, <2>1, <2>2, <2>3, <3>4, <3>5, <3>6
  <2>4. CASE ~(y = y2 /\ in(x))
    <3> HIDE DEF m2, X2, in, y2
    <3> QED BY <1>3, <1>5, <2>1, <2>2, <2>4
  <2> QED BY <2>3, <2>4
<1> HIDE DEF m2, X2
<1>7. m2 = [j \in Oct!Octets |-> m2[j]]
  BY <1>5
<1>8. OctShows(m2, X2)
  BY <1>4, <1>6, <1>7, ShowsIf
<1> QED BY <1>8 DEF m2, X2

(* The zero test of a row sees exactly the octets of the row. *)
LEMMA OctRowZero ==
  ASSUME Oct!Assumptions, NEW m, NEW X, OctShows(m, X), NEW v, IsRect(v), NEW r \in Oct!ViewRows(v)
  PROVE  Oct!row_iszero(m, v, r) <=> Oct!RowIsZero(X, v, r)
<1> DEFINE z == v.r0 + r
<1>1. z \in OctRowSet /\ r \in Nat /\ v.r0 \in Nat /\ v.c0 \in Nat /\ v.n_col \in Nat
      /\ 0 \in 0 .. v.n_col
  BY RectNumbers
<1>2. ASSUME Oct!row_iszero(m, v, r), NEW c \in Oct!ViewCols(v) PROVE Oct!At(X, v, r, c) = Zero
  <2> DEFINE y == v.c0 + c
  <2>1. y \in OctColSet /\ y - v.c0 = c /\ c \in 0 .. v.n_col - 1
    BY RectNumbers DEF Oct!ViewCols
  <2>2. Cell(z, y) \in Oct!Row(v, r, 0)
    <3> HIDE DEF y
    <3> QED BY <1>1, <2>1, RowIs
  <2>3. m[Cell(z, y)] = X[z][y]
    BY <1>1, <2>1, ShowsValues
  <2> QED BY <1>2, <2>2, <2>3 DEF Oct!row_iszero, Oct!At
<1>3. ASSUME Oct!RowIsZero(X, v, r), NEW j \in Oct!Row(v, r, 0) PROVE m[j] = Zero
  <2>1. j \in Oct!Octets
    <3>1. Oct!Row(v, r, 0) = Cell(z, v.c0 + 0) .. Cell(z, v.c0 + v.n_col) - 1
      <4>1. Oct!get_el_offs(v, r, 0) = Cell(z, v.c0 + 0)
        BY <1>1, OffsIs
      <4>2. Oct!get_el_offs(v, r, v.n_col) = Cell(z, v.c0 + v.n_col)
        BY <1>1, OffsIs
      <4> QED BY <4>1, <4>2 DEF Oct!Row
    <3>2. OctRows \in Nat /\ OctCols \in Nat /\ z < OctRows /\ v.c0 + v.n_col <= OctCols /\ z \in Nat
      BY <1>1, RectNumbers DEF OctRowSet
    <3> HIDE DEF z
    <3>3. z * OctCols + OctCols <= OctRows * OctCols /\ z * OctCols \in Nat /\ OctRows * OctCols \in Nat
      BY <3>2, Product
    <3> DEFINE p == z * OctCols
               q == OctRows * OctCols
    <3>4. /\ j \in (p + (v.c0 + 0)) .. ((p + (v.c0 + v.n_col)) - 1)
          /\ p \in Nat /\ q \in Nat /\ p + OctCols <= q
      BY <1>3, <3>1, <3>3 DEF Cell
    <3>5. Oct!Octets = 0 .. q - 1
      BY DEF Oct!Octets
    <3> HIDE DEF p, q
    <3> QED BY <1>1, <3>2, <3>4, <3>5
  <2>2. PICK x \in OctRowSet, y \in OctColSet : j = Cell(x, y)
    BY <2>1, CellOf
  <2>3. x = z /\ y - v.c0 \in Oct!ViewCols(v) /\ y \in Int
    BY <1>1, <1>3, <2>2, RowIs, CellIn DEF Oct!ViewCols
  <2>4. X[z][v.c0 + (y - v.c0)] = Zero /\ v.c0 + (y - v.c0) = y
    BY <1>1, <1>3, <2>3 DEF Oct!RowIsZero, Oct!At
  <2> QED BY <2>2, <2>3, <2>4, ShowsValues
<1> QED BY <1>2, <1>3 DEF Oct!row_iszero, Oct!RowIsZero

LEMMA OctIsZero ==
  ASSUME Oct!Assumptions, NEW m, NEW X, OctShows(m, X), NEW v, IsRect(v)
  PROVE  Oct!iszero(m, v) <=> Oct!Cleared(X, v) = X
<1> DEFINE X2 == Oct!Cleared(X, v)
           in(x, y) == x - v.r0 \in Oct!ViewRows(v) /\ y - v.c0 \in Oct!ViewCols(v)
<1>1. \A x \in OctRowSet, y \in OctColSet : X2[x][y] = IF in(x, y) THEN Zero ELSE X[x][y]
  BY ShowsValues DEF Oct!Cleared, Oct!Put, OctMatrices
<1>2. X2 = [x \in OctRowSet |-> [y \in OctColSet |-> X2[x][y]]]
  BY ShowsValues DEF Oct!Cleared, Oct!Put, OctMatrices
<1>3. X = [x \in OctRowSet |-> [y \in OctColSet |-> X[x][y]]]
  BY ShowsValues DEF OctMatrices
<1>4. v.r0 \in Nat /\ v.c0 \in Nat
  BY RectNumbers
<1>5. ASSUME Oct!iszero(m, v) PROVE X2 = X
  <2> SUFFICES ASSUME NEW x \in OctRowSet, NEW y \in OctColSet PROVE X2[x][y] = X[x][y]
    <3> HIDE DEF X2
    <3> QED BY <1>2, <1>3
  <2>1. CASE in(x, y)
    <3>1. Oct!RowIsZero(X, v, x - v.r0)
      BY <1>5, <2>1, OctRowZero DEF Oct!iszero
    <3>2. X[v.r0 + (x - v.r0)][v.c0 + (y - v.c0)] = Zero
      BY <2>1, <3>1 DEF Oct!RowIsZero, Oct!At
    <3>3. v.r0 + (x - v.r0) = x /\ v.c0 + (y - v.c0) = y
      BY <1>4, CellIn
    <3> HIDE DEF X2, in
    <3> QED BY <1>1, <2>1, <3>2, <3>3
  <2>2. CASE ~in(x, y)
    <3> HIDE DEF X2, in
    <3> QED BY <1>1, <2>2
  <2> QED BY <2>1, <2>2
<1>6. ASSUME X2 = X PROVE Oct!iszero(m, v)
  <2>1. ASSUME NEW r \in Oct!ViewRows(v), NEW c \in Oct!ViewCols(v) PROVE Oct!At(X, v, r, c) = Zero
    <3> DEFINE x == v.r0 + r
               y == v.c0 + c
    <3>1. x \in OctRowSet /\ y \in OctColSet /\ in(x, y)
      BY RectNumbers
    <3>2. X2[x][y] = Zero
      <4> HIDE DEF X2, in, x, y
      <4> QED BY <1>1, <3>1
    <3> HIDE DEF X2
    <3> QED BY <1>6, <3>2 DEF Oct!At
  <2> QED BY <2>1, OctRowZero DEF Oct!iszero, Oct!RowIsZero
<1> QED BY <1>5, <1>6

-----------------------------------------------------------------------------
(* Operations on whole views *)

(* The first rows of X2, up to row n, and the others of X.                 *)
UpToRow(X, X2, n) == [x \in OctRowSet |-> IF x < n THEN X2[x] ELSE X[x]]

(* Outside of the view o nothing changes from X to X2.                     *)
SameOutside(X, X2, o) ==
  \A x \in OctRowSet, y \in OctColSet :
    ~(x - o.r0 \in Oct!ViewRows(o) /\ y - o.c0 \in Oct!ViewCols(o)) => X2[x][y] = X[x][y]

(* Step r of G completes row r of the view o.                              *)
CompletesRows(G, X, X2, o) ==
  \A q \in OctMemory, r \in Oct!ViewRows(o) :
    OctShows(q, UpToRow(X, X2, o.r0 + r)) => OctShows(G[<<q, r + 1>>], UpToRow(X, X2, o.r0 + r + 1))

LEMMA UpToRowIs ==
  ASSUME NEW X \in OctMatrices, NEW X2 \in OctMatrices, NEW n
  PROVE  /\ UpToRow(X, X2, n) \in OctMatrices
         /\ \A x \in OctRowSet : UpToRow(X, X2, n)[x] = IF x < n THEN X2[x] ELSE X[x]
BY DEF UpToRow, OctMatrices

(* Two functions that start alike and go on alike. *)
Alike(s, t, n) == s[0] = t[0] /\ \A r \in 1 .. n : s[r - 1] = t[r - 1] => s[r] = t[r]

LEMMA SameUp ==
  ASSUME NEW n \in Nat, NEW s, NEW t, Alike(s, t, n)
  PROVE  s[n] = t[n]
<1> DEFINE S == {r \in Nat : r <= n => s[r] = t[r]}
<1>1. 0 \in S
  BY DEF Alike
<1>2. ASSUME NEW r \in Nat, r \in S PROVE r + 1 \in S
  <2> SUFFICES ASSUME r + 1 <= n PROVE s[r + 1] = t[r + 1]
    OBVIOUS
  <2>1. r + 1 \in 1 .. n /\ (r + 1) - 1 = r /\ s[r] = t[r]
    BY <1>2
  <2> QED BY <2>1 DEF Alike
<1>3. n \in S
  <2> HIDE DEF S
  <2> QED BY <1>1, <1>2, Factors!NatSet
<1> QED BY <1>3

LEMMA RowsInTurn ==
  ASSUME Oct!Assumptions, NEW m, NEW X, OctShows(m, X), NEW X2 \in OctMatrices, NEW o, IsRect(o),
         SameOutside(X, X2, o),
         NEW G \in [OctMemory \X (1 .. o.n_row) -> OctMemory], CompletesRows(G, X, X2, o)
  PROVE  \E s \in [0 .. o.n_row -> OctMemory] :
           Factors!IsUp(s, m, o.n_row, G) /\ OctShows(s[o.n_row], X2)
<1> DEFINE n == o.n_row
<1>1. /\ o.r0 \in Nat /\ n \in Nat /\ o.r0 + n <= OctRows /\ m \in OctMemory /\ X \in OctMatrices
      /\ OctRows \in Nat
  BY RectNumbers DEF OctShows
<1>2. PICK s \in [0 .. n -> OctMemory] : Factors!IsUp(s, m, n, G)
  BY <1>1, Factors!UpExists
<1> DEFINE S == {r \in Nat : r <= n => OctShows(s[r], UpToRow(X, X2, o.r0 + r))}
<1>3. 0 \in S
  <2>1. s[0] = m
    BY <1>1, <1>2 DEF Factors!IsUp
  <2>2. UpToRow(X, X2, o.r0 + 0) = X
    <3>1. ASSUME NEW x \in OctRowSet PROVE UpToRow(X, X2, o.r0 + 0)[x] = X[x]
      <4>1. CASE x < o.r0
        <5>1. x - o.r0 \notin Oct!ViewRows(o)
          BY <1>1, <4>1 DEF Oct!ViewRows, OctRowSet
        <5>2. \A y \in OctColSet : X2[x][y] = X[x][y]
          BY <5>1 DEF SameOutside
        <5>3. X2[x] = X[x]
          BY <1>1, <5>2 DEF OctMatrices
        <5> QED BY <1>1, <5>3, UpToRowIs
      <4>2. CASE ~(x < o.r0)
        BY <1>1, <4>2, UpToRowIs
      <4> QED BY <4>1, <4>2
    <3>2. UpToRow(X, X2, o.r0 + 0) \in OctMatrices
      BY <1>1, UpToRowIs
    <3> QED BY <1>1, <3>1, <3>2 DEF OctMatrices
  <2> QED BY <2>1, <2>2
<1>4. ASSUME NEW r \in Nat, r \in S PROVE r + 1 \in S
  <2> SUFFICES ASSUME r + 1 <= n PROVE OctShows(s[r + 1], UpToRow(X, X2, o.r0 + (r + 1)))
    OBVIOUS
  <2>1. r \in Oct!ViewRows(o) /\ r \in 0 .. n /\ r + 1 \in 0 .. n /\ r + 1 # 0 /\ (r + 1) - 1 = r
    BY <1>1 DEF Oct!ViewRows
  <2>2. s[r + 1] = G[<<s[r], r + 1>>]
    BY <1>2, <2>1 DEF Factors!IsUp
  <2>3. OctShows(s[r], UpToRow(X, X2, o.r0 + r)) /\ s[r] \in OctMemory
    BY <1>2, <1>4, <2>1
  <2>4. OctShows(s[r + 1], UpToRow(X, X2, o.r0 + r + 1))
    BY <2>1, <2>2, <2>3 DEF CompletesRows
  <2>5. o.r0 + r + 1 = o.r0 + (r + 1)
    <3>1. o.r0 \in Int /\ r \in Int
      BY <1>1
    <3> QED BY <3>1
  <2> QED BY <2>4, <2>5
<1>5. n \in S
  <2> HIDE DEF S, n
  <2> QED BY <1>1, <1>3, <1>4, Factors!NatSet
<1>6. UpToRow(X, X2, o.r0 + n) = X2
  <2>1. ASSUME NEW x \in OctRowSet PROVE UpToRow(X, X2, o.r0 + n)[x] = X2[x]
    <3>1. CASE x < o.r0 + n
      BY <1>1, <3>1, UpToRowIs
    <3>2. CASE ~(x < o.r0 + n)
      <4>1. x - o.r0 \notin Oct!ViewRows(o)
        BY <1>1, <3>2 DEF Oct!ViewRows, OctRowSet
      <4>2. \A y \in OctColSet : X2[x][y] = X[x][y]
        BY <4>1 DEF SameOutside
      <4>3. X2[x] = X[x]
        BY <1>1, <4>2 DEF OctMatrices
      <4> QED BY <1>1, <3>2, <4>3, UpToRowIs
    <3> QED BY <3>1, <3>2
  <2>2. UpToRow(X, X2, o.r0 + n) \in OctMatrices
    BY <1>1, UpToRowIs
  <2> QED BY <2>1, <2>2 DEF OctMatrices
<1>7. OctShows(s[n], X2)
  BY <1>1, <1>5, <1>6
<1> QED BY <1>2, <1>7

(* Any memory shows a matrix. *)
LEMMA ShowsSome ==
  ASSUME Oct!Assumptions, NEW m \in OctMemory
  PROVE  \E X : OctShows(m, X)
<1> DEFINE X == [x \in OctRowSet |-> [y \in OctColSet |-> m[Cell(x, y)]]]
<1>1. \A x \in OctRowSet, y \in OctColSet : m[Cell(x, y)] \in OctF
  BY CellIn DEF OctMemory
<1>2. OctShows(m, X)
  BY <1>1 DEF OctShows, OctMatrices
<1> QED BY <1>2

(* Y is X with its rows before row z, and row z, as in X2. *)
NextRow(Y, X, X2, z) ==
  \A x \in OctRowSet, y \in OctColSet :
    Y[x][y] = IF x = z THEN X2[z][y] ELSE UpToRow(X, X2, z)[x][y]

(* Only row z changes from X to X2 when the rows before z are done.        *)
LEMMA RowCompleted ==
  ASSUME Oct!Assumptions, NEW X \in OctMatrices, NEW X2 \in OctMatrices, NEW z \in OctRowSet,
         NEW Y \in OctMatrices, NextRow(Y, X, X2, z)
  PROVE  Y = UpToRow(X, X2, z + 1)
<1>1. \A x \in OctRowSet : x \in Nat
  BY DEF OctRowSet, Oct!Assumptions
<1>2. ASSUME NEW x \in OctRowSet, NEW y \in OctColSet
      PROVE  Y[x][y] = UpToRow(X, X2, z + 1)[x][y]
  <2>1. UpToRow(X, X2, z)[x] = (IF x < z THEN X2[x] ELSE X[x])
        /\ UpToRow(X, X2, z + 1)[x] = (IF x < z + 1 THEN X2[x] ELSE X[x])
    BY UpToRowIs
  <2>2. (x < z + 1 <=> x < z \/ x = z)
    BY <1>1
  <2> QED BY <2>1, <2>2 DEF NextRow
<1>3. UpToRow(X, X2, z + 1) \in OctMatrices
  BY UpToRowIs
<1> QED BY <1>2, <1>3 DEF OctMatrices

LEMMA OctClearRowHolds ==
  ASSUME Oct!Assumptions, NEW m, NEW X, OctShows(m, X), NEW v, IsRect(v), NEW r \in Oct!ViewRows(v)
  PROVE  OctShows(Oct!clear_row(m, v, r), Oct!RowCleared(X, v, r))
<1>1. Zero \in OctF
  BY DEF Oct!Assumptions, Oct!LogDomain
<1>2. OctShows(Oct!mult_row(m, v, r, Zero), Oct!RowScaled(X, v, r, Zero))
  BY <1>1, OctMultRowHolds
<1>3. Oct!mult_row(m, v, r, Zero) = Oct!clear_row(m, v, r)
  BY DEF Oct!mult_row
<1>4. Oct!RowScaled(X, v, r, Zero) = Oct!RowCleared(X, v, r)
  <2>1. v.r0 + r \in OctRowSet /\ r \in Nat /\ v.r0 \in Nat /\ v.c0 \in Nat
    BY RectNumbers
  <2>2. \A x \in OctRowSet, y \in OctColSet : OctMul(Zero, X[x][y]) = Zero
    BY <1>1, ShowsValues, ProductsAre
  <2> DEFINE Y1 == Oct!RowScaled(X, v, r, Zero)
             Y2 == Oct!RowCleared(X, v, r)
  <2>3. ASSUME NEW x \in OctRowSet, NEW y \in OctColSet PROVE Y1[x][y] = Y2[x][y]
    BY <2>1, <2>2, ShowsValues DEF Oct!RowScaled, Oct!RowCleared, Oct!Put, Oct!At, OctMatrices
  <2>4. /\ Y1 = [x \in OctRowSet |-> [y \in OctColSet |-> Y1[x][y]]]
        /\ Y2 = [x \in OctRowSet |-> [y \in OctColSet |-> Y2[x][y]]]
    BY ShowsValues DEF Oct!RowScaled, Oct!RowCleared, Oct!Put, OctMatrices
  <2> HIDE DEF Y1, Y2
  <2>5. Y1 = Y2
    BY <2>3, <2>4
  <2> QED BY <2>5 DEF Y1, Y2
<1> QED BY <1>2, <1>3, <1>4

LEMMA OctClearHolds ==
  ASSUME Oct!Assumptions, NEW m, NEW X, OctShows(m, X), NEW v, IsRect(v)
  PROVE  OctShows(Oct!clear(m, v), Oct!Cleared(X, v))
<1> DEFINE n == v.n_row
           X2 == Oct!Cleared(X, v)
           G == [w \in OctMemory \X (1 .. n) |-> Oct!clear_row(w[1], v, w[2] - 1)]
           in(x, y) == x - v.r0 \in Oct!ViewRows(v) /\ y - v.c0 \in Oct!ViewCols(v)
<1>1. n \in Nat /\ v.r0 \in Nat /\ v.c0 \in Nat /\ X \in OctMatrices
      /\ \A j \in 1 .. n : j - 1 \in Oct!ViewRows(v)
  BY RectNumbers DEF OctShows, Oct!ViewRows
<1>2. \A x \in OctRowSet, y \in OctColSet : X2[x][y] = IF in(x, y) THEN Zero ELSE X[x][y]
  BY ShowsValues DEF Oct!Cleared, Oct!Put, OctMatrices
<1>3. X2 \in OctMatrices
  <2>1. X2 = [x \in OctRowSet |-> [y \in OctColSet |-> X2[x][y]]]
    BY ShowsValues DEF Oct!Cleared, Oct!Put, OctMatrices
  <2>2. Zero \in OctF
    BY DEF Oct!Assumptions, Oct!LogDomain
  <2> HIDE DEF X2, in
  <2> QED BY <1>2, <2>1, <2>2, ShowsValues DEF OctMatrices
<1>4. SameOutside(X, X2, v)
  <2> HIDE DEF X2
  <2> QED BY <1>2 DEF SameOutside
<1>5. G \in [OctMemory \X (1 .. n) -> OctMemory]
  <2>1. ASSUME NEW q \in OctMemory, NEW j \in 1 .. n PROVE Oct!clear_row(q, v, j - 1) \in OctMemory
    BY <1>1, ShowsSome, OctClearRowHolds DEF OctShows
  <2> QED BY <2>1
<1>6. CompletesRows(G, X, X2, v)
  <2> SUFFICES ASSUME NEW q \in OctMemory,
                        NEW r \in Oct!ViewRows(v), OctShows(q, UpToRow(X, X2, v.r0 + r))
               PROVE  OctShows(G[<<q, r + 1>>], UpToRow(X, X2, v.r0 + r + 1))
    BY DEF CompletesRows
  <2> DEFINE z == v.r0 + r
             U == UpToRow(X, X2, z)
             Y == Oct!RowCleared(U, v, r)
  <2>1. z \in OctRowSet /\ r \in Nat /\ r + 1 \in 1 .. n /\ (r + 1) - 1 = r
    BY <1>1, RectNumbers DEF Oct!ViewRows
  <2>2. G[<<q, r + 1>>] = Oct!clear_row(q, v, r)
    BY <2>1
  <2>3. OctShows(Oct!clear_row(q, v, r), Y)
    BY OctClearRowHolds
  <2>4. U \in OctMatrices /\ Y \in OctMatrices
    BY <2>3, <1>3, <1>1, UpToRowIs DEF OctShows
  <2>5. ASSUME NEW x \in OctRowSet, NEW y \in OctColSet
        PROVE  Y[x][y] = IF x = z THEN X2[z][y] ELSE U[x][y]
    <3>1. Y[x][y] = IF x = z /\ y - v.c0 \in Oct!ViewCols(v) THEN Zero ELSE U[x][y]
      <4>1. x \in Nat
        BY RectNumbers
      <4> HIDE DEF U
      <4> QED BY <1>1, <2>1, <2>4, <4>1 DEF Oct!RowCleared, Oct!Put, OctMatrices
    <3>2. U[z] = X[z]
      <4>1. ~(z < z)
        BY <1>1, <2>1
      <4> HIDE DEF X2, z
      <4> QED BY <1>1, <1>3, <2>1, <4>1, UpToRowIs
    <3>3. X2[z][y] = IF y - v.c0 \in Oct!ViewCols(v) THEN Zero ELSE X[z][y]
      <4>1. z - v.r0 \in Oct!ViewRows(v)
        BY <1>1, <2>1
      <4> HIDE DEF X2, z
      <4> QED BY <1>2, <2>1, <4>1
    <3> HIDE DEF Y, U, X2, z
    <3> QED BY <3>1, <3>2, <3>3
  <2> HIDE DEF Y, U, X2, z, G
  <2>6. Y = UpToRow(X, X2, z + 1)
    <3>1. NextRow(Y, X, X2, z)
      BY <2>5 DEF U, NextRow
    <3> QED BY <1>1, <1>3, <2>1, <2>4, <3>1, RowCompleted
  <2> QED BY <2>2, <2>3, <2>6 DEF z
<1> HIDE DEF G, X2
<1>7. PICK t \in [0 .. n -> OctMemory] : Factors!IsUp(t, m, n, G) /\ OctShows(t[n], X2)
  BY <1>3, <1>4, <1>5, <1>6, RowsInTurn
<1> DEFINE P(s) == s = [r \in 0 .. n |-> IF r = 0 THEN m ELSE Oct!clear_row(s[r - 1], v, r - 1)]
<1>8. P(t)
  <2>1. ASSUME NEW r \in 0 .. n, r # 0 PROVE G[<<t[r - 1], r>>] = Oct!clear_row(t[r - 1], v, r - 1)
    <3>1. r - 1 \in 0 .. n /\ r \in 1 .. n
      BY <1>1, <2>1
    <3>2. t[r - 1] \in OctMemory
      BY <1>7, <3>1
    <3> QED BY <3>1, <3>2 DEF G
  <2>2. t = [r \in 0 .. n |-> IF r = 0 THEN m ELSE G[<<t[r - 1], r>>]]
    BY <1>7 DEF Factors!IsUp
  <2> QED BY <2>1, <2>2
<1>9. ASSUME NEW s, P(s) PROVE s[n] = t[n]
  <2>1. s[0] = t[0]
    BY <1>1, <1>8, <1>9
  <2>2. ASSUME NEW r \in 1 .. n, s[r - 1] = t[r - 1] PROVE s[r] = t[r]
    <3>1. s[r] = Oct!clear_row(s[r - 1], v, r - 1) /\ t[r] = Oct!clear_row(t[r - 1], v, r - 1)
      BY <1>1, <1>8, <1>9
    <3> QED BY <2>2, <3>1
  <2>3. Alike(s, t, n)
    BY <2>1, <2>2 DEF Alike
  <2> QED BY <1>1, <2>3, SameUp
<1>10. P(CHOOSE s : P(s))
  BY <1>8
<1>11. Oct!clear(m, v) = (CHOOSE s : P(s))[n]
  BY DEF Oct!clear, Oct!ForRows
<1>12. Oct!clear(m, v) = t[n]
  <2> HIDE DEF P
  <2> QED BY <1>9, <1>10, <1>11
<1> QED BY <1>7, <1>12 DEF X2

(* A view that shares no element with o, or shows the same rectangle, is   *)
(* read as it was before its own row is written.                           *)
Apart(v, o) == Oct!Overlap(v, o) => (v.r0 = o.r0 /\ v.c0 = o.c0)

LEMMA OutsideOf ==
  ASSUME Oct!Assumptions, NEW v, IsRect(v), NEW o, IsRect(o), ~Oct!Overlap(v, o),
         NEW r \in Oct!ViewRows(v), NEW c \in Oct!ViewCols(v)
  PROVE  ~((v.r0 + r) - o.r0 \in Oct!ViewRows(o) /\ (v.c0 + c) - o.c0 \in Oct!ViewCols(o))
<1>1. /\ v.r0 \in Nat /\ v.c0 \in Nat /\ v.n_row \in Nat /\ v.n_col \in Nat
      /\ o.r0 \in Nat /\ o.c0 \in Nat /\ o.n_row \in Nat /\ o.n_col \in Nat
  BY RectNumbers
<1>2. r \in Nat /\ c \in Nat /\ r < v.n_row /\ c < v.n_col
  BY <1>1 DEF Oct!ViewRows, Oct!ViewCols
<1> QED BY <1>1, <1>2 DEF Oct!Overlap, Oct!ViewRows, Oct!ViewCols

LEMMA SourceKept ==
  ASSUME Oct!Assumptions, NEW X \in OctMatrices, NEW X2 \in OctMatrices,
         NEW v, IsRect(v), NEW o, IsRect(o), SameOutside(X, X2, o), Apart(v, o),
         NEW r \in Oct!ViewRows(v), r \in Oct!ViewRows(o), NEW c \in Oct!ViewCols(v)
  PROVE  UpToRow(X, X2, o.r0 + r)[v.r0 + r][v.c0 + c] = X[v.r0 + r][v.c0 + c]
<1> DEFINE x == v.r0 + r
           y == v.c0 + c
           U == UpToRow(X, X2, o.r0 + r)
<1>1. x \in OctRowSet /\ y \in OctColSet /\ x \in Nat /\ o.r0 \in Nat /\ r \in Nat
  BY RectNumbers
<1>2. U[x] = IF x < o.r0 + r THEN X2[x] ELSE X[x]
  BY <1>1, UpToRowIs
<1>3. CASE Oct!Overlap(v, o)
  <2>1. x = o.r0 + r
    BY <1>3 DEF Apart
  <2>2. ~(x < o.r0 + r)
    BY <1>1, <2>1
  <2> QED BY <1>2, <2>2
<1>4. CASE ~Oct!Overlap(v, o)
  <2>1. ~(x - o.r0 \in Oct!ViewRows(o) /\ y - o.c0 \in Oct!ViewCols(o))
    BY <1>4, OutsideOf
  <2>2. X2[x][y] = X[x][y]
    <3> HIDE DEF x, y
    <3> QED BY <1>1, <2>1 DEF SameOutside
  <2> QED BY <1>2, <2>2
<1> QED BY <1>3, <1>4

(* What is read for an element of o, row by row.                           *)
LEMMA ReadFor ==
  ASSUME Oct!Assumptions, NEW v, IsRect(v), NEW o, IsRect(o), v.n_col = o.n_col, v.n_row = o.n_row,
         NEW y \in OctColSet, y - o.c0 \in Oct!ViewCols(o)
  PROVE  y - o.c0 \in Oct!ViewCols(v) /\ v.c0 + (y - o.c0) \in OctColSet
           /\ Oct!ViewRows(v) = Oct!ViewRows(o)
<1>1. y - o.c0 \in Oct!ViewCols(v) /\ Oct!ViewRows(v) = Oct!ViewRows(o)
  BY DEF Oct!ViewCols, Oct!ViewRows
<1> QED BY <1>1, RectNumbers

LEMMA CopiedIs ==
  ASSUME Oct!Assumptions, NEW X \in OctMatrices, NEW v, IsRect(v), NEW o, IsRect(o), Oct!SameShape(v, o)
  PROVE  /\ Oct!Copied(X, v, o) \in OctMatrices /\ SameOutside(X, Oct!Copied(X, v, o), o)
         /\ \A r \in Oct!ViewRows(o), y \in OctColSet :
              Oct!Copied(X, v, o)[o.r0 + r][y] =
                IF y - o.c0 \in Oct!ViewCols(o) THEN X[v.r0 + r][v.c0 + (y - o.c0)] ELSE X[o.r0 + r][y]
<1> DEFINE X2 == Oct!Copied(X, v, o)
           in(x, y) == x - o.r0 \in Oct!ViewRows(o) /\ y - o.c0 \in Oct!ViewCols(o)
           from(y) == v.c0 + (y - o.c0)
<1>1. /\ o.r0 \in Nat /\ o.c0 \in Nat /\ v.r0 \in Nat /\ v.c0 \in Nat
      /\ Oct!ViewRows(v) = Oct!ViewRows(o) /\ v.n_col = o.n_col /\ v.n_row = o.n_row
  BY RectNumbers DEF Oct!ViewRows, Oct!SameShape
<1>2. \A x \in OctRowSet, y \in OctColSet :
        X2[x][y] = IF in(x, y) THEN X[v.r0 + (x - o.r0)][from(y)] ELSE X[x][y]
  BY DEF Oct!Copied, Oct!Put, Oct!At, OctMatrices
<1>3. X2 \in OctMatrices
  <2>1. X2 = [x \in OctRowSet |-> [y \in OctColSet |-> X2[x][y]]]
    BY DEF Oct!Copied, Oct!Put, OctMatrices
  <2>2. ASSUME NEW x \in OctRowSet, NEW y \in OctColSet, in(x, y)
        PROVE  X[v.r0 + (x - o.r0)][from(y)] \in OctF
    <3>1. v.r0 + (x - o.r0) \in OctRowSet
      BY <1>1, <2>2, RectNumbers
    <3>2. from(y) \in OctColSet
      BY <1>1, <2>2, ReadFor
    <3> QED BY <3>1, <3>2 DEF OctMatrices
  <2> HIDE DEF X2, in, from
  <2> QED BY <1>2, <2>1, <2>2 DEF OctMatrices
<1>4. SameOutside(X, X2, o)
  <2> HIDE DEF X2
  <2> QED BY <1>2 DEF SameOutside
<1>5. ASSUME NEW r \in Oct!ViewRows(o), NEW y \in OctColSet
      PROVE  X2[o.r0 + r][y] = IF y - o.c0 \in Oct!ViewCols(o) THEN X[v.r0 + r][from(y)]
               ELSE X[o.r0 + r][y]
  <2> DEFINE z == o.r0 + r
  <2>1. z \in OctRowSet /\ z - o.r0 = r
    BY <1>1, RectNumbers
  <2> HIDE DEF X2, z
  <2>2. X2[z][y] = IF y - o.c0 \in Oct!ViewCols(o) THEN X[v.r0 + r][from(y)] ELSE X[z][y]
    BY <1>2, <2>1
  <2> QED BY <2>2 DEF z
<1> QED BY <1>3, <1>4, <1>5

(* Copying the next row.                                                   *)
LEMMA CopiedNext ==
  ASSUME Oct!Assumptions, NEW X \in OctMatrices, NEW v, IsRect(v), NEW o, IsRect(o),
         Oct!SameShape(v, o), Apart(v, o), NEW r \in Oct!ViewRows(o),
         NEW X2, X2 = Oct!Copied(X, v, o)
  PROVE  Oct!RowCopied(UpToRow(X, X2, o.r0 + r), v, r, o, r) = UpToRow(X, X2, o.r0 + r + 1)
<1> DEFINE z == o.r0 + r
           U == UpToRow(X, X2, z)
           Y == Oct!RowCopied(U, v, r, o, r)
           from(y) == v.c0 + (y - o.c0)
<1>1. /\ o.r0 \in Nat /\ o.c0 \in Nat /\ v.r0 \in Nat /\ v.c0 \in Nat /\ r \in Nat
      /\ Oct!ViewRows(v) = Oct!ViewRows(o) /\ v.n_col = o.n_col /\ v.n_row = o.n_row
      /\ z \in OctRowSet /\ r \in Oct!ViewRows(v)
  BY RectNumbers DEF Oct!ViewRows, Oct!SameShape
<1>2. X2 \in OctMatrices /\ SameOutside(X, X2, o)
  BY CopiedIs
<1>3. U \in OctMatrices
  BY <1>2, UpToRowIs
<1>4. \A x \in OctRowSet, y \in OctColSet :
        Y[x][y] = IF x = z /\ y - o.c0 \in Oct!ViewCols(o) THEN U[v.r0 + r][from(y)] ELSE U[x][y]
  <2>1. \A x \in OctRowSet : x \in Nat
    BY RectNumbers
  <2> HIDE DEF U
  <2> QED BY <1>1, <1>3, <2>1 DEF Oct!RowCopied, Oct!Put, Oct!At, OctMatrices
<1>5. ASSUME NEW x \in OctRowSet, NEW y \in OctColSet
      PROVE  Y[x][y] = IF x = z THEN X2[z][y] ELSE U[x][y]
  <2>1. U[z] = X[z]
    <3>1. ~(z < z)
      BY <1>1
    <3> HIDE DEF z
    <3> QED BY <1>1, <1>2, <3>1, UpToRowIs
  <2>2. X2[z][y] = IF y - o.c0 \in Oct!ViewCols(o) THEN X[v.r0 + r][from(y)] ELSE X[z][y]
    BY CopiedIs
  <2>3. ASSUME y - o.c0 \in Oct!ViewCols(o) PROVE U[v.r0 + r][from(y)] = X[v.r0 + r][from(y)]
    <3>1. y - o.c0 \in Oct!ViewCols(v)
      BY <1>1, <2>3, ReadFor
    <3> QED BY <1>1, <1>2, <3>1, SourceKept
  <2> HIDE DEF Y, U, z, from
  <2> QED BY <1>4, <2>1, <2>2, <2>3
<1>6. Y \in OctMatrices
  <2>1. Y = [x \in OctRowSet |-> [y \in OctColSet |-> Y[x][y]]]
    <3> HIDE DEF U
    <3> QED BY <1>3 DEF Oct!RowCopied, Oct!Put, OctMatrices
  <2>2. \A x \in OctRowSet, y \in OctColSet : Y[x][y] \in OctF
    <3> HIDE DEF Y, U
    <3> QED BY <1>1, <1>2, <1>3, <1>5 DEF OctMatrices
  <2> HIDE DEF Y
  <2> QED BY <2>1, <2>2 DEF OctMatrices
<1> HIDE DEF Y, z
<1>7. Y = UpToRow(X, X2, z + 1)
  <2>1. NextRow(Y, X, X2, z)
    BY <1>5 DEF NextRow
  <2>2. z \in OctRowSet /\ X2 \in OctMatrices
    BY <1>1, <1>2
  <2> HIDE DEF U, from
  <2> QED BY <1>6, <2>1, <2>2, RowCompleted
<1>8. z + 1 = o.r0 + r + 1
  <2>1. o.r0 \in Int /\ r \in Int
    BY <1>1
  <2> QED BY <2>1 DEF z
<1> QED BY <1>7, <1>8 DEF Y, z

LEMMA OctCopyHolds ==
  ASSUME Oct!Assumptions, NEW m, NEW X, OctShows(m, X), NEW v, IsRect(v), NEW o, IsRect(o),
         Oct!SameShape(v, o), Apart(v, o)
  PROVE  OctShows(Oct!copy(m, v, o), Oct!Copied(X, v, o))
<1> DEFINE n == o.n_row
           X2 == Oct!Copied(X, v, o)
           G == [w \in OctMemory \X (1 .. n) |-> Oct!copy_row(w[1], v, w[2] - 1, o, w[2] - 1)]
<1>1. /\ n \in Nat /\ X \in OctMatrices
      /\ \A j \in 1 .. n : j - 1 \in Oct!ViewRows(o)
      /\ Oct!ViewRows(v) = Oct!ViewRows(o) /\ v.n_col = o.n_col /\ v.n_row = n
  BY RectNumbers DEF OctShows, Oct!ViewRows, Oct!SameShape
<1>3. X2 \in OctMatrices
  BY <1>1, CopiedIs
<1>4. SameOutside(X, X2, o)
  BY <1>1, CopiedIs
<1>5. G \in [OctMemory \X (1 .. n) -> OctMemory]
  <2>1. ASSUME NEW q \in OctMemory, NEW j \in 1 .. n
        PROVE Oct!copy_row(q, v, j - 1, o, j - 1) \in OctMemory
    <3> DEFINE r == j - 1
    <3>1. r \in Oct!ViewRows(o) /\ r \in Oct!ViewRows(v)
      BY <1>1
    <3>2. PICK Z : OctShows(q, Z)
      BY ShowsSome
    <3> HIDE DEF r
    <3>3. OctShows(Oct!copy_row(q, v, r, o, r), Oct!RowCopied(Z, v, r, o, r))
      BY <1>1, <3>1, <3>2, OctCopyRowHolds
    <3> QED BY <3>3 DEF OctShows, r
  <2> QED BY <2>1
<1>6. CompletesRows(G, X, X2, o)
  <2> SUFFICES ASSUME NEW q \in OctMemory,
                        NEW r \in Oct!ViewRows(o), OctShows(q, UpToRow(X, X2, o.r0 + r))
               PROVE  OctShows(G[<<q, r + 1>>], UpToRow(X, X2, o.r0 + r + 1))
    BY DEF CompletesRows
  <2>1. r + 1 \in 1 .. n /\ (r + 1) - 1 = r /\ r \in Oct!ViewRows(v)
    BY <1>1, RectNumbers DEF Oct!ViewRows
  <2>2. G[<<q, r + 1>>] = Oct!copy_row(q, v, r, o, r)
    BY <2>1
  <2> HIDE DEF G, X2
  <2>3. OctShows(Oct!copy_row(q, v, r, o, r), Oct!RowCopied(UpToRow(X, X2, o.r0 + r), v, r, o, r))
    BY <1>1, <2>1, OctCopyRowHolds
  <2>4. Oct!RowCopied(UpToRow(X, X2, o.r0 + r), v, r, o, r) = UpToRow(X, X2, o.r0 + r + 1)
    BY <1>1, CopiedNext DEF X2
  <2> QED BY <2>2, <2>3, <2>4
<1> HIDE DEF G, X2
<1>7. PICK t \in [0 .. n -> OctMemory] : Factors!IsUp(t, m, n, G) /\ OctShows(t[n], X2)
  BY <1>3, <1>4, <1>5, <1>6, RowsInTurn
<1> DEFINE P(s) == s = [r \in 0 .. n |-> IF r = 0 THEN m ELSE Oct!copy_row(s[r - 1], v, r - 1, o, r - 1)]
<1>8. P(t)
  <2>1. ASSUME NEW r \in 0 .. n, r # 0
        PROVE G[<<t[r - 1], r>>] = Oct!copy_row(t[r - 1], v, r - 1, o, r - 1)
    <3>1. r - 1 \in 0 .. n /\ r \in 1 .. n
      BY <1>1, <2>1
    <3>2. t[r - 1] \in OctMemory
      BY <1>7, <3>1
    <3> QED BY <3>1, <3>2 DEF G
  <2>2. t = [r \in 0 .. n |-> IF r = 0 THEN m ELSE G[<<t[r - 1], r>>]]
    BY <1>7 DEF Factors!IsUp
  <2> QED BY <2>1, <2>2
<1>9. ASSUME NEW s, P(s) PROVE s[n] = t[n]
  <2>1. s[0] = t[0]
    BY <1>1, <1>8, <1>9
  <2>2. ASSUME NEW r \in 1 .. n, s[r - 1] = t[r - 1] PROVE s[r] = t[r]
    <3>1. /\ s[r] = Oct!copy_row(s[r - 1], v, r - 1, o, r - 1)
          /\ t[r] = Oct!copy_row(t[r - 1], v, r - 1, o, r - 1)
      BY <1>1, <1>8, <1>9
    <3> QED BY <2>2, <3>1
  <2>3. Alike(s, t, n)
    BY <2>1, <2>2 DEF Alike
  <2> QED BY <1>1, <2>3, SameUp
<1>10. P(CHOOSE s : P(s))
  BY <1>8
<1>11. Oct!copy(m, v, o) = (CHOOSE s : P(s))[n]
  BY <1>1 DEF Oct!copy, Oct!ForRows
<1>12. Oct!copy(m, v, o) = t[n]
  <2> HIDE DEF P
  <2> QED BY <1>9, <1>10, <1>11
<1> QED BY <1>7, <1>12 DEF X2

LEMMA OctAddHolds ==
  ASSUME Oct!Assumptions, NEW m, NEW X, OctShows(m, X), NEW v, IsRect(v), NEW w, IsRect(w),
         NEW o, IsRect(o), Oct!SameShape(v, w), Oct!SameShape(v, o), Apart(v, o), ~Oct!Overlap(w, o)
  PROVE  OctShows(Oct!add(m, v, w, o), Oct!SumStored(X, v, w, o))
<1> DEFINE n == o.n_row
           X2 == Oct!SumStored(X, v, w, o)
           Row1(q, r) == Oct!multadd_row(Oct!copy_row(q, v, r, o, r), w, r, One, o, r)
           G == [u \in OctMemory \X (1 .. n) |-> Row1(u[1], u[2] - 1)]
           in(x, y) == x - o.r0 \in Oct!ViewRows(o) /\ y - o.c0 \in Oct!ViewCols(o)
           fromV(y) == v.c0 + (y - o.c0)
           fromW(y) == w.c0 + (y - o.c0)
<1>1. /\ n \in Nat /\ o.r0 \in Nat /\ o.c0 \in Nat /\ v.r0 \in Nat /\ v.c0 \in Nat
      /\ w.r0 \in Nat /\ w.c0 \in Nat /\ X \in OctMatrices
      /\ \A j \in 1 .. n : j - 1 \in Oct!ViewRows(o)
      /\ Oct!ViewRows(v) = Oct!ViewRows(o) /\ v.n_col = o.n_col /\ v.n_row = o.n_row
      /\ Oct!ViewRows(w) = Oct!ViewRows(o) /\ w.n_col = o.n_col /\ w.n_row = o.n_row
      /\ o.n_col \in Nat /\ 0 \in 0 .. w.n_col
  BY RectNumbers DEF OctShows, Oct!ViewRows, Oct!SameShape
<1>0. One \in OctF /\ Apart(w, o)
  BY DEF Oct!Assumptions, Oct!LogDomain, Apart
<1>2. \A x \in OctRowSet, y \in OctColSet :
        X2[x][y] = IF in(x, y) THEN OctAdd(X[v.r0 + (x - o.r0)][fromV(y)], X[w.r0 + (x - o.r0)][fromW(y)])
                                ELSE X[x][y]
  BY ShowsValues DEF Oct!SumStored, Oct!Put, Oct!At, OctMatrices
<1>3. X2 \in OctMatrices
  <2>1. X2 = [x \in OctRowSet |-> [y \in OctColSet |-> X2[x][y]]]
    BY ShowsValues DEF Oct!SumStored, Oct!Put, OctMatrices
  <2>2. ASSUME NEW x \in OctRowSet, NEW y \in OctColSet PROVE X2[x][y] \in OctF
    <3>1. CASE in(x, y)
      <4>1. v.r0 + (x - o.r0) \in OctRowSet /\ w.r0 + (x - o.r0) \in OctRowSet
        BY <1>1, <3>1, RectNumbers
      <4>2. fromV(y) \in OctColSet
        BY <1>1, <3>1, ReadFor
      <4>3. fromW(y) \in OctColSet
        BY <1>1, <3>1, ReadFor
      <4> DEFINE a == X[v.r0 + (x - o.r0)][fromV(y)]
                 b == X[w.r0 + (x - o.r0)][fromW(y)]
      <4>4. a \in OctF /\ b \in OctF /\ X2[x][y] = OctAdd(a, b)
        <5> HIDE DEF X2
        <5> QED BY <1>2, <3>1, <4>1, <4>2, <4>3, ShowsValues
      <4> HIDE DEF a, b, X2
      <4> QED BY <4>4 DEF Oct!Assumptions, Oct!LogDomain
    <3>2. CASE ~in(x, y)
      <4> HIDE DEF X2, in
      <4> QED BY <1>2, <3>2, ShowsValues
    <3> QED BY <3>1, <3>2
  <2> HIDE DEF X2
  <2> QED BY <2>1, <2>2 DEF OctMatrices
<1>4. SameOutside(X, X2, o)
  <2> HIDE DEF X2
  <2> QED BY <1>2 DEF SameOutside
<1> DEFINE Y1(Z, r) == Oct!RowCopied(Z, v, r, o, r)
           Y(Z, r) == Oct!RowAdded(Y1(Z, r), w, r, 0, One, o, r)
<1>a. ASSUME NEW q, NEW Z, OctShows(q, Z), NEW r \in Oct!ViewRows(o)
      PROVE  OctShows(Oct!copy_row(q, v, r, o, r), Y1(Z, r)) /\ OctShows(Row1(q, r), Y(Z, r))
  <2>1. OctShows(Oct!copy_row(q, v, r, o, r), Oct!RowCopied(Z, v, r, o, r))
    BY <1>1, <1>a, OctCopyRowHolds
  <2> DEFINE q1 == Oct!copy_row(q, v, r, o, r)
  <2>2. OctShows(q1, Y1(Z, r))
    BY <2>1
  <2> HIDE DEF q1, Y1
  <2>3. OctShows(Oct!multadd_row_from(q1, w, r, 0, One, o, r), Oct!RowAdded(Y1(Z, r), w, r, 0, One, o, r))
    BY <1>1, <1>0, <2>2, OctMultAddRowFromHolds
  <2> QED BY <2>1, <2>3 DEF q1, Y1, Oct!multadd_row
<1>5. G \in [OctMemory \X (1 .. n) -> OctMemory]
  <2>1. ASSUME NEW q \in OctMemory, NEW j \in 1 .. n PROVE Row1(q, j - 1) \in OctMemory
    <3> DEFINE r == j - 1
    <3>1. r \in Oct!ViewRows(o)
      BY <1>1
    <3>2. PICK Z : OctShows(q, Z)
      BY ShowsSome
    <3> HIDE DEF r, Row1, Y
    <3>3. OctShows(Row1(q, r), Y(Z, r))
      BY <1>a, <3>1, <3>2
    <3> QED BY <3>3 DEF OctShows, r
  <2> HIDE DEF Row1
  <2> QED BY <2>1
<1>6. CompletesRows(G, X, X2, o)
  <2> SUFFICES ASSUME NEW q \in OctMemory,
                        NEW r \in Oct!ViewRows(o), OctShows(q, UpToRow(X, X2, o.r0 + r))
               PROVE  OctShows(G[<<q, r + 1>>], UpToRow(X, X2, o.r0 + r + 1))
    BY DEF CompletesRows
  <2> DEFINE z == o.r0 + r
             U == UpToRow(X, X2, z)
             V1 == Y1(U, r)
             V2 == Y(U, r)
  <2>1. z \in OctRowSet /\ r \in Nat /\ r + 1 \in 1 .. n /\ (r + 1) - 1 = r /\ r \in Oct!ViewRows(v)
        /\ r \in Oct!ViewRows(w) /\ w.r0 + r \in OctRowSet /\ z - o.r0 = r
    BY <1>1, RectNumbers DEF Oct!ViewRows
  <2>2. G[<<q, r + 1>>] = Row1(q, r)
    <3> HIDE DEF Row1
    <3> QED BY <2>1
  <2>3. OctShows(Row1(q, r), V2) /\ OctShows(Oct!copy_row(q, v, r, o, r), V1)
    BY <1>a
  <2>4. U \in OctMatrices /\ V1 \in OctMatrices /\ V2 \in OctMatrices
    BY <2>3, <1>3, <1>1, UpToRowIs DEF OctShows
  <2>5. ASSUME NEW x \in OctRowSet, NEW y \in OctColSet
        PROVE  V2[x][y] = IF x = z THEN X2[z][y] ELSE U[x][y]
    <3>0. x \in Nat /\ y \in Nat
      BY RectNumbers
    <3>1. \A x1 \in OctRowSet, y1 \in OctColSet :
            V1[x1][y1] = IF x1 = z /\ y1 - o.c0 \in Oct!ViewCols(o) THEN U[v.r0 + r][fromV(y1)]
              ELSE U[x1][y1]
      <4>1. \A x1 \in OctRowSet : x1 \in Nat
        BY RectNumbers
      <4> HIDE DEF U
      <4> QED BY <1>1, <2>1, <2>4, <4>1 DEF Oct!RowCopied, Oct!Put, Oct!At, OctMatrices
    <3>2. V2[x][y] = IF x = z /\ y - o.c0 \in Oct!ViewCols(o)
                       THEN OctAdd(V1[x][y], OctMul(One, V1[w.r0 + r][fromW(y)])) ELSE V1[x][y]
      <4> HIDE DEF V1
      <4> QED BY <1>1, <2>1, <2>4, <3>0 DEF Oct!RowAdded, Oct!Put, Oct!At, OctMatrices, Oct!ViewCols, V1
    <3>3. U[z] = X[z]
      <4>1. ~(z < z)
        BY <1>1, <2>1
      <4> HIDE DEF X2, z
      <4> QED BY <1>1, <1>3, <2>1, <4>1, UpToRowIs
    <3>4. X2[z][y] = IF y - o.c0 \in Oct!ViewCols(o)
                       THEN OctAdd(X[v.r0 + r][fromV(y)], X[w.r0 + r][fromW(y)]) ELSE X[z][y]
      <4> HIDE DEF X2, z
      <4> QED BY <1>2, <2>1
    <3>5. CASE x = z /\ y - o.c0 \in Oct!ViewCols(o)
      <4>1. y - o.c0 \in Oct!ViewCols(v) /\ y - o.c0 \in Oct!ViewCols(w) /\ fromW(y) \in OctColSet
        BY <1>1, <3>5, ReadFor
      <4>2. U[v.r0 + r][fromV(y)] = X[v.r0 + r][fromV(y)]
        <5> HIDE DEF X2
        <5> QED BY <1>1, <1>3, <1>4, <2>1, <4>1, SourceKept
      <4>3. U[w.r0 + r][fromW(y)] = X[w.r0 + r][fromW(y)]
        <5> HIDE DEF X2
        <5> QED BY <1>0, <1>1, <1>3, <1>4, <2>1, <4>1, SourceKept
      <4>4. ~((w.r0 + r) - o.r0 \in Oct!ViewRows(o) /\ fromW(y) - o.c0 \in Oct!ViewCols(o))
        BY <2>1, <4>1, OutsideOf
      <4>5. V1[w.r0 + r][fromW(y)] = U[w.r0 + r][fromW(y)]
        <5> HIDE DEF V1, U, fromW, fromV
        <5>1. w.r0 + r = z => (w.r0 + r) - o.r0 \in Oct!ViewRows(o)
          BY <2>1
        <5> QED BY <2>1, <3>1, <4>1, <4>4, <5>1
      <4> DEFINE b == X[w.r0 + r][fromW(y)]
      <4>6. b \in OctF
        BY <1>1, <2>1, <4>1 DEF OctMatrices
      <4>7. V1[w.r0 + r][fromW(y)] = b
        BY <4>3, <4>5
      <4> HIDE DEF b
      <4>8. OctMul(One, b) = b
        BY <4>6 DEF Oct!Assumptions, Oct!LogDomain
      <4> HIDE DEF V1, V2, U, X2, z, fromV, fromW
      <4>9. V2[x][y] = OctAdd(X[v.r0 + r][fromV(y)], b)
        BY <3>1, <3>2, <3>5, <4>2, <4>7, <4>8
      <4> QED BY <3>4, <3>5, <4>9 DEF b
    <3>6. CASE ~(x = z /\ y - o.c0 \in Oct!ViewCols(o))
      <4> HIDE DEF V1, V2, U, X2, z, fromV, fromW
      <4> QED BY <3>1, <3>2, <3>3, <3>4, <3>6
    <3> QED BY <3>5, <3>6
  <2> HIDE DEF V1, V2, U, X2, z, G, Row1
  <2>6. V2 = UpToRow(X, X2, z + 1)
    <3>1. NextRow(V2, X, X2, z)
      BY <2>5 DEF U, NextRow
    <3> QED BY <1>1, <1>3, <2>1, <2>4, <3>1, RowCompleted
  <2> QED BY <2>2, <2>3, <2>6 DEF z
<1> HIDE DEF G, X2
<1>7. PICK t \in [0 .. n -> OctMemory] : Factors!IsUp(t, m, n, G) /\ OctShows(t[n], X2)
  BY <1>3, <1>4, <1>5, <1>6, RowsInTurn
<1> DEFINE P(s) == s = [r \in 0 .. n |-> IF r = 0 THEN m
             ELSE Oct!multadd_row(Oct!copy_row(s[r - 1], v, r - 1, o, r - 1), w, r - 1, One, o,
             r - 1)]
<1>8. P(t)
  <2>1. ASSUME NEW r \in 0 .. n, r # 0
        PROVE G[<<t[r - 1], r>>] = Oct!multadd_row(Oct!copy_row(t[r - 1], v, r - 1, o, r - 1), w,
                 r - 1, One, o, r - 1)
    <3>1. r - 1 \in 0 .. n /\ r \in 1 .. n
      BY <1>1, <2>1
    <3>2. t[r - 1] \in OctMemory
      BY <1>7, <3>1
    <3> QED BY <3>1, <3>2 DEF G
  <2>2. t = [r \in 0 .. n |-> IF r = 0 THEN m ELSE G[<<t[r - 1], r>>]]
    BY <1>7 DEF Factors!IsUp
  <2> QED BY <2>1, <2>2
<1>9. ASSUME NEW s, P(s) PROVE s[n] = t[n]
  <2>1. s[0] = t[0]
    BY <1>1, <1>8, <1>9
  <2>2. ASSUME NEW r \in 1 .. n, s[r - 1] = t[r - 1] PROVE s[r] = t[r]
    <3>1. /\ s[r] = Oct!multadd_row(Oct!copy_row(s[r - 1], v, r - 1, o, r - 1), w, r - 1, One, o, r - 1)
          /\ t[r] = Oct!multadd_row(Oct!copy_row(t[r - 1], v, r - 1, o, r - 1), w, r - 1, One, o, r - 1)
      BY <1>1, <1>8, <1>9
    <3> QED BY <2>2, <3>1
  <2>3. Alike(s, t, n)
    BY <2>1, <2>2 DEF Alike
  <2> QED BY <1>1, <2>3, SameUp
<1>10. P(CHOOSE s : P(s))
  BY <1>8
<1>11. Oct!add(m, v, w, o) = (CHOOSE s : P(s))[n]
  BY <1>1 DEF Oct!add, Oct!ForRows
<1>12. Oct!add(m, v, w, o) = t[n]
  <2> HIDE DEF P
  <2> QED BY <1>9, <1>10, <1>11
<1> QED BY <1>7, <1>12 DEF X2

LEMMA OctAddInplaceHolds ==
  ASSUME Oct!Assumptions, NEW m, NEW X, OctShows(m, X), NEW v, IsRect(v), NEW o, IsRect(o),
         Oct!SameShape(v, o), Apart(v, o)
  PROVE  OctShows(Oct!add_inplace(m, v, o), Oct!SumStored(X, v, o, o))
<1> DEFINE n == o.n_row
           w == o
           X2 == Oct!SumStored(X, v, w, o)
           Row1(q, r) == Oct!multadd_row(q, v, r, One, o, r)
           G == [u \in OctMemory \X (1 .. n) |-> Row1(u[1], u[2] - 1)]
           in(x, y) == x - o.r0 \in Oct!ViewRows(o) /\ y - o.c0 \in Oct!ViewCols(o)
           fromV(y) == v.c0 + (y - o.c0)
           fromW(y) == w.c0 + (y - o.c0)
<1>1. /\ n \in Nat /\ o.r0 \in Nat /\ o.c0 \in Nat /\ v.r0 \in Nat /\ v.c0 \in Nat
      /\ X \in OctMatrices
      /\ \A j \in 1 .. n : j - 1 \in Oct!ViewRows(o)
      /\ Oct!ViewRows(v) = Oct!ViewRows(o) /\ v.n_col = o.n_col /\ v.n_row = o.n_row
      /\ o.n_col \in Nat /\ 0 \in 0 .. v.n_col
  BY RectNumbers DEF OctShows, Oct!ViewRows, Oct!SameShape
<1>0. One \in OctF
  BY DEF Oct!Assumptions, Oct!LogDomain
<1>2. \A x \in OctRowSet, y \in OctColSet :
        X2[x][y] = IF in(x, y) THEN OctAdd(X[v.r0 + (x - o.r0)][fromV(y)], X[w.r0 + (x - o.r0)][fromW(y)])
                                ELSE X[x][y]
  BY ShowsValues DEF Oct!SumStored, Oct!Put, Oct!At, OctMatrices
<1>3. X2 \in OctMatrices
  <2>1. X2 = [x \in OctRowSet |-> [y \in OctColSet |-> X2[x][y]]]
    BY ShowsValues DEF Oct!SumStored, Oct!Put, OctMatrices
  <2>2. ASSUME NEW x \in OctRowSet, NEW y \in OctColSet PROVE X2[x][y] \in OctF
    <3>1. CASE in(x, y)
      <4>1. v.r0 + (x - o.r0) \in OctRowSet /\ w.r0 + (x - o.r0) \in OctRowSet
        BY <1>1, <3>1, RectNumbers
      <4>2. fromV(y) \in OctColSet
        BY <1>1, <3>1, ReadFor
      <4>3. fromW(y) \in OctColSet
        BY <1>1, <3>1, ReadFor
      <4> DEFINE a == X[v.r0 + (x - o.r0)][fromV(y)]
                 b == X[w.r0 + (x - o.r0)][fromW(y)]
      <4>4. a \in OctF /\ b \in OctF /\ X2[x][y] = OctAdd(a, b)
        <5> HIDE DEF X2
        <5> QED BY <1>2, <3>1, <4>1, <4>2, <4>3, ShowsValues
      <4> HIDE DEF a, b, X2
      <4> QED BY <4>4 DEF Oct!Assumptions, Oct!LogDomain
    <3>2. CASE ~in(x, y)
      <4> HIDE DEF X2, in
      <4> QED BY <1>2, <3>2, ShowsValues
    <3> QED BY <3>1, <3>2
  <2> HIDE DEF X2
  <2> QED BY <2>1, <2>2 DEF OctMatrices
<1>4. SameOutside(X, X2, o)
  <2> HIDE DEF X2
  <2> QED BY <1>2 DEF SameOutside
<1> DEFINE Y(Z, r) == Oct!RowAdded(Z, v, r, 0, One, o, r)
<1>a. ASSUME NEW q, NEW Z, OctShows(q, Z), NEW r \in Oct!ViewRows(o)
      PROVE  OctShows(Row1(q, r), Y(Z, r))
  <2>1. OctShows(Oct!multadd_row_from(q, v, r, 0, One, o, r), Oct!RowAdded(Z, v, r, 0, One, o, r))
    BY <1>1, <1>0, <1>a, OctMultAddRowFromHolds
  <2> QED BY <2>1 DEF Oct!multadd_row
<1>5. G \in [OctMemory \X (1 .. n) -> OctMemory]
  <2>1. ASSUME NEW q \in OctMemory, NEW j \in 1 .. n PROVE Row1(q, j - 1) \in OctMemory
    <3> DEFINE r == j - 1
    <3>1. r \in Oct!ViewRows(o)
      BY <1>1
    <3>2. PICK Z : OctShows(q, Z)
      BY ShowsSome
    <3> HIDE DEF r, Row1, Y
    <3>3. OctShows(Row1(q, r), Y(Z, r))
      BY <1>a, <3>1, <3>2
    <3> QED BY <3>3 DEF OctShows, r
  <2> HIDE DEF Row1
  <2> QED BY <2>1
<1>6. CompletesRows(G, X, X2, o)
  <2> SUFFICES ASSUME NEW q \in OctMemory,
                        NEW r \in Oct!ViewRows(o), OctShows(q, UpToRow(X, X2, o.r0 + r))
               PROVE  OctShows(G[<<q, r + 1>>], UpToRow(X, X2, o.r0 + r + 1))
    BY DEF CompletesRows
  <2> DEFINE z == o.r0 + r
             U == UpToRow(X, X2, z)
             V2 == Y(U, r)
  <2>1. z \in OctRowSet /\ r \in Nat /\ r + 1 \in 1 .. n /\ (r + 1) - 1 = r /\ r \in Oct!ViewRows(v)
        /\ v.r0 + r \in OctRowSet /\ z - o.r0 = r
    BY <1>1, RectNumbers DEF Oct!ViewRows
  <2>2. G[<<q, r + 1>>] = Row1(q, r)
    <3> HIDE DEF Row1
    <3> QED BY <2>1
  <2>3. OctShows(Row1(q, r), V2)
    BY <1>a
  <2>4. U \in OctMatrices /\ V2 \in OctMatrices
    BY <2>3, <1>3, <1>1, UpToRowIs DEF OctShows
  <2>5. ASSUME NEW x \in OctRowSet, NEW y \in OctColSet
        PROVE  V2[x][y] = IF x = z THEN X2[z][y] ELSE U[x][y]
    <3>0. x \in Nat /\ y \in Nat
      BY RectNumbers
    <3>2. V2[x][y] = IF x = z /\ y - o.c0 \in Oct!ViewCols(o)
                       THEN OctAdd(U[x][y], OctMul(One, U[v.r0 + r][fromV(y)])) ELSE U[x][y]
      <4> HIDE DEF U
      <4> QED BY <1>1, <2>1, <2>4, <3>0 DEF Oct!RowAdded, Oct!Put, Oct!At, OctMatrices, Oct!ViewCols
    <3>3. U[z] = X[z]
      <4>1. ~(z < z)
        BY <1>1, <2>1
      <4> HIDE DEF X2, z
      <4> QED BY <1>1, <1>3, <2>1, <4>1, UpToRowIs
    <3>4. X2[z][y] = IF y - o.c0 \in Oct!ViewCols(o)
                       THEN OctAdd(X[v.r0 + r][fromV(y)], X[o.r0 + r][fromW(y)]) ELSE X[z][y]
      <4> HIDE DEF X2, z
      <4> QED BY <1>2, <2>1
    <3>5. CASE x = z /\ y - o.c0 \in Oct!ViewCols(o)
      <4>1. y - o.c0 \in Oct!ViewCols(v) /\ fromV(y) \in OctColSet
        BY <1>1, <3>5, ReadFor
      <4>2. U[v.r0 + r][fromV(y)] = X[v.r0 + r][fromV(y)]
        <5> HIDE DEF X2
        <5> QED BY <1>1, <1>3, <1>4, <2>1, <4>1, SourceKept
      <4>3. fromW(y) = y
        BY <1>1, <3>0
      <4> DEFINE b == X[v.r0 + r][fromV(y)]
                 a == X[z][y]
      <4>6. a \in OctF /\ b \in OctF /\ U[v.r0 + r][fromV(y)] = b /\ U[x][y] = a
        BY <1>1, <2>1, <3>3, <3>5, <4>1, <4>2 DEF OctMatrices
      <4>7. X2[z][y] = OctAdd(b, a)
        <5> HIDE DEF X2
        <5> QED BY <3>4, <3>5, <4>3
      <4> HIDE DEF a, b, V2, U, X2, z, fromV, fromW
      <4>8. OctMul(One, b) = b /\ OctAdd(a, b) = OctAdd(b, a)
        BY <4>6 DEF Oct!Assumptions, Oct!LogDomain
      <4> QED BY <3>2, <3>5, <4>6, <4>7, <4>8
    <3>6. CASE ~(x = z /\ y - o.c0 \in Oct!ViewCols(o))
      <4> HIDE DEF V2, U, X2, z, fromV, fromW
      <4> QED BY <3>2, <3>3, <3>4, <3>6
    <3> QED BY <3>5, <3>6
  <2> HIDE DEF V2, U, X2, z, G, Row1
  <2>6. V2 = UpToRow(X, X2, z + 1)
    <3>1. NextRow(V2, X, X2, z)
      BY <2>5 DEF U, NextRow
    <3> QED BY <1>1, <1>3, <2>1, <2>4, <3>1, RowCompleted
  <2> QED BY <2>2, <2>3, <2>6 DEF z
<1> HIDE DEF G, X2
<1>7. PICK t \in [0 .. n -> OctMemory] : Factors!IsUp(t, m, n, G) /\ OctShows(t[n], X2)
  BY <1>3, <1>4, <1>5, <1>6, RowsInTurn
<1> DEFINE P(s) == s = [r \in 0 .. n |-> IF r = 0 THEN m
             ELSE Oct!multadd_row(s[r - 1], v, r - 1, One, o, r - 1)]
<1>8. P(t)
  <2>1. ASSUME NEW r \in 0 .. n, r # 0
        PROVE G[<<t[r - 1], r>>] = Oct!multadd_row(t[r - 1], v, r - 1, One, o, r - 1)
    <3>1. r - 1 \in 0 .. n /\ r \in 1 .. n
      BY <1>1, <2>1
    <3>2. t[r - 1] \in OctMemory
      BY <1>7, <3>1
    <3> QED BY <3>1, <3>2 DEF G
  <2>2. t = [r \in 0 .. n |-> IF r = 0 THEN m ELSE G[<<t[r - 1], r>>]]
    BY <1>7 DEF Factors!IsUp
  <2> QED BY <2>1, <2>2
<1>9. ASSUME NEW s, P(s) PROVE s[n] = t[n]
  <2>1. s[0] = t[0]
    BY <1>1, <1>8, <1>9
  <2>2. ASSUME NEW r \in 1 .. n, s[r - 1] = t[r - 1] PROVE s[r] = t[r]
    <3>1. /\ s[r] = Oct!multadd_row(s[r - 1], v, r - 1, One, o, r - 1)
          /\ t[r] = Oct!multadd_row(t[r - 1], v, r - 1, One, o, r - 1)
      BY <1>1, <1>8, <1>9
    <3> QED BY <2>2, <3>1
  <2>3. Alike(s, t, n)
    BY <2>1, <2>2 DEF Alike
  <2> QED BY <1>1, <2>3, SameUp
<1>10. P(CHOOSE s : P(s))
  BY <1>8
<1>11. Oct!add_inplace(m, v, o) = (CHOOSE s : P(s))[n]
  BY DEF Oct!add_inplace, Oct!ForRows
<1>12. Oct!add_inplace(m, v, o) = t[n]
  <2> HIDE DEF P
  <2> QED BY <1>9, <1>10, <1>11
<1> QED BY <1>7, <1>12 DEF X2

(* The same for the columns of a row, element by element: the columns      *)
(* before column n are those of X2.                                        *)
UpToCol(X, X2, n) ==
  [x \in OctRowSet |-> [y \in OctColSet |-> IF y < n THEN X2[x][y] ELSE X[x][y]]]

CompletesCols(G, X, X2, o) ==
  \A q \in OctMemory, c \in Oct!ViewCols(o) :
    OctShows(q, UpToCol(X, X2, o.c0 + c)) => OctShows(G[<<q, c + 1>>], UpToCol(X, X2, o.c0 + c + 1))

LEMMA UpToColIs ==
  ASSUME NEW X \in OctMatrices, NEW X2 \in OctMatrices, NEW n
  PROVE  /\ UpToCol(X, X2, n) \in OctMatrices
         /\ \A x \in OctRowSet, y \in OctColSet :
              UpToCol(X, X2, n)[x][y] = IF y < n THEN X2[x][y] ELSE X[x][y]
BY DEF UpToCol, OctMatrices

LEMMA ColsInTurn ==
  ASSUME Oct!Assumptions, NEW m, NEW X, OctShows(m, X), NEW X2 \in OctMatrices, NEW o, IsRect(o),
         SameOutside(X, X2, o),
         NEW G \in [OctMemory \X (1 .. o.n_col) -> OctMemory], CompletesCols(G, X, X2, o)
  PROVE  \E s \in [0 .. o.n_col -> OctMemory] :
           Factors!IsUp(s, m, o.n_col, G) /\ OctShows(s[o.n_col], X2)
<1> DEFINE n == o.n_col
<1>1. /\ o.c0 \in Nat /\ n \in Nat /\ o.c0 + n <= OctCols /\ m \in OctMemory /\ X \in OctMatrices
      /\ OctCols \in Nat /\ \A y \in OctColSet : y \in Nat /\ y < OctCols
  BY RectNumbers DEF OctShows, OctColSet
<1>2. PICK s \in [0 .. n -> OctMemory] : Factors!IsUp(s, m, n, G)
  BY <1>1, Factors!UpExists
<1> DEFINE S == {c \in Nat : c <= n => OctShows(s[c], UpToCol(X, X2, o.c0 + c))}
<1>3. 0 \in S
  <2>1. s[0] = m
    BY <1>1, <1>2 DEF Factors!IsUp
  <2>2. UpToCol(X, X2, o.c0 + 0) = X
    <3>1. ASSUME NEW x \in OctRowSet, NEW y \in OctColSet
          PROVE  UpToCol(X, X2, o.c0 + 0)[x][y] = X[x][y]
      <4>1. y < o.c0 => y - o.c0 \notin Oct!ViewCols(o)
        BY <1>1 DEF Oct!ViewCols
      <4>2. y < o.c0 => X2[x][y] = X[x][y]
        BY <4>1 DEF SameOutside
      <4> QED BY <1>1, <4>2, UpToColIs
    <3>2. UpToCol(X, X2, o.c0 + 0) \in OctMatrices
      BY <1>1, UpToColIs
    <3> HIDE DEF n
    <3> QED BY <1>1, <3>1, <3>2 DEF OctMatrices
  <2> QED BY <2>1, <2>2
<1>4. ASSUME NEW c \in Nat, c \in S PROVE c + 1 \in S
  <2> SUFFICES ASSUME c + 1 <= n PROVE OctShows(s[c + 1], UpToCol(X, X2, o.c0 + (c + 1)))
    OBVIOUS
  <2>1. c \in Oct!ViewCols(o) /\ c \in 0 .. n /\ c + 1 \in 0 .. n /\ c + 1 # 0 /\ (c + 1) - 1 = c
    BY <1>1 DEF Oct!ViewCols
  <2>2. s[c + 1] = G[<<s[c], c + 1>>]
    BY <1>2, <2>1 DEF Factors!IsUp
  <2>3. OctShows(s[c], UpToCol(X, X2, o.c0 + c)) /\ s[c] \in OctMemory
    BY <1>2, <1>4, <2>1
  <2>4. OctShows(s[c + 1], UpToCol(X, X2, o.c0 + c + 1))
    BY <2>1, <2>2, <2>3 DEF CompletesCols
  <2>5. o.c0 + c + 1 = o.c0 + (c + 1)
    <3>1. o.c0 \in Int /\ c \in Int
      BY <1>1
    <3> QED BY <3>1
  <2> QED BY <2>4, <2>5
<1>5. n \in S
  <2> HIDE DEF S, n
  <2> QED BY <1>1, <1>3, <1>4, Factors!NatSet
<1>6. UpToCol(X, X2, o.c0 + n) = X2
  <2>1. ASSUME NEW x \in OctRowSet, NEW y \in OctColSet
        PROVE  UpToCol(X, X2, o.c0 + n)[x][y] = X2[x][y]
    <3>1. ~(y < o.c0 + n) => y - o.c0 \notin Oct!ViewCols(o)
      BY <1>1 DEF Oct!ViewCols
    <3>2. ~(y < o.c0 + n) => X2[x][y] = X[x][y]
      BY <3>1 DEF SameOutside
    <3> QED BY <1>1, <3>2, UpToColIs
  <2>2. UpToCol(X, X2, o.c0 + n) \in OctMatrices
    BY <1>1, UpToColIs
  <2> HIDE DEF n
  <2> QED BY <2>1, <2>2 DEF OctMatrices
<1>7. OctShows(s[n], X2)
  BY <1>1, <1>5, <1>6
<1> QED BY <1>2, <1>7

(* From X to X2 only row r of the view o changes.                          *)
OnlyRow(X, X2, o, r) ==
  \A x \in OctRowSet, y \in OctColSet :
    ~(x = o.r0 + r /\ y - o.c0 \in Oct!ViewCols(o)) => X2[x][y] = X[x][y]

LEMMA ElementNext ==
  ASSUME Oct!Assumptions, NEW X \in OctMatrices, NEW X2 \in OctMatrices, NEW o, IsRect(o),
         NEW r \in Oct!ViewRows(o), NEW c \in Oct!ViewCols(o), OnlyRow(X, X2, o, r),
         NEW q, OctShows(q, UpToCol(X, X2, o.c0 + c)),
         NEW a, a = X2[o.r0 + r][o.c0 + c]
  PROVE  OctShows(Oct!set_el(q, o, r, c, a), UpToCol(X, X2, o.c0 + c + 1))
<1> DEFINE z == o.r0 + r
           t == o.c0 + c
           U == UpToCol(X, X2, t)
           Y == Oct!ElementSet(U, o, r, c, a)
           U2 == UpToCol(X, X2, t + 1)
<1>1. /\ z \in OctRowSet /\ t \in OctColSet /\ r \in Nat /\ c \in Nat /\ o.r0 \in Nat /\ o.c0 \in Nat
      /\ \A x \in OctRowSet : x \in Nat
      /\ \A y \in OctColSet : y \in Nat
  BY RectNumbers
<1>2. a \in OctF
  BY <1>1 DEF OctMatrices
<1>3. OctShows(Oct!set_el(q, o, r, c, a), Y)
  BY <1>2, OctSetElHolds
<1>4. U \in OctMatrices /\ U2 \in OctMatrices /\ Y \in OctMatrices
  BY <1>3, UpToColIs DEF OctShows
<1>5. ASSUME NEW x \in OctRowSet, NEW y \in OctColSet PROVE Y[x][y] = U2[x][y]
  <2>1. Y[x][y] = IF x = z /\ y = t THEN a ELSE U[x][y]
    <3> HIDE DEF U
    <3>1. /\ x - o.r0 \in {r} <=> x = z
          /\ y - o.c0 \in {c} <=> y = t
      BY <1>1
    <3>2. Y[x][y] = IF x - o.r0 \in {r} /\ y - o.c0 \in {c} THEN a ELSE U[x][y]
      BY <1>4 DEF Oct!ElementSet, Oct!Put, OctMatrices
    <3> QED BY <3>1, <3>2
  <2>2. /\ U[x][y] = IF y < t THEN X2[x][y] ELSE X[x][y]
        /\ U2[x][y] = IF y < t + 1 THEN X2[x][y] ELSE X[x][y]
    BY UpToColIs
  <2>3. y < t + 1 <=> y < t \/ y = t
    BY <1>1
  <2>4. x # z => X2[x][y] = X[x][y]
    BY DEF OnlyRow
  <2> HIDE DEF Y, U, U2, z, t
  <2>5. a = X2[z][t]
    BY DEF z, t
  <2> QED BY <2>1, <2>2, <2>3, <2>4, <2>5
<1>6. Y = U2
  <2> HIDE DEF Y, U2
  <2> QED BY <1>4, <1>5 DEF OctMatrices
<1>7. t + 1 = o.c0 + c + 1
  <2>1. o.c0 \in Int /\ c \in Int
    BY <1>1
  <2> QED BY <2>1
<1> QED BY <1>3, <1>6, <1>7

(* What the view p, which shares no element with o, shows does not change. *)
LEMMA ReadWhileWriting ==
  ASSUME Oct!Assumptions, NEW X \in OctMatrices, NEW X2 \in OctMatrices,
         NEW o, IsRect(o), NEW p, IsRect(p), ~Oct!Overlap(p, o),
         NEW r \in Oct!ViewRows(o), OnlyRow(X, X2, o, r), NEW n,
         NEW q, OctShows(q, UpToCol(X, X2, n)), NEW r1 \in Oct!ViewRows(p), NEW c \in Oct!ViewCols(p)
  PROVE  /\ UpToCol(X, X2, n)[p.r0 + r1][p.c0 + c] = X[p.r0 + r1][p.c0 + c]
         /\ Oct!get_el(q, p, r1, c) = X[p.r0 + r1][p.c0 + c]
<1> DEFINE x == p.r0 + r1
           y == p.c0 + c
<1>1. x \in OctRowSet /\ y \in OctColSet /\ r1 \in Int /\ c \in Int /\ o.r0 \in Int /\ r \in Int
  BY RectNumbers
<1>2. ~(x - o.r0 \in Oct!ViewRows(o) /\ y - o.c0 \in Oct!ViewCols(o))
  BY OutsideOf
<1>3. ~(x = o.r0 + r /\ y - o.c0 \in Oct!ViewCols(o))
  <2>1. x = o.r0 + r => x - o.r0 = r
    BY <1>1
  <2> QED BY <1>2, <2>1
<1>4. Oct!get_el_offs(p, r1, c) = Cell(x, y)
  BY <1>1, OffsIs
<1> HIDE DEF x, y
<1>5. X2[x][y] = X[x][y]
  BY <1>1, <1>3 DEF OnlyRow
<1>6. UpToCol(X, X2, n)[x][y] = X[x][y]
  BY <1>1, <1>5, UpToColIs
<1>7. q[Cell(x, y)] = UpToCol(X, X2, n)[x][y]
  BY <1>1 DEF OctShows
<1> QED BY <1>4, <1>6, <1>7 DEF Oct!get_el, x, y

(* One row of copy_submat.                                                 *)
SubmatRow(m, v, ro, co, k, w, so, do, r) ==
  Oct!ForRows(m, k, LAMBDA q, c : Oct!set_el(q, w, r + so, c + do, Oct!get_el(q, v, r + ro, c + co)))

LEMMA SubmatRowHolds ==
  ASSUME Oct!Assumptions, NEW m, NEW X, OctShows(m, X), NEW v, IsRect(v), NEW w, IsRect(w),
         NEW ro \in Nat, NEW co \in Nat, NEW so \in Nat, NEW do \in Nat,
         NEW n1 \in Nat, NEW k \in Nat,
         NEW p, p = Oct!get_subview(v, ro, co, n1, k), IsRect(p),
         NEW o, o = Oct!get_subview(w, so, do, n1, k), IsRect(o), ~Oct!Overlap(p, o),
         NEW r \in 0 .. n1 - 1
  PROVE  OctShows(SubmatRow(m, v, ro, co, k, w, so, do, r), Oct!RowCopied(X, p, r, o, r))
<1> DEFINE n == o.n_col
           X2 == Oct!RowCopied(X, p, r, o, r)
           Set(q, c) == Oct!set_el(q, w, r + so, c + do, Oct!get_el(q, v, r + ro, c + co))
           G == [u \in OctMemory \X (1 .. n) |-> Set(u[1], u[2] - 1)]
           z == o.r0 + r
<1>1. /\ n = k /\ p.n_col = k /\ o.n_row = n1 /\ p.n_row = n1
      /\ o.r0 = w.r0 + so /\ o.c0 = w.c0 + do /\ p.r0 = v.r0 + ro /\ p.c0 = v.c0 + co
  BY DEF Oct!get_subview
<1>2. /\ o.r0 \in Nat /\ o.c0 \in Nat /\ p.r0 \in Nat /\ p.c0 \in Nat /\ n \in Nat /\ r \in Nat
      /\ w.r0 \in Nat /\ w.c0 \in Nat /\ v.r0 \in Nat /\ v.c0 \in Nat
      /\ r \in Oct!ViewRows(p) /\ r \in Oct!ViewRows(o) /\ Oct!ViewCols(p) = Oct!ViewCols(o)
      /\ z \in OctRowSet /\ p.r0 + r \in OctRowSet /\ X \in OctMatrices
      /\ \A j \in 1 .. n : j - 1 \in Oct!ViewCols(o)
  BY <1>1, RectNumbers DEF Oct!ViewRows, Oct!ViewCols, OctShows
<1>3. X2 \in OctMatrices
  <2>1. OctShows(Oct!copy_row(m, p, r, o, r), X2)
    BY <1>1, <1>2, OctCopyRowHolds
  <2> QED BY <2>1 DEF OctShows
<1>a. /\ OnlyRow(X, X2, o, r)
      /\ \A c \in Oct!ViewCols(o) : X2[z][o.c0 + c] = X[p.r0 + r][p.c0 + c]
  <2>1. \A x \in OctRowSet, y \in OctColSet :
          X2[x][y] = IF x = z /\ y - o.c0 \in Oct!ViewCols(o) THEN X[p.r0 + r][p.c0 + (y - o.c0)]
            ELSE X[x][y]
    <3>1. \A x \in OctRowSet : x \in Nat
      BY RectNumbers
    <3> QED BY <1>2, <3>1 DEF Oct!RowCopied, Oct!Put, Oct!At, OctMatrices
  <2> HIDE DEF X2
  <2>2. OnlyRow(X, X2, o, r)
    BY <2>1 DEF OnlyRow
  <2>3. ASSUME NEW c \in Oct!ViewCols(o) PROVE X2[z][o.c0 + c] = X[p.r0 + r][p.c0 + c]
    <3> DEFINE y == o.c0 + c
    <3>1. y \in OctColSet /\ y - o.c0 = c
      BY RectNumbers
    <3> HIDE DEF y, z
    <3>2. X2[z][y] = X[p.r0 + r][p.c0 + c]
      BY <1>2, <2>1, <3>1
    <3> QED BY <3>2 DEF y
  <2> QED BY <2>2, <2>3
<1>4. SameOutside(X, X2, o)
  <2> SUFFICES ASSUME NEW x \in OctRowSet, NEW y \in OctColSet,
                      ~(x - o.r0 \in Oct!ViewRows(o) /\ y - o.c0 \in Oct!ViewCols(o))
               PROVE  X2[x][y] = X[x][y]
    BY DEF SameOutside
  <2>1. x = z => x - o.r0 = r
    BY <1>2
  <2> HIDE DEF X2
  <2> QED BY <1>2, <1>a, <2>1 DEF OnlyRow
<1>b. ASSUME NEW q, NEW c \in Oct!ViewCols(o)
      PROVE  Set(q, c) = Oct!set_el(q, o, r, c, Oct!get_el(q, p, r, c)) /\ c \in Oct!ViewCols(p)
  <2>1. c \in Int /\ r \in Int /\ r + so \in Int /\ c + do \in Int /\ r + ro \in Int /\ c + co \in Int
    BY <1>2, RectNumbers
  <2>2. /\ w.r0 + (r + so) = o.r0 + r /\ w.c0 + (c + do) = o.c0 + c
        /\ v.r0 + (r + ro) = p.r0 + r /\ v.c0 + (c + co) = p.c0 + c
    BY <1>1, <1>2, <2>1
  <2>3. Oct!get_el_offs(w, r + so, c + do) = Oct!get_el_offs(o, r, c)
    BY <2>1, <2>2, OffsIs
  <2>4. Oct!get_el_offs(v, r + ro, c + co) = Oct!get_el_offs(p, r, c)
    BY <2>1, <2>2, OffsIs
  <2> QED BY <1>2, <2>3, <2>4 DEF Oct!set_el, Oct!get_el
<1>5. G \in [OctMemory \X (1 .. n) -> OctMemory]
  <2>1. ASSUME NEW q \in OctMemory, NEW j \in 1 .. n PROVE Set(q, j - 1) \in OctMemory
    <3> DEFINE c == j - 1
    <3>1. c \in Oct!ViewCols(o)
      BY <1>2
    <3> HIDE DEF c
    <3>2. PICK Z : OctShows(q, Z)
      BY ShowsSome
    <3>3. Oct!get_el(q, p, r, c) \in OctF
      <4>1. p.r0 + r \in OctRowSet /\ p.c0 + c \in OctColSet /\ r \in Int /\ c \in Int
        BY <1>2, <3>1, RectNumbers
      <4>2. Oct!get_el_offs(p, r, c) = Cell(p.r0 + r, p.c0 + c)
        BY <4>1, OffsIs
      <4>3. q[Cell(p.r0 + r, p.c0 + c)] \in OctF
        BY <3>2, <4>1, ShowsValues
      <4> QED BY <4>2, <4>3 DEF Oct!get_el
    <3> DEFINE a == Oct!get_el(q, p, r, c)
    <3>4. a \in OctF
      BY <3>3
    <3> HIDE DEF a
    <3>5. OctShows(Oct!set_el(q, o, r, c, a), Oct!ElementSet(Z, o, r, c, a))
      BY <1>2, <3>1, <3>2, <3>4, OctSetElHolds
    <3>6. Oct!set_el(q, o, r, c, a) \in OctMemory
      BY <3>5 DEF OctShows
    <3>7. Set(q, c) = Oct!set_el(q, o, r, c, a)
      BY <1>b, <3>1 DEF a
    <3> HIDE DEF Set
    <3> QED BY <3>6, <3>7 DEF c
  <2> HIDE DEF Set
  <2> QED BY <2>1
<1>6. CompletesCols(G, X, X2, o)
  <2> SUFFICES ASSUME NEW q \in OctMemory,
                        NEW c \in Oct!ViewCols(o), OctShows(q, UpToCol(X, X2, o.c0 + c))
               PROVE  OctShows(G[<<q, c + 1>>], UpToCol(X, X2, o.c0 + c + 1))
    BY DEF CompletesCols
  <2>1. c + 1 \in 1 .. n /\ (c + 1) - 1 = c
    BY <1>2 DEF Oct!ViewCols
  <2>2. G[<<q, c + 1>>] = Set(q, c)
    <3> HIDE DEF Set
    <3> QED BY <2>1
  <2> HIDE DEF G, X2, Set
  <2> DEFINE a == Oct!get_el(q, p, r, c)
  <2>3. Set(q, c) = Oct!set_el(q, o, r, c, a) /\ c \in Oct!ViewCols(p)
    BY <1>b
  <2>4. a = X[p.r0 + r][p.c0 + c]
    BY <1>2, <1>3, <1>a, <2>3, ReadWhileWriting
  <2>5. a = X2[o.r0 + r][o.c0 + c]
    BY <1>a, <2>4
  <2> HIDE DEF a
  <2>6. OctShows(Oct!set_el(q, o, r, c, a), UpToCol(X, X2, o.c0 + c + 1))
    BY <1>2, <1>3, <1>a, <2>5, ElementNext
  <2> QED BY <2>2, <2>3, <2>6
<1> HIDE DEF G, X2
<1>7. PICK t \in [0 .. n -> OctMemory] : Factors!IsUp(t, m, n, G) /\ OctShows(t[n], X2)
  BY <1>3, <1>4, <1>5, <1>6, ColsInTurn
<1> DEFINE P(s) == s = [c \in 0 .. n |-> IF c = 0 THEN m
             ELSE Oct!set_el(s[c - 1], w, r + so, (c - 1) + do, Oct!get_el(s[c - 1], v, r + ro,
             (c - 1) + co))]
<1>8. P(t)
  <2>1. ASSUME NEW c \in 0 .. n, c # 0
        PROVE G[<<t[c - 1], c>>] = Oct!set_el(t[c - 1], w, r + so, (c - 1) + do,
                 Oct!get_el(t[c - 1], v, r + ro, (c - 1) + co))
    <3>1. c - 1 \in 0 .. n /\ c \in 1 .. n
      BY <1>1, <2>1
    <3>2. t[c - 1] \in OctMemory
      BY <1>7, <3>1
    <3> QED BY <3>1, <3>2 DEF G
  <2>2. t = [c \in 0 .. n |-> IF c = 0 THEN m ELSE G[<<t[c - 1], c>>]]
    BY <1>7 DEF Factors!IsUp
  <2> QED BY <2>1, <2>2
<1>9. ASSUME NEW s, P(s) PROVE s[n] = t[n]
  <2>1. s[0] = t[0]
    BY <1>1, <1>8, <1>9
  <2>2. ASSUME NEW c \in 1 .. n, s[c - 1] = t[c - 1] PROVE s[c] = t[c]
    <3>1. /\ s[c] = Oct!set_el(s[c - 1], w, r + so, (c - 1) + do, Oct!get_el(s[c - 1], v, r + ro,
               (c - 1) + co))
          /\ t[c] = Oct!set_el(t[c - 1], w, r + so, (c - 1) + do, Oct!get_el(t[c - 1], v, r + ro,
               (c - 1) + co))
      BY <1>1, <1>8, <1>9
    <3> QED BY <2>2, <3>1
  <2>3. Alike(s, t, n)
    BY <2>1, <2>2 DEF Alike
  <2> QED BY <1>1, <2>3, SameUp
<1>10. P(CHOOSE s : P(s))
  BY <1>8
<1>11. SubmatRow(m, v, ro, co, k, w, so, do, r) = (CHOOSE s : P(s))[n]
  BY <1>1 DEF SubmatRow, Oct!ForRows
<1>12. SubmatRow(m, v, ro, co, k, w, so, do, r) = t[n]
  <2> HIDE DEF P
  <2> QED BY <1>9, <1>10, <1>11
<1> QED BY <1>7, <1>12 DEF X2

LEMMA OctCopySubmatHolds ==
  ASSUME Oct!Assumptions, NEW m, NEW X, OctShows(m, X), NEW v, IsRect(v), NEW w, IsRect(w),
         ~Oct!Overlap(v, w),
         NEW ro \in Nat, NEW co \in Nat, NEW so \in Nat, NEW do \in Nat,
         NEW n \in Nat \ {0}, NEW k \in Nat \ {0},
         ro + n <= v.n_row, co + k <= v.n_col, so + n <= w.n_row, do + k <= w.n_col
  PROVE  OctShows(Oct!copy_submat(m, v, ro, co, n, k, w, so, do), Oct!SubmatCopied(X, v, ro, co, n,
           k, w, so, do))
<1> DEFINE p == Oct!get_subview(v, ro, co, n, k)
           o == Oct!get_subview(w, so, do, n, k)
           X2 == Oct!Copied(X, p, o)
           G == [u \in OctMemory \X (1 .. n) |-> SubmatRow(u[1], v, ro, co, k, w, so, do, u[2] - 1)]
<1>a. /\ o.n_row = n /\ o.n_col = k /\ o.r0 = w.r0 + so /\ o.c0 = w.c0 + do
      /\ p.n_row = n /\ p.n_col = k /\ p.r0 = v.r0 + ro /\ p.c0 = v.c0 + co
  BY DEF Oct!get_subview
<1>b. /\ v.r0 \in Nat /\ v.c0 \in Nat /\ v.n_row \in Nat /\ v.n_col \in Nat
      /\ w.r0 \in Nat /\ w.c0 \in Nat /\ w.n_row \in Nat /\ w.n_col \in Nat /\ X \in OctMatrices
  BY RectNumbers DEF OctShows
<1>c. IsRect(p)
  <2>1. ro \in 0 .. v.n_row - 1 /\ co \in 0 .. v.n_col - 1 /\ n \in 1 .. v.n_row /\ k \in 1 .. v.n_col
    BY <1>b
  <2>2. p \in Oct!Subviews(v)
    BY <2>1 DEF Oct!Subviews
  <2>3. Oct!Inside(p, v)
    <3> HIDE DEF p
    <3> QED BY <1>a, <1>b DEF Oct!Inside
  <2> HIDE DEF p
  <2> QED BY <2>2, <2>3, SubviewIsRect
<1>d. IsRect(o)
  <2>1. so \in 0 .. w.n_row - 1 /\ do \in 0 .. w.n_col - 1 /\ n \in 1 .. w.n_row /\ k \in 1 .. w.n_col
    BY <1>b
  <2>2. o \in Oct!Subviews(w)
    BY <2>1 DEF Oct!Subviews
  <2>3. Oct!Inside(o, w)
    <3> HIDE DEF o
    <3> QED BY <1>a, <1>b DEF Oct!Inside
  <2> HIDE DEF o
  <2> QED BY <2>2, <2>3, SubviewIsRect
<1>mem. ~Oct!Overlap(p, o) /\ Apart(p, o) /\ Oct!SameShape(p, o)
  <2> HIDE DEF p, o
  <2>1. ~Oct!Overlap(p, o)
    BY <1>a, <1>b DEF Oct!Overlap
  <2> QED BY <1>a, <2>1 DEF Apart, Oct!SameShape
<1>f. X2 = Oct!SubmatCopied(X, v, ro, co, n, k, w, so, do)
  <2> DEFINE X3 == Oct!SubmatCopied(X, v, ro, co, n, k, w, so, do)
  <2>1. /\ X2 = [x \in OctRowSet |-> [y \in OctColSet |-> X2[x][y]]]
        /\ X3 = [x \in OctRowSet |-> [y \in OctColSet |-> X3[x][y]]]
    <3> HIDE DEF o, p
    <3> QED BY <1>b DEF Oct!Copied, Oct!SubmatCopied, Oct!Put, OctMatrices
  <2>2. ASSUME NEW x \in OctRowSet, NEW y \in OctColSet PROVE X2[x][y] = X3[x][y]
    <3>0. x \in Int /\ y \in Int
      BY <1>c, RectNumbers
    <3>1. X2[x][y] = IF x - o.r0 \in Oct!ViewRows(o) /\ y - o.c0 \in Oct!ViewCols(o)
                       THEN X[p.r0 + (x - o.r0)][p.c0 + (y - o.c0)] ELSE X[x][y]
      <4> HIDE DEF o, p
      <4> QED BY <1>b DEF Oct!Copied, Oct!Put, Oct!At, OctMatrices
    <3>2. X3[x][y] = IF x - w.r0 \in so .. so + n - 1 /\ y - w.c0 \in do .. do + k - 1
                       THEN X[v.r0 + ((x - w.r0) - so + ro)][v.c0 + ((y - w.c0) - do + co)] ELSE X[x][y]
      BY <1>b DEF Oct!SubmatCopied, Oct!Put, Oct!At, OctMatrices
    <3> HIDE DEF X2, X3, o, p
    <3>3. /\ x - o.r0 \in Oct!ViewRows(o) <=> x - w.r0 \in so .. so + n - 1
          /\ y - o.c0 \in Oct!ViewCols(o) <=> y - w.c0 \in do .. do + k - 1
      BY <1>a, <1>b, <3>0 DEF Oct!ViewRows, Oct!ViewCols
    <3>4. /\ p.r0 + (x - o.r0) = v.r0 + ((x - w.r0) - so + ro)
          /\ p.c0 + (y - o.c0) = v.c0 + ((y - w.c0) - do + co)
      BY <1>a, <1>b, <3>0
    <3> QED BY <3>1, <3>2, <3>3, <3>4
  <2> HIDE DEF X2, X3
  <2>3. X2 = X3
    BY <2>1, <2>2
  <2> QED BY <2>3 DEF X3
<1>1. /\ \A j \in 1 .. n : j - 1 \in 0 .. n - 1 /\ j - 1 \in Oct!ViewRows(o)
      /\ n \in Nat
  BY <1>a DEF Oct!ViewRows
<1>3. X2 \in OctMatrices
  BY <1>b, <1>c, <1>d, <1>mem, CopiedIs
<1>4. SameOutside(X, X2, o)
  BY <1>b, <1>c, <1>d, <1>mem, CopiedIs
<1>g. ASSUME NEW q, NEW Z, OctShows(q, Z), NEW r \in 0 .. n - 1
      PROVE  OctShows(SubmatRow(q, v, ro, co, k, w, so, do, r), Oct!RowCopied(Z, p, r, o, r))
  BY <1>c, <1>d, <1>mem, <1>g, SubmatRowHolds
<1>5. G \in [OctMemory \X (1 .. n) -> OctMemory]
  <2>1. ASSUME NEW q \in OctMemory, NEW j \in 1 .. n
        PROVE  SubmatRow(q, v, ro, co, k, w, so, do, j - 1) \in OctMemory
    <3> DEFINE r == j - 1
    <3>1. r \in 0 .. n - 1
      BY <1>1
    <3>2. PICK Z : OctShows(q, Z)
      BY ShowsSome
    <3> HIDE DEF r, p, o
    <3>3. OctShows(SubmatRow(q, v, ro, co, k, w, so, do, r), Oct!RowCopied(Z, p, r, o, r))
      BY <1>g, <3>1, <3>2
    <3> QED BY <3>3 DEF OctShows, r
  <2> QED BY <2>1
<1>6. CompletesRows(G, X, X2, o)
  <2> HIDE DEF o, p
  <2> SUFFICES ASSUME NEW q \in OctMemory,
                        NEW r \in Oct!ViewRows(o), OctShows(q, UpToRow(X, X2, o.r0 + r))
               PROVE  OctShows(G[<<q, r + 1>>], UpToRow(X, X2, o.r0 + r + 1))
    BY DEF CompletesRows
  <2>1. r \in 0 .. n - 1 /\ r + 1 \in 1 .. n /\ (r + 1) - 1 = r
    BY <1>a DEF Oct!ViewRows
  <2>2. G[<<q, r + 1>>] = SubmatRow(q, v, ro, co, k, w, so, do, r)
    BY <2>1
  <2> HIDE DEF G, X2
  <2>3. OctShows(SubmatRow(q, v, ro, co, k, w, so, do, r), Oct!RowCopied(UpToRow(X, X2, o.r0 + r),
          p, r, o, r))
    BY <1>g, <2>1
  <2>4. Oct!RowCopied(UpToRow(X, X2, o.r0 + r), p, r, o, r) = UpToRow(X, X2, o.r0 + r + 1)
    BY <1>b, <1>c, <1>d, <1>mem, CopiedNext DEF X2
  <2> QED BY <2>2, <2>3, <2>4
<1> HIDE DEF G, X2, o
<1>7. PICK t \in [0 .. n -> OctMemory] : Factors!IsUp(t, m, n, G) /\ OctShows(t[n], X2)
  BY <1>3, <1>4, <1>5, <1>6, <1>a, <1>d, RowsInTurn
<1> DEFINE P(s) == s = [r \in 0 .. n |-> IF r = 0 THEN m
             ELSE SubmatRow(s[r - 1], v, ro, co, k, w, so, do, r - 1)]
<1>8. P(t)
  <2>1. ASSUME NEW r \in 0 .. n, r # 0
        PROVE G[<<t[r - 1], r>>] = SubmatRow(t[r - 1], v, ro, co, k, w, so, do, r - 1)
    <3>1. r - 1 \in 0 .. n /\ r \in 1 .. n
      BY <1>1, <2>1
    <3>2. t[r - 1] \in OctMemory
      BY <1>7, <3>1
    <3> QED BY <3>1, <3>2 DEF G
  <2>2. t = [r \in 0 .. n |-> IF r = 0 THEN m ELSE G[<<t[r - 1], r>>]]
    BY <1>7 DEF Factors!IsUp
  <2> QED BY <2>1, <2>2
<1>9. ASSUME NEW s, P(s) PROVE s[n] = t[n]
  <2>1. s[0] = t[0]
    BY <1>1, <1>8, <1>9
  <2>2. ASSUME NEW r \in 1 .. n, s[r - 1] = t[r - 1] PROVE s[r] = t[r]
    <3>1. /\ s[r] = SubmatRow(s[r - 1], v, ro, co, k, w, so, do, r - 1)
          /\ t[r] = SubmatRow(t[r - 1], v, ro, co, k, w, so, do, r - 1)
      BY <1>1, <1>8, <1>9
    <3> QED BY <2>2, <3>1
  <2>3. Alike(s, t, n)
    BY <2>1, <2>2 DEF Alike
  <2> QED BY <1>1, <2>3, SameUp
<1>10. P(CHOOSE s : P(s))
  BY <1>8
<1>11. Oct!copy_submat(m, v, ro, co, n, k, w, so, do) = (CHOOSE s : P(s))[n]
  BY DEF Oct!copy_submat, SubmatRow, Oct!ForRows
<1>12. Oct!copy_submat(m, v, ro, co, n, k, w, so, do) = t[n]
  <2> HIDE DEF P
  <2> QED BY <1>9, <1>10, <1>11
<1> QED BY <1>7, <1>12, <1>f

(* The sum of products of two rows of n elements, as a function of the     *)
(* number of products summed.                                              *)
IsDot(s, n, g, h) ==
  s = [j \in 0 .. n |-> IF j = 0 THEN Zero ELSE OctAdd(s[j - 1], OctMul(g[j - 1], h[j - 1]))]

(* There is one, in the field. *)
LEMMA DotExists ==
  ASSUME Oct!Assumptions, NEW n \in Nat, NEW g \in [0 .. n - 1 -> OctF], NEW h \in [0 .. n - 1 -> OctF]
  PROVE  \E s \in [0 .. n -> OctF] : IsDot(s, n, g, h)
<1> DEFINE G == [u \in OctF \X (1 .. n) |-> OctAdd(u[1], OctMul(g[u[2] - 1], h[u[2] - 1]))]
<1>1. Oct!LogDomain
  BY DEF Oct!Assumptions
<1>2. G \in [OctF \X (1 .. n) -> OctF]
  <2>1. ASSUME NEW a \in OctF, NEW j \in 1 .. n PROVE OctAdd(a, OctMul(g[j - 1], h[j - 1])) \in OctF
    <3>1. j - 1 \in 0 .. n - 1
      OBVIOUS
    <3>2. g[j - 1] \in OctF /\ h[j - 1] \in OctF
      BY <3>1
    <3> QED BY <1>1, <3>2 DEF Oct!LogDomain
  <2> QED BY <2>1
<1>3. Zero \in OctF
  BY <1>1 DEF Oct!LogDomain
<1>4. PICK s \in [0 .. n -> OctF] : Factors!IsUp(s, Zero, n, G)
  <2> HIDE DEF G
  <2> QED BY <1>2, <1>3, Factors!UpExists
<1>5. ASSUME NEW j \in 0 .. n, j # 0
      PROVE  G[<<s[j - 1], j>>] = OctAdd(s[j - 1], OctMul(g[j - 1], h[j - 1]))
  <2>1. j \in 1 .. n /\ s[j - 1] \in OctF
    BY <1>5
  <2> QED BY <2>1
<1>6. s = [j \in 0 .. n |-> IF j = 0 THEN Zero ELSE G[<<s[j - 1], j>>]]
  BY <1>4 DEF Factors!IsUp
<1>7. IsDot(s, n, g, h)
  <2> HIDE DEF G
  <2> QED BY <1>5, <1>6 DEF IsDot
<1> QED BY <1>7

(* There is only one. *)
LEMMA DotIsOne ==
  ASSUME NEW n \in Nat, NEW g, NEW h, NEW s, NEW t, IsDot(s, n, g, h), IsDot(t, n, g, h)
  PROVE  s[n] = t[n]
<1>1. s[0] = Zero /\ t[0] = Zero
  BY DEF IsDot
<1>2. ASSUME NEW j \in 1 .. n, s[j - 1] = t[j - 1] PROVE s[j] = t[j]
  <2>1. j \in 0 .. n /\ j # 0
    OBVIOUS
  <2>2. /\ s[j] = OctAdd(s[j - 1], OctMul(g[j - 1], h[j - 1]))
        /\ t[j] = OctAdd(t[j - 1], OctMul(g[j - 1], h[j - 1]))
    BY <2>1 DEF IsDot
  <2> QED BY <1>2, <2>2
<1>3. Alike(s, t, n)
  BY <1>1, <1>2 DEF Alike
<1> QED BY <1>3, SameUp

(* A row and a column of views, as DotProduct takes them.                  *)
DotRow(X, v, r) == [j \in 0 .. v.n_col - 1 |-> Oct!At(X, v, r, j)]
DotCol(X, w, c) == [j \in 0 .. w.n_row - 1 |-> Oct!At(X, w, j, c)]

LEMMA DotProductIs ==
  ASSUME Oct!Assumptions, NEW X \in OctMatrices, NEW v, IsRect(v), NEW w, IsRect(w), v.n_col = w.n_row,
         NEW r \in Oct!ViewRows(v), NEW c \in Oct!ViewCols(w)
  PROVE  \E s \in [0 .. v.n_col -> OctF] :
           IsDot(s, v.n_col, DotRow(X, v, r), DotCol(X, w, c))
             /\ Oct!DotProduct(X, v, r, w, c) = s[v.n_col]
<1> DEFINE n == v.n_col
           g == DotRow(X, v, r)
           h == DotCol(X, w, c)
<1>1. n \in Nat /\ n = w.n_row
  BY RectNumbers
<1>2. \A j \in 0 .. n - 1 : g[j] = Oct!At(X, v, r, j) /\ h[j] = Oct!At(X, w, j, c)
  BY <1>1 DEF DotRow, DotCol
<1>3. g \in [0 .. n - 1 -> OctF] /\ h \in [0 .. n - 1 -> OctF]
  <2>1. ASSUME NEW j \in 0 .. n - 1 PROVE Oct!At(X, v, r, j) \in OctF /\ Oct!At(X, w, j, c) \in OctF
    <3>1. j \in Oct!ViewCols(v) /\ j \in Oct!ViewRows(w)
      BY <1>1 DEF Oct!ViewCols, Oct!ViewRows
    <3>2. /\ v.r0 + r \in OctRowSet /\ v.c0 + j \in OctColSet
          /\ w.r0 + j \in OctRowSet /\ w.c0 + c \in OctColSet
      BY <3>1, RectNumbers
    <3> QED BY <3>2 DEF Oct!At, OctMatrices
  <2> QED BY <1>1, <2>1 DEF DotRow, DotCol
<1> DEFINE P(s) == s = [j \in 0 .. n |-> IF j = 0 THEN Zero
                                        ELSE OctAdd(s[j - 1], OctMul(Oct!At(X, v, r, j - 1),
                                          Oct!At(X, w, j - 1, c)))]
<1> HIDE DEF g, h
<1>4. ASSUME NEW s PROVE P(s) <=> IsDot(s, n, g, h)
  <2>1. ASSUME NEW j \in 0 .. n, j # 0
        PROVE  g[j - 1] = Oct!At(X, v, r, j - 1) /\ h[j - 1] = Oct!At(X, w, j - 1, c)
    <3>1. j - 1 \in 0 .. n - 1
      BY <1>1, <2>1
    <3> QED BY <1>2, <3>1
  <2>2. [j \in 0 .. n |-> IF j = 0 THEN Zero
                          ELSE OctAdd(s[j - 1], OctMul(Oct!At(X, v, r, j - 1), Oct!At(X, w, j - 1, c)))]
        = [j \in 0 .. n |-> IF j = 0 THEN Zero ELSE OctAdd(s[j - 1], OctMul(g[j - 1], h[j - 1]))]
    <3> HIDE DEF n
    <3> QED BY <2>1
  <2> QED BY <2>2 DEF IsDot
<1>5. PICK s \in [0 .. n -> OctF] : IsDot(s, n, g, h)
  <2> HIDE DEF n
  <2> QED BY <1>1, <1>3, DotExists
<1>6. P(s)
  BY <1>4, <1>5
<1>7. P(CHOOSE x : P(x))
  <2> HIDE DEF P
  <2> QED BY <1>6
<1>8. Oct!DotProduct(X, v, r, w, c) = (CHOOSE x : P(x))[n]
  BY DEF Oct!DotProduct
<1>9. Oct!DotProduct(X, v, r, w, c) = s[n]
  <2> DEFINE y == CHOOSE x : P(x)
  <2>1. IsDot(y, n, g, h)
    BY <1>4, <1>7
  <2>2. Oct!DotProduct(X, v, r, w, c) = y[n]
    BY <1>8
  <2> HIDE DEF y, P, n
  <2> QED BY <1>1, <1>5, <2>1, <2>2, DotIsOne
<1> QED BY <1>5, <1>9 DEF g, h

(* Matrices that agree on the row and on the column have the same product. *)
SameRead(X, Y, v, r, w, c) ==
  /\ \A j \in Oct!ViewCols(v) : Oct!At(X, v, r, j) = Oct!At(Y, v, r, j)
  /\ \A j \in Oct!ViewRows(w) : Oct!At(X, w, j, c) = Oct!At(Y, w, j, c)

LEMMA DotSame ==
  ASSUME Oct!Assumptions, NEW X \in OctMatrices, NEW Y \in OctMatrices, NEW v, IsRect(v),
           NEW w, IsRect(w),
         v.n_col = w.n_row, NEW r \in Oct!ViewRows(v),
           NEW c \in Oct!ViewCols(w), SameRead(X, Y, v, r, w, c)
  PROVE  Oct!DotProduct(X, v, r, w, c) = Oct!DotProduct(Y, v, r, w, c)
           /\ Oct!DotProduct(X, v, r, w, c) \in OctF
<1>1. v.n_col \in Nat /\ Oct!ViewCols(v) = 0 .. v.n_col - 1 /\ Oct!ViewRows(w) = 0 .. w.n_row - 1
  BY RectNumbers DEF Oct!ViewCols, Oct!ViewRows
<1>2. DotRow(X, v, r) = DotRow(Y, v, r) /\ DotCol(X, w, c) = DotCol(Y, w, c)
  BY <1>1 DEF SameRead, DotRow, DotCol
<1>3. PICK s \in [0 .. v.n_col -> OctF] : /\ IsDot(s, v.n_col, DotRow(X, v, r), DotCol(X, w, c))
                                       /\ Oct!DotProduct(X, v, r, w, c) = s[v.n_col]
  BY DotProductIs
<1>4. PICK t \in [0 .. v.n_col -> OctF] : /\ IsDot(t, v.n_col, DotRow(Y, v, r), DotCol(Y, w, c))
                                       /\ Oct!DotProduct(Y, v, r, w, c) = t[v.n_col]
  BY DotProductIs
<1>5. s[v.n_col] = t[v.n_col]
  BY <1>1, <1>2, <1>3, <1>4, DotIsOne
<1> QED BY <1>1, <1>3, <1>4, <1>5

(* The sum that mul makes for one element: it is the product of the row    *)
(* and the column the memory shows.                                        *)
DotOf(q, v, r, w, c) ==
  LET x[n \in 0 .. v.n_col] ==
        IF n = 0 THEN Zero
        ELSE OctAdd(x[n - 1], OctMul(Oct!get_el(q, v, r, n - 1), Oct!get_el(q, w, n - 1, c)))
  IN x[v.n_col]

LEMMA DotOfIs ==
  ASSUME Oct!Assumptions, NEW q, NEW X, OctShows(q, X), NEW v, IsRect(v), NEW w, IsRect(w),
         v.n_col = w.n_row, NEW r \in Oct!ViewRows(v), NEW c \in Oct!ViewCols(w)
  PROVE  DotOf(q, v, r, w, c) = Oct!DotProduct(X, v, r, w, c)
<1> DEFINE n == v.n_col
<1>1. n \in Nat /\ n = w.n_row /\ r \in Int /\ c \in Int
  BY RectNumbers
<1>2. ASSUME NEW j \in 0 .. n, j # 0
      PROVE  /\ Oct!get_el(q, v, r, j - 1) = Oct!At(X, v, r, j - 1)
             /\ Oct!get_el(q, w, j - 1, c) = Oct!At(X, w, j - 1, c)
  <2> DEFINE l == j - 1
  <2>1. l \in Oct!ViewCols(v) /\ l \in Oct!ViewRows(w) /\ l \in Int
    BY <1>1, <1>2 DEF Oct!ViewCols, Oct!ViewRows
  <2> HIDE DEF l
  <2>2. Oct!get_el_offs(v, r, l) = Cell(v.r0 + r, v.c0 + l)
          /\ Oct!get_el_offs(w, l, c) = Cell(w.r0 + l, w.c0 + c)
    BY <1>1, <2>1, OffsIs
  <2>3. /\ v.r0 + r \in OctRowSet /\ v.c0 + l \in OctColSet
        /\ w.r0 + l \in OctRowSet /\ w.c0 + c \in OctColSet
    BY <2>1, RectNumbers
  <2>4. Oct!get_el(q, v, r, l) = Oct!At(X, v, r, l) /\ Oct!get_el(q, w, l, c) = Oct!At(X, w, l, c)
    BY <2>2, <2>3 DEF Oct!get_el, Oct!At, OctShows
  <2> QED BY <2>4 DEF l
<1> DEFINE P(s) == s = [j \in 0 .. n |-> IF j = 0 THEN Zero
                                        ELSE OctAdd(s[j - 1], OctMul(Oct!At(X, v, r, j - 1),
                                          Oct!At(X, w, j - 1, c)))]
           Q(s) == s = [j \in 0 .. n |-> IF j = 0 THEN Zero
                                        ELSE OctAdd(s[j - 1], OctMul(Oct!get_el(q, v, r, j - 1),
                                          Oct!get_el(q, w, j - 1, c)))]
           g == DotRow(X, v, r)
           h == DotCol(X, w, c)
<1>3. ASSUME NEW s, NEW j \in 0 .. n, j # 0
      PROVE  /\ g[j - 1] = Oct!get_el(q, v, r, j - 1)
             /\ h[j - 1] = Oct!get_el(q, w, j - 1, c)
  <2>1. j - 1 \in 0 .. n - 1
    BY <1>1, <1>3
  <2> QED BY <1>1, <1>2, <1>3, <2>1 DEF DotRow, DotCol
<1> HIDE DEF g, h
<1>4. ASSUME NEW s PROVE Q(s) <=> IsDot(s, n, g, h)
  <2>1. [j \in 0 .. n |-> IF j = 0 THEN Zero
                          ELSE OctAdd(s[j - 1], OctMul(Oct!get_el(q, v, r, j - 1), Oct!get_el(q, w,
                            j - 1, c)))]
        = [j \in 0 .. n |-> IF j = 0 THEN Zero ELSE OctAdd(s[j - 1], OctMul(g[j - 1], h[j - 1]))]
    <3> HIDE DEF n
    <3> QED BY <1>3
  <2> QED BY <2>1 DEF IsDot
<1>5. PICK s \in [0 .. n -> OctF] : IsDot(s, n, g, h) /\ Oct!DotProduct(X, v, r, w, c) = s[n]
  <2>1. X \in OctMatrices
    BY DEF OctShows
  <2> QED BY <2>1, DotProductIs DEF g, h
<1>6. Q(s)
  BY <1>4, <1>5
<1>7. Q(CHOOSE x : Q(x))
  <2> HIDE DEF Q
  <2> QED BY <1>6
<1>8. DotOf(q, v, r, w, c) = (CHOOSE x : Q(x))[n]
  BY DEF DotOf
<1>9. DotOf(q, v, r, w, c) = s[n]
  <2> DEFINE y == CHOOSE x : Q(x)
  <2>1. IsDot(y, n, g, h)
    BY <1>4, <1>7
  <2>2. DotOf(q, v, r, w, c) = y[n]
    BY <1>8
  <2> HIDE DEF y, Q, n
  <2> QED BY <1>1, <1>5, <2>1, <2>2, DotIsOne
<1> QED BY <1>5, <1>9

(* One row of mul.                                                         *)
MulRow(m, v, w, o, r) ==
  Oct!ForRows(m, o.n_col, LAMBDA q, c : Oct!set_el(q, o, r, c, DotOf(q, v, r, w, c)))

RowMultiplied(X, v, w, o, r) ==
  Oct!Put(X, o, {r}, Oct!ViewCols(o), LAMBDA x, y : Oct!DotProduct(X, v, x, w, y))

(* The views of the factors, and the view of the product apart from both.  *)
Factored(v, w, o) ==
  /\ v.n_col = w.n_row /\ v.n_row = o.n_row /\ w.n_col = o.n_col
  /\ ~Oct!Overlap(v, o) /\ ~Oct!Overlap(w, o)

LEMMA FactoredViews ==
  ASSUME Oct!Assumptions, NEW v, IsRect(v), NEW w, IsRect(w), NEW o, IsRect(o), Factored(v, w, o)
  PROVE  /\ Oct!ViewRows(v) = Oct!ViewRows(o) /\ Oct!ViewCols(w) = Oct!ViewCols(o)
         /\ v.n_col = w.n_row /\ Oct!ViewCols(v) = Oct!ViewRows(w) /\ ~Oct!Overlap(v, o)
              /\ ~Oct!Overlap(w, o)
BY DEF Factored, Oct!ViewRows, Oct!ViewCols

LEMMA RowMultipliedIs ==
  ASSUME Oct!Assumptions, NEW X \in OctMatrices, NEW v, IsRect(v), NEW w, IsRect(w), NEW o, IsRect(o),
         Factored(v, w, o), NEW r \in Oct!ViewRows(o)
  PROVE  /\ RowMultiplied(X, v, w, o, r) \in OctMatrices
         /\ \A x \in OctRowSet, y \in OctColSet :
              RowMultiplied(X, v, w, o, r)[x][y] =
                IF x = o.r0 + r /\ y - o.c0 \in Oct!ViewCols(o)
                  THEN Oct!DotProduct(X, v, r, w, y - o.c0) ELSE X[x][y]
<1> DEFINE X2 == RowMultiplied(X, v, w, o, r)
           z == o.r0 + r
<1>1. /\ o.r0 \in Nat /\ r \in Nat /\ z \in OctRowSet /\ \A x \in OctRowSet : x \in Nat
  BY RectNumbers
<1>2. \A x \in OctRowSet : x - o.r0 \in {r} <=> x = z
  BY <1>1
<1>3. \A x \in OctRowSet, y \in OctColSet :
        X2[x][y] = IF x - o.r0 \in {r} /\ y - o.c0 \in Oct!ViewCols(o)
                     THEN Oct!DotProduct(X, v, x - o.r0, w, y - o.c0) ELSE X[x][y]
  BY DEF RowMultiplied, Oct!Put, OctMatrices
<1>4. \A x \in OctRowSet, y \in OctColSet :
        X2[x][y] = IF x = z /\ y - o.c0 \in Oct!ViewCols(o)
                     THEN Oct!DotProduct(X, v, r, w, y - o.c0) ELSE X[x][y]
  <2> HIDE DEF X2, z
  <2> QED BY <1>2, <1>3
<1>5. \A c \in Oct!ViewCols(o) : Oct!DotProduct(X, v, r, w, c) \in OctF
  <2> SUFFICES ASSUME NEW c \in Oct!ViewCols(o) PROVE Oct!DotProduct(X, v, r, w, c) \in OctF
    OBVIOUS
  <2>1. r \in Oct!ViewRows(v) /\ c \in Oct!ViewCols(w) /\ v.n_col = w.n_row
    BY FactoredViews
  <2>2. SameRead(X, X, v, r, w, c)
    BY DEF SameRead
  <2> QED BY <2>1, <2>2, DotSame
<1>6. X2 \in OctMatrices
  <2>1. X2 = [x \in OctRowSet |-> [y \in OctColSet |-> X2[x][y]]]
    BY DEF RowMultiplied, Oct!Put, OctMatrices
  <2>2. \A x \in OctRowSet, y \in OctColSet : X2[x][y] \in OctF
    <3> HIDE DEF X2, z
    <3> QED BY <1>4, <1>5 DEF OctMatrices
  <2> HIDE DEF X2
  <2> QED BY <2>1, <2>2 DEF OctMatrices
<1> QED BY <1>4, <1>6

LEMMA MulRowHolds ==
  ASSUME Oct!Assumptions, NEW m, NEW X, OctShows(m, X), NEW v, IsRect(v), NEW w, IsRect(w),
         NEW o, IsRect(o), Factored(v, w, o), NEW r \in Oct!ViewRows(o)
  PROVE  OctShows(MulRow(m, v, w, o, r), RowMultiplied(X, v, w, o, r))
<1> DEFINE n == o.n_col
           X2 == RowMultiplied(X, v, w, o, r)
           G == [u \in OctMemory \X (1 .. n) |->
                   Oct!set_el(u[1], o, r, u[2] - 1, DotOf(u[1], v, r, w, u[2] - 1))]
           z == o.r0 + r
<1>1. /\ n \in Nat /\ o.c0 \in Nat /\ o.r0 \in Nat /\ r \in Nat /\ X \in OctMatrices /\ z \in OctRowSet
      /\ \A x \in OctRowSet : x \in Nat
      /\ \A j \in 1 .. n : j - 1 \in Oct!ViewCols(o)
      /\ \A c \in Oct!ViewCols(o) : c + 1 \in 1 .. n /\ (c + 1) - 1 = c
  BY RectNumbers DEF OctShows, Oct!ViewCols
<1>2. /\ Oct!ViewRows(v) = Oct!ViewRows(o) /\ Oct!ViewCols(w) = Oct!ViewCols(o)
      /\ v.n_col = w.n_row /\ Oct!ViewCols(v) = Oct!ViewRows(w) /\ ~Oct!Overlap(v, o)
           /\ ~Oct!Overlap(w, o)
  BY FactoredViews
<1>3. X2 \in OctMatrices
  BY <1>1, RowMultipliedIs
<1>a. \A x \in OctRowSet, y \in OctColSet :
        X2[x][y] = IF x = z /\ y - o.c0 \in Oct!ViewCols(o)
                     THEN Oct!DotProduct(X, v, r, w, y - o.c0) ELSE X[x][y]
  BY <1>1, RowMultipliedIs
<1>b. OnlyRow(X, X2, o, r)
  <2> HIDE DEF X2
  <2> QED BY <1>a DEF OnlyRow
<1>4. SameOutside(X, X2, o)
  <2> SUFFICES ASSUME NEW x \in OctRowSet, NEW y \in OctColSet,
                      ~(x - o.r0 \in Oct!ViewRows(o) /\ y - o.c0 \in Oct!ViewCols(o))
               PROVE  X2[x][y] = X[x][y]
    BY DEF SameOutside
  <2>1. x = z => x - o.r0 = r
    BY <1>1
  <2> HIDE DEF X2
  <2> QED BY <1>a, <2>1
<1>5. G \in [OctMemory \X (1 .. n) -> OctMemory]
  <2>1. ASSUME NEW q \in OctMemory, NEW j \in 1 .. n
        PROVE  Oct!set_el(q, o, r, j - 1, DotOf(q, v, r, w, j - 1)) \in OctMemory
    <3> DEFINE c == j - 1
    <3>1. c \in Oct!ViewCols(o) /\ c \in Oct!ViewCols(w) /\ r \in Oct!ViewRows(v)
      BY <1>1, <1>2
    <3> HIDE DEF c
    <3>2. PICK Z : OctShows(q, Z)
      BY ShowsSome
    <3>3. Z \in OctMatrices
      BY <3>2 DEF OctShows
    <3> DEFINE a == DotOf(q, v, r, w, c)
    <3>4. SameRead(Z, Z, v, r, w, c)
      BY DEF SameRead
    <3>5. a = Oct!DotProduct(Z, v, r, w, c)
      BY <1>2, <3>1, <3>2, DotOfIs
    <3>6. Oct!DotProduct(Z, v, r, w, c) \in OctF
      BY <1>2, <3>1, <3>3, <3>4, DotSame
    <3> HIDE DEF a
    <3>7. OctShows(Oct!set_el(q, o, r, c, a), Oct!ElementSet(Z, o, r, c, a))
      BY <3>1, <3>2, <3>5, <3>6, OctSetElHolds
    <3> QED BY <3>7 DEF OctShows, c, a
  <2> QED BY <2>1
<1>6. CompletesCols(G, X, X2, o)
  <2> SUFFICES ASSUME NEW q \in OctMemory,
                        NEW c \in Oct!ViewCols(o), OctShows(q, UpToCol(X, X2, o.c0 + c))
               PROVE  OctShows(G[<<q, c + 1>>], UpToCol(X, X2, o.c0 + c + 1))
    BY DEF CompletesCols
  <2> DEFINE a == DotOf(q, v, r, w, c)
             U == UpToCol(X, X2, o.c0 + c)
  <2>1. c + 1 \in 1 .. n /\ (c + 1) - 1 = c /\ r \in Oct!ViewRows(v) /\ c \in Oct!ViewCols(w)
          /\ U \in OctMatrices
    BY <1>1, <1>2 DEF OctShows
  <2>2. G[<<q, c + 1>>] = Oct!set_el(q, o, r, c, a)
    BY <2>1
  <2> HIDE DEF G, X2
  <2>3. a = Oct!DotProduct(U, v, r, w, c)
    BY <1>2, <2>1, DotOfIs
  <2>4. SameRead(U, X, v, r, w, c)
    <3>1. ASSUME NEW j \in Oct!ViewCols(v) PROVE Oct!At(U, v, r, j) = Oct!At(X, v, r, j)
      BY <1>1, <1>2, <1>3, <1>b, <2>1, ReadWhileWriting DEF Oct!At
    <3>2. ASSUME NEW j \in Oct!ViewRows(w) PROVE Oct!At(U, w, j, c) = Oct!At(X, w, j, c)
      BY <1>1, <1>2, <1>3, <1>b, <2>1, ReadWhileWriting DEF Oct!At
    <3> QED BY <3>1, <3>2 DEF SameRead
  <2> HIDE DEF a, U
  <2>5. a = Oct!DotProduct(X, v, r, w, c)
    BY <1>1, <1>2, <2>1, <2>3, <2>4, DotSame
  <2>6. a = X2[o.r0 + r][o.c0 + c]
    <3> DEFINE y == o.c0 + c
    <3>1. y \in OctColSet /\ y - o.c0 = c
      BY RectNumbers
    <3> HIDE DEF y, z
    <3>2. X2[z][y] = Oct!DotProduct(X, v, r, w, c)
      BY <1>1, <1>a, <3>1
    <3> QED BY <2>5, <3>2 DEF y, z
  <2>7. OctShows(Oct!set_el(q, o, r, c, a), UpToCol(X, X2, o.c0 + c + 1))
    BY <1>1, <1>3, <1>b, <2>6, ElementNext
  <2> QED BY <2>2, <2>7
<1> HIDE DEF G, X2
<1>7. PICK t \in [0 .. n -> OctMemory] : Factors!IsUp(t, m, n, G) /\ OctShows(t[n], X2)
  BY <1>3, <1>4, <1>5, <1>6, ColsInTurn
<1> DEFINE P(s) == s = [c \in 0 .. n |-> IF c = 0 THEN m
             ELSE Oct!set_el(s[c - 1], o, r, c - 1, DotOf(s[c - 1], v, r, w, c - 1))]
<1>8. P(t)
  <2>1. ASSUME NEW c \in 0 .. n, c # 0
        PROVE G[<<t[c - 1], c>>] = Oct!set_el(t[c - 1], o, r, c - 1, DotOf(t[c - 1], v, r, w,
                 c - 1))
    <3>1. c - 1 \in 0 .. n /\ c \in 1 .. n
      BY <1>1, <2>1
    <3>2. t[c - 1] \in OctMemory
      BY <1>7, <3>1
    <3> QED BY <3>1, <3>2 DEF G
  <2>2. t = [c \in 0 .. n |-> IF c = 0 THEN m ELSE G[<<t[c - 1], c>>]]
    BY <1>7 DEF Factors!IsUp
  <2> QED BY <2>1, <2>2
<1>9. ASSUME NEW s, P(s) PROVE s[n] = t[n]
  <2>1. s[0] = t[0]
    BY <1>1, <1>8, <1>9
  <2>2. ASSUME NEW c \in 1 .. n, s[c - 1] = t[c - 1] PROVE s[c] = t[c]
    <3>1. /\ s[c] = Oct!set_el(s[c - 1], o, r, c - 1, DotOf(s[c - 1], v, r, w, c - 1))
          /\ t[c] = Oct!set_el(t[c - 1], o, r, c - 1, DotOf(t[c - 1], v, r, w, c - 1))
      BY <1>1, <1>8, <1>9
    <3> QED BY <2>2, <3>1
  <2>3. Alike(s, t, n)
    BY <2>1, <2>2 DEF Alike
  <2> QED BY <1>1, <2>3, SameUp
<1>10. P(CHOOSE s : P(s))
  BY <1>8
<1>11. MulRow(m, v, w, o, r) = (CHOOSE s : P(s))[n]
  BY <1>1 DEF MulRow, Oct!ForRows
<1>12. MulRow(m, v, w, o, r) = t[n]
  <2> HIDE DEF P
  <2> QED BY <1>9, <1>10, <1>11
<1> QED BY <1>7, <1>12 DEF X2

(* What a view shows that shares no element with o does not change while   *)
(* rows of o are written.                                                  *)
LEMMA UpToRowKept ==
  ASSUME Oct!Assumptions, NEW X \in OctMatrices, NEW X2 \in OctMatrices, NEW p, IsRect(p),
           NEW o, IsRect(o),
         SameOutside(X, X2, o), ~Oct!Overlap(p, o), NEW n, NEW r \in Oct!ViewRows(p),
           NEW c \in Oct!ViewCols(p)
  PROVE  Oct!At(UpToRow(X, X2, n), p, r, c) = Oct!At(X, p, r, c)
<1> DEFINE x == p.r0 + r
           y == p.c0 + c
<1>1. x \in OctRowSet /\ y \in OctColSet
  BY RectNumbers
<1>2. ~(x - o.r0 \in Oct!ViewRows(o) /\ y - o.c0 \in Oct!ViewCols(o))
  BY OutsideOf
<1> HIDE DEF x, y
<1>3. X2[x][y] = X[x][y]
  BY <1>1, <1>2 DEF SameOutside
<1>4. UpToRow(X, X2, n)[x] = IF x < n THEN X2[x] ELSE X[x]
  BY <1>1, UpToRowIs
<1> QED BY <1>3, <1>4 DEF Oct!At, x, y

(* mul: the product, when the output shares no element with a factor.      *)
LEMMA OctMulHolds ==
  ASSUME Oct!Assumptions, NEW m, NEW X, OctShows(m, X), NEW v, IsRect(v), NEW w, IsRect(w),
         NEW o, IsRect(o), Factored(v, w, o)
  PROVE  OctShows(Oct!mul(m, v, w, o), Oct!ProductStored(X, v, w, o))
<1> DEFINE n == o.n_row
           X2 == Oct!ProductStored(X, v, w, o)
           G == [u \in OctMemory \X (1 .. n) |-> MulRow(u[1], v, w, o, u[2] - 1)]
<1>1. /\ n \in Nat /\ X \in OctMatrices /\ o.r0 \in Nat
      /\ \A x \in OctRowSet : x \in Nat
      /\ \A j \in 1 .. n : j - 1 \in Oct!ViewRows(o)
      /\ \A r \in Oct!ViewRows(o) : /\ r + 1 \in 1 .. n /\ (r + 1) - 1 = r
                                /\ r \in Nat /\ o.r0 + r \in OctRowSet
  BY RectNumbers DEF OctShows, Oct!ViewRows
<1>2. /\ Oct!ViewRows(v) = Oct!ViewRows(o) /\ Oct!ViewCols(w) = Oct!ViewCols(o)
      /\ v.n_col = w.n_row /\ ~Oct!Overlap(v, o) /\ ~Oct!Overlap(w, o)
  BY FactoredViews
<1>a. \A x \in OctRowSet, y \in OctColSet :
        X2[x][y] = IF x - o.r0 \in Oct!ViewRows(o) /\ y - o.c0 \in Oct!ViewCols(o)
                     THEN Oct!DotProduct(X, v, x - o.r0, w, y - o.c0) ELSE X[x][y]
  BY <1>1 DEF Oct!ProductStored, Oct!Put, OctMatrices
<1>b. \A r \in Oct!ViewRows(o), c \in Oct!ViewCols(o) : Oct!DotProduct(X, v, r, w, c) \in OctF
  <2> SUFFICES ASSUME NEW r \in Oct!ViewRows(o), NEW c \in Oct!ViewCols(o)
      PROVE Oct!DotProduct(X, v, r, w, c) \in OctF
    OBVIOUS
  <2>1. SameRead(X, X, v, r, w, c)
    BY DEF SameRead
  <2>2. r \in Oct!ViewRows(v) /\ c \in Oct!ViewCols(w)
    BY <1>2
  <2> QED BY <1>1, <1>2, <2>1, <2>2, DotSame
<1>3. X2 \in OctMatrices
  <2>1. X2 = [x \in OctRowSet |-> [y \in OctColSet |-> X2[x][y]]]
    BY <1>1 DEF Oct!ProductStored, Oct!Put, OctMatrices
  <2>2. \A x \in OctRowSet, y \in OctColSet : X2[x][y] \in OctF
    <3> HIDE DEF X2
    <3> QED BY <1>1, <1>a, <1>b DEF OctMatrices
  <2> HIDE DEF X2
  <2> QED BY <2>1, <2>2 DEF OctMatrices
<1>4. SameOutside(X, X2, o)
  <2> HIDE DEF X2
  <2> QED BY <1>a DEF SameOutside
<1>5. G \in [OctMemory \X (1 .. n) -> OctMemory]
  <2>1. ASSUME NEW q \in OctMemory, NEW j \in 1 .. n PROVE MulRow(q, v, w, o, j - 1) \in OctMemory
    <3> DEFINE r == j - 1
    <3>1. r \in Oct!ViewRows(o)
      BY <1>1
    <3>2. PICK Z : OctShows(q, Z)
      BY ShowsSome
    <3> HIDE DEF r
    <3>3. OctShows(MulRow(q, v, w, o, r), RowMultiplied(Z, v, w, o, r))
      BY <3>1, <3>2, MulRowHolds
    <3> QED BY <3>3 DEF OctShows, r
  <2> QED BY <2>1
<1>6. CompletesRows(G, X, X2, o)
  <2> SUFFICES ASSUME NEW q \in OctMemory,
                        NEW r \in Oct!ViewRows(o), OctShows(q, UpToRow(X, X2, o.r0 + r))
               PROVE  OctShows(G[<<q, r + 1>>], UpToRow(X, X2, o.r0 + r + 1))
    BY DEF CompletesRows
  <2> DEFINE z == o.r0 + r
             U == UpToRow(X, X2, z)
             Y == RowMultiplied(U, v, w, o, r)
  <2>1. /\ r + 1 \in 1 .. n /\ (r + 1) - 1 = r /\ r \in Nat /\ z \in OctRowSet /\ U \in OctMatrices
        /\ r \in Oct!ViewRows(v) /\ z \in Nat
    BY <1>1, <1>2 DEF OctShows
  <2>2. G[<<q, r + 1>>] = MulRow(q, v, w, o, r)
    BY <2>1
  <2> HIDE DEF G, X2
  <2>3. OctShows(MulRow(q, v, w, o, r), Y)
    BY <2>1, MulRowHolds
  <2>4. Y \in OctMatrices
    BY <2>3 DEF OctShows
  <2>5. \A x \in OctRowSet, y \in OctColSet :
          Y[x][y] = IF x = z /\ y - o.c0 \in Oct!ViewCols(o)
                      THEN Oct!DotProduct(U, v, r, w, y - o.c0) ELSE U[x][y]
    BY <2>1, RowMultipliedIs
  <2>6. ASSUME NEW c \in Oct!ViewCols(o)
        PROVE Oct!DotProduct(U, v, r, w, c) = Oct!DotProduct(X, v, r, w, c)
    <3>1. c \in Oct!ViewCols(w)
      BY <1>2
    <3>2. SameRead(U, X, v, r, w, c)
      <4>1. ASSUME NEW j \in Oct!ViewCols(v) PROVE Oct!At(U, v, r, j) = Oct!At(X, v, r, j)
        BY <1>1, <1>2, <1>3, <1>4, <2>1, UpToRowKept
      <4>2. ASSUME NEW j \in Oct!ViewRows(w) PROVE Oct!At(U, w, j, c) = Oct!At(X, w, j, c)
        BY <1>1, <1>2, <1>3, <1>4, <3>1, UpToRowKept
      <4> HIDE DEF U
      <4> QED BY <4>1, <4>2 DEF SameRead
    <3> HIDE DEF U
    <3> QED BY <1>1, <1>2, <2>1, <3>1, <3>2, DotSame
  <2>7. U[z] = X[z]
    <3>1. ~(z < z)
      BY <2>1
    <3> HIDE DEF z
    <3> QED BY <1>1, <1>3, <2>1, <3>1, UpToRowIs
  <2>8. \A y \in OctColSet : X2[z][y] = IF y - o.c0 \in Oct!ViewCols(o)
                                          THEN Oct!DotProduct(X, v, r, w, y - o.c0) ELSE X[z][y]
    <3>1. z - o.r0 = r /\ z - o.r0 \in Oct!ViewRows(o)
      <4>1. o.r0 \in Int /\ r \in Int
        BY <1>1, <2>1
      <4>2. z - o.r0 = r
        BY <4>1
      <4> QED BY <4>2
    <3> HIDE DEF z
    <3> QED BY <1>a, <2>1, <3>1
  <2>9. NextRow(Y, X, X2, z)
    <3>1. ASSUME NEW x \in OctRowSet, NEW y \in OctColSet
          PROVE  Y[x][y] = IF x = z THEN X2[z][y] ELSE U[x][y]
      <4> HIDE DEF Y, U, z
      <4> QED BY <2>5, <2>6, <2>7, <2>8
    <3> HIDE DEF Y, z
    <3> QED BY <3>1 DEF NextRow
  <2> HIDE DEF Y, U, z
  <2>10. Y = UpToRow(X, X2, z + 1)
    BY <1>1, <1>3, <2>1, <2>4, <2>9, RowCompleted
  <2>11. OctShows(G[<<q, r + 1>>], UpToRow(X, X2, z + 1))
    BY <2>2, <2>3, <2>10
  <2>12. z + 1 = o.r0 + r + 1
    <3>1. o.r0 \in Int /\ r \in Int
      BY <1>1, <2>1
    <3> QED BY <3>1 DEF z
  <2> QED BY <2>11, <2>12
<1> HIDE DEF G, X2
<1>7. PICK t \in [0 .. n -> OctMemory] : Factors!IsUp(t, m, n, G) /\ OctShows(t[n], X2)
  BY <1>3, <1>4, <1>5, <1>6, RowsInTurn
<1> DEFINE P(s) == s = [r \in 0 .. n |-> IF r = 0 THEN m ELSE MulRow(s[r - 1], v, w, o, r - 1)]
<1>8. P(t)
  <2>1. ASSUME NEW r \in 0 .. n, r # 0 PROVE G[<<t[r - 1], r>>] = MulRow(t[r - 1], v, w, o, r - 1)
    <3>1. r - 1 \in 0 .. n /\ r \in 1 .. n
      BY <1>1, <2>1
    <3>2. t[r - 1] \in OctMemory
      BY <1>7, <3>1
    <3> QED BY <3>1, <3>2 DEF G
  <2>2. t = [r \in 0 .. n |-> IF r = 0 THEN m ELSE G[<<t[r - 1], r>>]]
    BY <1>7 DEF Factors!IsUp
  <2> QED BY <2>1, <2>2
<1>9. ASSUME NEW s, P(s) PROVE s[n] = t[n]
  <2>1. s[0] = t[0]
    BY <1>1, <1>8, <1>9
  <2>2. ASSUME NEW r \in 1 .. n, s[r - 1] = t[r - 1] PROVE s[r] = t[r]
    <3>1. /\ s[r] = MulRow(s[r - 1], v, w, o, r - 1)
          /\ t[r] = MulRow(t[r - 1], v, w, o, r - 1)
      BY <1>1, <1>8, <1>9
    <3> QED BY <2>2, <3>1
  <2>3. Alike(s, t, n)
    BY <2>1, <2>2 DEF Alike
  <2> QED BY <1>1, <2>3, SameUp
<1>10. P(CHOOSE s : P(s))
  BY <1>8
<1>11. Oct!mul(m, v, w, o) = (CHOOSE s : P(s))[n]
  BY DEF Oct!mul, MulRow, DotOf, Oct!ForRows
<1>12. Oct!mul(m, v, w, o) = t[n]
  <2> HIDE DEF P
  <2> QED BY <1>9, <1>10, <1>11
<1> QED BY <1>7, <1>12 DEF X2

-----------------------------------------------------------------------------
(* Calls in any order *)

(* The memory shows the matrix the calls describe, and the views are       *)
(* rectangles of it: StorageHoldsMatrix does not say so of the views, whose *)
(* addresses the operations use.                                           *)
OctIInv == OctShows(mem, matrix) /\ IsRect(A) /\ IsRect(B) /\ IsRect(C)

LEMMA WholeOffs ==
  ASSUME Oct!Assumptions, NEW m, NEW x \in OctRowSet, NEW y \in OctColSet
  PROVE  Oct!get_el(m, Oct!m256v_make, x, y) = m[Cell(x, y)]
<1>1. x \in Int /\ y \in Int /\ Oct!m256v_make.r0 = 0 /\ Oct!m256v_make.c0 = 0
  BY CellIn DEF Oct!m256v_make
<1>2. Oct!get_el_offs(Oct!m256v_make, x, y) = Cell(0 + x, 0 + y)
  BY <1>1, WholeIsRect, OffsIs
<1>3. 0 + x = x /\ 0 + y = y
  BY <1>1
<1> QED BY <1>2, <1>3 DEF Oct!get_el

LEMMA StoredIs ==
  ASSUME Oct!Assumptions
  PROVE  /\ mem \in OctMemory => OctShows(mem, Oct!Stored)
         /\ \A X : OctShows(mem, X) => Oct!Stored = X
<1>1. Oct!Stored = [x \in OctRowSet |-> [y \in OctColSet |-> mem[Cell(x, y)]]]
  BY WholeOffs DEF Oct!Stored, OctRowSet, OctColSet
<1>2. ASSUME mem \in OctMemory PROVE OctShows(mem, Oct!Stored)
  <2>1. \A x \in OctRowSet, y \in OctColSet : mem[Cell(x, y)] \in OctF
    BY <1>2, CellIn DEF OctMemory
  <2> QED BY <1>1, <1>2, <2>1 DEF OctShows, OctMatrices
<1>3. ASSUME NEW X, OctShows(mem, X) PROVE Oct!Stored = X
  <2>1. X = [x \in OctRowSet |-> [y \in OctColSet |-> X[x][y]]]
    BY <1>3 DEF OctShows, OctMatrices
  <2> QED BY <1>1, <1>3, <2>1 DEF OctShows
<1> QED BY <1>2, <1>3

LEMMA OctInitHolds == ASSUME Oct!Assumptions, Oct!Init PROVE OctIInv
<1>1. mem \in OctMemory
  BY DEF Oct!Init, Oct!Assumptions, OctMemory
<1>2. IsRect(Oct!m256v_make)
  BY WholeIsRect
<1> QED BY <1>1, <1>2, StoredIs DEF Oct!Init, OctIInv

LEMMA OctSubviewKeeps == ASSUME Oct!Assumptions, OctIInv, Oct!Subview PROVE OctIInv'
<1>1. IsRect(A) /\ IsRect(B) /\ IsRect(C) /\ IsRect(Oct!m256v_make)
  BY WholeIsRect DEF OctIInv
<1>2. mem' = mem /\ matrix' = matrix
  BY DEF Oct!Subview
<1>3. PICK v \in Oct!Subviews(B) : Oct!Inside(v, B) /\ A' = v /\ B' \in {v, A, Oct!m256v_make}
        /\ C' \in {B, Oct!m256v_make}
  BY DEF Oct!Subview
<1>4. IsRect(v)
  BY <1>1, <1>3, SubviewIsRect
<1>5. IsRect(A') /\ IsRect(B') /\ IsRect(C')
  BY <1>1, <1>3, <1>4
<1>6. OctShows(mem', matrix')
  BY <1>2 DEF OctIInv
<1> QED BY <1>5, <1>6 DEF OctIInv, IsRect, OctShows

(* The calls of Call that read or write single rows.                       *)
LEMMA OctRowCallShows ==
  ASSUME Oct!Assumptions, OctIInv, NEW r \in Oct!ViewRows(A),
         \/ \E c \in Oct!ViewCols(A), a \in Alphas : Oct!SetEl(r, c, a)
         \/ \E r2 \in Oct!ViewRows(A) : Oct!SwapRows(r, r2)
         \/ \E alpha \in Alphas : Oct!MultRow(r, alpha)
         \/ \E rt \in Oct!ViewRows(B) :
              \/ Oct!CopyRow(r, rt)
              \/ \E offs \in 0 .. A.n_col, alpha \in Alphas : Oct!MultAddRowFrom(r, offs, alpha, rt)
  PROVE  OctShows(mem', matrix')
<1>1. OctShows(mem, matrix) /\ IsRect(A) /\ IsRect(B) /\ \A a \in Alphas : a \in OctF
  BY DEF OctIInv, Oct!Assumptions
<1>2. ASSUME NEW c \in Oct!ViewCols(A), NEW a \in Alphas, Oct!SetEl(r, c, a) PROVE OctShows(mem', matrix')
  BY <1>1, <1>2, OctSetElHolds DEF Oct!SetEl
<1>3. ASSUME NEW r2 \in Oct!ViewRows(A), Oct!SwapRows(r, r2) PROVE OctShows(mem', matrix')
  BY <1>1, <1>3, OctSwapRowsHolds DEF Oct!SwapRows
<1>4. ASSUME NEW alpha \in Alphas, Oct!MultRow(r, alpha) PROVE OctShows(mem', matrix')
  BY <1>1, <1>4, OctMultRowHolds DEF Oct!MultRow
<1>5. ASSUME NEW rt \in Oct!ViewRows(B), Oct!CopyRow(r, rt) PROVE OctShows(mem', matrix')
  BY <1>1, <1>5, OctCopyRowHolds DEF Oct!CopyRow, Oct!SameCols
<1>6. ASSUME NEW rt \in Oct!ViewRows(B), NEW offs \in 0 .. A.n_col, NEW alpha \in Alphas,
             Oct!MultAddRowFrom(r, offs, alpha, rt)
      PROVE  OctShows(mem', matrix')
  BY <1>1, <1>6, OctMultAddRowFromHolds DEF Oct!MultAddRowFrom, Oct!SameCols
<1> QED BY <1>2, <1>3, <1>4, <1>5, <1>6

(* Those that read or write single columns.                                *)
LEMMA OctColCallShows ==
  ASSUME Oct!Assumptions, OctIInv, NEW c \in Oct!ViewCols(A),
         \/ \E c2 \in Oct!ViewCols(A) : Oct!SwapCols(c, c2)
         \/ \E ct \in Oct!ViewCols(B) : Oct!CopyCol(c, ct)
         \/ \E offs \in 0 .. A.n_row, alpha \in Alphas : Oct!MultColFrom(c, offs, alpha)
  PROVE  OctShows(mem', matrix')
<1>1. OctShows(mem, matrix) /\ IsRect(A) /\ IsRect(B) /\ \A a \in Alphas : a \in OctF
  BY DEF OctIInv, Oct!Assumptions
<1>2. ASSUME NEW c2 \in Oct!ViewCols(A), Oct!SwapCols(c, c2) PROVE OctShows(mem', matrix')
  BY <1>1, <1>2, OctSwapColsHolds DEF Oct!SwapCols
<1>3. ASSUME NEW ct \in Oct!ViewCols(B), Oct!CopyCol(c, ct) PROVE OctShows(mem', matrix')
  BY <1>1, <1>3, OctCopyColHolds DEF Oct!CopyCol, Oct!SameRows
<1>4. ASSUME NEW offs \in 0 .. A.n_row, NEW alpha \in Alphas, Oct!MultColFrom(c, offs, alpha)
      PROVE  OctShows(mem', matrix')
  BY <1>1, <1>4, OctMultColFromHolds DEF Oct!MultColFrom
<1> QED BY <1>2, <1>3, <1>4

LEMMA OctSubmatCallShows ==
  ASSUME Oct!Assumptions, OctIInv, NEW n \in 1 .. OctRows, NEW k \in 1 .. OctCols,
         NEW so \in 0 .. OctRows - 1, NEW do \in 0 .. OctCols - 1, Oct!CopySubmat(n, k, so, do)
  PROVE  OctShows(mem', matrix')
<1> DEFINE ro == A.n_row - n
           co == A.n_col - k
<1>1. OctShows(mem, matrix) /\ IsRect(A) /\ IsRect(B)
  BY DEF OctIInv
<1>2. /\ A.n_row \in Nat /\ A.n_col \in Nat /\ OctRows \in Nat \ {0} /\ OctCols \in Nat \ {0}
      /\ B.n_row \in Nat /\ B.n_col \in Nat
  BY <1>1, RectNumbers
<1>3. n \in Nat \ {0} /\ k \in Nat \ {0} /\ so \in Nat /\ do \in Nat
  BY <1>2
<1>4. /\ ~Oct!Overlap(A, B) /\ so + n <= B.n_row /\ do + k <= B.n_col
      /\ n <= A.n_row /\ k <= A.n_col
  BY DEF Oct!CopySubmat
<1>5. ro \in Nat /\ co \in Nat /\ ro + n <= A.n_row /\ co + k <= A.n_col
  BY <1>2, <1>3, <1>4
<1>6. /\ mem' = Oct!copy_submat(mem, A, ro, co, n, k, B, so, do)
      /\ matrix' = Oct!SubmatCopied(matrix, A, ro, co, n, k, B, so, do)
  BY DEF Oct!CopySubmat
<1> HIDE DEF ro, co
<1> QED BY <1>1, <1>3, <1>4, <1>5, <1>6, OctCopySubmatHolds

(* Those on whole views.                                                   *)
LEMMA OctViewCallShows ==
  ASSUME Oct!Assumptions, OctIInv, Oct!Clear \/ Oct!Copy \/ Oct!AddOut \/ Oct!AddInplace \/ Oct!MulOut
  PROVE  OctShows(mem', matrix')
<1>1. OctShows(mem, matrix) /\ IsRect(A) /\ IsRect(B) /\ IsRect(C)
  BY DEF OctIInv
<1>2. CASE Oct!Clear
  BY <1>1, <1>2, OctClearHolds DEF Oct!Clear
<1>3. CASE Oct!Copy
  BY <1>1, <1>3, OctCopyHolds DEF Oct!Copy, Oct!Aligned, Apart
<1>4. CASE Oct!AddOut
  BY <1>1, <1>4, OctAddHolds DEF Oct!AddOut, Oct!SumOutput, Oct!Aligned, Apart
<1>5. CASE Oct!AddInplace
  BY <1>1, <1>5, OctAddInplaceHolds DEF Oct!AddInplace, Oct!Aligned, Apart
<1>6. CASE Oct!MulOut
  BY <1>1, <1>6, OctMulHolds DEF Oct!MulOut, Factored
<1> QED BY <1>2, <1>3, <1>4, <1>5, <1>6

LEMMA OctNextKeeps == ASSUME Oct!Assumptions, OctIInv, [Oct!Next]_(Oct!vars) PROVE OctIInv'
<1>1. CASE Oct!Subview
  BY <1>1, OctSubviewKeeps
<1>2. CASE Oct!Call
  <2>1. A' = A /\ B' = B /\ C' = C
    BY <1>2 DEF Oct!Call
  <2>2. OctShows(mem', matrix')
    BY <1>2, OctRowCallShows, OctColCallShows, OctSubmatCallShows, OctViewCallShows DEF Oct!Call
  <2> QED BY <2>1, <2>2 DEF OctIInv, IsRect, OctShows
<1>3. CASE UNCHANGED Oct!vars
  BY <1>3 DEF Oct!vars, OctIInv, IsRect, OctShows
<1> QED BY <1>1, <1>2, <1>3 DEF Oct!Next

LEMMA OctIInvStorage == ASSUME Oct!Assumptions, OctIInv PROVE Oct!StorageHoldsMatrix
BY StoredIs DEF OctIInv, Oct!StorageHoldsMatrix

LEMMA OctIInvZero == ASSUME Oct!Assumptions, OctIInv PROVE Oct!ZeroFound
<1>1. OctShows(mem, matrix) /\ IsRect(A)
  BY DEF OctIInv
<1>2. \A r \in Oct!ViewRows(A) : Oct!row_iszero(mem, A, r) <=> Oct!RowIsZero(matrix, A, r)
  BY <1>1, OctRowZero
<1>3. Oct!iszero(mem, A) <=> Oct!Cleared(matrix, A) = matrix
  BY <1>1, OctIsZero
<1> QED BY <1>2, <1>3 DEF Oct!ZeroFound

-----------------------------------------------------------------------------
(* Storage *)

(* What m2v.c serves.  Where a width is a multiple of the word size, a sum *)
(* that starts at column NCol changes the word behind its row              *)
(* (bits_lu_full_words), and LU_decomp_inplace makes such a call for the   *)
(* last column.  So calls by others must not start there, and a            *)
(* decomposition needs a last word that is partly unused.                  *)
RowsServed ==
  /\ kind = "bits" => OffsetsInRow
  /\ kind = "lu" => LastWordPartial

(* A behaviour keeps to the module it began with, and to its invariant.    *)
StorageIInv ==
  /\ kind \in {"bits", "octets", "lu"}
  /\ RowsServed
  /\ kind = "bits" => BitIInv
  /\ kind = "octets" => OctIInv
  /\ kind = "lu" => LInv

LEMMA StorageInitHolds ==
  ASSUME Assumptions, Oct!Assumptions, StorageInit, RowsServed
  PROVE  StorageIInv /\ (kind = "lu" => Packed!LU!Init)
<1>1. CASE kind = "bits" /\ BitInit
  BY <1>1, BitInitHolds DEF StorageIInv
<1>2. CASE kind = "octets" /\ Oct!Init
  BY <1>2, OctInitHolds DEF StorageIInv
<1>3. CASE kind = "lu" /\ Packed!Init
  BY <1>3, LUStarts, SameInit DEF StorageIInv
<1> QED BY <1>1, <1>2, <1>3 DEF StorageInit

LEMMA StorageStepKeeps ==
  ASSUME Assumptions, Oct!Assumptions, StorageIInv, [StorageNext]_storageVars
  PROVE  StorageIInv' /\ (kind = "lu" => [Packed!LU!Next]_(Packed!LU!luVars))
<1>1. kind' = kind /\ kind \in {"bits", "octets", "lu"}
  BY DEF StorageIInv, StorageNext, CallBits, CallOctets, Decompose, storageVars
<1>2. RowsServed /\ RowsServed'
  BY <1>1 DEF StorageIInv, RowsServed, OffsetsInRow, LastWordPartial
<1>3. CASE kind = "bits"
  <2>1. [BitNext]_bitVars
    BY <1>3 DEF StorageNext, CallBits, CallOctets, Decompose, storageVars
  <2>2. OffsetsInRow /\ BitIInv
    BY <1>3 DEF StorageIInv, RowsServed
  <2>3. BitIInv'
    BY <2>1, <2>2, CallsKeep
  <2> QED BY <1>1, <1>2, <1>3, <2>3 DEF StorageIInv
<1>4. CASE kind = "octets"
  <2>1. [Oct!Next]_(Oct!vars)
    BY <1>4 DEF StorageNext, CallBits, CallOctets, Decompose, storageVars, bitVars, octVars, Oct!vars
  <2>2. OctIInv'
    BY <1>4, <2>1, OctNextKeeps DEF StorageIInv
  <2> QED BY <1>1, <1>2, <1>4, <2>2 DEF StorageIInv
<1>5. CASE kind = "lu"
  <2>1. [Packed!Next]_(Packed!vars)
    BY <1>5 DEF StorageNext, CallBits, CallOctets, Decompose, storageVars, bitVars, luVars, Packed!vars
  <2>2. LastWordPartial /\ LInv
    BY <1>5 DEF StorageIInv, RowsServed
  <2>3. LInv' /\ [Packed!LU!Next]_(Packed!LU!luVars)
    BY <2>1, <2>2, NextImplements, SameNext
  <2> QED BY <1>1, <1>2, <1>5, <2>3 DEF StorageIInv
<1> QED BY <1>1, <1>3, <1>4, <1>5

LEMMA StorageIInvHolds ==
  ASSUME Assumptions, Oct!Assumptions
  PROVE  StorageSpec /\ RowsServed => []StorageIInv
<1>1. StorageInit /\ RowsServed => StorageIInv
  BY StorageInitHolds
<1>2. StorageIInv /\ [StorageNext]_storageVars => StorageIInv'
  BY StorageStepKeeps
<1> QED BY <1>1, <1>2, PTL DEF StorageSpec

(* Calls of m2v operations on bit matrices of any width, as long as no sum *)
(* starts behind its row's words; calls of m256v operations on octet       *)
(* matrices of any shape, with no such condition; and decompositions of    *)
(* bit matrices whose width is no multiple of the word size: the memory    *)
(* holds the matrix that the calls describe, and of what lies behind a bit *)
(* matrix nothing is written.  Of the other widths and calls nothing is    *)
(* said; a decomposition whose last words are full may write behind its    *)
(* rows (bits_lu_full_words).                                              *)
THEOREM MemoryHoldsMatrixHolds ==
  ASSUME Assumptions, Oct!Assumptions
  PROVE  StorageSpec /\ RowsServed => []MemoryHoldsMatrix
<1>1. StorageIInv => MemoryHoldsMatrix
  <2>1. BitIInv => StorageHoldsMatrix
    BY BitIInvStorage
  <2>2. OctIInv => Oct!StorageHoldsMatrix
    BY OctIInvStorage
  <2>3. LInv => Packed!InsideMatrix
    BY SameOperations DEF LInv, Holds, Packed!InsideMatrix
  <2> QED BY <2>1, <2>2, <2>3 DEF StorageIInv, MemoryHoldsMatrix
<1> QED BY <1>1, StorageIInvHolds, PTL

(* m2v_row_iszero, m256v_row_iszero and m256v_iszero answer for the        *)
(* elements of the view, whatever lies beside it, after calls on bits that *)
(* start no sum behind its row's words and after any calls on octets.      *)
THEOREM ZerosFoundHolds ==
  ASSUME Assumptions, Oct!Assumptions
  PROVE  StorageSpec /\ RowsServed => []ZerosFound
<1>1. StorageIInv => ZerosFound
  <2>1. BitIInv => ZeroRowsFound
    BY BitIInvZero
  <2>2. OctIInv => Oct!ZeroFound
    BY OctIInvZero
  <2> QED BY <2>1, <2>2 DEF StorageIInv, ZerosFound
<1> QED BY <1>1, StorageIInvHolds, PTL

(* The behaviours of Storage that decompose make the steps of LUDecomp, if *)
(* the width of the matrix is no multiple of the word size.                *)
THEOREM StorageImplementsLU ==
  ASSUME Assumptions, Oct!Assumptions
  PROVE  StorageSpec /\ RowsServed => ImplementsLU
<1>1. StorageInit /\ RowsServed => StorageIInv /\ (kind = "lu" => Packed!LU!Init)
  BY StorageInitHolds
<1>2. StorageIInv /\ [StorageNext]_storageVars
      => StorageIInv' /\ [kind = "lu" => [Packed!LU!Next]_(Packed!LU!luVars)]_storageVars
  BY StorageStepKeeps
<1> QED BY <1>1, <1>2, PTL DEF StorageSpec, ImplementsLU

(* The octet operations by themselves: after any calls on three views that *)
(* may be parts of each other, the octets are those of the matrix the      *)
(* calls describe, in every row and column, for every shape and field      *)
(* whose tables of logarithms are right.                                   *)
THEOREM OctStorageHolds ==
  ASSUME Oct!Assumptions
  PROVE  Oct!Spec => [](Oct!StorageHoldsMatrix /\ Oct!ZeroFound)
<1>1. Oct!Init => OctIInv
  BY OctInitHolds
<1>2. OctIInv /\ [Oct!Next]_(Oct!vars) => OctIInv'
  BY OctNextKeeps
<1>3. OctIInv => Oct!StorageHoldsMatrix /\ Oct!ZeroFound
  BY OctIInvStorage, OctIInvZero
<1> QED BY <1>1, <1>2, <1>3, PTL DEF Oct!Spec

=============================================================================
