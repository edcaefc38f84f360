--------------------------- MODULE RoundTripProofs ---------------------------
(***************************************************************************)
(* Proofs about RoundTrip, for every block the table supports, every       *)
(* source, every list of received IDs and whatever malloc leaves behind:   *)
(*   - the tables of gf256.c make the octets a field, so that what         *)
(*     LUSolveProofs proves of the solver holds of the codec's two uses;   *)
(*   - the rows that rq_matrix.c generates for a symbol are those that     *)
(*     tvrq_api.c makes it with, and the constraint rows are the same in   *)
(*     both matrices;                                                      *)
(*   - hence a decoder that can solve returns the encoder's block and the  *)
(*     source;                                                             *)
(*   - HdpcColumns makes the specified HDPC part column by column.         *)
(***************************************************************************)
EXTENDS RoundTrip, HdpcColumns, FiniteSetTheorems, TLAPS

Octets == [0 .. P.L - 1 -> GF256]

(* A row of a matrix times a vector.                                       *)
RowTimes(row, v) == E!Sum([c \in 0 .. P.L - 1 |-> gf256_mul(row[c], v[c])], P.L)

(* What the encoder solves: the symbols s, and zero for the constraints.   *)
Solves(M, s, x) ==
  \A r \in 0 .. P.L - 1 : RowTimes(M[r], x) = IF r < K THEN s[r + 1] ELSE 0

(* The block the encoder's right-hand side comes from. *)
Solution(M, s) == CHOOSE x \in Octets : Solves(M, s, x)
EncX == Solution(A0, src)

EP == INSTANCE LUSolveProofs WITH NRow <- P.L, NCol <- P.L, F <- GF256, Zero <- 0, One <- 1,
                                  Add <- gf256_add, Mul <- gf256_mul, Inv <- gf256_inv,
                                  X0 <- EncX, Leftovers <- {}
DP == INSTANCE LUSolveProofs WITH NRow <- P.L + NExtra, NCol <- P.L, F <- GF256, Zero <- 0, One <- 1,
                                  Add <- gf256_add, Mul <- gf256_mul, Inv <- gf256_inv,
                                  X0 <- C, Leftovers <- {}

-----------------------------------------------------------------------------
(* The octets are a field *)

(* Sums, by their nibbles. *)
LEMMA AddNibbles ==
  ASSUME NEW a \in GF256, NEW b \in GF256
  PROVE  /\ a \div 16 \in 0 .. 15 /\ a % 16 \in 0 .. 15
         /\ a = 16 * (a \div 16) + (a % 16)
         /\ gf256_add(a, b) \in GF256
         /\ gf256_add(a, b) \div 16 = XorNibble[a \div 16][b \div 16]
         /\ gf256_add(a, b) % 16 = XorNibble[a % 16][b % 16]
<1>1. \A x \in GF256 : x \div 16 \in 0 .. 15 /\ x % 16 \in 0 .. 15 /\ x = 16 * (x \div 16) + (x % 16)
  BY DEF GF256
<1>2. gf256_add(a, b) = 16 * XorNibble[a \div 16][b \div 16] + XorNibble[a % 16][b % 16]
  BY DEF gf256_add, XorByte, XorTable, GF256
<1>3. /\ XorNibble[a \div 16][b \div 16] \in 0 .. 15
      /\ XorNibble[a % 16][b % 16] \in 0 .. 15
  BY <1>1, FieldTables DEF NibbleLaws
<1>4. \A h, l \in 0 .. 15 :
        16 * h + l \in GF256 /\ (16 * h + l) \div 16 = h /\ (16 * h + l) % 16 = l
  BY DEF GF256
<1> HIDE DEF GF256
<1> QED BY <1>1, <1>2, <1>3, <1>4

(* An octet is its two nibbles. *)
LEMMA SameNibbles ==
  ASSUME NEW a \in GF256, NEW b \in GF256, a \div 16 = b \div 16, a % 16 = b % 16
  PROVE  a = b
BY DEF GF256

(* Addition of octets is a group in which every octet is its own negative.*)
LEMMA AddLaws ==
  /\ \A a, b \in GF256 : gf256_add(a, b) \in GF256 /\ gf256_add(a, b) = gf256_add(b, a)
  /\ \A a \in GF256 : gf256_add(a, 0) = a /\ gf256_add(a, a) = 0
  /\ \A a, b, c \in GF256 :
       gf256_add(gf256_add(a, b), c) = gf256_add(a, gf256_add(b, c))
<1>0. 0 \in GF256 /\ 0 \div 16 = 0 /\ 0 % 16 = 0
  BY DEF GF256
<1>1. ASSUME NEW a \in GF256, NEW b \in GF256
      PROVE  gf256_add(a, b) \in GF256 /\ gf256_add(a, b) = gf256_add(b, a)
  <2>1. gf256_add(a, b) \in GF256 /\ gf256_add(b, a) \in GF256
    BY AddNibbles
  <2>2. XorNibble[a \div 16][b \div 16] = XorNibble[b \div 16][a \div 16]
    BY AddNibbles, FieldTables DEF NibbleLaws
  <2>3. XorNibble[a % 16][b % 16] = XorNibble[b % 16][a % 16]
    BY AddNibbles, FieldTables DEF NibbleLaws
  <2> QED BY <2>1, <2>2, <2>3, AddNibbles, SameNibbles
<1>2. ASSUME NEW a \in GF256 PROVE gf256_add(a, 0) = a /\ gf256_add(a, a) = 0
  <2>1. /\ XorNibble[a \div 16][0] = a \div 16 /\ XorNibble[a % 16][0] = a % 16
        /\ XorNibble[a \div 16][a \div 16] = 0 /\ XorNibble[a % 16][a % 16] = 0
    BY AddNibbles, FieldTables DEF NibbleLaws
  <2>2. gf256_add(a, 0) \in GF256 /\ gf256_add(a, a) \in GF256
    BY <1>0, AddNibbles
  <2>3. gf256_add(a, 0) \div 16 = a \div 16 /\ gf256_add(a, 0) % 16 = a % 16
    BY <1>0, <2>1, AddNibbles
  <2>4. gf256_add(a, a) \div 16 = 0 \div 16 /\ gf256_add(a, a) % 16 = 0 % 16
    BY <1>0, <2>1, AddNibbles
  <2> QED BY <1>0, <2>2, <2>3, <2>4, SameNibbles
<1>3. ASSUME NEW a \in GF256, NEW b \in GF256, NEW c \in GF256
      PROVE  gf256_add(gf256_add(a, b), c) = gf256_add(a, gf256_add(b, c))
  <2>1. gf256_add(a, b) \in GF256 /\ gf256_add(b, c) \in GF256
    BY AddNibbles
  <2>2. /\ gf256_add(gf256_add(a, b), c) \in GF256
        /\ gf256_add(gf256_add(a, b), c) \div 16
             = XorNibble[XorNibble[a \div 16][b \div 16]][c \div 16]
        /\ gf256_add(gf256_add(a, b), c) % 16 = XorNibble[XorNibble[a % 16][b % 16]][c % 16]
    BY <2>1, AddNibbles
  <2>3. /\ gf256_add(a, gf256_add(b, c)) \in GF256
        /\ gf256_add(a, gf256_add(b, c)) \div 16
             = XorNibble[a \div 16][XorNibble[b \div 16][c \div 16]]
        /\ gf256_add(a, gf256_add(b, c)) % 16 = XorNibble[a % 16][XorNibble[b % 16][c % 16]]
    BY <2>1, AddNibbles
  <2>4. /\ a \div 16 \in 0 .. 15 /\ b \div 16 \in 0 .. 15 /\ c \div 16 \in 0 .. 15
        /\ a % 16 \in 0 .. 15 /\ b % 16 \in 0 .. 15 /\ c % 16 \in 0 .. 15
    BY AddNibbles
  <2>5. \A x, y, z \in 0 .. 15 : NibblesAssociate(x, y, z)
    BY FieldTables DEF NibbleLaws
  <2>6. /\ NibblesAssociate(a \div 16, b \div 16, c \div 16)
        /\ NibblesAssociate(a % 16, b % 16, c % 16)
    BY <2>4, <2>5
  <2> DEFINE x == gf256_add(gf256_add(a, b), c)
             y == gf256_add(a, gf256_add(b, c))
  <2>7. x \in GF256 /\ y \in GF256 /\ x \div 16 = y \div 16 /\ x % 16 = y % 16
    BY <2>2, <2>3, <2>6 DEF NibblesAssociate
  <2> HIDE DEF x, y
  <2>8. x = y
    BY <2>7, SameNibbles
  <2> QED BY <2>8 DEF x, y
<1> QED BY <1>1, <1>2, <1>3

(* Products, by their logarithms. *)
LogOf(a) == OCT_LOG[a + 1]
PowerOf(e) == OCT_EXP[e + 1]
Reduced(n) == IF n >= 255 THEN n - 255 ELSE n

(* OCT_EXP and OCT_LOG are inverse to each other, the exponents mod 255.    *)
LEMMA LogExp ==
  /\ \A a \in GF256 \ {0} : LogOf(a) \in 0 .. 254 /\ PowerOf(LogOf(a)) = a
  /\ \A n \in 0 .. 509 : /\ Reduced(n) \in 0 .. 254
                         /\ PowerOf(n) \in GF256 \ {0}
                         /\ PowerOf(n) = PowerOf(Reduced(n)) /\ LogOf(PowerOf(n)) = Reduced(n)
  /\ LogOf(1) = 0 /\ LogOf(2) = 1
<1>1. \A a \in GF256 \ {0} : a \in 1 .. 255
  BY DEF GF256
<1>2. \A a \in GF256 \ {0} : LogOf(a) \in 0 .. 254 /\ PowerOf(LogOf(a)) = a
  BY <1>1, FieldTables DEF TableLaws, LogOf, PowerOf
<1>3. ASSUME NEW e \in 0 .. 254
      PROVE  PowerOf(e) \in GF256 \ {0} /\ LogOf(PowerOf(e)) = e /\ PowerOf(e + 255) = PowerOf(e)
  <2>1. /\ OCT_EXP[e + 1] \in 1 .. 255 /\ OCT_LOG[OCT_EXP[e + 1] + 1] = e
        /\ OCT_EXP[e + 256] = OCT_EXP[e + 1]
    BY FieldTables DEF TableLaws
  <2>2. e + 255 + 1 = e + 256
    OBVIOUS
  <2> QED BY <2>1, <2>2 DEF GF256, LogOf, PowerOf
<1>4. ASSUME NEW n \in 0 .. 509
      PROVE  /\ Reduced(n) \in 0 .. 254 /\ PowerOf(n) \in GF256 \ {0}
             /\ PowerOf(n) = PowerOf(Reduced(n)) /\ LogOf(PowerOf(n)) = Reduced(n)
  <2>1. CASE n >= 255
    <3>1. n - 255 \in 0 .. 254 /\ (n - 255) + 255 = n
      BY <2>1
    <3> QED BY <2>1, <3>1, <1>3 DEF Reduced
  <2>2. CASE ~(n >= 255)
    BY <2>2, <1>3 DEF Reduced
  <2> QED BY <2>1, <2>2
<1>5. 1 + 1 = 2 /\ 2 + 1 = 3
  OBVIOUS
<1>6. LogOf(1) = 0 /\ LogOf(2) = 1
  BY <1>5, FieldTables DEF TableLaws, LogOf
<1> QED BY <1>2, <1>4, <1>6

(* Products of nonzero octets add their logarithms mod 255.                *)
LEMMA MulLog ==
  ASSUME NEW a \in GF256 \ {0}, NEW b \in GF256 \ {0}
  PROVE  /\ gf256_mul(a, b) = PowerOf(LogOf(a) + LogOf(b))
         /\ gf256_mul(a, b) \in GF256 \ {0}
         /\ LogOf(gf256_mul(a, b)) = Reduced(LogOf(a) + LogOf(b))
<1>1. gf256_mul(a, b) = PowerOf(LogOf(a) + LogOf(b))
  BY DEF gf256_mul, gf256_exp, gf256_log, PowerOf, LogOf
<1>2. PICK x \in 0 .. 254, y \in 0 .. 254 : x = LogOf(a) /\ y = LogOf(b)
  BY LogExp
<1>3. x + y \in 0 .. 509
  OBVIOUS
<1>4. /\ PowerOf(x + y) \in GF256 \ {0}
      /\ LogOf(PowerOf(x + y)) = Reduced(x + y)
  BY <1>3, LogExp
<1> QED BY <1>1, <1>2, <1>4

(* Zero times anything is zero.                                            *)
LEMMA MulZero ==
  \A a \in GF256 : gf256_mul(a, 0) = 0 /\ gf256_mul(0, a) = 0
BY DEF gf256_mul

(* Multiplication and gf256_inv, but for the distributive law.             *)
LEMMA MulLaws ==
  /\ \A a, b \in GF256 : gf256_mul(a, b) \in GF256 /\ gf256_mul(a, b) = gf256_mul(b, a)
  /\ \A a \in GF256 : gf256_mul(1, a) = a
  /\ \A a \in GF256 \ {0} : gf256_inv(a) \in GF256 /\ gf256_mul(a, gf256_inv(a)) = 1
  /\ \A a, b, c \in GF256 :
       gf256_mul(gf256_mul(a, b), c) = gf256_mul(a, gf256_mul(b, c))
<1>0. 0 \in GF256 /\ 1 \in GF256 \ {0} /\ 0 \in 0 .. 509 /\ 255 \in 0 .. 509 /\ Reduced(255) = 0
  BY DEF GF256, Reduced
<1>1. ASSUME NEW a \in GF256, NEW b \in GF256
      PROVE  gf256_mul(a, b) \in GF256 /\ gf256_mul(a, b) = gf256_mul(b, a)
  <2>1. CASE a = 0 \/ b = 0
    BY <2>1, <1>0, MulZero
  <2>2. CASE a # 0 /\ b # 0
    <3>1. PICK x \in 0 .. 254, y \in 0 .. 254 : x = LogOf(a) /\ y = LogOf(b)
      BY <2>2, LogExp
    <3>2. x + y = y + x
      OBVIOUS
    <3> QED BY <2>2, <3>1, <3>2, MulLog
  <2> QED BY <2>1, <2>2
<1>2. ASSUME NEW a \in GF256 PROVE gf256_mul(1, a) = a
  <2>1. CASE a = 0
    BY <2>1, <1>0, MulZero
  <2>2. CASE a # 0
    <3>1. PICK x \in 0 .. 254 : x = LogOf(a) /\ a = PowerOf(x)
      BY <2>2, LogExp
    <3>2. 0 + x = x
      OBVIOUS
    <3>3. LogOf(1) = 0
      BY LogExp
    <3>4. gf256_mul(1, a) = PowerOf(LogOf(1) + LogOf(a))
      BY <1>0, <2>2, MulLog
    <3> QED BY <3>1, <3>2, <3>3, <3>4
  <2> QED BY <2>1, <2>2
<1>3. ASSUME NEW a \in GF256 \ {0}
      PROVE  gf256_inv(a) \in GF256 /\ gf256_mul(a, gf256_inv(a)) = 1
  <2>1. PICK x \in 0 .. 254 : x = LogOf(a)
    BY LogExp
  <2>2. gf256_inv(a) = PowerOf(255 - x)
    BY <2>1 DEF gf256_inv, gf256_exp, gf256_log, PowerOf, LogOf
  <2>3. 255 - x \in 0 .. 509
    OBVIOUS
  <2>4. gf256_inv(a) \in GF256 \ {0} /\ LogOf(gf256_inv(a)) = Reduced(255 - x)
    <3>1. \A n \in 0 .. 509 : PowerOf(n) \in GF256 \ {0} /\ LogOf(PowerOf(n)) = Reduced(n)
      BY LogExp
    <3> QED BY <2>2, <2>3, <3>1, Zenon
  <2>5. x + Reduced(255 - x) = 0 \/ x + Reduced(255 - x) = 255
    BY DEF Reduced
  <2>6. PowerOf(255) = PowerOf(0)
    <3>1. \A n \in 0 .. 509 : PowerOf(n) = PowerOf(Reduced(n))
      BY LogExp
    <3> QED BY <1>0, <3>1
  <2>7. PowerOf(0) = 1
    <3>1. PowerOf(LogOf(1)) = 1 /\ LogOf(1) = 0
      BY <1>0, LogExp
    <3> QED BY <3>1
  <2>8. gf256_mul(a, gf256_inv(a)) = PowerOf(x + Reduced(255 - x))
    BY <2>1, <2>4, MulLog
  <2> QED BY <2>4, <2>5, <2>6, <2>7, <2>8
<1>4. ASSUME NEW a \in GF256, NEW b \in GF256, NEW c \in GF256
      PROVE  gf256_mul(gf256_mul(a, b), c) = gf256_mul(a, gf256_mul(b, c))
  <2>1. CASE a = 0 \/ b = 0 \/ c = 0
    BY <2>1, <1>0, <1>1, MulZero
  <2>2. CASE a # 0 /\ b # 0 /\ c # 0
    <3>1. PICK x \in 0 .. 254, y \in 0 .. 254, z \in 0 .. 254 :
            x = LogOf(a) /\ y = LogOf(b) /\ z = LogOf(c)
      BY <2>2, LogExp
    <3>2. gf256_mul(gf256_mul(a, b), c) = PowerOf(Reduced(x + y) + z)
      <4>1. gf256_mul(a, b) \in GF256 \ {0} /\ LogOf(gf256_mul(a, b)) = Reduced(x + y)
        BY <2>2, <3>1, MulLog
      <4> QED BY <2>2, <3>1, <4>1, MulLog
    <3>3. gf256_mul(a, gf256_mul(b, c)) = PowerOf(x + Reduced(y + z))
      <4>1. gf256_mul(b, c) \in GF256 \ {0} /\ LogOf(gf256_mul(b, c)) = Reduced(y + z)
        BY <2>2, <3>1, MulLog
      <4> QED BY <2>2, <3>1, <4>1, MulLog
    <3> DEFINE m == Reduced(x + y) + z
               n == x + Reduced(y + z)
    <3>4. m \in 0 .. 509 /\ n \in 0 .. 509
      BY DEF Reduced
    <3>5. Reduced(m) = Reduced(n)
      BY DEF Reduced
    <3> HIDE DEF m, n
    <3>6. PowerOf(m) = PowerOf(Reduced(m)) /\ PowerOf(n) = PowerOf(Reduced(n))
      BY <3>4, LogExp
    <3> QED BY <3>2, <3>3, <3>5, <3>6 DEF m, n
  <2> QED BY <2>1, <2>2
<1> QED BY <1>1, <1>2, <1>3, <1>4

(* Products with a factor a distribute over sums. *)
Distributes(a) ==
  \A b, c \in GF256 : gf256_mul(a, gf256_add(b, c)) = gf256_add(gf256_mul(a, b), gf256_mul(a, c))

(* The distributive law, from the one for doubling: every nonzero octet is *)
(* a power of two.                                                         *)
LEMMA DistributesAll ==
  ASSUME NEW a \in GF256 PROVE Distributes(a)
<1> DEFINE S == {e \in Nat : e <= 254 => Distributes(PowerOf(e))}
<1>0. 0 \in GF256 /\ 1 \in GF256 \ {0} /\ 2 \in GF256 \ {0} /\ PowerOf(0) = 1
  <2>1. 0 \in GF256 /\ 1 \in GF256 \ {0} /\ 2 \in GF256 \ {0}
    BY DEF GF256
  <2>2. PowerOf(LogOf(1)) = 1 /\ LogOf(1) = 0
    BY <2>1, LogExp
  <2> QED BY <2>1, <2>2
<1>1. 0 \in S
  <2>1. Distributes(1)
    BY AddLaws, MulLaws DEF Distributes
  <2> QED BY <1>0, <2>1
<1>2. ASSUME NEW e \in Nat, e \in S PROVE e + 1 \in S
  <2> SUFFICES ASSUME e + 1 <= 254 PROVE Distributes(PowerOf(e + 1))
    OBVIOUS
  <2>1. e \in 0 .. 509 /\ Reduced(e) = e /\ Distributes(PowerOf(e))
    BY <1>2 DEF Reduced
  <2>2. PowerOf(e) \in GF256 \ {0} /\ LogOf(PowerOf(e)) = e
    BY <2>1, LogExp
  <2>3. PowerOf(e + 1) = gf256_mul(2, PowerOf(e))
    <3>1. LogOf(2) = 1
      BY LogExp
    <3>2. gf256_mul(2, PowerOf(e)) = PowerOf(LogOf(2) + LogOf(PowerOf(e)))
      BY <1>0, <2>2, MulLog
    <3>3. 1 + e = e + 1
      OBVIOUS
    <3> QED BY <2>2, <3>1, <3>2, <3>3
  <2> DEFINE p == PowerOf(e)
  <2> HIDE DEF p
  <2>4. p \in GF256 /\ PowerOf(e + 1) = gf256_mul(2, p) /\ Distributes(p)
    BY <2>1, <2>2, <2>3 DEF p
  <2>5. ASSUME NEW b \in GF256, NEW c \in GF256
        PROVE  gf256_mul(gf256_mul(2, p), gf256_add(b, c))
                 = gf256_add(gf256_mul(gf256_mul(2, p), b), gf256_mul(gf256_mul(2, p), c))
    <3>1. /\ gf256_add(b, c) \in GF256
          /\ gf256_mul(p, b) \in GF256 /\ gf256_mul(p, c) \in GF256
      BY <2>4, AddLaws, MulLaws
    <3>2. gf256_mul(gf256_mul(2, p), gf256_add(b, c)) = gf256_mul(2, gf256_mul(p, gf256_add(b, c)))
      BY <1>0, <2>4, <3>1, MulLaws
    <3>3. gf256_mul(p, gf256_add(b, c)) = gf256_add(gf256_mul(p, b), gf256_mul(p, c))
      BY <2>4 DEF Distributes
    <3>4. gf256_mul(2, gf256_add(gf256_mul(p, b), gf256_mul(p, c)))
            = gf256_add(gf256_mul(2, gf256_mul(p, b)), gf256_mul(2, gf256_mul(p, c)))
      BY <3>1, FieldTables DEF DoublingLaw
    <3>5. /\ gf256_mul(2, gf256_mul(p, b)) = gf256_mul(gf256_mul(2, p), b)
          /\ gf256_mul(2, gf256_mul(p, c)) = gf256_mul(gf256_mul(2, p), c)
      BY <1>0, <2>4, MulLaws
    <3> QED BY <3>2, <3>3, <3>4, <3>5
  <2> QED BY <2>4, <2>5 DEF Distributes
<1>3. \A n \in Nat : n \in S
  <2> HIDE DEF S
  <2> QED BY <1>1, <1>2, DP!NatSet
<1>4. CASE a = 0
  <2>1. gf256_add(0, 0) = 0
    BY <1>0, AddLaws
  <2> QED BY <1>4, <2>1, AddLaws, MulZero DEF Distributes
<1>5. CASE a # 0
  <2>1. PICK n \in 0 .. 254 : a = PowerOf(n)
    BY <1>5, LogExp
  <2>2. n \in Nat /\ n <= 254
    OBVIOUS
  <2> QED BY <1>3, <2>1, <2>2
<1> QED BY <1>4, <1>5

(* gf256_add, gf256_mul and gf256_inv make the octets a field as LUDecomp  *)
(* asks for it, whatever the dimensions.                                   *)
THEOREM OctetsAreField ==
  /\ P.L \in Nat => EP!Assumptions
  /\ P.L \in Nat /\ NExtra \in Nat => DP!Assumptions
<1>1. /\ 0 \in GF256 /\ 1 \in GF256
      /\ \A a, b \in GF256 : gf256_add(a, b) \in GF256 /\ gf256_mul(a, b) \in GF256
      /\ \A a \in GF256 \ {0} : gf256_inv(a) \in GF256
      /\ \A a \in GF256 : gf256_add(a, 0) = a /\ gf256_mul(a, 0) = 0 /\ gf256_mul(0, a) = 0
  <2>1. 0 \in GF256 /\ 1 \in GF256
    BY DEF GF256
  <2> QED BY <2>1, AddLaws, MulLaws, MulZero
<1>2. EP!IsFiniteSet(GF256) /\ DP!IsFiniteSet(GF256)
  <2>1. GF256 = 0 .. 255 /\ 0 \in Int /\ 255 \in Int
    BY DEF GF256
  <2>2. EP!IsFiniteSet(0 .. 255) /\ DP!IsFiniteSet(0 .. 255)
    BY <2>1, EP!FS_Interval, DP!FS_Interval
  <2> QED BY <2>1, <2>2
<1>3. \A a, b, c \in GF256 :
        gf256_mul(a, gf256_add(b, c)) = gf256_add(gf256_mul(a, b), gf256_mul(a, c))
  BY DistributesAll DEF Distributes
<1>4. /\ EP!FieldAssumption /\ DP!FieldAssumption
  BY <1>1 DEF EP!FieldAssumption, DP!FieldAssumption
<1>5. EP!FieldLaws /\ DP!FieldLaws
  BY <1>2, <1>3, AddLaws, MulLaws DEF EP!FieldLaws, DP!FieldLaws
<1> QED BY <1>4, <1>5 DEF EP!Assumptions, DP!Assumptions, EP!DimAssumption, DP!DimAssumption

-----------------------------------------------------------------------------
(* The dimensions of the block *)

(* Those of any parameter set that parameters_get returns. *)
SizesAre(Q) ==
  /\ Q.Kprime \in Nat /\ Q.S \in Nat \ {0} /\ Q.H \in Nat \ {0}
  /\ Q.H <= Q.Kprime + Q.S /\ Q.L = Q.Kprime + Q.S + Q.H

LEMMA SupportedSizes ==
  ASSUME NEW b \in Nat, parameters_get(b).K = b
  PROVE  b \in Nat \ {0} /\ SizesAre(parameters_get(b)) /\ parameters_get(b).Kprime >= b
<1>1. ~(b <= 0 \/ ~\E n \in DOMAIN ParamSets : FirstFit(b, n))
  BY DEF parameters_get, Unsupported
<1> DEFINE m == CHOOSE n \in DOMAIN ParamSets : FirstFit(b, n)
<1>2. m \in DOMAIN ParamSets /\ FirstFit(b, m)
  BY <1>1
<1> DEFINE row == ParamSets[m]
           Q == parameters_get(b)
<1>3. Q = Derived(b, row)
  BY <1>1 DEF parameters_get
<1> HIDE DEF m, Q
<1>4. IsParamSet(row)
  BY <1>2, TableAssumption DEF IsTable
<1>5. b <= row.Kprime
  BY <1>2 DEF FirstFit
<1> HIDE DEF row
<1>6. /\ Q.Kprime = row.Kprime /\ Q.S = row.S /\ Q.H = row.H
      /\ Q.L = row.Kprime + row.S + row.H
  BY <1>3 DEF Derived
<1>7. SizesAre(Q)
  BY <1>4, <1>6 DEF SizesAre, IsParamSet
<1> QED BY <1>1, <1>5, <1>6, <1>7 DEF Q

LEMMA Dimensions ==
  /\ K \in Nat \ {0} /\ NExtra \in Nat
  /\ P.K = K /\ P.Kprime \in Nat /\ P.Kprime >= K
  /\ P.S \in Nat \ {0} /\ P.H \in Nat \ {0} /\ P.H <= P.Kprime + P.S
  /\ P.L = P.Kprime + P.S + P.H
<1>1. K \in Nat /\ NExtra \in Nat /\ P.K = K
  BY BlockAssumption
<1>2. SizesAre(P) /\ K \in Nat \ {0} /\ P.Kprime >= K
  BY <1>1, SupportedSizes DEF P
<1> QED BY <1>1, <1>2 DEF SizesAre

LEMMA SizesOfP == SizesAre(P)
BY BlockAssumption, SupportedSizes DEF P

-----------------------------------------------------------------------------
(* The rows of the matrix *)

(* Powers of 2 are octets. *)
LEMMA PowersType ==
  ASSUME NEW n \in Nat
  PROVE  /\ PowersOf2(n) \in [0 .. n -> GF256]
         /\ PowersOf2(n)[0] = 1
         /\ \A j \in 0 .. n - 1 : PowersOf2(n)[j + 1] = gf256_mul(PowersOf2(n)[j], 2)
<1> DEFINE G == [w \in GF256 \X (1 .. n) |-> gf256_mul(w[1], 2)]
<1>1. 1 \in GF256 /\ 2 \in GF256
  BY DEF GF256
<1>2. G \in [GF256 \X (1 .. n) -> GF256]
  <2>1. \A w \in GF256 \X (1 .. n) : w[1] \in GF256
    OBVIOUS
  <2> QED BY <1>1, <2>1, MulLaws
<1>3. \A v \in GF256, j \in 1 .. n : G[<<v, j>>] = gf256_mul(v, 2)
  OBVIOUS
<1> HIDE DEF G
<1>4. PICK s \in [0 .. n -> GF256] : DP!IsUp(s, 1, n, G)
  BY <1>1, <1>2, DP!UpExists
<1>5. s = [j \in 0 .. n |-> IF j = 0 THEN 1 ELSE gf256_mul(s[j - 1], 2)]
  <2>1. \A j \in 0 .. n : s[j] = IF j = 0 THEN 1 ELSE gf256_mul(s[j - 1], 2)
    <3> SUFFICES ASSUME NEW j \in 0 .. n PROVE s[j] = IF j = 0 THEN 1 ELSE gf256_mul(s[j - 1], 2)
      OBVIOUS
    <3>1. j # 0 => j \in 1 .. n /\ j - 1 \in 0 .. n /\ s[j - 1] \in GF256
      OBVIOUS
    <3>2. s[j] = IF j = 0 THEN 1 ELSE G[<<s[j - 1], j>>]
      BY <1>4 DEF DP!IsUp
    <3> QED BY <1>3, <3>1, <3>2
  <2> QED BY <2>1
<1> DEFINE p == CHOOSE p : p = [j \in 0 .. n |-> IF j = 0 THEN 1 ELSE gf256_mul(p[j - 1], 2)]
<1>6. p = [j \in 0 .. n |-> IF j = 0 THEN 1 ELSE gf256_mul(p[j - 1], 2)]
  BY <1>5
<1>7. PowersOf2(n) = p
  BY DEF PowersOf2
<1> HIDE DEF p
<1>8. p[0] \in GF256
  BY <1>1, <1>6
<1>9. ASSUME NEW j \in 0 .. n - 1, p[j] \in GF256 PROVE p[j + 1] \in GF256
  <2>1. j + 1 \in 0 .. n /\ j + 1 # 0 /\ j + 1 - 1 = j
    OBVIOUS
  <2>2. p[j + 1] = gf256_mul(p[j], 2)
    BY <1>6, <2>1
  <2>3. gf256_mul(p[j], 2) \in GF256
    BY <1>1, <1>9, MulLaws
  <2> QED BY <2>2, <2>3
<1>10. \A j \in 0 .. n : p[j] \in GF256
  <2>1. DP!StaysUp(p, n, GF256)
    BY <1>8, <1>9 DEF DP!StaysUp
  <2> QED BY <2>1, DP!UpType
<1>11. p[0] = 1 /\ \A j \in 0 .. n - 1 : p[j + 1] = gf256_mul(p[j], 2)
  <2>1. ASSUME NEW j \in 0 .. n - 1 PROVE p[j + 1] = gf256_mul(p[j], 2)
    <3>1. j + 1 \in 0 .. n /\ j + 1 # 0 /\ j + 1 - 1 = j
      OBVIOUS
    <3> QED BY <1>6, <3>1
  <2> QED BY <1>6, <2>1
<1> QED BY <1>6, <1>7, <1>10, <1>11


(* The columns the fast generator makes, whatever the memory held. *)
HdpcD(Q) == Q.Kprime + Q.S
HdpcColumn(Q, right, j) ==
  [r \in 0 .. Q.H - 1 |->
     gf256_add(IF r \in Flipped(Q, j) THEN 1 ELSE 0, gf256_mul(2, right[r]))]
HdpcIs(Q, g) ==
  g = [j \in 0 .. HdpcD(Q) - 1 |-> IF j = HdpcD(Q) - 1 THEN LastColumn(Q) ELSE HdpcColumn(Q, g[j + 1], j)]
FastColumns(Q) == CHOOSE g : HdpcIs(Q, g)
HdpcRows(Q) ==
  [r \in 0 .. Q.H - 1 |-> [c \in 0 .. Q.L - 1 |->
     IF c < HdpcD(Q) THEN FastColumns(Q)[c][r] ELSE IdentityColumn(Q, c)[r]]]

(* They satisfy the recurrence that defines them, and are octets.          *)
LEMMA HdpcColumnsAre ==
  ASSUME NEW Q, SizesAre(Q)
  PROVE  HdpcIs(Q, FastColumns(Q))
         /\ \A c \in 0 .. HdpcD(Q) - 1 : FastColumns(Q)[c] \in [0 .. Q.H - 1 -> GF256]
<1> DEFINE V == [0 .. Q.H - 1 -> GF256]
           n == HdpcD(Q) - 1
           G == [w \in V \X (0 .. n - 1) |-> HdpcColumn(Q, w[1], w[2])]
<1>1. n \in Nat /\ 0 \in GF256 /\ 1 \in GF256 /\ 2 \in GF256
  BY DEF SizesAre, HdpcD, GF256
<1>2. LastColumn(Q) \in V
  <2>1. Q.H \in Nat
    BY DEF SizesAre
  <2>2. PowersOf2(Q.H) \in [0 .. Q.H -> GF256]
    BY <2>1, PowersType
  <2>3. \A r \in 0 .. Q.H - 1 : r \in 0 .. Q.H
    BY <2>1
  <2> QED BY <2>2, <2>3 DEF LastColumn
<1>3. ASSUME NEW right \in V, NEW j
      PROVE  HdpcColumn(Q, right, j) \in V
  <2>1. ASSUME NEW r \in 0 .. Q.H - 1
        PROVE  gf256_add(IF r \in Flipped(Q, j) THEN 1 ELSE 0, gf256_mul(2, right[r])) \in GF256
    <3>1. gf256_mul(2, right[r]) \in GF256
      BY <1>1, MulLaws
    <3>2. (IF r \in Flipped(Q, j) THEN 1 ELSE 0) \in GF256
      BY <1>1
    <3> QED BY <3>1, <3>2, AddLaws
  <2> QED BY <2>1 DEF HdpcColumn
<1>4. G \in [V \X (0 .. n - 1) -> V] /\ \A v \in V, j \in 0 .. n - 1 : G[<<v, j>>] = HdpcColumn(Q, v, j)
  <2>1. \A w \in V \X (0 .. n - 1) : HdpcColumn(Q, w[1], w[2]) \in V
    <3> SUFFICES ASSUME NEW w \in V \X (0 .. n - 1) PROVE HdpcColumn(Q, w[1], w[2]) \in V
      OBVIOUS
    <3>1. w[1] \in V
      OBVIOUS
    <3> HIDE DEF V
    <3> QED BY <1>3, <3>1
  <2> HIDE DEF V
  <2> QED BY <2>1
<1> HIDE DEF G, V
<1>5. PICK s \in [0 .. n -> V] : DP!IsDown(s, LastColumn(Q), n, G)
  <2> HIDE DEF n
  <2> QED BY <1>1, <1>2, <1>4, DP!DownExists
<1>6. HdpcIs(Q, s)
  <2>1. ASSUME NEW j \in 0 .. n
        PROVE  s[j] = IF j = n THEN LastColumn(Q) ELSE HdpcColumn(Q, s[j + 1], j)
    <3> HIDE DEF n
    <3>1. s[j] = IF j = n THEN LastColumn(Q) ELSE G[<<s[j + 1], j>>]
      BY <1>5 DEF DP!IsDown
    <3>2. j # n => j \in 0 .. n - 1 /\ j + 1 \in 0 .. n /\ s[j + 1] \in V
      BY <1>1
    <3> QED BY <1>4, <3>1, <3>2
  <2> QED BY <2>1 DEF HdpcIs
<1>7. HdpcIs(Q, FastColumns(Q))
  BY <1>6 DEF FastColumns
<1>8. \A j \in 0 .. n : FastColumns(Q)[j] \in V
  <2> DEFINE g == FastColumns(Q)
  <2>1. \A j \in 0 .. n : g[j] = IF j = n THEN LastColumn(Q) ELSE HdpcColumn(Q, g[j + 1], j)
    BY <1>7 DEF HdpcIs
  <2> HIDE DEF g, n
  <2>2. g[n] \in V
    BY <1>1, <1>2, <2>1
  <2>3. ASSUME NEW j \in 0 .. n - 1, g[j + 1] \in V PROVE g[j] \in V
    <3>1. j \in 0 .. n /\ j # n
      BY <1>1
    <3> QED BY <1>3, <2>1, <2>3, <3>1
  <2>4. DP!StaysDown(g, n, V)
    BY <2>2, <2>3 DEF DP!StaysDown
  <2> QED BY <1>1, <2>4, DP!DownType DEF g
<1> QED BY <1>7, <1>8 DEF V

(* The HDPC rows do not depend on the memory they are written into, and    *)
(* are rows of octets.                                                     *)
LEMMA HdpcGenerated ==
  ASSUME NEW Q, SizesAre(Q), NEW m, DOMAIN m = 0 .. Q.H - 1,
         \A r \in 0 .. Q.H - 1 : DOMAIN m[r] = 0 .. Q.L - 1
  PROVE  hdpc_generate_mat(Q, m) = HdpcRows(Q)
<1> DEFINE g == CHOOSE g : g = [j \in 0 .. (Q.Kprime + Q.S) - 1 |->
                 IF j = (Q.Kprime + Q.S) - 1 THEN LastColumn(Q)
                 ELSE NextColumn(Q, g[j + 1], ColumnOf(m, j), j)]
           raw == [r \in DOMAIN m |-> [c \in DOMAIN m[r] |-> IF c < Q.Kprime + Q.S THEN g[c][r] ELSE m[r][c]]]
<1>1. g = FastColumns(Q)
  BY DEF FastColumns, HdpcIs, HdpcColumn, HdpcD, NextColumn
<1>2. hdpc_generate_mat(Q, m) = WithIdentity(Q, raw)
  BY DEF hdpc_generate_mat
<1> HIDE DEF g
<1>3. raw = [r \in 0 .. Q.H - 1 |-> [c \in 0 .. Q.L - 1 |-> IF c < Q.Kprime + Q.S THEN g[c][r] ELSE m[r][c]]]
  OBVIOUS
<1> HIDE DEF raw
<1>4. WithIdentity(Q, raw) = [r \in 0 .. Q.H - 1 |-> [c \in 0 .. Q.L - 1 |->
        IF c < Q.Kprime + Q.S THEN raw[r][c] ELSE IdentityColumn(Q, c)[r]]]
  BY <1>3 DEF WithIdentity
<1>5. \A r \in 0 .. Q.H - 1, c \in 0 .. Q.L - 1 :
        c < Q.Kprime + Q.S => raw[r][c] = FastColumns(Q)[c][r]
  BY <1>1, <1>3
<1> QED BY <1>2, <1>4, <1>5 DEF HdpcRows, HdpcD

(* The HDPC rows are octets. *)
LEMMA HdpcType ==
  ASSUME NEW Q, SizesAre(Q)
  PROVE  HdpcRows(Q) \in [0 .. Q.H - 1 -> [0 .. Q.L - 1 -> GF256]]
<1>1. 0 \in GF256 /\ 1 \in GF256 /\ Q.L \in Int /\ HdpcD(Q) \in Int
  BY DEF SizesAre, GF256, HdpcD
<1>2. ASSUME NEW r \in 0 .. Q.H - 1, NEW c \in 0 .. Q.L - 1
      PROVE  (IF c < HdpcD(Q) THEN FastColumns(Q)[c][r] ELSE IdentityColumn(Q, c)[r]) \in GF256
  <2>1. CASE c < HdpcD(Q)
    <3>1. c \in 0 .. HdpcD(Q) - 1
      BY <1>1, <2>1
    <3>2. FastColumns(Q)[c] \in [0 .. Q.H - 1 -> GF256]
      BY <3>1, HdpcColumnsAre
    <3> QED BY <2>1, <3>2
  <2>2. CASE ~(c < HdpcD(Q))
    BY <1>1, <2>2 DEF IdentityColumn
  <2> QED BY <2>1, <2>2
<1> QED BY <1>2 DEF HdpcRows


(* The powers of 2 do not depend on how many are computed.                 *)
LEMMA PowersAgree ==
  ASSUME NEW n \in Nat, NEW m \in Nat
  PROVE  \A j \in 0 .. n : j <= m => PowersOf2(n)[j] = PowersOf2(m)[j]
<1> DEFINE u == PowersOf2(n)
           w == PowersOf2(m)
           S == {j \in Nat : j <= n /\ j <= m => u[j] = w[j]}
<1>1. /\ u[0] = 1 /\ \A j \in 0 .. n - 1 : u[j + 1] = gf256_mul(u[j], 2)
      /\ w[0] = 1 /\ \A j \in 0 .. m - 1 : w[j + 1] = gf256_mul(w[j], 2)
  BY PowersType
<1> HIDE DEF u, w
<1>2. 0 \in S
  BY <1>1
<1>3. ASSUME NEW j \in Nat, j \in S PROVE j + 1 \in S
  <2> SUFFICES ASSUME j + 1 <= n, j + 1 <= m PROVE u[j + 1] = w[j + 1]
    OBVIOUS
  <2>1. j \in 0 .. n - 1 /\ j \in 0 .. m - 1 /\ u[j] = w[j]
    BY <1>3
  <2> QED BY <1>1, <2>1
<1>4. \A j \in Nat : j \in S
  <2> HIDE DEF S
  <2> QED BY <1>2, <1>3, DP!NatSet
<1> QED BY <1>4 DEF u, w

(* Entry r of column c of the product of MT and GAMMA, by the sums from    *)
(* the right.                                                              *)
MTEntry(Q, r, j) == MT(Q, PowersOf2(HdpcD(Q)), r, j)
DotIs(Q, s, r, c) ==
  s = [j \in c .. HdpcD(Q) |->
         IF j = HdpcD(Q) THEN 0
         ELSE gf256_add(s[j + 1], gf256_mul(MTEntry(Q, r, j), PowersOf2(HdpcD(Q))[j - c]))]
Dots(Q, r, c) == CHOOSE s : DotIs(Q, s, r, c)

LEMMA MTValues ==
  ASSUME NEW Q, SizesAre(Q), NEW r \in 0 .. Q.H - 1
  PROVE  /\ MTEntry(Q, r, HdpcD(Q) - 1) = PowersOf2(HdpcD(Q))[r]
         /\ \A j \in 0 .. HdpcD(Q) - 2 : MTEntry(Q, r, j) = IF r \in Flipped(Q, j) THEN 1 ELSE 0
<1>1. Q.Kprime \in Nat /\ Q.S \in Nat
  BY DEF SizesAre
<1>2. HdpcD(Q) - 1 = Q.Kprime + Q.S - 1 /\ \A j \in 0 .. HdpcD(Q) - 2 : j # Q.Kprime + Q.S - 1
  BY <1>1 DEF HdpcD
<1>3. MTEntry(Q, r, HdpcD(Q) - 1) = PowersOf2(HdpcD(Q))[r]
  BY <1>2, Zenon DEF MTEntry, MT
<1>4. ASSUME NEW j \in 0 .. HdpcD(Q) - 2
      PROVE  MTEntry(Q, r, j) = IF r \in Flipped(Q, j) THEN 1 ELSE 0
  BY <1>2, Zenon DEF MTEntry, MT
<1> QED BY <1>3, <1>4

LEMMA MTType ==
  ASSUME NEW Q, SizesAre(Q), NEW r \in 0 .. Q.H - 1, NEW j
  PROVE  MTEntry(Q, r, j) \in GF256
<1>1. HdpcD(Q) \in Nat /\ Q.H \in Nat /\ 0 \in GF256 /\ 1 \in GF256
  BY DEF SizesAre, HdpcD, GF256
<1>2. PowersOf2(HdpcD(Q)) \in [0 .. HdpcD(Q) -> GF256]
  BY <1>1, PowersType
<1>3. r \in 0 .. HdpcD(Q)
  BY DEF SizesAre, HdpcD
<1>4. PowersOf2(HdpcD(Q))[r] \in GF256
  BY <1>2, <1>3
<1> QED BY <1>1, <1>4 DEF MTEntry, MT

(* The sums satisfy their recurrence. *)
LEMMA DotsAre ==
  ASSUME NEW Q, SizesAre(Q), NEW r \in 0 .. Q.H - 1, NEW c \in 0 .. HdpcD(Q) - 1
  PROVE  /\ Dots(Q, r, c)[HdpcD(Q)] = 0
         /\ \A j \in c .. HdpcD(Q) - 1 :
              Dots(Q, r, c)[j] = gf256_add(Dots(Q, r, c)[j + 1],
                                        gf256_mul(MTEntry(Q, r, j), PowersOf2(HdpcD(Q))[j - c]))
         /\ \A j \in c .. HdpcD(Q) : Dots(Q, r, c)[j] \in GF256
<1> DEFINE d == HdpcD(Q)
           n == d - c
           p == PowersOf2(HdpcD(Q))
           G == [w \in GF256 \X (0 .. n - 1) |->
                   gf256_add(w[1], gf256_mul(MTEntry(Q, r, w[2] + c), p[w[2]]))]
<1>1. d \in Nat /\ n \in Nat /\ 0 \in GF256 /\ c \in Nat
  BY DEF SizesAre, HdpcD, GF256
<1>2. \A j \in 0 .. n : p[j] \in GF256
  <2>1. p \in [0 .. d -> GF256]
    BY <1>1, PowersType
  <2> HIDE DEF p, d
  <2>2. \A j \in 0 .. n : j \in 0 .. d
    BY <1>1
  <2> QED BY <2>1, <2>2
<1> HIDE DEF d, p
<1>3. G \in [GF256 \X (0 .. n - 1) -> GF256]
  <2>1. ASSUME NEW w \in GF256 \X (0 .. n - 1)
        PROVE  gf256_add(w[1], gf256_mul(MTEntry(Q, r, w[2] + c), p[w[2]])) \in GF256
    <3>1. w[1] \in GF256 /\ w[2] \in 0 .. n - 1
      OBVIOUS
    <3>2. w[2] \in 0 .. n
      BY <1>1, <3>1
    <3>3. p[w[2]] \in GF256 /\ MTEntry(Q, r, w[2] + c) \in GF256
      BY <1>2, <3>2, MTType
    <3>4. gf256_mul(MTEntry(Q, r, w[2] + c), p[w[2]]) \in GF256
      BY <3>3, MulLaws
    <3> QED BY <3>1, <3>4, AddLaws
  <2> QED BY <2>1
<1>4. \A v \in GF256, j \in 0 .. n - 1 :
        G[<<v, j>>] = gf256_add(v, gf256_mul(MTEntry(Q, r, j + c), p[j]))
  OBVIOUS
<1> HIDE DEF G
<1>5. PICK t \in [0 .. n -> GF256] : DP!IsDown(t, 0, n, G)
  <2> HIDE DEF n
  <2> QED BY <1>1, <1>3, DP!DownExists
<1> DEFINE s == [j \in c .. d |-> t[j - c]]
<1>6. ASSUME NEW j \in c .. d
      PROVE  s[j] = IF j = d THEN 0 ELSE gf256_add(s[j + 1], gf256_mul(MTEntry(Q, r, j), p[j - c]))
  <2>1. j - c \in 0 .. n /\ (j - c) + c = j /\ s[j] = t[j - c] /\ (j = d <=> j - c = n)
    BY <1>1
  <2>2. t[j - c] = IF j - c = n THEN 0 ELSE G[<<t[(j - c) + 1], j - c>>]
    <3> HIDE DEF n
    <3> QED BY <1>5, <2>1 DEF DP!IsDown
  <2>3. CASE j = d
    BY <2>1, <2>2, <2>3
  <2>4. CASE j # d
    <3>1. j - c \in 0 .. n - 1 /\ (j - c) + 1 \in 0 .. n /\ j + 1 \in c .. d /\ (j + 1) - c = (j - c) + 1
      BY <1>1, <2>4
    <3>2. s[j + 1] = t[(j - c) + 1] /\ t[(j - c) + 1] \in GF256
      BY <3>1
    <3>3. G[<<t[(j - c) + 1], j - c>>] =
            gf256_add(t[(j - c) + 1], gf256_mul(MTEntry(Q, r, (j - c) + c), p[j - c]))
      BY <1>4, <3>1, <3>2
    <3> HIDE DEF s, n
    <3> QED BY <2>1, <2>2, <2>4, <3>2, <3>3
  <2> QED BY <2>3, <2>4
<1>7. DotIs(Q, s, r, c)
  BY <1>6 DEF DotIs, d, p
<1> HIDE DEF s, n
<1>8. DotIs(Q, Dots(Q, r, c), r, c)
  BY <1>7 DEF Dots
<1> DEFINE u == Dots(Q, r, c)
<1>9. \A j \in c .. d : u[j] = IF j = d THEN 0
                               ELSE gf256_add(u[j + 1], gf256_mul(MTEntry(Q, r, j), p[j - c]))
  BY <1>8 DEF DotIs, d, p
<1> HIDE DEF u
<1>10. /\ u[d] = 0
       /\ \A j \in c .. d - 1 : u[j] = gf256_add(u[j + 1], gf256_mul(MTEntry(Q, r, j), p[j - c]))
  <2>1. d \in c .. d /\ \A j \in c .. d - 1 : j \in c .. d /\ j # d
    BY <1>1 DEF d
  <2> QED BY <1>9, <2>1
<1> DEFINE V == {j \in Nat : j <= d - c => u[d - j] \in GF256}
<1>11. 0 \in V
  BY <1>1, <1>10
<1>12. ASSUME NEW j \in Nat, j \in V PROVE j + 1 \in V
  <2> SUFFICES ASSUME j + 1 <= d - c PROVE u[d - (j + 1)] \in GF256
    OBVIOUS
  <2>1. /\ d - (j + 1) \in c .. d - 1 /\ (d - (j + 1)) + 1 = d - j /\ u[d - j] \in GF256
        /\ (d - (j + 1)) - c \in 0 .. n
    BY <1>1, <1>12 DEF n
  <2>2. u[d - (j + 1)] = gf256_add(u[d - j], gf256_mul(MTEntry(Q, r, d - (j + 1)), p[(d - (j + 1)) - c]))
    BY <1>10, <2>1
  <2>3. p[(d - (j + 1)) - c] \in GF256 /\ MTEntry(Q, r, d - (j + 1)) \in GF256
    BY <1>2, <2>1, MTType
  <2>4. gf256_mul(MTEntry(Q, r, d - (j + 1)), p[(d - (j + 1)) - c]) \in GF256
    BY <2>3, MulLaws
  <2> QED BY <2>1, <2>2, <2>4, AddLaws
<1>13. \A j \in Nat : j \in V
  <2> HIDE DEF V
  <2> QED BY <1>11, <1>12, DP!NatSet
<1>14. \A j \in c .. d : u[j] \in GF256
  <2> SUFFICES ASSUME NEW j \in c .. d PROVE u[j] \in GF256
    OBVIOUS
  <2>1. d - j \in Nat /\ d - j <= d - c /\ d - (d - j) = j
    BY <1>1
  <2> QED BY <1>13, <2>1
<1> QED BY <1>10, <1>14 DEF u, d, p

(* Moving one column to the left doubles the sum from any entry on: every  *)
(* power of 2 in the column of GAMMA is one higher.                        *)
LEMMA DotsDouble ==
  ASSUME NEW Q, SizesAre(Q), NEW r \in 0 .. Q.H - 1, NEW c \in 0 .. HdpcD(Q) - 2
  PROVE  \A j \in c + 1 .. HdpcD(Q) : Dots(Q, r, c)[j] = gf256_mul(2, Dots(Q, r, c + 1)[j])
<1> DEFINE d == HdpcD(Q)
           p == PowersOf2(HdpcD(Q))
           u == Dots(Q, r, c)
           w == Dots(Q, r, c + 1)
<1>1. d \in Nat /\ c \in Nat /\ c \in 0 .. d - 1 /\ c + 1 \in 0 .. d - 1 /\ 2 \in GF256 /\ 0 \in GF256
  BY DEF SizesAre, HdpcD, GF256
<1>2. /\ u[d] = 0 /\ w[d] = 0
      /\ \A j \in c .. d - 1 : u[j] = gf256_add(u[j + 1], gf256_mul(MTEntry(Q, r, j), p[j - c]))
      /\ \A j \in c + 1 .. d - 1 : w[j] = gf256_add(w[j + 1], gf256_mul(MTEntry(Q, r, j), p[j - (c + 1)]))
      /\ \A j \in c + 1 .. d : w[j] \in GF256
  BY <1>1, DotsAre
<1>3. /\ \A j \in 0 .. d : p[j] \in GF256
      /\ \A j \in 0 .. d - 1 : p[j + 1] = gf256_mul(p[j], 2)
  BY <1>1, PowersType
<1> HIDE DEF d, p, u, w
<1> DEFINE S == {j \in Nat : j <= d - (c + 1) => u[d - j] = gf256_mul(2, w[d - j])}
<1>4. 0 \in S
  <2>1. gf256_mul(2, 0) = 0
    BY <1>1, MulZero
  <2> QED BY <1>1, <1>2, <2>1
<1>5. ASSUME NEW j \in Nat, j \in S PROVE j + 1 \in S
  <2> SUFFICES ASSUME j + 1 <= d - (c + 1) PROVE u[d - (j + 1)] = gf256_mul(2, w[d - (j + 1)])
    OBVIOUS
  <2> DEFINE b == d - (j + 1)
             o == b - (c + 1)
  <2>1. /\ b \in c .. d - 1 /\ b \in c + 1 .. d - 1 /\ b + 1 = d - j /\ b + 1 \in c + 1 .. d
        /\ o \in 0 .. d - 1 /\ o \in 0 .. d /\ o + 1 = b - c
        /\ u[d - j] = gf256_mul(2, w[d - j])
    BY <1>1, <1>5
  <2> HIDE DEF b
  <2>2. /\ u[b] = gf256_add(u[b + 1], gf256_mul(MTEntry(Q, r, b), p[b - c]))
        /\ w[b] = gf256_add(w[b + 1], gf256_mul(MTEntry(Q, r, b), p[o]))
    BY <1>2, <2>1
  <2> HIDE DEF o
  <2>3. /\ p[b - c] = gf256_mul(p[o], 2) /\ p[o] \in GF256
    BY <1>3, <2>1
  <2>4. MTEntry(Q, r, b) \in GF256 /\ w[b + 1] \in GF256
    BY <1>2, <2>1, MTType
  <2>5. gf256_mul(MTEntry(Q, r, b), gf256_mul(p[o], 2)) = gf256_mul(2, gf256_mul(MTEntry(Q, r, b), p[o]))
    <3>0. \A a1, a2, a3 \in GF256 : gf256_mul(a1, gf256_mul(a2, a3)) = gf256_mul(gf256_mul(a1, a2), a3)
      BY MulLaws
    <3> DEFINE a1 == MTEntry(Q, r, b)
               a2 == p[o]
    <3>1. a1 \in GF256 /\ a2 \in GF256 /\ gf256_mul(a1, a2) \in GF256
      BY <2>3, <2>4, MulLaws
    <3> HIDE DEF a1, a2
    <3>2. gf256_mul(a1, gf256_mul(a2, 2)) = gf256_mul(gf256_mul(a1, a2), 2)
      BY <1>1, <3>0, <3>1
    <3>3. gf256_mul(gf256_mul(a1, a2), 2) = gf256_mul(2, gf256_mul(a1, a2))
      BY <1>1, <3>1, MulLaws
    <3>4. gf256_mul(a1, gf256_mul(a2, 2)) = gf256_mul(2, gf256_mul(a1, a2))
      BY <3>2, <3>3
    <3> QED BY <3>4 DEF a1, a2
  <2>6. gf256_mul(2, gf256_add(w[b + 1], gf256_mul(MTEntry(Q, r, b), p[o])))
          = gf256_add(gf256_mul(2, w[b + 1]), gf256_mul(2, gf256_mul(MTEntry(Q, r, b), p[o])))
    <3>1. gf256_mul(MTEntry(Q, r, b), p[o]) \in GF256
      BY <2>3, <2>4, MulLaws
    <3> QED BY <1>1, <2>4, <3>1, DistributesAll DEF Distributes
  <2>7. u[b] = gf256_mul(2, w[b])
    BY <2>1, <2>2, <2>3, <2>5, <2>6
  <2> QED BY <2>7 DEF b
<1>6. \A j \in Nat : j \in S
  <2> HIDE DEF S
  <2> QED BY <1>4, <1>5, DP!NatSet
<1>7. \A j \in c + 1 .. d : u[j] = gf256_mul(2, w[j])
  <2> SUFFICES ASSUME NEW j \in c + 1 .. d PROVE u[j] = gf256_mul(2, w[j])
    OBVIOUS
  <2>1. d - j \in Nat /\ d - j <= d - (c + 1) /\ d - (d - j) = j
    BY <1>1
  <2> QED BY <1>6, <2>1
<1> QED BY <1>7 DEF d, u, w

(* So each column of the product is the one the fast generator makes.      *)
LEMMA ColumnsExact ==
  ASSUME NEW Q, SizesAre(Q)
  PROVE  \A c \in 0 .. HdpcD(Q) - 1, r \in 0 .. Q.H - 1 : FastColumns(Q)[c][r] = Dots(Q, r, c)[c]
<1> DEFINE d == HdpcD(Q)
           p == PowersOf2(HdpcD(Q))
           g == FastColumns(Q)
           S == {j \in Nat : j <= d - 1 => \A r \in 0 .. Q.H - 1 : g[d - 1 - j][r] = Dots(Q, r, d - 1 - j)[d - 1 - j]}
<1>1. d \in Nat /\ d - 1 \in Nat /\ Q.H \in Nat /\ Q.H <= d /\ 0 \in GF256 /\ 1 \in GF256 /\ 2 \in GF256
  BY DEF SizesAre, HdpcD, GF256
<1>2. /\ p[0] = 1 /\ \A j \in 0 .. d : p[j] \in GF256
  BY <1>1, PowersType
<1>3. /\ \A c \in 0 .. d - 1 : g[c] = IF c = d - 1 THEN LastColumn(Q) ELSE HdpcColumn(Q, g[c + 1], c)
      /\ \A c \in 0 .. d - 1 : g[c] \in [0 .. Q.H - 1 -> GF256]
  BY HdpcColumnsAre DEF HdpcIs
<1> HIDE DEF d, p, g
<1>4. ASSUME NEW r \in 0 .. Q.H - 1, NEW c \in 0 .. d - 1
      PROVE  /\ Dots(Q, r, c)[c] = gf256_add(Dots(Q, r, c)[c + 1], MTEntry(Q, r, c))
             /\ Dots(Q, r, c)[c + 1] \in GF256 /\ Dots(Q, r, c)[d] = 0
  <2>1. c \in c .. d - 1 /\ c - c = 0 /\ c + 1 \in c .. d
    BY <1>1
  <2>2. gf256_mul(MTEntry(Q, r, c), p[0]) = MTEntry(Q, r, c)
    <3>1. MTEntry(Q, r, c) \in GF256
      BY MTType
    <3>2. gf256_mul(MTEntry(Q, r, c), 1) = gf256_mul(1, MTEntry(Q, r, c)) /\ gf256_mul(1, MTEntry(Q, r, c)) = MTEntry(Q, r, c)
      BY <1>1, <3>1, MulLaws
    <3> QED BY <1>2, <3>2
  <2>3. /\ Dots(Q, r, c)[c] = gf256_add(Dots(Q, r, c)[c + 1], gf256_mul(MTEntry(Q, r, c), p[c - c]))
        /\ Dots(Q, r, c)[c + 1] \in GF256 /\ Dots(Q, r, c)[d] = 0
    BY <2>1, DotsAre DEF d, p
  <2> QED BY <2>1, <2>2, <2>3
<1>5. 0 \in S
  <2>1. ASSUME NEW r \in 0 .. Q.H - 1
        PROVE  g[d - 1][r] = Dots(Q, r, d - 1)[d - 1]
    <3>1. d - 1 \in 0 .. d - 1 /\ (d - 1) + 1 = d /\ r \in 0 .. d /\ r \in 0 .. Q.H /\ r <= d
      BY <1>1
    <3>2. Dots(Q, r, d - 1)[d - 1] = gf256_add(0, MTEntry(Q, r, d - 1))
      BY <1>4, <3>1
    <3>3. MTEntry(Q, r, d - 1) = p[r]
      BY MTValues DEF d, p
    <3>4. gf256_add(0, p[r]) = p[r]
      BY <1>1, <1>2, <3>1, AddLaws
    <3>5. g[d - 1][r] = PowersOf2(Q.H)[r]
      BY <1>3, <3>1 DEF LastColumn
    <3>6. PowersOf2(Q.H)[r] = p[r]
      BY <1>1, <3>1, PowersAgree DEF p, d
    <3> QED BY <3>2, <3>3, <3>4, <3>5, <3>6
  <2> QED BY <1>1, <2>1
<1>6. ASSUME NEW j \in Nat, j \in S PROVE j + 1 \in S
  <2> SUFFICES ASSUME j + 1 <= d - 1, NEW r \in 0 .. Q.H - 1
               PROVE  g[d - 1 - (j + 1)][r] = Dots(Q, r, d - 1 - (j + 1))[d - 1 - (j + 1)]
    OBVIOUS
  <2> DEFINE c == d - 1 - (j + 1)
  <2>1. c \in 0 .. d - 2 /\ c \in 0 .. d - 1 /\ c # d - 1 /\ c + 1 = d - 1 - j /\ c + 1 \in c + 1 .. d
        /\ c + 1 \in 0 .. d - 1
    BY <1>1
  <2>2. g[c + 1][r] = Dots(Q, r, c + 1)[c + 1]
    <3>1. \A q \in 0 .. Q.H - 1 : g[d - 1 - j][q] = Dots(Q, q, d - 1 - j)[d - 1 - j]
      BY <1>1, <1>6
    <3>2. g[d - 1 - j][r] = Dots(Q, r, d - 1 - j)[d - 1 - j]
      BY <3>1
    <3>3. c + 1 = d - 1 - j
      BY <2>1
    <3> HIDE DEF c
    <3> QED BY <3>2, <3>3, Zenon
  <2> HIDE DEF c
  <2>3. Dots(Q, r, c)[c + 1] = gf256_mul(2, Dots(Q, r, c + 1)[c + 1])
    BY <2>1, DotsDouble DEF d
  <2>4. MTEntry(Q, r, c) = IF r \in Flipped(Q, c) THEN 1 ELSE 0
    BY <2>1, MTValues DEF d
  <2>5. g[c][r] = gf256_add(IF r \in Flipped(Q, c) THEN 1 ELSE 0, gf256_mul(2, g[c + 1][r]))
    <3>1. g[c] = HdpcColumn(Q, g[c + 1], c)
      BY <1>3, <2>1
    <3> QED BY <3>1 DEF HdpcColumn
  <2>6. Dots(Q, r, c)[c] = gf256_add(Dots(Q, r, c)[c + 1], MTEntry(Q, r, c)) /\ Dots(Q, r, c)[c + 1] \in GF256
    BY <1>4, <2>1
  <2>7. MTEntry(Q, r, c) \in GF256
    BY MTType
  <2>8. gf256_add(Dots(Q, r, c)[c + 1], MTEntry(Q, r, c)) = gf256_add(MTEntry(Q, r, c), Dots(Q, r, c)[c + 1])
    BY <2>6, <2>7, AddLaws
  <2>9. g[c][r] = Dots(Q, r, c)[c]
    BY <2>2, <2>3, <2>4, <2>5, <2>6, <2>8
  <2> QED BY <2>9 DEF c
<1>7. \A j \in Nat : j \in S
  <2> HIDE DEF S
  <2> QED BY <1>5, <1>6, DP!NatSet
<1>8. ASSUME NEW c \in 0 .. d - 1, NEW r \in 0 .. Q.H - 1 PROVE g[c][r] = Dots(Q, r, c)[c]
  <2>1. d - 1 - c \in Nat /\ d - 1 - c <= d - 1 /\ d - 1 - (d - 1 - c) = c
    BY <1>1
  <2> QED BY <1>7, <2>1
<1> QED BY <1>8 DEF d, g

LEMMA ExactIsFast ==
  ASSUME NEW Q, SizesAre(Q), NEW c \in 0 .. HdpcD(Q) - 1, NEW r \in 0 .. Q.H - 1
  PROVE  ExactColumn(Q, c)[r] = FastColumns(Q)[c][r]
<1>1. ExactColumn(Q, c)[r] = Dots(Q, r, c)[c]
  BY DEF ExactColumn, Dots, DotIs, MTEntry, HdpcD
<1> QED BY <1>1, ColumnsExact

LEMMA ExactRows ==
  ASSUME NEW Q, SizesAre(Q)
  PROVE  hdpc_generate_mat_specexact(Q) = HdpcRows(Q)
<1>1. HdpcD(Q) \in Nat /\ Q.L \in Nat
  BY DEF SizesAre, HdpcD
<1>2. ASSUME NEW c \in 0 .. Q.L - 1, NEW r \in 0 .. Q.H - 1
      PROVE  (IF c < HdpcD(Q) THEN ExactColumn(Q, c) ELSE IdentityColumn(Q, c))[r]
               = IF c < HdpcD(Q) THEN FastColumns(Q)[c][r] ELSE IdentityColumn(Q, c)[r]
  <2>1. c < HdpcD(Q) => c \in 0 .. HdpcD(Q) - 1
    BY <1>1
  <2> QED BY <2>1, ExactIsFast
<1>3. hdpc_generate_mat_specexact(Q) =
        [r \in 0 .. Q.H - 1 |-> [c \in 0 .. Q.L - 1 |->
           (IF c < HdpcD(Q) THEN ExactColumn(Q, c) ELSE IdentityColumn(Q, c))[r]]]
  BY DEF hdpc_generate_mat_specexact, HdpcD
<1> QED BY <1>2, <1>3 DEF HdpcRows

(* hdpc_generate_mat_faster makes the matrix that the specification gives  *)
(* as MT * GAMMA, for every block and over whatever memory.                *)
THEOREM FastHdpcIsExact ==
  ASSUME NEW b \in Nat, parameters_get(b).K = b,
         NEW m, DOMAIN m = 0 .. parameters_get(b).H - 1,
         \A r \in 0 .. parameters_get(b).H - 1 : DOMAIN m[r] = 0 .. parameters_get(b).L - 1
  PROVE  hdpc_generate_mat(parameters_get(b), m) = hdpc_generate_mat_specexact(parameters_get(b))
<1> DEFINE Q == parameters_get(b)
<1>1. SizesAre(Q)
  BY SupportedSizes
<1> HIDE DEF Q
<1>2. hdpc_generate_mat(Q, m) = HdpcRows(Q)
  <2>1. DOMAIN m = 0 .. Q.H - 1 /\ \A r \in 0 .. Q.H - 1 : DOMAIN m[r] = 0 .. Q.L - 1
    BY DEF Q
  <2> QED BY <1>1, <2>1, HdpcGenerated
<1> QED BY <1>1, <1>2, ExactRows DEF Q

(* The same column by column, over memory full of any one octet, for the   *)
(* block that a behaviour starts with.                                     *)
HdpcAt(Q) ==
  /\ params = Q
  /\ at \in {"columns", "done"} /\ col \in 0 .. HdpcD(Q) - 1
  /\ part = [r \in 0 .. Q.H - 1 |-> [c \in 0 .. Q.L - 1 |-> part[r][c]]]
  /\ \A r \in 0 .. Q.H - 1, c \in 0 .. Q.L - 1 :
       c >= col /\ c < HdpcD(Q) => part[r][c] = FastColumns(Q)[c][r]
  /\ at = "done" => col = 0 /\ part = HdpcRows(Q)

HdpcInv == \E b \in Blocks : HdpcAt(parameters_get(b))

LEMMA HdpcSizes ==
  ASSUME NEW Q, SizesAre(Q)
  PROVE  /\ HdpcD(Q) \in Nat /\ HdpcD(Q) >= 1 /\ Q.H \in Nat /\ Q.L \in Nat /\ HdpcD(Q) <= Q.L
         /\ Q.Kprime + Q.S = HdpcD(Q) /\ Q.Kprime + Q.S - 1 = HdpcD(Q) - 1
BY DEF SizesAre, HdpcD

(* The columns of the fast generator, each from the one right of it.       *)
LEMMA FastColumnIs ==
  ASSUME NEW Q, SizesAre(Q), NEW c \in 0 .. HdpcD(Q) - 1
  PROVE  FastColumns(Q)[c] = IF c = HdpcD(Q) - 1 THEN LastColumn(Q) ELSE HdpcColumn(Q, FastColumns(Q)[c + 1], c)
BY HdpcColumnsAre DEF HdpcIs

LEMMA HdpcStarts == HdpcInit => HdpcInv
<1> SUFFICES ASSUME HdpcInit PROVE HdpcInv
  OBVIOUS
<1>1. PICK b \in Blocks, x \in Leftovers :
          /\ params = parameters_get(b)
          /\ part = PutColumn([r \in 0 .. params.H - 1 |-> [c \in 0 .. params.L - 1 |-> x]],
                              params.Kprime + params.S - 1, LastColumn(params))
          /\ col = params.Kprime + params.S - 1
          /\ at = "columns"
  BY DEF HdpcInit
<1> DEFINE Q == parameters_get(b)
<1>2. SizesAre(Q)
  BY HdpcAssumption, SupportedSizes
<1> HIDE DEF Q
<1> SUFFICES HdpcAt(Q)
  BY DEF HdpcInv, Q
<1>3. /\ params = Q
      /\ part = PutColumn([r \in 0 .. Q.H - 1 |-> [c \in 0 .. Q.L - 1 |-> x]],
                          HdpcD(Q) - 1, LastColumn(Q))
      /\ col = HdpcD(Q) - 1 /\ at = "columns"
  <2>1. params = Q
    BY <1>1 DEF Q
  <2>2. Q.Kprime + Q.S - 1 = HdpcD(Q) - 1
    BY <1>2, HdpcSizes
  <2> QED BY <1>1, <2>1, <2>2, Zenon
<1>4. part = [r \in 0 .. Q.H - 1 |-> [c \in 0 .. Q.L - 1 |->
               IF c = HdpcD(Q) - 1 THEN LastColumn(Q)[r] ELSE x]]
  BY <1>3 DEF PutColumn
<1>5. HdpcD(Q) - 1 \in 0 .. HdpcD(Q) - 1 /\ \A c \in 0 .. Q.L - 1 : c >= HdpcD(Q) - 1 /\ c < HdpcD(Q) => c = HdpcD(Q) - 1
  BY <1>2, HdpcSizes
<1>6. FastColumns(Q)[HdpcD(Q) - 1] = LastColumn(Q)
  BY <1>5, <1>2, FastColumnIs
<1>7. part = [r \in 0 .. Q.H - 1 |-> [c \in 0 .. Q.L - 1 |-> part[r][c]]]
  BY <1>4
<1>8. ASSUME NEW r \in 0 .. Q.H - 1, NEW c \in 0 .. Q.L - 1, c >= col, c < HdpcD(Q)
      PROVE  part[r][c] = FastColumns(Q)[c][r]
  <2>1. c = HdpcD(Q) - 1
    BY <1>3, <1>5, <1>8
  <2>2. part[r][c] = LastColumn(Q)[r]
    BY <1>4, <2>1
  <2> QED BY <1>6, <2>1, <2>2
<1> QED BY <1>3, <1>5, <1>7, <1>8 DEF HdpcAt

LEMMA ColumnKeeps ==
  ASSUME NEW Q, SizesAre(Q), HdpcAt(Q), Column
  PROVE  HdpcAt(Q)'
<1> DEFINE new == HdpcColumn(Q, FastColumns(Q)[col], col - 1)
<1>1. /\ params = Q /\ col \in 1 .. HdpcD(Q) - 1 /\ at = "columns"
      /\ part = [r \in 0 .. Q.H - 1 |-> [c \in 0 .. Q.L - 1 |-> part[r][c]]]
      /\ params' = Q /\ col' = col - 1 /\ at' = "columns"
      /\ part' = PutColumn(part, col - 1,
                          NextColumn(Q, ColumnOf(part, col), ColumnOf(part, col - 1), col - 1))
  BY HdpcSizes DEF HdpcAt, Column
<1>2. NextColumn(Q, ColumnOf(part, col), ColumnOf(part, col - 1), col - 1) = new
  <2>1. \A r \in 0 .. Q.H - 1 : ColumnOf(part, col)[r] = FastColumns(Q)[col][r]
    <3>1. col \in 0 .. Q.L - 1 /\ col >= col /\ col < HdpcD(Q)
      BY <1>1, HdpcSizes
    <3>2. \A r \in 0 .. Q.H - 1 : ColumnOf(part, col)[r] = part[r][col]
      BY <1>1 DEF ColumnOf
    <3> QED BY <3>1, <3>2 DEF HdpcAt
  <2> QED BY <2>1 DEF NextColumn, HdpcColumn
<1>3. new = FastColumns(Q)[col - 1]
  <2>1. col - 1 \in 0 .. HdpcD(Q) - 1 /\ col - 1 # HdpcD(Q) - 1 /\ (col - 1) + 1 = col
    BY <1>1, HdpcSizes
  <2> QED BY <2>1, FastColumnIs
<1> HIDE DEF new
<1>4. part' = [r \in 0 .. Q.H - 1 |-> [c \in 0 .. Q.L - 1 |->
                IF c = col - 1 THEN FastColumns(Q)[col - 1][r] ELSE part[r][c]]]
  BY <1>1, <1>2, <1>3 DEF PutColumn
<1>5. part' = [r \in 0 .. Q.H - 1 |-> [c \in 0 .. Q.L - 1 |-> part'[r][c]]]
  BY <1>4
<1>6. ASSUME NEW r \in 0 .. Q.H - 1, NEW c \in 0 .. Q.L - 1, c >= col - 1, c < HdpcD(Q)
      PROVE  part'[r][c] = FastColumns(Q)[c][r]
  <2>1. CASE c = col - 1
    BY <1>4, <2>1
  <2>2. CASE c # col - 1
    <3>1. c >= col
      BY <1>1, <1>6, <2>2, HdpcSizes
    <3>2. part[r][c] = FastColumns(Q)[c][r]
      BY <1>6, <3>1 DEF HdpcAt
    <3> QED BY <1>4, <2>2, <3>2
  <2> QED BY <2>1, <2>2
<1>7. col' \in 0 .. HdpcD(Q) - 1
  BY <1>1, HdpcSizes
<1> QED BY <1>1, <1>5, <1>6, <1>7 DEF HdpcAt

LEMMA IdentityKeeps ==
  ASSUME NEW Q, SizesAre(Q), HdpcAt(Q), AddIdentity
  PROVE  HdpcAt(Q)'
<1>1. /\ params = Q /\ col = 0 /\ params' = Q /\ col' = 0 /\ at' = "done"
      /\ part = [r \in 0 .. Q.H - 1 |-> [c \in 0 .. Q.L - 1 |-> part[r][c]]]
      /\ part' = WithIdentity(Q, part)
  BY DEF HdpcAt, AddIdentity
<1>2. part' = [r \in 0 .. Q.H - 1 |-> [c \in 0 .. Q.L - 1 |->
                IF c < HdpcD(Q) THEN part[r][c] ELSE IdentityColumn(Q, c)[r]]]
  BY <1>1, HdpcSizes DEF WithIdentity
<1>3. ASSUME NEW r \in 0 .. Q.H - 1, NEW c \in 0 .. Q.L - 1, c < HdpcD(Q)
      PROVE  part[r][c] = FastColumns(Q)[c][r]
  <2>1. c >= col
    BY <1>1, HdpcSizes
  <2> QED BY <1>3, <2>1 DEF HdpcAt
<1>4. part' = HdpcRows(Q)
  BY <1>2, <1>3 DEF HdpcRows
<1>5. part' = [r \in 0 .. Q.H - 1 |-> [c \in 0 .. Q.L - 1 |-> part'[r][c]]]
  BY <1>2
<1>6. \A r \in 0 .. Q.H - 1, c \in 0 .. Q.L - 1 :
        c >= 0 /\ c < HdpcD(Q) => part'[r][c] = FastColumns(Q)[c][r]
  BY <1>4 DEF HdpcRows
<1>7. 0 \in 0 .. HdpcD(Q) - 1
  BY HdpcSizes
<1> QED BY <1>1, <1>4, <1>5, <1>6, <1>7 DEF HdpcAt

LEMMA HdpcInvHolds == HdpcSpec => []HdpcInv
<1>1. HdpcInv /\ [HdpcNext]_hdpcVars => HdpcInv'
  <2> SUFFICES ASSUME HdpcInv, [HdpcNext]_hdpcVars PROVE HdpcInv'
    OBVIOUS
  <2>1. PICK b \in Blocks : HdpcAt(parameters_get(b))
    BY DEF HdpcInv
  <2> DEFINE Q == parameters_get(b)
  <2>2. SizesAre(Q)
    BY HdpcAssumption, SupportedSizes
  <2> SUFFICES HdpcAt(Q)'
    BY DEF HdpcInv
  <2>3. HdpcAt(Q)
    BY <2>1
  <2> HIDE DEF Q
  <2>4. CASE UNCHANGED hdpcVars
    BY <2>3, <2>4 DEF HdpcAt, hdpcVars
  <2> QED BY <2>2, <2>3, <2>4, ColumnKeeps, IdentityKeeps DEF HdpcNext
<1> QED BY <1>1, HdpcStarts, PTL DEF HdpcSpec

(* For every supported block and every octet the memory was full of, each  *)
(* column is the exact one when it is written, and the finished part is    *)
(* the specified one.                                                      *)
THEOREM HdpcExactHolds == HdpcSpec => []HdpcExact
<1>1. HdpcInv => HdpcExact
  <2> SUFFICES ASSUME HdpcInv PROVE HdpcExact
    OBVIOUS
  <2>1. PICK b \in Blocks : HdpcAt(parameters_get(b))
    BY DEF HdpcInv
  <2> DEFINE Q == parameters_get(b)
  <2>2. SizesAre(Q)
    BY HdpcAssumption, SupportedSizes
  <2>3. HdpcAt(Q)
    BY <2>1
  <2> HIDE DEF Q
  <2>4. params = Q /\ col \in 0 .. HdpcD(Q) - 1 /\ col \in 0 .. Q.L - 1
        /\ part = [r \in 0 .. Q.H - 1 |-> [c \in 0 .. Q.L - 1 |-> part[r][c]]]
    BY <2>2, <2>3, HdpcSizes DEF HdpcAt
  <2>5. ExactColumn(Q, col) = ColumnOf(part, col)
    <3>1. ASSUME NEW r \in 0 .. Q.H - 1 PROVE ExactColumn(Q, col)[r] = part[r][col]
      <4>1. part[r][col] = FastColumns(Q)[col][r]
        <5>1. col >= col /\ col < HdpcD(Q) /\ col \in 0 .. Q.L - 1
          BY <2>2, <2>4, HdpcSizes
        <5>2. \A q \in 0 .. Q.H - 1, c \in 0 .. Q.L - 1 :
                c >= col /\ c < HdpcD(Q) => part[q][c] = FastColumns(Q)[c][q]
          BY <2>3 DEF HdpcAt
        <5> QED BY <5>1, <5>2, Zenon
      <4>2. ExactColumn(Q, col)[r] = FastColumns(Q)[col][r]
        BY <2>4, <2>2, ExactIsFast
      <4> QED BY <4>1, <4>2
    <3>2. ColumnOf(part, col) = [r \in 0 .. Q.H - 1 |-> part[r][col]]
      BY <2>4 DEF ColumnOf
    <3>3. ExactColumn(Q, col) = [r \in 0 .. Q.H - 1 |-> Dots(Q, r, col)[col]]
      BY DEF ExactColumn, Dots, DotIs, MTEntry, HdpcD
    <3>4. \A r \in 0 .. Q.H - 1 : ExactColumn(Q, col)[r] = Dots(Q, r, col)[col]
      BY <3>3
    <3> QED BY <3>1, <3>2, <3>3, <3>4
  <2>6. at = "done" => part = hdpc_generate_mat_specexact(Q)
    BY <2>2, <2>3, ExactRows DEF HdpcAt
  <2> QED BY <2>4, <2>5, <2>6 DEF HdpcExact
<1> QED BY <1>1, HdpcInvHolds, PTL

(* The rows of the matrix: one for each symbol, by its ID, and the same    *)
(* constraints below them for every list of IDs.                           *)
Ones(row) == [c \in 0 .. P.L - 1 |-> IF c \in row THEN 1 ELSE 0]
SymbolRow(id) == Ones(LtRow(P, tuple_generate_from_ESI(id, P)))
NConstraints == P.L - K
ConstraintRow(q) ==
  IF q < P.Kprime - K THEN Ones(LtRow(P, tuple_generate_from_ISI(Word(K + q), P)))
  ELSE IF q < P.Kprime - K + P.S THEN Ones(LdpcRow(P, q - (P.Kprime - K)))
  ELSE HdpcRows(P)[q - (P.Kprime - K) - P.S]

(* The shift that rq_matrix.c applies to an ID is the one of tuple.c.      *)
LEMMA ShiftedIsISI ==
  ASSUME NEW id \in Words PROVE Shifted(id, P) = ISI(id, P)
<1>1. WAdd(id, Word(0)) = id
  <2>1. Word(0) = <<0, 0>>
    BY DEF Word, Half
  <2>2. PICK h \in Nat, l \in Nat : id = <<h, l>> /\ h < 65536 /\ l < 65536
    <3>1. id = <<id[1], id[2]>> /\ id[1] \in 0 .. Half - 1 /\ id[2] \in 0 .. Half - 1
      BY DEF Words
    <3>2. Half \in Nat
      BY DEF Half
    <3>3. id[1] \in Nat /\ id[2] \in Nat /\ id[1] < Half /\ id[2] < Half
      BY <3>1, <3>2
    <3>4. id[1] < 65536 /\ id[2] < 65536
      BY <3>3 DEF Half
    <3>5. id = <<id[1], id[2]>>
      BY <3>1
    <3> QED BY <3>3, <3>4, <3>5
  <2>3. \A x \in Nat : x < 65536 => x % 65536 = x /\ x \div 65536 = 0
    OBVIOUS
  <2>4. l + 0 = l /\ h + 0 + 0 = h
    OBVIOUS
  <2>5. WAdd(id, Word(0)) = <<(h + 0 + (l + 0) \div 65536) % 65536, (l + 0) % 65536>>
    BY <2>1, <2>2 DEF WAdd, Half
  <2> QED BY <2>2, <2>3, <2>4, <2>5
<1> QED BY <1>1 DEF Shifted, ISI

(* Rows are vectors of octets. *)
LEMMA ConstraintType ==
  \A q \in 0 .. NConstraints - 1 : ConstraintRow(q) \in Octets
<1>1. 0 \in GF256 /\ 1 \in GF256
  BY DEF GF256
<1>2. \A row : Ones(row) \in Octets
  BY <1>1 DEF Ones, Octets
<1>3. ASSUME NEW q \in 0 .. NConstraints - 1, ~(q < P.Kprime - K + P.S)
      PROVE  HdpcRows(P)[q - (P.Kprime - K) - P.S] \in Octets
  <2>1. q - (P.Kprime - K) - P.S \in 0 .. P.H - 1
    BY <1>3, Dimensions DEF NConstraints
  <2> QED BY <2>1, SizesOfP, HdpcType DEF Octets
<1> QED BY <1>2, <1>3 DEF ConstraintRow

(* Rows are vectors of octets. *)
LEMMA SymbolRowType ==
  \A id : SymbolRow(id) \in Octets
<1>1. 0 \in GF256 /\ 1 \in GF256
  BY DEF GF256
<1> QED BY <1>1 DEF SymbolRow, Ones, Octets

(* list and the padding, as the internal symbol IDs of the LT rows. *)
LEMMA ListISIs ==
  ASSUME NEW n \in Nat, NEW list \in [1 .. n -> Words]
  PROVE  /\ Len(list) = n
         /\ Len(ISIs(P, list)) = n + (P.Kprime - K)
         /\ \A j \in 1 .. n : ISIs(P, list)[j] = ISI(list[j], P)
         /\ \A q \in 0 .. P.Kprime - K - 1 : ISIs(P, list)[n + q + 1] = Word(K + q)
<1> DEFINE p == P.Kprime - K
           s == [j \in 1 .. n |-> Shifted(list[j], P)]
           t == [j \in 1 .. p |-> Word(K + j - 1)]
           T == {s[j] : j \in 1 .. n} \cup {t[j] : j \in 1 .. p}
<1>1. p \in Nat /\ P.Kprime - P.K = p /\ P.K = K /\ K \in Nat
  BY Dimensions
<1>2. Len(list) = n
  OBVIOUS
<1>3. s \in Seq(T) /\ t \in Seq(T) /\ Len(s) = n /\ Len(t) = p
  <2> HIDE DEF p
  <2>1. s \in [1 .. n -> T] /\ t \in [1 .. p -> T]
    OBVIOUS
  <2> HIDE DEF s, t, T
  <2> QED BY <1>1, <2>1
<1>4. ISIs(P, list) = s \o t
  BY <1>1, <1>2 DEF ISIs
<1>5. \A j \in 1 .. n : s[j] = ISI(list[j], P)
  BY ShiftedIsISI
<1>6. \A q \in 0 .. p - 1 : t[q + 1] = Word(K + q)
  <2> SUFFICES ASSUME NEW q \in 0 .. p - 1 PROVE t[q + 1] = Word(K + q)
    OBVIOUS
  <2>1. q + 1 \in 1 .. p /\ K + (q + 1) - 1 = K + q
    BY <1>1
  <2> QED BY <2>1
<1> HIDE DEF s, t, T, p
<1>7. /\ Len(s \o t) = n + p
      /\ \A j \in 1 .. n : (s \o t)[j] = s[j]
      /\ \A q \in 0 .. p - 1 : (s \o t)[n + q + 1] = t[q + 1]
  BY <1>1, <1>3
<1> QED BY <1>2, <1>4, <1>5, <1>6, <1>7 DEF p

(* rq_matrix.c and tuple.c shift IDs separately: for every block and every *)
(* list of 32-bit IDs the receiver's row of an ID is the row of the symbol *)
(* the sender makes of it, also where the sum wraps.                       *)
THEOREM MatrixFollowsOutputHolds ==
  ASSUME NEW n \in Nat, NEW list \in [1 .. n -> Words], NEW j \in 1 .. n
  PROVE  LtRow(P, tuple_generate_from_ISI(ISIs(P, list)[j], P))
           = LtRow(P, tuple_generate_from_ESI(list[j], P))
<1>1. ISIs(P, list)[j] = ISI(list[j], P)
  BY ListISIs
<1> QED BY <1>1 DEF tuple_generate_from_ESI

(* As rq_matrix_generate writes it down. *)
LEMMA GeneratedIs ==
  ASSUME NEW list, NEW m, NEW lt, lt = Len(ISIs(P, list)),
         NEW low, low = [r \in 0 .. P.H - 1 |-> m[lt + P.S + r]]
  PROVE  rq_matrix_generate(P, list, m) =
           [r \in DOMAIN m |->
              IF r < lt THEN Ones(LtRow(P, tuple_generate_from_ISI(ISIs(P, list)[r + 1], P)))
              ELSE IF r < lt + P.S THEN Ones(LdpcRow(P, r - lt))
              ELSE hdpc_generate_mat(P, low)[r - lt - P.S]]
<1>1. rq_matrix_generate(P, list, m) =
        [r \in DOMAIN m |->
           IF r < Len(ISIs(P, list))
             THEN Ones(LtRow(P, tuple_generate_from_ISI(ISIs(P, list)[r + 1], P)))
           ELSE IF r < Len(ISIs(P, list)) + P.S THEN Ones(LdpcRow(P, r - Len(ISIs(P, list))))
           ELSE hdpc_generate_mat(P, [s \in 0 .. P.H - 1 |-> m[Len(ISIs(P, list)) + P.S + s]])
                  [r - Len(ISIs(P, list)) - P.S]]
  BY DEF rq_matrix_generate, Ones
<1> QED BY <1>1, Zenon

(* The generated matrix, row by row, whatever memory it was written to.    *)
LEMMA RowsOf ==
  ASSUME NEW n \in Nat, NEW list \in [1 .. n -> Words], NEW x
  PROVE  /\ DOMAIN MatrixOf(list, x) = 0 .. (n + NConstraints) - 1
         /\ MatrixOf(list, x) = [r \in 0 .. (n + NConstraints) - 1 |-> MatrixOf(list, x)[r]]
         /\ \A r \in 0 .. n - 1 : MatrixOf(list, x)[r] = SymbolRow(list[r + 1])
         /\ \A q \in 0 .. NConstraints - 1 : MatrixOf(list, x)[n + q] = ConstraintRow(q)
<1> DEFINE p == P.Kprime - K
           N == n + NConstraints
           mem == [r \in 0 .. N - 1 |-> [c \in 0 .. P.L - 1 |-> x]]
           low == [r \in 0 .. P.H - 1 |-> mem[n + p + P.S + r]]
<1>1. /\ p \in Nat /\ P.Kprime - P.K = p /\ P.K = K /\ K \in Nat /\ P.S \in Nat /\ P.H \in Nat
      /\ NConstraints = p + P.S + P.H /\ P.L \in Nat
  BY Dimensions DEF NConstraints
<1>2. /\ Len(list) = n /\ Len(ISIs(P, list)) = n + p
      /\ \A j \in 1 .. n : ISIs(P, list)[j] = ISI(list[j], P)
      /\ \A q \in 0 .. p - 1 : ISIs(P, list)[n + q + 1] = Word(K + q)
  BY ListISIs
<1>3. MatrixOf(list, x) = rq_matrix_generate(P, list, mem)
  <2> DEFINE dim == rq_matrix_get_dim(P, Len(list))
  <2>1. dim.n_row = N /\ dim.n_col = P.L
    BY <1>1, <1>2 DEF rq_matrix_get_dim
  <2>2. MatrixOf(list, x) =
          rq_matrix_generate(P, list, [r \in 0 .. dim.n_row - 1 |-> [c \in 0 .. dim.n_col - 1 |-> x]])
    BY DEF MatrixOf
  <2> HIDE DEF dim, N
  <2> QED BY <2>1, <2>2, Zenon
<1> HIDE DEF N
<1>4. DOMAIN mem = 0 .. N - 1 /\ \A r \in 0 .. N - 1 : DOMAIN mem[r] = 0 .. P.L - 1
  OBVIOUS
<1> HIDE DEF mem
<1>5. hdpc_generate_mat(P, low) = HdpcRows(P)
  <2>1. \A r \in 0 .. P.H - 1 : n + p + P.S + r \in 0 .. N - 1
    <3> HIDE DEF p
    <3> DEFINE h == P.H
               t == P.S
    <3>1. h \in Nat /\ t \in Nat /\ p \in Nat /\ N = n + (p + t + h)
      BY <1>1 DEF N
    <3> HIDE DEF h, t
    <3>2. \A r \in 0 .. h - 1 : n + p + t + r \in 0 .. N - 1
      BY <3>1
    <3> QED BY <3>2 DEF h, t
  <2>2. \A r \in 0 .. P.H - 1 : low[r] = mem[n + p + P.S + r]
    OBVIOUS
  <2>3. DOMAIN low = 0 .. P.H - 1
    OBVIOUS
  <2> HIDE DEF low
  <2>4. \A r \in 0 .. P.H - 1 : DOMAIN low[r] = 0 .. P.L - 1
    BY <1>4, <2>1, <2>2
  <2> QED BY <2>3, <2>4, SizesOfP, HdpcGenerated
<1>6. MatrixOf(list, x) =
        [r \in 0 .. N - 1 |->
           IF r < n + p THEN Ones(LtRow(P, tuple_generate_from_ISI(ISIs(P, list)[r + 1], P)))
           ELSE IF r < n + p + P.S THEN Ones(LdpcRow(P, r - (n + p)))
           ELSE HdpcRows(P)[r - (n + p) - P.S]]
  <2> DEFINE lt == n + p
  <2>1. lt = Len(ISIs(P, list)) /\ low = [r \in 0 .. P.H - 1 |-> mem[lt + P.S + r]]
    BY <1>2
  <2> HIDE DEF low, lt
  <2>2. rq_matrix_generate(P, list, mem) =
           [r \in DOMAIN mem |->
              IF r < lt THEN Ones(LtRow(P, tuple_generate_from_ISI(ISIs(P, list)[r + 1], P)))
              ELSE IF r < lt + P.S THEN Ones(LdpcRow(P, r - lt))
              ELSE hdpc_generate_mat(P, low)[r - lt - P.S]]
    BY <2>1, GeneratedIs
  <2> QED BY <1>3, <1>4, <1>5, <2>2, Zenon DEF lt
<1> HIDE DEF p, low
<1>9. MatrixOf(list, x) = [r \in 0 .. N - 1 |-> MatrixOf(list, x)[r]]
  BY <1>6
<1>7. ASSUME NEW r \in 0 .. n - 1
      PROVE  MatrixOf(list, x)[r] = SymbolRow(list[r + 1])
  <2>1. r \in 0 .. N - 1 /\ r < n + p /\ r + 1 \in 1 .. n
    BY <1>1 DEF N
  <2>2. MatrixOf(list, x)[r] = Ones(LtRow(P, tuple_generate_from_ISI(ISIs(P, list)[r + 1], P)))
    BY <1>6, <2>1
  <2> QED BY <1>2, <2>1, <2>2 DEF SymbolRow, tuple_generate_from_ESI
<1>8. ASSUME NEW q \in 0 .. NConstraints - 1
      PROVE  MatrixOf(list, x)[n + q] = ConstraintRow(q)
  <2>1. n + q \in 0 .. N - 1
    BY <1>1 DEF N
  <2>2. CASE q < p
    <3>1. n + q < n + p /\ n + q + 1 = (n + q) + 1 /\ q \in 0 .. p - 1
      BY <1>1, <2>2
    <3>2. MatrixOf(list, x)[n + q] =
            Ones(LtRow(P, tuple_generate_from_ISI(ISIs(P, list)[n + q + 1], P)))
      BY <1>6, <2>1, <3>1
    <3> QED BY <1>2, <2>2, <3>1, <3>2 DEF ConstraintRow, p
  <2>3. CASE ~(q < p) /\ q < p + P.S
    <3>1. ~(n + q < n + p) /\ n + q < n + p + P.S /\ (n + q) - (n + p) = q - p
      BY <1>1, <2>3
    <3>2. MatrixOf(list, x)[n + q] = Ones(LdpcRow(P, q - p))
      BY <1>6, <2>1, <3>1
    <3> QED BY <2>3, <3>2 DEF ConstraintRow, p
  <2>4. CASE ~(q < p) /\ ~(q < p + P.S)
    <3>1. ~(n + q < n + p) /\ ~(n + q < n + p + P.S) /\ (n + q) - (n + p) = q - p
      BY <1>1, <2>4
    <3>2. MatrixOf(list, x)[n + q] = HdpcRows(P)[q - p - P.S]
      BY <1>6, <2>1, <3>1
    <3> QED BY <2>4, <3>2 DEF ConstraintRow, p
  <2> QED BY <2>2, <2>3, <2>4
<1> QED BY <1>6, <1>7, <1>8, <1>9 DEF N

-----------------------------------------------------------------------------
(* A symbol is its row of the matrix times the block *)

LEMMA LIsNat == P.L \in Nat /\ NExtra \in Nat /\ EP!Assumptions /\ DP!Assumptions
BY Dimensions, OctetsAreField

(* RqOutExecute's sum over the columns of a tuple is the product of the    *)
(* symbol's row of the matrix with the block.                              *)
LEMMA SymbolIsRow ==
  ASSUME NEW v \in Octets, NEW id
  PROVE  SymbolOf(v, id) = RowTimes(SymbolRow(id), v)
<1> DEFINE n == P.L
           row == LtRow(P, tuple_generate_from_ESI(id, P))
           Is(s) == s = [c \in 0 .. n |->
                           IF c = n THEN 0
                           ELSE IF c \in row THEN gf256_add(v[c], s[c + 1]) ELSE s[c + 1]]
           s == CHOOSE s : Is(s)
           f1 == [c \in 0 .. n - 1 |-> gf256_mul(SymbolRow(id)[c], v[c])]
<1>0. SymbolOf(v, id) = s[0] /\ RowTimes(SymbolRow(id), v) = EP!Sum(f1, n)
  BY DEF SymbolOf, RowTimes, E!Sum, EP!Sum
<1>1. n \in Nat /\ 0 \in GF256 /\ EP!Assumptions
  BY LIsNat DEF GF256
<1>2. \A c \in 0 .. n - 1 : v[c] \in GF256 /\ f1[c] = IF c \in row THEN v[c] ELSE 0
  <2> SUFFICES ASSUME NEW c \in 0 .. n - 1
               PROVE  v[c] \in GF256 /\ f1[c] = IF c \in row THEN v[c] ELSE 0
    OBVIOUS
  <2>1. v[c] \in GF256
    BY DEF Octets
  <2>2. f1[c] = gf256_mul(IF c \in row THEN 1 ELSE 0, v[c])
    BY DEF SymbolRow, Ones
  <2>3. gf256_mul(1, v[c]) = v[c] /\ gf256_mul(0, v[c]) = 0
    BY <2>1, MulLaws, MulZero
  <2> HIDE DEF f1, row
  <2> QED BY <2>1, <2>2, <2>3
<1> HIDE DEF n, row, f1
<1> DEFINE G == [w \in GF256 \X (0 .. n - 1) |-> IF w[2] \in row THEN gf256_add(v[w[2]], w[1]) ELSE w[1]]
<1>3. G \in [GF256 \X (0 .. n - 1) -> GF256]
  <2>1. ASSUME NEW w \in GF256 \X (0 .. n - 1)
        PROVE  (IF w[2] \in row THEN gf256_add(v[w[2]], w[1]) ELSE w[1]) \in GF256
    <3>1. w[1] \in GF256 /\ w[2] \in 0 .. n - 1
      OBVIOUS
    <3>2. gf256_add(v[w[2]], w[1]) \in GF256
      BY <1>2, <3>1, AddLaws
    <3> QED BY <3>1, <3>2
  <2> QED BY <2>1
<1>4. \A x \in GF256, c \in 0 .. n - 1 : G[<<x, c>>] = IF c \in row THEN gf256_add(v[c], x) ELSE x
  OBVIOUS
<1> HIDE DEF G
<1>5. PICK t \in [0 .. n -> GF256] : DP!IsDown(t, 0, n, G)
  BY <1>1, <1>3, DP!DownExists
<1>6. Is(t)
  <2>1. ASSUME NEW c \in 0 .. n
        PROVE  t[c] = IF c = n THEN 0 ELSE IF c \in row THEN gf256_add(v[c], t[c + 1]) ELSE t[c + 1]
    <3>1. t[c] = IF c = n THEN 0 ELSE G[<<t[c + 1], c>>]
      BY <1>5 DEF DP!IsDown
    <3>2. c # n => c \in 0 .. n - 1 /\ c + 1 \in 0 .. n /\ t[c + 1] \in GF256
      BY <1>1
    <3> QED BY <1>4, <3>1, <3>2
  <2> QED BY <2>1
<1>7. Is(s)
  <2> HIDE DEF Is
  <2> QED BY <1>6
<1> HIDE DEF s
<1>8. /\ s[n] = 0
      /\ \A c \in 0 .. n - 1 : s[c] = IF c \in row THEN gf256_add(v[c], s[c + 1]) ELSE s[c + 1]
  <2>1. \A c \in 0 .. n - 1 : c \in 0 .. n /\ c # n
    BY <1>1
  <2>2. n \in 0 .. n
    BY <1>1
  <2> QED BY <1>7, <2>1, <2>2
<1>9. \A c \in 0 .. n : s[c] \in GF256
  <2>1. ASSUME NEW c \in 0 .. n - 1, s[c + 1] \in GF256 PROVE s[c] \in GF256
    <3>1. gf256_add(v[c], s[c + 1]) \in GF256
      BY <1>2, <2>1, AddLaws
    <3> QED BY <1>8, <2>1, <3>1
  <2>2. DP!StaysDown(s, n, GF256)
    BY <1>1, <1>8, <2>1 DEF DP!StaysDown
  <2> QED BY <1>1, <2>2, DP!DownType
<1> DEFINE S == {c \in Nat : c <= n => s[0] = gf256_add(EP!Sum(f1, c), s[c])}
<1>10. 0 \in S
  <2>1. EP!Sum(f1, 0) = 0
    BY EP!SumNone
  <2>2. s[0] \in GF256
    BY <1>1, <1>9
  <2>3. gf256_add(0, s[0]) = s[0]
    BY <1>1, <2>2, AddLaws
  <2> QED BY <2>1, <2>3
<1>11. ASSUME NEW c \in Nat, c \in S PROVE c + 1 \in S
  <2> SUFFICES ASSUME c + 1 <= n PROVE s[0] = gf256_add(EP!Sum(f1, c + 1), s[c + 1])
    OBVIOUS
  <2>1. c \in 0 .. n - 1 /\ c + 1 \in 0 .. n /\ c <= n
    BY <1>1
  <2>2. s[0] = gf256_add(EP!Sum(f1, c), s[c])
    BY <1>11, <2>1
  <2>3. EP!Sum(f1, c + 1) = gf256_add(EP!Sum(f1, c), f1[c])
    BY EP!SumNext
  <2>4. EP!Sum(f1, c) \in GF256
    <3>1. \A q \in 0 .. c - 1 : f1[q] \in GF256
      <4>1. \A q \in 0 .. c - 1 : q \in 0 .. n - 1
        BY <1>1, <2>1
      <4> QED BY <1>1, <1>2, <4>1
    <3> QED BY <1>1, <3>1, EP!SumType
  <2>5. f1[c] \in GF256 /\ s[c + 1] \in GF256
    BY <1>1, <1>2, <1>9, <2>1
  <2>6. s[c] = gf256_add(f1[c], s[c + 1])
    <3>1. gf256_add(0, s[c + 1]) = s[c + 1]
      BY <1>1, <2>5, AddLaws
    <3> QED BY <1>2, <1>8, <2>1, <3>1
  <2>7. gf256_add(gf256_add(EP!Sum(f1, c), f1[c]), s[c + 1])
          = gf256_add(EP!Sum(f1, c), gf256_add(f1[c], s[c + 1]))
    BY <2>4, <2>5, AddLaws
  <2> QED BY <2>2, <2>3, <2>6, <2>7
<1>12. \A c \in Nat : c \in S
  <2> HIDE DEF S
  <2> QED BY <1>10, <1>11, DP!NatSet
<1>13. s[0] = gf256_add(EP!Sum(f1, n), 0)
  BY <1>1, <1>8, <1>12
<1>14. EP!Sum(f1, n) \in GF256
  <2>1. \A c \in 0 .. n - 1 : f1[c] \in GF256
    BY <1>1, <1>2
  <2> QED BY <1>1, <2>1, EP!SumType
<1>15. s[0] = EP!Sum(f1, n)
  BY <1>13, <1>14, AddLaws
<1> QED BY <1>0, <1>15

(* A row of the matrix of the solver times a vector. *)
LEMMA ProductsAre ==
  ASSUME NEW x, NEW r
  PROVE  /\ E!Product(x, r) = RowTimes(A0[r], x) /\ EP!Product(x, r) = RowTimes(A0[r], x)
         /\ D!Product(x, r) = RowTimes(A0[r], x) /\ DP!Product(x, r) = RowTimes(A0[r], x)
BY DEF E!Product, EP!Product, D!Product, DP!Product, E!Sum, EP!Sum, D!Sum, DP!Sum,
       E!Cols, EP!Cols, D!Cols, DP!Cols, RowTimes

(* The source symbols' IDs do not wrap. *)
LEMMA SourceIdsType == SourceIds \in [1 .. K -> Words]
<1>1. ASSUME NEW n \in 1 .. K PROVE Word(n - 1) \in Words
  <2>1. PICK m \in Nat : m = n - 1 /\ m < 65536
    BY Dimensions, BlockAssumption DEF Half
  <2>2. m \div 65536 = 0 /\ m % 65536 = m
    BY <2>1
  <2>3. Word(m) = <<0, m>>
    BY <2>2 DEF Word, Half
  <2>4. \A h \in Nat : m < h => m \in 0 .. h - 1 /\ 0 \in 0 .. h - 1
    BY <2>1
  <2>5. m \in 0 .. Half - 1 /\ 0 \in 0 .. Half - 1
    <3>1. Half \in Nat /\ m < Half
      BY <2>1 DEF Half
    <3> QED BY <2>4, <3>1
  <2> QED BY <2>1, <2>3, <2>5 DEF Words
<1> QED BY <1>1 DEF SourceIds

(* The generated matrix has octets for entries. *)
LEMMA MatrixType ==
  ASSUME NEW n \in Nat, NEW list \in [1 .. n -> Words], NEW x
  PROVE  MatrixOf(list, x) \in [0 .. (n + NConstraints) - 1 -> Octets]
<1> DEFINE N == n + NConstraints
           M == MatrixOf(list, x)
<1>1. n \in Nat /\ NConstraints \in Nat
  BY Dimensions DEF NConstraints
<1>2. M = [r \in 0 .. N - 1 |-> M[r]]
  BY RowsOf
<1>3. ASSUME NEW r \in 0 .. N - 1 PROVE M[r] \in Octets
  <2>1. CASE r < n
    <3>1. r \in 0 .. n - 1
      BY <2>1, <1>1
    <3> QED BY <3>1, RowsOf, SymbolRowType
  <2>2. CASE ~(r < n)
    <3>1. r - n \in 0 .. NConstraints - 1 /\ r = n + (r - n)
      BY <2>2, <1>1
    <3>2. M[n + (r - n)] = ConstraintRow(r - n)
      BY <3>1, RowsOf
    <3> QED BY <3>1, <3>2, ConstraintType
  <2> QED BY <2>1, <2>2
<1> HIDE DEF M, N
<1>4. M \in [0 .. N - 1 -> Octets]
  BY <1>2, <1>3
<1> QED BY <1>4 DEF M, N

-----------------------------------------------------------------------------
(* The inductive invariant of the round trip *)

(* The encoder solves for a block that has the source for its first        *)
(* symbols and meets the constraints.                                      *)
EncoderInv ==
  /\ A0 = MatrixOf(SourceIds, Fill)
  /\ EP!SolveIInv /\ passed = FALSE
  /\ phase # "decomp" => src \in Sources /\ EncX \in Octets /\ Solves(A0, src, EncX)

(* No two blocks have the same source symbols and the same products with   *)
(* the constraints.                                                        *)
SourceDetermines ==
  \A x, y \in Octets :
    /\ \A n \in 1 .. K : SymbolOf(x, SourceIds[n]) = SymbolOf(y, SourceIds[n])
    /\ \A q \in 0 .. NConstraints - 1 : RowTimes(ConstraintRow(q), x) = RowTimes(ConstraintRow(q), y)
    => x = y

(* The decoder has symbols of such a block, and solves the same constraints*)
(* with them.                                                              *)
DecoderInv ==
  /\ src \in Sources /\ ids \in IdLists /\ C \in Octets
  /\ \A n \in 1 .. K : SymbolOf(C, SourceIds[n]) = src[n]
  /\ \A q \in 0 .. NConstraints - 1 : RowTimes(ConstraintRow(q), C) = 0
  /\ Y = [n \in DOMAIN ids |-> SymbolOf(C, ids[n])]
  /\ A0 = MatrixOf(ids, 0)
  /\ DP!SolveIInv /\ passed = FALSE
  /\ SourceDetermines

RTInv ==
  /\ stage \in {"encoder", "decoder", "insufficient", "finished"}
  /\ stage = "encoder" => EncoderInv
  /\ stage # "encoder" => DecoderInv
  /\ stage = "finished" => phase = "solved" /\ dec = [n \in 1 .. K |-> SymbolOf(X, SourceIds[n])]
  /\ stage = "insufficient" => phase = "decomp" /\ pc = "done" /\ i < P.L

(* The solver's invariant, from LUSolveProofs, for both of its users.      *)
LEMMA EncoderStarts == EP!Init /\ phase = "decomp" => EP!SolveIInv
BY LIsNat, EP!SolveInvStarts

LEMMA DecoderStarts == DP!Init /\ phase = "decomp" => DP!SolveIInv
BY LIsNat, DP!SolveInvStarts

LEMMA DecoderStartsNext == (DP!Init /\ phase = "decomp" => DP!SolveIInv)'
BY DecoderStarts, PTL

LEMMA EncoderInvStep == EP!SolveIInv /\ [EP!SolveNext]_EP!vars => EP!SolveIInv'
BY LIsNat, EP!SolveInvStep

LEMMA DecoderInvStep == DP!SolveIInv /\ [DP!SolveNext]_DP!vars => DP!SolveIInv'
BY LIsNat, DP!SolveInvStep

(* It holds when the encoder has generated its matrix. *)
LEMMA RTInvInit == Init => RTInv
<1> SUFFICES ASSUME Init PROVE RTInv
  OBVIOUS
<1>1. A0 = MatrixOf(SourceIds, Fill) /\ K \in Nat /\ P.L \in Nat /\ K + NConstraints = P.L
  BY Dimensions DEF Init, NConstraints
<1>2. A0 \in [0 .. P.L - 1 -> Octets]
  <2>1. MatrixOf(SourceIds, Fill) \in [0 .. (K + NConstraints) - 1 -> Octets]
    BY <1>1, SourceIdsType, MatrixType
  <2> QED BY <1>1, <2>1
<1>3. EP!Init
  BY <1>2 DEF Init, Octets, EP!Init, EP!Matrices, EP!Rows, EP!Cols
<1>4. EP!SolveIInv
  BY <1>3, EncoderStarts DEF Init
<1> QED BY <1>4 DEF Init, RTInv, EncoderInv

(* The decomposition and the solve in RoundTrip are those of the instances *)
(* that the proofs are about.                                              *)
LEMMA SameEncoder ==
  ASSUME EncX' = EncX
  PROVE  E!Decompose \/ E!ForwardRow \/ E!ForwardDone \/ E!BackwardRow \/ E!Return => EP!SolveNext
<1>1. \A p, c : E!IsFirstPivot(p, c) <=> EP!IsFirstPivot(p, c)
  BY DEF E!IsFirstPivot, EP!IsFirstPivot, E!Rows, EP!Rows, E!Cols, EP!Cols
<1>2. \A M, q : E!Step(M, q) = EP!Step(M, q)
  BY Zenon DEF E!Step, EP!Step, E!Eliminate, EP!Eliminate, E!MultColFrom, EP!MultColFrom,
     E!MultAddRowFrom, EP!MultAddRowFrom, E!Rows, EP!Rows, E!Cols, EP!Cols
<1>3. /\ \A M, p, q : E!SwapRows(M, p, q) = EP!SwapRows(M, p, q)
      /\ \A M, p, q : E!SwapCols(M, p, q) = EP!SwapCols(M, p, q)
      /\ \A g, p, q : E!SwapAt(g, p, q) = EP!SwapAt(g, p, q)
  BY Zenon DEF E!SwapRows, EP!SwapRows, E!SwapCols, EP!SwapCols, E!SwapAt, EP!SwapAt, E!Rows, EP!Rows
<1>4. E!Decompose => EP!Decompose
  <2>1. \A p, c : E!Pivot(p, c) => EP!Pivot(p, c)
    BY <1>1, <1>2, <1>3 DEF E!Pivot, EP!Pivot
  <2>2. E!NoPivot => EP!NoPivot
    BY DEF E!NoPivot, EP!NoPivot, E!NoPivotLeft, EP!NoPivotLeft, E!Rows, EP!Rows, E!Cols, EP!Cols
  <2>3. E!Exhausted => EP!Exhausted
    BY DEF E!Exhausted, EP!Exhausted
  <2>4. E!Next => EP!Next
    BY <2>1, <2>2, <2>3 DEF E!Next, EP!Next, E!Rows, EP!Rows, E!Cols, EP!Cols
  <2>5. UNCHANGED E!solveVars => UNCHANGED EP!solveVars
    BY DEF E!solveVars, EP!solveVars
  <2> QED BY <2>4, <2>5 DEF E!Decompose, EP!Decompose
<1>5. UNCHANGED E!luVars => UNCHANGED EP!luVars
  BY DEF E!luVars, EP!luVars
<1>6. E!ForwardRow => EP!ForwardRow
  BY Zenon, <1>5 DEF E!ForwardRow, EP!ForwardRow, E!ForwardRows, EP!ForwardRows, E!Sum, EP!Sum
<1>7. E!ForwardDone => EP!ForwardDone
  BY <1>5 DEF E!ForwardDone, EP!ForwardDone, E!ForwardRows, EP!ForwardRows
<1>8. E!BackwardRow => EP!BackwardRow
  BY Zenon, <1>5 DEF E!BackwardRow, EP!BackwardRow, E!BackSubstituted, EP!BackSubstituted, E!Sum, EP!Sum
<1>9. E!Return => EP!Return
  BY Zenon, <1>5 DEF E!Return, EP!Return, E!Unpermuted, EP!Unpermuted, E!Cols, EP!Cols
<1> QED BY <1>4, <1>6, <1>7, <1>8, <1>9 DEF EP!SolveNext
(* The same for the decoder. *)
LEMMA SameDecoder ==
  ASSUME C' = C
  PROVE  D!Decompose \/ D!ForwardRow \/ D!ForwardDone \/ D!BackwardRow \/ D!Return => DP!SolveNext
<1>1. \A p, c : D!IsFirstPivot(p, c) <=> DP!IsFirstPivot(p, c)
  BY DEF D!IsFirstPivot, DP!IsFirstPivot, D!Rows, DP!Rows, D!Cols, DP!Cols
<1>2. \A M, q : D!Step(M, q) = DP!Step(M, q)
  BY Zenon DEF D!Step, DP!Step, D!Eliminate, DP!Eliminate, D!MultColFrom, DP!MultColFrom,
     D!MultAddRowFrom, DP!MultAddRowFrom, D!Rows, DP!Rows, D!Cols, DP!Cols
<1>3. /\ \A M, p, q : D!SwapRows(M, p, q) = DP!SwapRows(M, p, q)
      /\ \A M, p, q : D!SwapCols(M, p, q) = DP!SwapCols(M, p, q)
      /\ \A g, p, q : D!SwapAt(g, p, q) = DP!SwapAt(g, p, q)
  BY Zenon DEF D!SwapRows, DP!SwapRows, D!SwapCols, DP!SwapCols, D!SwapAt, DP!SwapAt, D!Rows, DP!Rows
<1>4. D!Decompose => DP!Decompose
  <2>1. \A p, c : D!Pivot(p, c) => DP!Pivot(p, c)
    BY <1>1, <1>2, <1>3 DEF D!Pivot, DP!Pivot
  <2>2. D!NoPivot => DP!NoPivot
    BY DEF D!NoPivot, DP!NoPivot, D!NoPivotLeft, DP!NoPivotLeft, D!Rows, DP!Rows, D!Cols, DP!Cols
  <2>3. D!Exhausted => DP!Exhausted
    BY DEF D!Exhausted, DP!Exhausted
  <2>4. D!Next => DP!Next
    BY <2>1, <2>2, <2>3 DEF D!Next, DP!Next, D!Rows, DP!Rows, D!Cols, DP!Cols
  <2>5. UNCHANGED D!solveVars => UNCHANGED DP!solveVars
    BY DEF D!solveVars, DP!solveVars
  <2> QED BY <2>4, <2>5 DEF D!Decompose, DP!Decompose
<1>5. UNCHANGED D!luVars => UNCHANGED DP!luVars
  BY DEF D!luVars, DP!luVars
<1>6. D!ForwardRow => DP!ForwardRow
  BY Zenon, <1>5 DEF D!ForwardRow, DP!ForwardRow, D!ForwardRows, DP!ForwardRows, D!Sum, DP!Sum
<1>7. D!ForwardDone => DP!ForwardDone
  BY <1>5 DEF D!ForwardDone, DP!ForwardDone, D!ForwardRows, DP!ForwardRows
<1>8. D!BackwardRow => DP!BackwardRow
  BY Zenon, <1>5 DEF D!BackwardRow, DP!BackwardRow, D!BackSubstituted, DP!BackSubstituted, D!Sum, DP!Sum
<1>9. D!Return => DP!Return
  BY Zenon, <1>5 DEF D!Return, DP!Return, D!Unpermuted, DP!Unpermuted, D!Cols, DP!Cols
<1> QED BY <1>4, <1>6, <1>7, <1>8, <1>9 DEF DP!SolveNext

(* A step of the encoder's solver. *)
LEMMA EncoderStepsStep ==
  ASSUME RTInv, EncoderSteps
  PROVE  RTInv'
<1>1. stage = "encoder" /\ EncoderInv /\ stage' = stage /\ src' = src
  BY DEF RTInv, EncoderSteps
<1>2. A0' = A0 /\ passed' = passed /\ (phase' # "decomp" => phase # "decomp")
  BY DEF EncoderSteps, E!Decompose, E!Next, E!Pivot, E!NoPivot, E!Exhausted, E!ForwardRow,
     E!ForwardDone, E!BackwardRow, E!Return, E!luVars, E!solveVars
<1>3. EncX' = EncX
  BY <1>1, <1>2 DEF EncX
<1>4. EP!SolveNext
  BY <1>3, SameEncoder DEF EncoderSteps
<1>5. EP!SolveIInv'
  BY <1>1, <1>4, EncoderInvStep DEF EncoderInv
<1>6. EncoderInv'
  BY <1>1, <1>2, <1>3, <1>5 DEF EncoderInv
<1> QED BY <1>1, <1>6 DEF RTInv

(* The encoder's matrix is square and, once decomposed, invertible; so     *)
(* there is a block that its right-hand side comes from.                   *)
LEMMA EncoderSolvable ==
  ASSUME EncoderInv, pc = "done", i = P.L, NEW s \in Sources
  PROVE  Solution(A0, s) \in Octets /\ Solves(A0, s, Solution(A0, s))
<1> DEFINE y == [r \in 0 .. P.L - 1 |-> IF r < K THEN s[r + 1] ELSE 0]
<1>1. y \in [EP!Rows -> GF256]
  <2>1. s \in [1 .. K -> GF256] /\ 0 \in GF256
    BY BlockAssumption DEF GF256
  <2>2. \A r \in 0 .. P.L - 1 : r < K => r + 1 \in 1 .. K
    BY Dimensions
  <2>3. \A r \in 0 .. P.L - 1 : y[r] \in GF256
    BY <2>1, <2>2
  <2> QED BY <2>3 DEF EP!Rows
<1> HIDE DEF y
<1>2. EP!LUInv
  BY DEF EncoderInv, EP!SolveIInv
<1>3. PICK x \in [EP!Cols -> GF256] : \A r \in EP!Rows : EP!Product(x, r) = y[r]
  BY <1>1, <1>2, LIsNat, EP!SquareSolvable
<1>4. x \in Octets /\ Solves(A0, s, x)
  BY <1>3, ProductsAre DEF y, Octets, EP!Cols, EP!Rows, Solves
<1> QED BY <1>4 DEF Solution

(* The encoder's RqInterExecute. *)
LEMMA EncoderExecuteStep ==
  ASSUME RTInv, NEW s \in Sources, EncoderExecute(s)
  PROVE  RTInv'
<1>1. /\ stage = "encoder" /\ EncoderInv /\ stage' = stage /\ src' = s
      /\ phase = "decomp" /\ pc = "done" /\ i = P.L
      /\ X' = E!Gather(ZeroBased(s), K)
      /\ k' = 0 /\ phase' = "forward" /\ UNCHANGED <<A0, A, rp, cp, i, pc, passed>>
  BY DEF RTInv, EncoderExecute, Loading, luVars
<1>2. PICK x : x = Solution(A0, s) /\ x \in Octets /\ Solves(A0, s, x)
  BY <1>1, EncoderSolvable
<1>3. EncX' = x
  BY <1>1, <1>2 DEF EncX
<1>4. EP!LoadCodec(x, K)
  <2>1. \A r \in K .. P.L - 1 : EP!Product(x, r) = 0
    BY <1>2, ProductsAre, Dimensions DEF Solves
  <2>2. X' = EP!Gather([r \in EP!Rows |-> IF r < K THEN EP!Product(x, r) ELSE 1], K)
    <3>1. E!Cols = EP!Cols /\ E!Gather(ZeroBased(s), K) =
            [r \in E!Cols |-> IF rp[r] >= K THEN 0 ELSE ZeroBased(s)[rp[r]]]
      BY DEF E!Gather, E!Cols, EP!Cols
    <3>2. ASSUME NEW r \in EP!Cols, ~(rp[r] >= K)
          PROVE  ZeroBased(s)[rp[r]] = [q \in EP!Rows |-> IF q < K THEN EP!Product(x, q) ELSE 1][rp[r]]
      <4>1. PICK q \in EP!Rows : q = rp[r]
        <5>1. rp \in [EP!Rows -> EP!Rows]
          BY <1>1 DEF EncoderInv, EP!SolveIInv, EP!LUInv, EP!TypeOK, EP!IsPermutation
        <5>2. r \in EP!Rows
          BY DEF EP!Rows, EP!Cols
        <5> QED BY <5>1, <5>2
      <4>2. q \in 0 .. P.L - 1 /\ q < K /\ q \in 0 .. K - 1
        BY <3>2, <4>1, LIsNat, Dimensions DEF EP!Rows
      <4>3. Len(s) = K
        BY BlockAssumption
      <4>4. ZeroBased(s)[q] = s[q + 1]
        BY <4>2, <4>3 DEF ZeroBased
      <4>5. EP!Product(x, q) = s[q + 1]
        BY <1>2, <4>2, ProductsAre DEF Solves
      <4> QED BY <4>1, <4>2, <4>4, <4>5
    <3> QED BY <1>1, <3>1, <3>2 DEF EP!Gather
  <2>3. UNCHANGED EP!luVars
    BY <1>1 DEF EP!luVars
  <2>4. passed' = FALSE
    BY <1>1 DEF EncoderInv
  <2> QED BY <1>1, <1>3, <2>1, <2>2, <2>3, <2>4 DEF EP!LoadCodec
<1>5. EP!SolveNext
  <2>1. x \in [EP!Cols -> GF256] /\ K \in 0 .. P.L
    BY <1>2, Dimensions DEF Octets, EP!Cols
  <2> QED BY <1>4, <2>1 DEF EP!SolveNext
<1>6. EP!SolveIInv'
  BY <1>1, <1>5, EncoderInvStep DEF EncoderInv
<1>7. EncoderInv'
  BY <1>1, <1>2, <1>3, <1>6 DEF EncoderInv
<1> QED BY <1>1, <1>7 DEF RTInv

(* The block the encoder hands over has the source's symbols for the IDs   *)
(* below K, and meets the constraints.                                     *)
LEMMA EncoderBlock ==
  ASSUME EncoderInv, phase = "solved"
  PROVE  /\ X \in Octets /\ src \in Sources
         /\ \A n \in 1 .. K : SymbolOf(X, SourceIds[n]) = src[n]
         /\ \A q \in 0 .. NConstraints - 1 : RowTimes(ConstraintRow(q), X) = 0
         /\ SourceDetermines
<1>1. X = EncX
  <2>1. EP!SolveIInv /\ ~passed
    BY DEF EncoderInv
  <2>2. EP!CodecRecovers
    BY <2>1, LIsNat, EP!InvRecovers
  <2> QED BY <2>1, <2>2 DEF EP!CodecRecovers
<1>2. X \in Octets /\ src \in Sources /\ Solves(A0, src, X)
  BY <1>1 DEF EncoderInv
<1>3. /\ \A r \in 0 .. K - 1 : A0[r] = SymbolRow(SourceIds[r + 1])
      /\ \A q \in 0 .. NConstraints - 1 : A0[K + q] = ConstraintRow(q)
  BY SourceIdsType, RowsOf, Dimensions DEF EncoderInv
<1>4. ASSUME NEW n \in 1 .. K
      PROVE  SymbolOf(X, SourceIds[n]) = src[n]
  <2>1. n - 1 \in 0 .. K - 1 /\ n - 1 \in 0 .. P.L - 1 /\ n - 1 < K /\ (n - 1) + 1 = n
    BY Dimensions
  <2>2. A0[n - 1] = SymbolRow(SourceIds[n])
    BY <1>3, <2>1
  <2>3. RowTimes(A0[n - 1], X) = src[n]
    BY <1>2, <2>1 DEF Solves
  <2> QED BY <1>2, <2>2, <2>3, SymbolIsRow
<1>5. ASSUME NEW q \in 0 .. NConstraints - 1
      PROVE  RowTimes(ConstraintRow(q), X) = 0
  <2>1. K + q \in 0 .. P.L - 1 /\ ~(K + q < K)
    BY Dimensions DEF NConstraints
  <2>2. RowTimes(A0[K + q], X) = 0
    BY <1>2, <2>1 DEF Solves
  <2> QED BY <1>3, <2>2
<1>6. ASSUME NEW x \in Octets, NEW y \in Octets,
             \A n \in 1 .. K : SymbolOf(x, SourceIds[n]) = SymbolOf(y, SourceIds[n]),
             \A q \in 0 .. NConstraints - 1 :
               RowTimes(ConstraintRow(q), x) = RowTimes(ConstraintRow(q), y)
      PROVE  x = y
  <2>1. ASSUME NEW r \in 0 .. P.L - 1
        PROVE  RowTimes(A0[r], x) = RowTimes(A0[r], y)
    <3>1. CASE r < K
      <4>1. r \in 0 .. K - 1 /\ r + 1 \in 1 .. K
        BY <3>1, Dimensions
      <4>2. A0[r] = SymbolRow(SourceIds[r + 1])
        BY <1>3, <4>1
      <4>3. SymbolOf(x, SourceIds[r + 1]) = SymbolOf(y, SourceIds[r + 1])
        BY <1>6, <4>1
      <4> QED BY <4>2, <4>3, SymbolIsRow
    <3>2. CASE ~(r < K)
      <4>1. r - K \in 0 .. NConstraints - 1 /\ K + (r - K) = r
        BY <3>2, Dimensions DEF NConstraints
      <4>2. A0[r] = ConstraintRow(r - K)
        BY <1>3, <4>1
      <4> QED BY <1>6, <4>1, <4>2
    <3> QED BY <3>1, <3>2
  <2>2. \A r \in EP!Rows : EP!Product(x, r) = EP!Product(y, r)
    BY <2>1, ProductsAre DEF EP!Rows
  <2>3. x \in [EP!Cols -> GF256] /\ y \in [EP!Cols -> GF256]
    BY DEF Octets, EP!Cols
  <2>4. EP!LUInv /\ pc = "done" /\ i = P.L
    BY DEF EncoderInv, EP!SolveIInv, EP!SolveInv
  <2> QED BY <2>2, <2>3, <2>4, LIsNat, EP!ProductsDetermine
<1>7. SourceDetermines
  BY <1>6 DEF SourceDetermines
<1> QED BY <1>2, <1>4, <1>5, <1>7

(* The symbols are sent, and the decoder compiles its matrix.              *)
LEMMA SendStep ==
  ASSUME RTInv, NEW list \in IdLists, Send(list)
  PROVE  RTInv'
<1>1. /\ stage = "encoder" /\ EncoderInv /\ phase = "solved" /\ stage' = "decoder"
      /\ C' = X /\ ids' = list /\ Y' = [n \in DOMAIN list |-> SymbolOf(X, list[n])] /\ src' = src
      /\ A0' = MatrixOf(list, 0) /\ A' = A0'
      /\ rp' = [r \in DOMAIN A0' |-> r] /\ cp' = [c \in 0 .. P.L - 1 |-> c]
      /\ i' = 0 /\ pc' = "loop" /\ passed' = FALSE /\ phase' = "decomp"
  BY DEF RTInv, Send, Decomposing
<1>2. /\ X \in Octets /\ src \in Sources
      /\ \A n \in 1 .. K : SymbolOf(X, SourceIds[n]) = src[n]
      /\ \A q \in 0 .. NConstraints - 1 : RowTimes(ConstraintRow(q), X) = 0
      /\ SourceDetermines
  BY <1>1, EncoderBlock
<1>3. A0' \in [0 .. (P.L + NExtra) - 1 -> Octets]
  <2>1. list \in [1 .. K + NExtra -> Words]
    BY BlockAssumption
  <2>2. K + NExtra \in Nat /\ (K + NExtra) + NConstraints = P.L + NExtra
    BY Dimensions DEF NConstraints
  <2>3. MatrixOf(list, 0) \in [0 .. ((K + NExtra) + NConstraints) - 1 -> Octets]
    BY <2>1, <2>2, MatrixType
  <2> QED BY <1>1, <2>2, <2>3
<1>4. DP!Init'
  BY <1>1, <1>3 DEF Octets, DP!Init, DP!Matrices, DP!Rows, DP!Cols
<1>5. DP!SolveIInv'
  BY <1>1, <1>4, DecoderStartsNext
<1>6. DecoderInv'
  BY <1>1, <1>2, <1>5 DEF DecoderInv
<1> QED BY <1>1, <1>6 DEF RTInv

(* A step of the decoder's solver. *)
LEMMA DecoderStepsStep ==
  ASSUME RTInv, DecoderSteps
  PROVE  RTInv'
<1>1. /\ stage = "decoder" /\ DecoderInv
      /\ UNCHANGED <<stage, src, C, ids, Y, dec>>
  BY DEF RTInv, DecoderSteps
<1>2. A0' = A0 /\ passed' = passed
  BY DEF DecoderSteps, D!Decompose, D!Next, D!Pivot, D!NoPivot, D!Exhausted, D!ForwardRow,
     D!ForwardDone, D!BackwardRow, D!Return, D!luVars, D!solveVars
<1>3. DP!SolveNext
  BY <1>1, SameDecoder DEF DecoderSteps
<1>4. DP!SolveIInv'
  BY <1>1, <1>3, DecoderInvStep DEF DecoderInv
<1>5. DecoderInv'
  BY <1>1, <1>2, <1>4 DEF DecoderInv
<1> QED BY <1>1, <1>5 DEF RTInv

(* The rows of the decoder's matrix. *)
LEMMA DecoderRows ==
  ASSUME DecoderInv
  PROVE  /\ ids \in [1 .. K + NExtra -> Words] /\ K + NExtra \in Nat
         /\ P.L + NExtra = (K + NExtra) + NConstraints /\ NConstraints \in Nat
         /\ \A r \in 0 .. (K + NExtra) - 1 : A0[r] = SymbolRow(ids[r + 1])
         /\ \A q \in 0 .. NConstraints - 1 : A0[(K + NExtra) + q] = ConstraintRow(q)
<1> DEFINE m == K + NExtra
<1>1. ids \in [1 .. m -> Words] /\ m \in Nat /\ P.L + NExtra = m + NConstraints /\ NConstraints \in Nat
  BY BlockAssumption, Dimensions DEF DecoderInv, NConstraints
<1>2. /\ \A r \in 0 .. m - 1 : A0[r] = SymbolRow(ids[r + 1])
      /\ \A q \in 0 .. NConstraints - 1 : A0[m + q] = ConstraintRow(q)
  <2> HIDE DEF m
  <2> QED BY <1>1, RowsOf DEF DecoderInv
<1> QED BY <1>1, <1>2

(* The decoder's RqInterExecute: its symbols and the zeros are the product *)
(* of its matrix with the encoder's block.                                 *)
LEMMA DecoderExecuteStep ==
  ASSUME RTInv, DecoderExecute
  PROVE  RTInv'
<1> DEFINE m == K + NExtra
<1>1. /\ stage = "decoder" /\ DecoderInv /\ UNCHANGED <<stage, src, C, ids, Y>>
      /\ phase = "decomp" /\ pc = "done" /\ i = P.L
      /\ X' = D!Gather(ZeroBased(Y), Len(ids))
      /\ k' = 0 /\ phase' = "forward" /\ UNCHANGED <<A0, A, rp, cp, i, pc, passed>>
  BY DEF RTInv, DecoderExecute, Loading, luVars
<1>2. ids \in [1 .. m -> Words] /\ m \in Nat /\ P.L + NExtra = m + NConstraints /\ NConstraints \in Nat
  BY <1>1, DecoderRows
<1>3. /\ \A r \in 0 .. m - 1 : A0[r] = SymbolRow(ids[r + 1])
      /\ \A q \in 0 .. NConstraints - 1 : A0[m + q] = ConstraintRow(q)
  BY <1>1, DecoderRows
<1> HIDE DEF m
<1>4. ASSUME NEW r \in 0 .. m - 1
      PROVE  DP!Product(C, r) = Y[r + 1]
  <2>1. r + 1 \in 1 .. m /\ DOMAIN ids = 1 .. m
    BY <1>2
  <2>2. Y[r + 1] = SymbolOf(C, ids[r + 1]) /\ C \in Octets
    BY <1>1, <2>1 DEF DecoderInv
  <2> QED BY <1>3, <2>2, SymbolIsRow, ProductsAre
<1>5. ASSUME NEW r \in m .. (P.L + NExtra) - 1
      PROVE  DP!Product(C, r) = 0
  <2>1. r - m \in 0 .. NConstraints - 1 /\ m + (r - m) = r
    BY <1>2, LIsNat
  <2>2. RowTimes(ConstraintRow(r - m), C) = 0
    BY <1>1, <2>1 DEF DecoderInv
  <2>3. A0[r] = ConstraintRow(r - m)
    BY <1>3, <2>1
  <2> QED BY <2>2, <2>3, ProductsAre
<1>6. DP!LoadCodec(C, m)
  <2>1. X' = DP!Gather([r \in DP!Rows |-> IF r < m THEN DP!Product(C, r) ELSE 1], m)
    <3>1. Len(ids) = m /\ Len(Y) = m
      BY <1>1, <1>2 DEF DecoderInv
    <3>2. D!Cols = DP!Cols /\ D!Gather(ZeroBased(Y), Len(ids)) =
            [r \in D!Cols |-> IF rp[r] >= Len(ids) THEN 0 ELSE ZeroBased(Y)[rp[r]]]
      BY DEF D!Gather, D!Cols, DP!Cols
    <3>3. ASSUME NEW r \in DP!Cols, ~(rp[r] >= m)
          PROVE  ZeroBased(Y)[rp[r]] = [q \in DP!Rows |-> IF q < m THEN DP!Product(C, q) ELSE 1][rp[r]]
      <4>1. PICK q \in DP!Rows : q = rp[r]
        <5>1. rp \in [DP!Rows -> DP!Rows]
          BY <1>1 DEF DecoderInv, DP!SolveIInv, DP!LUInv, DP!TypeOK, DP!IsPermutation
        <5>2. r \in DP!Rows
          BY LIsNat DEF DP!Rows, DP!Cols
        <5> QED BY <5>1, <5>2
      <4>2. q < m /\ q \in 0 .. m - 1
        BY <3>3, <4>1, <1>2, LIsNat DEF DP!Rows
      <4>3. ZeroBased(Y)[q] = Y[q + 1]
        BY <3>1, <4>2 DEF ZeroBased
      <4>4. DP!Product(C, q) = Y[q + 1]
        BY <1>4, <4>2
      <4> QED BY <4>1, <4>2, <4>3, <4>4
    <3> QED BY <1>1, <3>1, <3>2, <3>3 DEF DP!Gather
  <2>2. UNCHANGED DP!luVars
    BY <1>1 DEF DP!luVars
  <2>3. passed' = FALSE
    BY <1>1 DEF DecoderInv
  <2> QED BY <1>1, <1>5, <2>1, <2>2, <2>3 DEF DP!LoadCodec
<1>7. DP!SolveNext
  <2>1. C \in [DP!Cols -> GF256] /\ m \in 0 .. P.L + NExtra
    BY <1>1, <1>2, LIsNat DEF DecoderInv, Octets, DP!Cols
  <2> QED BY <1>6, <2>1 DEF DP!SolveNext
<1>8. DP!SolveIInv'
  BY <1>1, <1>7, DecoderInvStep DEF DecoderInv
<1>9. DecoderInv'
  BY <1>1, <1>8 DEF DecoderInv
<1> QED BY <1>1, <1>9 DEF RTInv

(* The remaining steps leave the solver alone.                             *)
LEMMA QuietStep ==
  ASSUME RTInv, Insufficient \/ Finish \/ UNCHANGED vars
  PROVE  RTInv'
<1>1. UNCHANGED <<luVars, solveVars, src, C, ids, Y>>
  BY DEF Insufficient, Finish, vars
<1>2. EncX' = EncX
  BY <1>1 DEF EncX, luVars
<1>3. UNCHANGED EP!vars /\ UNCHANGED DP!vars
  BY <1>1, <1>2 DEF luVars, solveVars, EP!vars, DP!vars
<1>4. stage = "encoder" => EncoderInv'
  <2> SUFFICES ASSUME stage = "encoder" PROVE EncoderInv'
    OBVIOUS
  <2>1. EncoderInv
    BY DEF RTInv
  <2>2. EP!SolveIInv'
    BY <1>3, <2>1, EncoderInvStep DEF EncoderInv
  <2> QED BY <1>1, <1>2, <2>1, <2>2 DEF EncoderInv, luVars, solveVars
<1>5. stage # "encoder" => DecoderInv'
  <2> SUFFICES ASSUME stage # "encoder" PROVE DecoderInv'
    OBVIOUS
  <2>1. DecoderInv
    BY DEF RTInv
  <2>2. DP!SolveIInv'
    BY <1>3, <2>1, DecoderInvStep DEF DecoderInv
  <2> QED BY <1>1, <2>1, <2>2 DEF DecoderInv, luVars, solveVars
<1>6. CASE Insufficient
  BY <1>5, <1>6 DEF RTInv, Insufficient, luVars, solveVars
<1>7. CASE Finish
  BY <1>1, <1>5, <1>7 DEF RTInv, Finish, solveVars
<1>8. CASE UNCHANGED vars
  BY <1>1, <1>4, <1>5, <1>8 DEF RTInv, vars, luVars, solveVars
<1> QED BY <1>6, <1>7, <1>8

(* The invariant holds in every state of every round trip. *)
LEMMA RTInvHolds == Spec => []RTInv
<1>1. RTInv /\ [Next]_vars => RTInv'
  <2> SUFFICES ASSUME RTInv, [Next]_vars PROVE RTInv'
    OBVIOUS
  <2>1. CASE EncoderSteps
    BY <2>1, EncoderStepsStep
  <2>2. CASE \E s \in Sources : EncoderExecute(s)
    BY <2>2, EncoderExecuteStep
  <2>3. CASE \E list \in IdLists : Send(list)
    BY <2>3, SendStep
  <2>4. CASE DecoderSteps
    BY <2>4, DecoderStepsStep
  <2>5. CASE DecoderExecute
    BY <2>5, DecoderExecuteStep
  <2>6. CASE Insufficient \/ Finish \/ Ended \/ UNCHANGED vars
    BY <2>6, QuietStep DEF Ended
  <2> QED BY <2>1, <2>2, <2>3, <2>4, <2>5, <2>6 DEF Next
<1> QED BY <1>1, RTInvInit, PTL DEF Spec

-----------------------------------------------------------------------------
(* The theorems *)

LEMMA InvDecodes == RTInv => Decodes
<1> SUFFICES ASSUME RTInv, stage = "finished" PROVE X = C /\ dec = src
  BY DEF Decodes
<1>1. DecoderInv /\ phase = "solved" /\ dec = [n \in 1 .. K |-> SymbolOf(X, SourceIds[n])]
  BY DEF RTInv
<1>2. X = C
  <2>1. DP!SolveIInv /\ ~passed
    BY <1>1 DEF DecoderInv
  <2>2. DP!CodecRecovers
    BY <2>1, LIsNat, DP!InvRecovers
  <2> QED BY <1>1, <2>1, <2>2 DEF DP!CodecRecovers
<1>3. src \in [1 .. K -> GF256] /\ \A n \in 1 .. K : SymbolOf(X, SourceIds[n]) = src[n]
  BY <1>1, <1>2, BlockAssumption DEF DecoderInv
<1>4. dec = src
  BY <1>1, <1>3
<1> QED BY <1>2, <1>4

(* RqInterExecute and RqOutExecute, there and back: for every block that   *)
(* the code supports, every source and every list of IDs, in any order and *)
(* with IDs twice, a decoder whose matrix has full rank ends with the      *)
(* encoder's intermediate block and the source.                            *)
THEOREM DecodesHolds == Spec => []Decodes
BY RTInvHolds, InvDecodes, PTL

(* The code is systematic: once the encoder has solved, the symbols of the *)
(* IDs below K are the source, and padding and constraints are zero.  (That*)
(* the encoder's matrix has full rank is for TLC.)                         *)
THEOREM SystematicBlockHolds == Spec => []SystematicBlock
<1>1. RTInv => SystematicBlock
  <2> SUFFICES ASSUME RTInv, stage = "encoder", phase = "solved"
               PROVE  /\ \A n \in 1 .. K : SymbolOf(X, SourceIds[n]) = src[n]
                      /\ \A r \in 0 .. P.L - 1 : r >= K => E!Product(X, r) = 0
    BY DEF SystematicBlock
  <2>1. EncoderInv
    BY DEF RTInv
  <2>2. /\ \A n \in 1 .. K : SymbolOf(X, SourceIds[n]) = src[n]
        /\ \A q \in 0 .. NConstraints - 1 : RowTimes(ConstraintRow(q), X) = 0
    BY <2>1, EncoderBlock
  <2>3. \A q \in 0 .. NConstraints - 1 : A0[K + q] = ConstraintRow(q)
    BY <2>1, SourceIdsType, RowsOf, Dimensions DEF EncoderInv
  <2>4. ASSUME NEW r \in 0 .. P.L - 1, r >= K
        PROVE  E!Product(X, r) = 0
    <3>1. r - K \in 0 .. NConstraints - 1 /\ K + (r - K) = r
      BY <2>4, Dimensions DEF NConstraints
    <3>2. RowTimes(A0[r], X) = 0
      BY <2>2, <2>3, <3>1
    <3> QED BY <3>2, ProductsAre
  <2> QED BY <2>2, <2>4
<1> QED BY <1>1, RTInvHolds, PTL

(* RQ_ERR_INSUFF_IDS is never premature: when RqInterCompile reports it,   *)
(* there is another source whose symbols for the received IDs are the same,*)
(* octet for octet, so that no decoder could have told.                    *)
RefusesOnlyAmbiguous ==
  stage = "insufficient" =>
    \E y \in Octets :
      /\ \A q \in 0 .. NConstraints - 1 : RowTimes(ConstraintRow(q), y) = 0
      /\ Y = [n \in DOMAIN ids |-> SymbolOf(y, ids[n])]
      /\ \E n \in 1 .. K : SymbolOf(y, SourceIds[n]) # src[n]

(* A decoder that gives up could not have decoded by any other means.      *)
THEOREM RefusesOnlyAmbiguousHolds == Spec => []RefusesOnlyAmbiguous
<1>1. ASSUME RTInv, stage = "insufficient"
      PROVE  \E y \in Octets :
               /\ \A q \in 0 .. NConstraints - 1 : RowTimes(ConstraintRow(q), y) = 0
               /\ Y = [n \in DOMAIN ids |-> SymbolOf(y, ids[n])]
               /\ \E n \in 1 .. K : SymbolOf(y, SourceIds[n]) # src[n]
  <2> DEFINE m == K + NExtra
  <2>1. DecoderInv /\ C \in Octets /\ pc = "done" /\ i < P.L
    BY <1>1 DEF RTInv, DecoderInv
  <2>2. PICK y \in Octets : y # C /\ \A r \in 0 .. (P.L + NExtra) - 1 : RowTimes(A0[r], y) = RowTimes(A0[r], C)
    <3>1. DP!LUInv /\ C \in [DP!Cols -> GF256] /\ 1 # 0
      BY <2>1 DEF DecoderInv, DP!SolveIInv, Octets, DP!Cols
    <3>2. \E y \in [DP!Cols -> GF256] : y # C /\ \A r \in DP!Rows : DP!Product(y, r) = DP!Product(C, r)
      BY <2>1, <3>1, LIsNat, DP!DeficientUndetermined
    <3> QED BY <3>2, ProductsAre DEF Octets, DP!Cols, DP!Rows
  <2>3. /\ ids \in [1 .. m -> Words] /\ m \in Nat /\ P.L + NExtra = m + NConstraints /\ NConstraints \in Nat
        /\ \A r \in 0 .. m - 1 : A0[r] = SymbolRow(ids[r + 1])
        /\ \A q \in 0 .. NConstraints - 1 : A0[m + q] = ConstraintRow(q)
    BY <2>1, DecoderRows
  <2> HIDE DEF m
  <2>4. ASSUME NEW n \in DOMAIN ids
        PROVE  SymbolOf(y, ids[n]) = SymbolOf(C, ids[n])
    <3>1. n - 1 \in 0 .. m - 1 /\ (n - 1) + 1 = n /\ n - 1 \in 0 .. (P.L + NExtra) - 1
      BY <2>3
    <3>2. A0[n - 1] = SymbolRow(ids[n])
      BY <2>3, <3>1
    <3>3. RowTimes(A0[n - 1], y) = RowTimes(A0[n - 1], C)
      BY <2>2, <3>1
    <3> QED BY <2>1, <3>2, <3>3, SymbolIsRow
  <2>5. ASSUME NEW q \in 0 .. NConstraints - 1
        PROVE  RowTimes(ConstraintRow(q), y) = 0 /\ RowTimes(ConstraintRow(q), C) = 0
    <3>1. m + q \in 0 .. (P.L + NExtra) - 1
      BY <2>3
    <3>2. RowTimes(A0[m + q], y) = RowTimes(A0[m + q], C)
      BY <2>2, <3>1
    <3> QED BY <2>1, <2>3, <3>2 DEF DecoderInv
  <2>6. Y = [n \in DOMAIN ids |-> SymbolOf(y, ids[n])]
    BY <2>1, <2>4 DEF DecoderInv
  <2>7. \E n \in 1 .. K : SymbolOf(y, SourceIds[n]) # src[n]
    <3>1. SUFFICES ASSUME \A n \in 1 .. K : SymbolOf(y, SourceIds[n]) = src[n]
                   PROVE  y = C
      BY <2>2
    <3>2. \A n \in 1 .. K : SymbolOf(y, SourceIds[n]) = SymbolOf(C, SourceIds[n])
      BY <2>1, <3>1 DEF DecoderInv
    <3>3. \A q \in 0 .. NConstraints - 1 : RowTimes(ConstraintRow(q), y) = RowTimes(ConstraintRow(q), C)
      BY <2>5
    <3>4. SourceDetermines
      BY <2>1 DEF DecoderInv
    <3> QED BY <2>1, <3>2, <3>3, <3>4 DEF SourceDetermines
  <2> QED BY <2>5, <2>6, <2>7
<1>2. RTInv => RefusesOnlyAmbiguous
  BY <1>1 DEF RefusesOnlyAmbiguous
<1> QED BY <1>2, RTInvHolds, PTL

=============================================================================
