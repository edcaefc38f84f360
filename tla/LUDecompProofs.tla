--------------------------- MODULE LUDecompProofs ---------------------------
(***************************************************************************)
(* Proofs about LUDecomp, for every dimension, every finite field of       *)
(* characteristic two and every matrix.                                    *)
(*                                                                         *)
(* The first part is about Sum, what the factors and the products of       *)
(* src/algebra/mv_generic.h are made of.  Sum is a recursive function, so  *)
(* everything there rests on induction.  The library states induction for  *)
(* operators P(_); NatSet states it for a set, from the theorem that       *)
(* well-founded sets have minimal elements.                                *)
(***************************************************************************)
EXTENDS LUDecomp, FiniteSetTheorems, TLAPS

NatLess == {p \in Nat \X Nat : p[1] < p[2]}

(* Every set of naturals that has an element has a least one. *)
LEMMA Least ==
  ASSUME NEW T, T \subseteq Nat, T # {}
  PROVE  \E x \in T : \A y \in T : x <= y
<1>1. OpToRel(<, Nat) = NatLess
  BY DEF OpToRel, NatLess
<1>2. IsWellFoundedOn(NatLess, Nat)
  BY <1>1, NatLessThanWellFounded
<1>3. PICK x \in T : \A y \in T : ~ (<<y, x>> \in NatLess)
  BY <1>2, WFMin
<1>4. ASSUME NEW y \in T PROVE x <= y
  <2>1. x \in Nat /\ y \in Nat
    OBVIOUS
  <2>2. <<y, x>> \notin NatLess
    BY <1>3
  <2>3. ~(y < x)
    BY <2>1, <2>2 DEF NatLess
  <2> QED BY <2>1, <2>3
<1> QED BY <1>4

(* Induction: a set with 0 that is closed under + 1 holds all naturals. *)
LEMMA NatSet ==
  ASSUME NEW S, 0 \in S, \A n \in Nat : n \in S => n + 1 \in S
  PROVE  Nat \subseteq S
<1> SUFFICES ASSUME ~(Nat \subseteq S) PROVE FALSE
  OBVIOUS
<1> DEFINE T == Nat \ S
<1>1. T # {} /\ T \subseteq Nat
  OBVIOUS
<1>2. PICK x \in T : \A y \in T : x <= y
  BY <1>1, Least
<1>3. x \in Nat /\ x # 0
  BY <1>2
<1>4. x - 1 \in Nat /\ x - 1 \notin T
  BY <1>2, <1>3
<1>5. x - 1 \in S
  BY <1>4
<1>6. x - 1 + 1 = x
  BY <1>3
<1> QED BY <1>4, <1>5, <1>6

-----------------------------------------------------------------------------
(* Functions that call themselves *)

(* s is defined from 0 up, or from n down, by G on the value before it.    *)
IsUp(s, a, n, G) == s = [j \in 0 .. n |-> IF j = 0 THEN a ELSE G[<<s[j - 1], j>>]]
IsDown(s, a, n, G) == s = [j \in 0 .. n |-> IF j = n THEN a ELSE G[<<s[j + 1], j>>]]

(* Such functions exist, for any G between octets, columns or whatever V is*)
(* the set of.                                                             *)
LEMMA UpExists ==
  ASSUME NEW V, NEW a \in V, NEW n \in Nat, NEW G \in [V \X (1 .. n) -> V]
  PROVE  \E s \in [0 .. n -> V] : IsUp(s, a, n, G)
<1> DEFINE Is(s, m) == s = [j \in 0 .. m |-> IF j = 0 THEN a ELSE G[<<s[j - 1], j>>]]
           S == {m \in Nat : m <= n => \E s \in [0 .. m -> V] : Is(s, m)}
<1>1. 0 \in S
  <2> DEFINE s == [j \in 0 .. 0 |-> a]
  <2>1. s \in [0 .. 0 -> V] /\ Is(s, 0)
    OBVIOUS
  <2> QED BY <2>1
<1>2. ASSUME NEW m \in Nat, m \in S PROVE m + 1 \in S
  <2> SUFFICES ASSUME m + 1 <= n PROVE \E s \in [0 .. m + 1 -> V] : Is(s, m + 1)
    OBVIOUS
  <2>1. PICK s \in [0 .. m -> V] : Is(s, m)
    BY <1>2
  <2> DEFINE t == [j \in 0 .. m + 1 |-> IF j = m + 1 THEN G[<<s[m], m + 1>>] ELSE s[j]]
  <2>2. ASSUME NEW j \in 0 .. m + 1
        PROVE  t[j] \in V /\ t[j] = IF j = 0 THEN a ELSE G[<<t[j - 1], j>>]
    <3>1. CASE j = m + 1
      <4>1. m \in 0 .. m + 1 /\ m \in 0 .. m /\ m # m + 1 /\ j # 0 /\ j - 1 = m
            /\ m + 1 \in 1 .. n
        BY <3>1
      <4>2. t[j - 1] = s[m] /\ s[m] \in V
        BY <4>1
      <4> QED BY <3>1, <4>1, <4>2
    <3>2. CASE j # m + 1
      <4>1. j \in 0 .. m /\ t[j] = s[j] /\ s[j] \in V
        BY <3>2
      <4>2. s[j] = IF j = 0 THEN a ELSE G[<<s[j - 1], j>>]
        BY <4>1, <2>1
      <4>3. j # 0 => j - 1 \in 0 .. m + 1 /\ j - 1 # m + 1
        BY <4>1
      <4>4. j # 0 => t[j - 1] = s[j - 1]
        BY <4>3
      <4> QED BY <4>1, <4>2, <4>4
    <3> QED BY <3>1, <3>2
  <2>3. t \in [0 .. m + 1 -> V] /\ Is(t, m + 1)
    BY <2>2
  <2> QED BY <2>3
<1>3. n \in S
  <2> HIDE DEF S
  <2> QED BY <1>1, <1>2, NatSet
<1> QED BY <1>3 DEF IsUp

(* The same, read from the other end. *)
LEMMA DownExists ==
  ASSUME NEW V, NEW a \in V, NEW n \in Nat, NEW G \in [V \X (0 .. n - 1) -> V]
  PROVE  \E s \in [0 .. n -> V] : IsDown(s, a, n, G)
<1> DEFINE U == [w \in V \X (1 .. n) |-> G[<<w[1], n - w[2]>>]]
<1>1. U \in [V \X (1 .. n) -> V]
  <2>1. \A w \in V \X (1 .. n) : w[1] \in V /\ n - w[2] \in 0 .. n - 1
    OBVIOUS
  <2> QED BY <2>1
<1>2. \A v \in V, j \in 1 .. n : U[<<v, j>>] = G[<<v, n - j>>]
  OBVIOUS
<1> HIDE DEF U
<1>3. PICK s \in [0 .. n -> V] : IsUp(s, a, n, U)
  BY <1>1, UpExists
<1> DEFINE t == [c \in 0 .. n |-> s[n - c]]
<1>4. ASSUME NEW c \in 0 .. n
      PROVE  t[c] \in V /\ t[c] = IF c = n THEN a ELSE G[<<t[c + 1], c>>]
  <2>1. n - c \in 0 .. n /\ t[c] = s[n - c] /\ s[n - c] \in V
    OBVIOUS
  <2>2. s[n - c] = IF n - c = 0 THEN a ELSE U[<<s[n - c - 1], n - c>>]
    BY <1>3, <2>1 DEF IsUp
  <2>3. CASE c = n
    BY <2>1, <2>2, <2>3
  <2>4. CASE c # n
    <3>1. /\ n - c # 0 /\ n - c \in 1 .. n /\ n - (n - c) = c
          /\ c + 1 \in 0 .. n /\ n - (c + 1) = n - c - 1 /\ n - c - 1 \in 0 .. n
      BY <2>4
    <3>2. t[c + 1] = s[n - c - 1] /\ s[n - c - 1] \in V
      BY <3>1
    <3>3. U[<<s[n - c - 1], n - c>>] = G[<<s[n - c - 1], c>>]
      BY <1>2, <3>1, <3>2
    <3> QED BY <2>1, <2>2, <2>4, <3>1, <3>2, <3>3
  <2> QED BY <2>3, <2>4
<1>5. t \in [0 .. n -> V] /\ t = [c \in 0 .. n |-> IF c = n THEN a ELSE G[<<t[c + 1], c>>]]
  BY <1>4
<1> QED BY <1>5 DEF IsDown

(* The values of such functions, one after the other, are in V.            *)
StaysUp(s, n, V) == s[0] \in V /\ \A j \in 0 .. n - 1 : s[j] \in V => s[j + 1] \in V
StaysDown(s, n, V) == s[n] \in V /\ \A j \in 0 .. n - 1 : s[j + 1] \in V => s[j] \in V

(* Then all values are in V. *)
LEMMA UpType ==
  ASSUME NEW s, NEW V, NEW n \in Nat, StaysUp(s, n, V)
  PROVE  \A j \in 0 .. n : s[j] \in V
<1> DEFINE S == {j \in Nat : j <= n => s[j] \in V}
<1>1. 0 \in S
  BY DEF StaysUp
<1>2. ASSUME NEW j \in Nat, j \in S PROVE j + 1 \in S
  BY <1>2 DEF StaysUp
<1>3. \A j \in Nat : j \in S
  <2> HIDE DEF S
  <2> QED BY <1>1, <1>2, NatSet
<1> QED BY <1>3

(* The same, read from the other end. *)
LEMMA DownType ==
  ASSUME NEW s, NEW V, NEW n \in Nat, StaysDown(s, n, V)
  PROVE  \A j \in 0 .. n : s[j] \in V
<1> DEFINE S == {j \in Nat : j <= n => s[n - j] \in V}
<1>1. 0 \in S
  BY DEF StaysDown
<1>2. ASSUME NEW j \in Nat, j \in S PROVE j + 1 \in S
  <2> SUFFICES ASSUME j + 1 <= n PROVE s[n - (j + 1)] \in V
    OBVIOUS
  <2>1. n - (j + 1) \in 0 .. n - 1 /\ n - (j + 1) + 1 = n - j /\ s[n - j] \in V
    BY <1>2
  <2> QED BY <2>1 DEF StaysDown
<1>3. \A j \in Nat : j \in S
  <2> HIDE DEF S
  <2> QED BY <1>1, <1>2, NatSet
<1>4. ASSUME NEW j \in 0 .. n PROVE s[j] \in V
  <2>1. n - j \in Nat /\ n - j <= n /\ n - (n - j) = j
    OBVIOUS
  <2> QED BY <1>3, <2>1
<1> QED BY <1>4

(* What two such functions do alike they end in alike.                     *)
AlikeUp(s, t, n) == s[0] = t[0] /\ \A j \in 0 .. n - 1 : s[j] = t[j] => s[j + 1] = t[j + 1]
AlikeDown(s, t, n) == s[n] = t[n] /\ \A j \in 0 .. n - 1 : s[j + 1] = t[j + 1] => s[j] = t[j]

LEMMA UpEnds ==
  ASSUME NEW s, NEW t, NEW n \in Nat, AlikeUp(s, t, n)
  PROVE  s[n] = t[n]
<1> DEFINE S == {j \in Nat : j <= n => s[j] = t[j]}
<1>1. 0 \in S
  BY DEF AlikeUp
<1>2. ASSUME NEW j \in Nat, j \in S PROVE j + 1 \in S
  BY <1>2 DEF AlikeUp
<1>3. \A j \in Nat : j \in S
  <2> HIDE DEF S
  <2> QED BY <1>1, <1>2, NatSet
<1> QED BY <1>3

(* The same, read from the other end. *)
LEMMA DownEnds ==
  ASSUME NEW s, NEW t, NEW n \in Nat, AlikeDown(s, t, n)
  PROVE  s[0] = t[0]
<1> DEFINE S == {j \in Nat : j <= n => s[n - j] = t[n - j]}
<1>1. 0 \in S
  BY DEF AlikeDown
<1>2. ASSUME NEW j \in Nat, j \in S PROVE j + 1 \in S
  <2> SUFFICES ASSUME j + 1 <= n PROVE s[n - (j + 1)] = t[n - (j + 1)]
    OBVIOUS
  <2>1. n - (j + 1) \in 0 .. n - 1 /\ n - (j + 1) + 1 = n - j /\ s[n - j] = t[n - j]
    BY <1>2
  <2> QED BY <2>1 DEF AlikeDown
<1>3. \A j \in Nat : j \in S
  <2> HIDE DEF S
  <2> QED BY <1>1, <1>2, NatSet
<1>4. s[n - n] = t[n - n] /\ n - n = 0
  BY <1>3
<1> QED BY <1>4

-----------------------------------------------------------------------------
(* The recursive function in Sum is the one its equation says. *)
IsSums(s, f, n) == s = [k \in 0 .. n |-> IF k = 0 THEN Zero ELSE Add(s[k - 1], f[k - 1])]

(* There is a function of partial sums. *)
LEMMA SumsExist ==
  ASSUME NEW f, NEW n \in Nat
  PROVE  \E s : IsSums(s, f, n)
<1> DEFINE S == {m \in Nat : \E s : IsSums(s, f, m)}
<1>1. 0 \in S
  <2> DEFINE s == [k \in 0 .. 0 |-> Zero]
  <2>1. IsSums(s, f, 0)
    BY DEF IsSums
  <2> QED BY <2>1
<1>2. ASSUME NEW m \in Nat, m \in S PROVE m + 1 \in S
  <2>1. PICK s : IsSums(s, f, m)
    BY <1>2
  <2> DEFINE t == [k \in 0 .. m + 1 |-> IF k = m + 1 THEN Add(s[m], f[m]) ELSE s[k]]
  <2>2. ASSUME NEW k \in 0 .. m + 1
        PROVE  t[k] = IF k = 0 THEN Zero ELSE Add(t[k - 1], f[k - 1])
    <3>1. CASE k = m + 1
      BY <3>1
    <3>2. CASE k # m + 1
      <4>1. k \in 0 .. m
        BY <3>2
      <4>2. s[k] = IF k = 0 THEN Zero ELSE Add(s[k - 1], f[k - 1])
        BY <4>1, <2>1 DEF IsSums
      <4>3. k # 0 => k - 1 \in 0 .. m + 1 /\ k - 1 # m + 1
        BY <4>1
      <4> QED BY <4>1, <4>2, <4>3
    <3> QED BY <3>1, <3>2
  <2>3. IsSums(t, f, m + 1)
    BY <2>2 DEF IsSums
  <2> QED BY <2>3
<1>3. n \in S
  <2> HIDE DEF S
  <2> QED BY <1>1, <1>2, NatSet
<1> QED BY <1>3

LEMMA SumsAre ==
  ASSUME NEW f, NEW n \in Nat
  PROVE  \E s : IsSums(s, f, n) /\ Sum(f, n) = s[n]
<1> DEFINE s == CHOOSE s : s = [k \in 0 .. n |-> IF k = 0 THEN Zero ELSE Add(s[k - 1], f[k - 1])]
<1>1. \E t : t = [k \in 0 .. n |-> IF k = 0 THEN Zero ELSE Add(t[k - 1], f[k - 1])]
  BY SumsExist DEF IsSums
<1>2. IsSums(s, f, n)
  BY <1>1 DEF IsSums
<1>3. Sum(f, n) = s[n]
  BY DEF Sum
<1> QED BY <1>2, <1>3

(* Partial sums of the same terms are the same. *)
LEMMA SumsAgree ==
  ASSUME NEW f, NEW g, NEW n \in Nat, NEW m \in Nat, NEW s, NEW t,
         IsSums(s, f, n), IsSums(t, g, m), NEW l \in Nat, l <= n, l <= m,
         \A k \in 0 .. l - 1 : f[k] = g[k]
  PROVE  s[l] = t[l]
<1> DEFINE S == {k \in Nat : k <= l => s[k] = t[k]}
<1>1. 0 \in S
  BY DEF IsSums
<1>2. ASSUME NEW k \in Nat, k \in S PROVE k + 1 \in S
  <2> SUFFICES ASSUME k + 1 <= l PROVE s[k + 1] = t[k + 1]
    OBVIOUS
  <2>1. s[k] = t[k] /\ f[k] = g[k]
    BY <1>2
  <2>2. k + 1 \in 0 .. n /\ k + 1 \in 0 .. m /\ k + 1 # 0 /\ k + 1 - 1 = k
    OBVIOUS
  <2>3. s[k + 1] = Add(s[k], f[k])
    BY <2>2 DEF IsSums
  <2>4. t[k + 1] = Add(t[k], g[k])
    BY <2>2 DEF IsSums
  <2> QED BY <2>1, <2>3, <2>4
<1>3. l \in S
  <2> HIDE DEF S
  <2> QED BY <1>1, <1>2, NatSet
<1> QED BY <1>3

LEMMA SumNone == ASSUME NEW f PROVE Sum(f, 0) = Zero
BY SumsAre DEF IsSums

(* The equation the proofs below use instead of the definition. *)
LEMMA SumNext ==
  ASSUME NEW f, NEW n \in Nat
  PROVE  Sum(f, n + 1) = Add(Sum(f, n), f[n])
<1>1. PICK s : IsSums(s, f, n + 1) /\ Sum(f, n + 1) = s[n + 1]
  BY SumsAre
<1>2. PICK t : IsSums(t, f, n) /\ Sum(f, n) = t[n]
  BY SumsAre
<1>3. s[n] = t[n]
  <2>1. n <= n /\ n <= n + 1 /\ n + 1 \in Nat
    OBVIOUS
  <2> QED BY <1>1, <1>2, <2>1, SumsAgree
<1>4. n + 1 \in 0 .. n + 1 /\ n + 1 # 0 /\ n + 1 - 1 = n
  OBVIOUS
<1>5. s[n + 1] = Add(s[n], f[n])
  BY <1>1, <1>4 DEF IsSums
<1> QED BY <1>1, <1>2, <1>3, <1>5

(* A sum depends on its terms only. *)
LEMMA SumEqual ==
  ASSUME NEW f, NEW g, NEW n \in Nat, \A k \in 0 .. n - 1 : f[k] = g[k]
  PROVE  Sum(f, n) = Sum(g, n)
<1>1. PICK s : IsSums(s, f, n) /\ Sum(f, n) = s[n]
  BY SumsAre
<1>2. PICK t : IsSums(t, g, n) /\ Sum(g, n) = t[n]
  BY SumsAre
<1>3. n <= n
  OBVIOUS
<1> QED BY <1>1, <1>2, <1>3, SumsAgree

LEMMA SumType ==
  ASSUME Assumptions, NEW f, NEW n \in Nat, \A k \in 0 .. n - 1 : f[k] \in F
  PROVE  Sum(f, n) \in F
<1> DEFINE S == {m \in Nat : m <= n => Sum(f, m) \in F}
<1>1. 0 \in S
  BY SumNone DEF Assumptions, FieldAssumption
<1>2. ASSUME NEW m \in Nat, m \in S PROVE m + 1 \in S
  <2>1. Sum(f, m + 1) = Add(Sum(f, m), f[m])
    BY SumNext
  <2>2. m + 1 <= n => Sum(f, m) \in F /\ f[m] \in F
    BY <1>2
  <2> QED BY <2>1, <2>2 DEF Assumptions, FieldAssumption
<1>3. n \in S
  <2> HIDE DEF S
  <2> QED BY <1>1, <1>2, NatSet
<1> QED BY <1>3

(* Sums of sums, multiples and zeros. *)
LEMMA SumAdd ==
  ASSUME Assumptions, NEW f, NEW g, NEW h, NEW n \in Nat,
         \A k \in 0 .. n - 1 : f[k] \in F /\ g[k] \in F /\ h[k] = Add(f[k], g[k])
  PROVE  Sum(h, n) = Add(Sum(f, n), Sum(g, n))
<1> DEFINE S == {m \in Nat : m <= n => Sum(h, m) = Add(Sum(f, m), Sum(g, m))}
<1>1. 0 \in S
  BY SumNone DEF Assumptions, FieldAssumption
<1>2. ASSUME NEW m \in Nat, m \in S PROVE m + 1 \in S
  <2> SUFFICES ASSUME m + 1 <= n PROVE Sum(h, m + 1) = Add(Sum(f, m + 1), Sum(g, m + 1))
    OBVIOUS
  <2>1. /\ Sum(h, m + 1) = Add(Sum(h, m), h[m])
        /\ Sum(f, m + 1) = Add(Sum(f, m), f[m])
        /\ Sum(g, m + 1) = Add(Sum(g, m), g[m])
    BY SumNext
  <2>2. f[m] \in F /\ g[m] \in F /\ h[m] = Add(f[m], g[m])
    OBVIOUS
  <2>3. Sum(f, m) \in F /\ Sum(g, m) \in F
    BY SumType
  <2>4. Sum(h, m) = Add(Sum(f, m), Sum(g, m))
    BY <1>2
  <2>5. \A a, b, c, d \in F : Add(Add(a, b), Add(c, d)) = Add(Add(a, c), Add(b, d))
    BY DEF Assumptions, FieldAssumption, FieldLaws
  <2> QED BY <2>1, <2>2, <2>3, <2>4, <2>5
<1>3. n \in S
  <2> HIDE DEF S
  <2> QED BY <1>1, <1>2, NatSet
<1> QED BY <1>3

(* h holds the first n terms of f, each multiplied by a. *)
Scaled(h, f, a, n) == \A k \in 0 .. n - 1 : f[k] \in F /\ h[k] = Mul(a, f[k])

LEMMA SumScale ==
  ASSUME Assumptions, NEW f, NEW h, NEW a \in F, NEW n \in Nat, Scaled(h, f, a, n)
  PROVE  Sum(h, n) = Mul(a, Sum(f, n))
<1> DEFINE S == {m \in Nat : m <= n => Sum(h, m) = Mul(a, Sum(f, m))}
<1>1. 0 \in S
  BY SumNone DEF Assumptions, FieldAssumption
<1>2. ASSUME NEW m \in Nat, m \in S PROVE m + 1 \in S
  <2> SUFFICES ASSUME m + 1 <= n PROVE Sum(h, m + 1) = Mul(a, Sum(f, m + 1))
    OBVIOUS
  <2>1. /\ Sum(h, m + 1) = Add(Sum(h, m), h[m])
        /\ Sum(f, m + 1) = Add(Sum(f, m), f[m])
    BY SumNext
  <2>2. f[m] \in F /\ h[m] = Mul(a, f[m])
    BY DEF Scaled
  <2>5. \A q \in 0 .. m - 1 : f[q] \in F
    BY DEF Scaled
  <2>3. Sum(f, m) \in F
    BY <2>5, SumType
  <2>4. Sum(h, m) = Mul(a, Sum(f, m))
    BY <1>2
  <2> QED BY <2>1, <2>2, <2>3, <2>4 DEF Assumptions, FieldLaws
<1>3. n \in S
  <2> HIDE DEF S
  <2> QED BY <1>1, <1>2, NatSet
<1> QED BY <1>3

LEMMA SumZero ==
  ASSUME Assumptions, NEW f, NEW n \in Nat, \A k \in 0 .. n - 1 : f[k] = Zero
  PROVE  Sum(f, n) = Zero
<1> DEFINE S == {m \in Nat : m <= n => Sum(f, m) = Zero}
<1>1. 0 \in S
  BY SumNone
<1>2. ASSUME NEW m \in Nat, m \in S PROVE m + 1 \in S
  BY <1>2, SumNext DEF Assumptions, FieldAssumption
<1>3. n \in S
  <2> HIDE DEF S
  <2> QED BY <1>1, <1>2, NatSet
<1> QED BY <1>3

(* g holds the n terms of f that follow the first m. *)
Follows(g, f, m, n) ==
  /\ \A k \in 0 .. m + n - 1 : f[k] \in F
  /\ \A k \in 0 .. n - 1 : g[k] = f[m + k]

(* A sum in two parts. *)
LEMMA SumSplit ==
  ASSUME Assumptions, NEW f, NEW g, NEW m \in Nat, NEW n \in Nat, Follows(g, f, m, n)
  PROVE  Sum(f, m + n) = Add(Sum(f, m), Sum(g, n))
<1>a. /\ \A k \in 0 .. m + n - 1 : f[k] \in F
      /\ \A k \in 0 .. n - 1 : g[k] = f[m + k]
  BY DEF Follows
<1> DEFINE S == {l \in Nat : l <= n => Sum(f, m + l) = Add(Sum(f, m), Sum(g, l))}
<1>0. Sum(f, m) \in F
  BY <1>a, SumType
<1>1. 0 \in S
  <2>1. m + 0 = m
    OBVIOUS
  <2> QED BY <1>0, <2>1, SumNone DEF Assumptions, FieldAssumption
<1>2. ASSUME NEW l \in Nat, l \in S PROVE l + 1 \in S
  <2> SUFFICES ASSUME l + 1 <= n PROVE Sum(f, m + (l + 1)) = Add(Sum(f, m), Sum(g, l + 1))
    OBVIOUS
  <2>1. Sum(g, l + 1) = Add(Sum(g, l), g[l])
    BY SumNext
  <2>2. Sum(f, m + l + 1) = Add(Sum(f, m + l), f[m + l])
    BY SumNext
  <2>3. m + (l + 1) = m + l + 1
    OBVIOUS
  <2>4. g[l] = f[m + l] /\ f[m + l] \in F
    BY <1>a
  <2>5. Sum(g, l) \in F
    <3>1. \A k \in 0 .. l - 1 : g[k] \in F
      <4>1. \A k \in 0 .. l - 1 : k \in 0 .. n - 1 /\ m + k \in 0 .. m + n - 1
        OBVIOUS
      <4> QED BY <4>1, <1>a
    <3> QED BY <3>1, SumType
  <2>6. Sum(f, m + l) = Add(Sum(f, m), Sum(g, l))
    BY <1>2
  <2> QED BY <1>0, <2>1, <2>2, <2>3, <2>4, <2>5, <2>6 DEF Assumptions, FieldLaws
<1>3. n \in S
  <2> HIDE DEF S
  <2> QED BY <1>1, <1>2, NatSet
<1> QED BY <1>3

(* f and g are the sums of the rows and of the columns of the table t,     *)
(* which is u by columns.                                                  *)
LineSums(t, u, f, g, m, n) ==
  /\ \A a \in 0 .. m - 1, b \in 0 .. n - 1 : t[a][b] \in F /\ u[b][a] = t[a][b]
  /\ \A a \in 0 .. m - 1 : f[a] = Sum(t[a], n)
  /\ \A b \in 0 .. n - 1 : g[b] = Sum(u[b], m)

(* Rows first or columns first. *)
LEMMA SumSwap ==
  ASSUME Assumptions, NEW t, NEW u, NEW f, NEW g, NEW m \in Nat, NEW n \in Nat, LineSums(t, u, f, g, m, n)
  PROVE  Sum(f, m) = Sum(g, n)
<1>a. /\ \A a \in 0 .. m - 1, b \in 0 .. n - 1 : t[a][b] \in F /\ u[b][a] = t[a][b]
      /\ \A a \in 0 .. m - 1 : f[a] = Sum(t[a], n)
      /\ \A b \in 0 .. n - 1 : g[b] = Sum(u[b], m)
  BY DEF LineSums
<1> DEFINE G(l) == [b \in 0 .. n - 1 |-> Sum(u[b], l)]
           S == {l \in Nat : l <= m => Sum(f, l) = Sum(G(l), n)}
<1>1. 0 \in S
  <2>1. \A b \in 0 .. n - 1 : G(0)[b] = Zero
    BY SumNone
  <2> QED BY <2>1, SumNone, SumZero
<1>2. ASSUME NEW l \in Nat, l \in S PROVE l + 1 \in S
  <2> SUFFICES ASSUME l + 1 <= m PROVE Sum(f, l + 1) = Sum(G(l + 1), n)
    OBVIOUS
  <2>1. Sum(f, l + 1) = Add(Sum(f, l), Sum(t[l], n))
    BY <1>a, SumNext
  <2>2. \A b \in 0 .. n - 1 : Sum(u[b], l + 1) = Add(Sum(u[b], l), t[l][b])
    BY <1>a, SumNext
  <2>3. ASSUME NEW b \in 0 .. n - 1
        PROVE  G(l)[b] \in F /\ t[l][b] \in F /\ G(l + 1)[b] = Add(G(l)[b], t[l][b])
    <3>1. \A a \in 0 .. l - 1 : u[b][a] \in F
      BY <1>a
    <3>2. Sum(u[b], l) \in F
      BY <3>1, SumType
    <3> QED BY <1>a, <2>2, <3>2
  <2>4. Sum(G(l + 1), n) = Add(Sum(G(l), n), Sum(t[l], n))
    <3> HIDE DEF G
    <3> QED BY <2>3, SumAdd
  <2> QED BY <1>2, <2>1, <2>4
<1>3. m \in S
  <2> HIDE DEF S
  <2> QED BY <1>1, <1>2, NatSet
<1>4. \A b \in 0 .. n - 1 : G(m)[b] = g[b]
  BY <1>a
<1>5. Sum(G(m), n) = Sum(g, n)
  <2> HIDE DEF G
  <2> QED BY <1>4, SumEqual
<1> QED BY <1>3, <1>5

(* One term taken out of a sum, wherever it stands. *)
LEMMA SumRemove ==
  ASSUME Assumptions, NEW f, NEW h, NEW n \in Nat, NEW m \in 0 .. n,
         \A k \in 0 .. n : f[k] \in F,
         \A k \in 0 .. n - 1 : h[k] = IF k < m THEN f[k] ELSE f[k + 1]
  PROVE  Sum(f, n + 1) = Add(f[m], Sum(h, n))
<1> DEFINE S == {l \in Nat : m + l <= n => Sum(f, m + l + 1) = Add(f[m], Sum(h, m + l))}
<1>0. m \in Nat
  OBVIOUS
<1>1. 0 \in S
  <2>1. m + 0 = m
    OBVIOUS
  <2>2. Sum(f, m + 1) = Add(Sum(f, m), f[m])
    BY <1>0, SumNext
  <2>3. \A k \in 0 .. m - 1 : f[k] = h[k] /\ f[k] \in F
    OBVIOUS
  <2>4. Sum(f, m) = Sum(h, m) /\ Sum(f, m) \in F
    BY <1>0, <2>3, SumEqual, SumType
  <2>5. f[m] \in F
    OBVIOUS
  <2> QED BY <2>1, <2>2, <2>4, <2>5 DEF Assumptions, FieldLaws
<1>2. ASSUME NEW l \in Nat, l \in S PROVE l + 1 \in S
  <2> SUFFICES ASSUME m + (l + 1) <= n
               PROVE  Sum(f, m + (l + 1) + 1) = Add(f[m], Sum(h, m + (l + 1)))
    OBVIOUS
  <2>1. m + (l + 1) = m + l + 1 /\ m + l \in Nat
    BY <1>0
  <2>2. Sum(f, m + l + 1 + 1) = Add(Sum(f, m + l + 1), f[m + l + 1])
    BY <2>1, SumNext
  <2>3. Sum(h, m + l + 1) = Add(Sum(h, m + l), h[m + l])
    BY <2>1, SumNext
  <2>4. m + l \in 0 .. n - 1 /\ ~(m + l < m) /\ m + l + 1 \in 0 .. n
    BY <1>0
  <2>5. h[m + l] = f[m + l + 1] /\ f[m + l + 1] \in F
    BY <2>4
  <2>6. Sum(h, m + l) \in F
    <3>1. ASSUME NEW k \in 0 .. m + l - 1 PROVE h[k] \in F
      <4>1. k \in 0 .. n - 1 /\ k \in 0 .. n /\ k + 1 \in 0 .. n
        BY <1>0
      <4> QED BY <4>1
    <3> QED BY <3>1, <2>1, SumType
  <2>7. Sum(f, m + l + 1) = Add(f[m], Sum(h, m + l)) /\ f[m] \in F
    BY <1>2, <1>0
  <2> QED BY <2>1, <2>2, <2>3, <2>5, <2>6, <2>7 DEF Assumptions, FieldLaws
<1>3. n - m \in S
  <2>1. n - m \in Nat
    OBVIOUS
  <2> HIDE DEF S
  <2> QED BY <1>1, <1>2, <2>1, NatSet
<1>4. m + (n - m) = n
  OBVIOUS
<1> QED BY <1>3, <1>4

(* The same terms in another order. *)
Reorders(q, v, u, l) ==
  /\ \A k \in 0 .. l - 1 : q[k] \in 0 .. l - 1 /\ v[k] \in F /\ u[k] = v[q[k]]
  /\ \A x, y \in 0 .. l - 1 : q[x] = q[y] => x = y

LEMMA SumReordered ==
  ASSUME Assumptions, NEW n \in Nat, NEW q, NEW v, NEW u, Reorders(q, v, u, n)
  PROVE  Sum(u, n) = Sum(v, n)
<1> DEFINE S == {l \in Nat : \A p, f, g : Reorders(p, f, g, l) => Sum(g, l) = Sum(f, l)}
<1>1. 0 \in S
  BY SumNone
<1>2. ASSUME NEW l \in Nat, l \in S PROVE l + 1 \in S
  <2> SUFFICES ASSUME NEW p, NEW f, NEW g, Reorders(p, f, g, l + 1)
               PROVE  Sum(g, l + 1) = Sum(f, l + 1)
    OBVIOUS
  <2> DEFINE m == p[l]
             r == [k \in 0 .. l - 1 |-> IF p[k] < m THEN p[k] ELSE p[k] - 1]
             w == [k \in 0 .. l - 1 |-> IF k < m THEN f[k] ELSE f[k + 1]]
  <2>0. l + 1 - 1 = l
    OBVIOUS
  <2>1. m \in 0 .. l /\ g[l] = f[m] /\ f[m] \in F
    BY <2>0 DEF Reorders
  <2>2. \A k \in 0 .. l : f[k] \in F
    BY <2>0 DEF Reorders
  <2>3. ASSUME NEW k \in 0 .. l - 1
        PROVE  p[k] \in 0 .. l /\ p[k] # m /\ g[k] = f[p[k]]
    BY <2>0, <2>3 DEF Reorders
  <2>4. ASSUME NEW k \in 0 .. l - 1
        PROVE  r[k] \in 0 .. l - 1 /\ w[k] \in F /\ g[k] = w[r[k]]
    <3>1. w[k] \in F
      BY <2>1, <2>2
    <3>2. CASE p[k] < m
      <4>1. r[k] = p[k] /\ p[k] \in 0 .. l - 1
        BY <3>2, <2>1, <2>3
      <4> QED BY <3>1, <3>2, <4>1, <2>3
    <3>3. CASE ~(p[k] < m)
      <4>1. r[k] = p[k] - 1
        BY <3>3
      <4>2. p[k] - 1 \in 0 .. l - 1 /\ ~(p[k] - 1 < m) /\ p[k] - 1 + 1 = p[k]
        <5> HIDE DEF m
        <5> QED BY <3>3, <2>1, <2>3
      <4>3. w[p[k] - 1] = f[p[k] - 1 + 1]
        BY <4>2
      <4> QED BY <3>1, <4>1, <4>2, <4>3, <2>3
    <3> QED BY <3>2, <3>3
  <2>5. ASSUME NEW x \in 0 .. l - 1, NEW y \in 0 .. l - 1, r[x] = r[y] PROVE x = y
    <3>1. p[x] \in Int /\ p[y] \in Int /\ p[x] # m /\ p[y] # m /\ m \in Int
      BY <2>1, <2>3
    <3>2. /\ r[x] = IF p[x] < m THEN p[x] ELSE p[x] - 1
          /\ r[y] = IF p[y] < m THEN p[y] ELSE p[y] - 1
      OBVIOUS
    <3>3. ASSUME NEW a \in Int, NEW b \in Int, NEW c \in Int, a # c, b # c,
                 (IF a < c THEN a ELSE a - 1) = (IF b < c THEN b ELSE b - 1)
          PROVE  a = b
      BY <3>3
    <3>4. (IF p[x] < m THEN p[x] ELSE p[x] - 1) = (IF p[y] < m THEN p[y] ELSE p[y] - 1)
      BY <2>5, <3>2
    <3>5. p[x] = p[y]
      <4> HIDE DEF r, m
      <4> QED BY <3>1, <3>3, <3>4
    <3> QED BY <2>0, <3>5 DEF Reorders
  <2>6. Reorders(r, w, g, l)
    <3> HIDE DEF r, w
    <3> QED BY <2>4, <2>5 DEF Reorders
  <2>7. Sum(g, l) = Sum(w, l)
    <3>1. \A a, b, c : Reorders(a, b, c, l) => Sum(c, l) = Sum(b, l)
      BY <1>2
    <3> HIDE DEF r, w
    <3> QED BY <2>6, <3>1
  <2>8. Sum(g, l + 1) = Add(Sum(g, l), f[m])
    BY <2>1, SumNext
  <2>9. Sum(f, l + 1) = Add(f[m], Sum(w, l))
    <3>1. \A k \in 0 .. l - 1 : w[k] = IF k < m THEN f[k] ELSE f[k + 1]
      OBVIOUS
    <3> HIDE DEF w, m
    <3> QED BY <2>1, <2>2, <3>1, SumRemove
  <2>10. Sum(w, l) \in F
    <3> HIDE DEF w
    <3> QED BY <2>4, SumType
  <2> QED BY <2>1, <2>7, <2>8, <2>9, <2>10 DEF Assumptions, FieldLaws
<1>3. n \in S
  <2> HIDE DEF S
  <2> QED BY <1>1, <1>2, NatSet
<1> QED BY <1>3

LEMMA SumPermute ==
  ASSUME Assumptions, NEW n \in Nat, NEW p, IsPermutation(p, 0 .. n - 1),
         NEW f, \A k \in 0 .. n - 1 : f[k] \in F,
         NEW g, \A k \in 0 .. n - 1 : g[k] = f[p[k]]
  PROVE  Sum(g, n) = Sum(f, n)
<1>1. Reorders(p, f, g, n)
  BY DEF Reorders, IsPermutation
<1> QED BY <1>1, SumReordered

(* A permutation reaches every element. *)
LEMMA PermutationOnto ==
  ASSUME NEW n \in Int, NEW p, IsPermutation(p, 0 .. n - 1)
  PROVE  \A x \in 0 .. n - 1 : \E y \in 0 .. n - 1 : p[y] = x
<1> DEFINE S == 0 .. n - 1
<1>1. IsFiniteSet(S)
  BY FS_Interval
<1>2. p \in Injection(S, S)
  BY DEF Injection, IsInjective, IsPermutation
<1>3. p \in Surjection(S, S)
  BY <1>1, <1>2, FS_Injection
<1> QED BY <1>3 DEF Surjection

-----------------------------------------------------------------------------
(* Equations *)

(* Solving an equation for a term or a factor. *)
LEMMA FieldCancel ==
  ASSUME Assumptions
  PROVE  /\ \A a, p \in F : Add(Add(a, p), p) = a /\ Add(p, Add(p, a)) = a
         /\ \A a, b \in F : a # Zero => Mul(a, Mul(Inv(a), b)) = b /\ Mul(Inv(a), Mul(a, b)) = b
         /\ \A a, x, y, t \in F : a # Zero /\ Add(Mul(a, x), t) = Add(Mul(a, y), t) => x = y
<1>1. ASSUME NEW a \in F, NEW p \in F
      PROVE  Add(Add(a, p), p) = a /\ Add(p, Add(p, a)) = a
  <2>1. Add(Add(a, p), p) = Add(a, Add(p, p)) /\ Add(p, Add(p, a)) = Add(Add(p, p), a)
    BY DEF Assumptions, FieldLaws
  <2>2. Add(p, p) = Zero /\ Add(Zero, a) = Add(a, Zero) /\ Add(a, Zero) = a
    BY DEF Assumptions, FieldAssumption, FieldLaws
  <2> QED BY <2>1, <2>2
<1>2. ASSUME NEW a \in F, NEW b \in F, a # Zero
      PROVE  Mul(a, Mul(Inv(a), b)) = b /\ Mul(Inv(a), Mul(a, b)) = b
  <2>1. Inv(a) \in F /\ Mul(a, Inv(a)) = One /\ Mul(Inv(a), a) = One
    BY <1>2 DEF Assumptions, FieldAssumption, FieldLaws
  <2>2. Mul(a, Mul(Inv(a), b)) = Mul(One, b) /\ Mul(Inv(a), Mul(a, b)) = Mul(One, b)
    BY <2>1 DEF Assumptions, FieldLaws
  <2> QED BY <2>2 DEF Assumptions, FieldLaws
<1>3. ASSUME NEW a \in F, NEW x \in F, NEW y \in F, NEW t \in F,
             a # Zero, Add(Mul(a, x), t) = Add(Mul(a, y), t)
      PROVE  x = y
  <2>1. Mul(a, x) \in F /\ Mul(a, y) \in F
    BY DEF Assumptions, FieldAssumption
  <2>2. Mul(a, x) = Mul(a, y)
    BY <1>1, <1>3, <2>1
  <2> QED BY <1>2, <1>3, <2>2
<1> QED BY <1>1, <1>2, <1>3

(* Of two equal sums that differ in one term at most, the terms are equal. *)
DifferAt(f, g, a, n) ==
  \A b \in 0 .. n - 1 : f[b] \in F /\ g[b] \in F /\ (b # a => f[b] = g[b])

LEMMA SumDiffersAt ==
  ASSUME Assumptions, NEW n \in Nat, NEW a \in 0 .. n - 1, NEW f, NEW g, DifferAt(f, g, a, n),
         Sum(f, n) = Sum(g, n)
  PROVE  f[a] = g[a]
<1>1. PICK m \in Nat : n = m + 1
  <2>1. n - 1 \in Nat /\ n = n - 1 + 1
    OBVIOUS
  <2> QED BY <2>1
<1>2. \A b \in 0 .. m : f[b] \in F /\ g[b] \in F /\ (b # a => f[b] = g[b])
  BY <1>1 DEF DifferAt
<1>3. a \in 0 .. m
  BY <1>1
<1> DEFINE h == [b \in 0 .. m - 1 |-> IF b < a THEN f[b] ELSE f[b + 1]]
<1>4. ASSUME NEW b \in 0 .. m - 1
      PROVE  /\ h[b] = IF b < a THEN f[b] ELSE f[b + 1]
             /\ h[b] = IF b < a THEN g[b] ELSE g[b + 1]
             /\ h[b] \in F
  <2>1. /\ b \in 0 .. m /\ b + 1 \in 0 .. m
        /\ (b < a => b # a) /\ (~(b < a) => b + 1 # a)
    BY <1>3
  <2> QED BY <1>2, <2>1
<1> HIDE DEF h
<1>5. Sum(f, m + 1) = Add(f[a], Sum(h, m))
  BY <1>2, <1>3, <1>4, SumRemove
<1>6. Sum(g, m + 1) = Add(g[a], Sum(h, m))
  BY <1>2, <1>3, <1>4, SumRemove
<1>7. Sum(h, m) \in F
  BY <1>4, SumType
<1>8. f[a] \in F /\ g[a] \in F
  BY <1>2, <1>3
<1>9. Add(f[a], Sum(h, m)) = Add(g[a], Sum(h, m))
  BY <1>1, <1>5, <1>6
<1> QED BY <1>7, <1>8, <1>9, FieldCancel

(* Row a of T, read in the order o, has a pivot at a and nothing after it, *)
(* and gives the same product with v and with w.                           *)
Triangular(T, o, v, w, a, n) ==
  /\ \A b \in 0 .. n - 1 : T[a][b] \in F /\ (b # a /\ o[b] >= o[a] => T[a][b] = Zero)
  /\ T[a][a] # Zero
  /\ Sum([b \in 0 .. n - 1 |-> Mul(T[a][b], v[b])], n) =
     Sum([b \in 0 .. n - 1 |-> Mul(T[a][b], w[b])], n)

(* Where v and w differ at all, T is triangular and takes both to the same. *)
SolveTheSame(T, o, v, w, n) ==
  \A a \in 0 .. n - 1 :
    /\ o[a] \in Nat /\ v[a] \in F /\ w[a] \in F
    /\ v[a] = w[a] \/ Triangular(T, o, v, w, a, n)

(* A triangular system determines its solution. *)
LEMMA TriangularUnique ==
  ASSUME Assumptions, NEW n \in Nat, NEW T, NEW o, NEW v, NEW w, SolveTheSame(T, o, v, w, n)
  PROVE  \A a \in 0 .. n - 1 : v[a] = w[a]
<1>0. \A a \in 0 .. n - 1 :
        /\ o[a] \in Nat /\ v[a] \in F /\ w[a] \in F
        /\ v[a] = w[a] \/ Triangular(T, o, v, w, a, n)
  BY DEF SolveTheSame
<1> DEFINE S == {m \in Nat : \A a \in 0 .. n - 1 : o[a] < m => v[a] = w[a]}
<1>1. 0 \in S
  BY <1>0
<1>2. ASSUME NEW m \in Nat, m \in S PROVE m + 1 \in S
  <2> SUFFICES ASSUME NEW a \in 0 .. n - 1, o[a] < m + 1, Triangular(T, o, v, w, a, n)
               PROVE  v[a] = w[a]
    BY <1>0
  <2> DEFINE f == [b \in 0 .. n - 1 |-> Mul(T[a][b], v[b])]
             g == [b \in 0 .. n - 1 |-> Mul(T[a][b], w[b])]
  <2>1. ASSUME NEW b \in 0 .. n - 1
        PROVE  f[b] \in F /\ g[b] \in F /\ (b # a => f[b] = g[b])
    <3>1. T[a][b] \in F /\ v[b] \in F /\ w[b] \in F /\ o[a] \in Nat /\ o[b] \in Nat
      BY <1>0 DEF Triangular
    <3>2. CASE o[b] < m
      <4>1. v[b] = w[b]
        BY <1>2, <3>2
      <4> QED BY <3>1, <4>1 DEF Assumptions, FieldAssumption
    <3>3. CASE ~(o[b] < m) /\ b # a
      <4>1. T[a][b] = Zero
        BY <3>1, <3>3 DEF Triangular
      <4> QED BY <3>1, <4>1 DEF Assumptions, FieldAssumption
    <3>4. CASE b = a
      BY <3>1, <3>4 DEF Assumptions, FieldAssumption
    <3> QED BY <3>2, <3>3, <3>4
  <2>2. Sum(f, n) = Sum(g, n)
    BY DEF Triangular
  <2>3. f[a] = g[a]
    <3> HIDE DEF f, g
    <3>1. DifferAt(f, g, a, n)
      BY <2>1 DEF DifferAt
    <3> QED BY <2>2, <3>1, SumDiffersAt
  <2>4. Mul(T[a][a], v[a]) = Mul(T[a][a], w[a])
    BY <2>3
  <2>5. T[a][a] \in F /\ T[a][a] # Zero /\ v[a] \in F /\ w[a] \in F
    BY <1>0 DEF Triangular
  <2> QED BY <2>4, <2>5, FieldCancel
<1> HIDE DEF S
<1>3. Nat \subseteq S
  BY <1>1, <1>2, NatSet
<1> SUFFICES ASSUME NEW a \in 0 .. n - 1 PROVE v[a] = w[a]
  OBVIOUS
<1>4. o[a] + 1 \in S /\ o[a] \in Nat
  BY <1>0, <1>3
<1> QED BY <1>4 DEF S

-----------------------------------------------------------------------------
(* Counting vectors *)

(* The functions from a finite set to a finite set are finitely many. *)
LEMMA FunctionsFinite ==
  ASSUME NEW S, IsFiniteSet(S), NEW T, IsFiniteSet(T)
  PROVE  IsFiniteSet([S -> T])
<1> DEFINE graph == [f \in [S -> T] |-> {<<s, f[s]>> : s \in S}]
<1>1. graph \in [[S -> T] -> SUBSET (S \X T)]
  OBVIOUS
<1>2. ASSUME NEW f \in [S -> T], NEW g \in [S -> T], graph[f] = graph[g]
      PROVE  f = g
  <2>1. ASSUME NEW s \in S PROVE f[s] = g[s]
    <3>1. <<s, f[s]>> \in graph[f]
      OBVIOUS
    <3>2. PICK t \in S : <<s, f[s]>> = <<t, g[t]>>
      BY <1>2, <3>1
    <3> QED BY <3>2
  <2> QED BY <2>1
<1>3. graph \in Injection([S -> T], SUBSET (S \X T))
  <2>1. DOMAIN graph = [S -> T]
    OBVIOUS
  <2> HIDE DEF graph
  <2> QED BY <1>1, <1>2, <2>1 DEF Injection, IsInjective
<1>4. IsFiniteSet(SUBSET (S \X T))
  BY FS_Product, FS_SUBSET
<1> HIDE DEF graph
<1> QED BY <1>3, <1>4, FS_Injection

(* The vectors of length n over the field are |F|^n. *)
LEMMA VectorsCount ==
  ASSUME Assumptions, NEW n \in Nat
  PROVE  /\ IsFiniteSet([0 .. n - 1 -> F])
         /\ Cardinality([0 .. n - 1 -> F]) = Power(Cardinality(F), n)
<1> DEFINE b == Cardinality(F)
           N == [1 .. n -> 1 .. b]
           D == [0 .. n - 1 -> F]
<1>1. b \in Nat /\ ExistsBijection(1 .. b, F)
  BY FS_CardinalityType DEF Assumptions, FieldLaws
<1>2. PICK e \in Bijection(1 .. b, F) : TRUE
  BY <1>1 DEF ExistsBijection
<1> HIDE DEF b
<1>3. /\ e \in [1 .. b -> F] /\ \A v, w \in 1 .. b : e[v] = e[w] => v = w
      /\ \A a \in F : \E v \in 1 .. b : e[v] = a
  BY <1>2 DEF Bijection, Injection, Surjection, IsInjective
<1>4. IsFiniteSet(N)
  <2>1. IsFiniteSet(1 .. n) /\ IsFiniteSet(1 .. b)
    BY <1>1, FS_Interval
  <2> QED BY <2>1, FunctionsFinite
<1> DEFINE h == [y \in N |-> [q \in 0 .. n - 1 |-> e[y[q + 1]]]]
<1>5. h \in [N -> D]
  BY <1>3
<1>6. ASSUME NEW y \in N, NEW z \in N, h[y] = h[z]
      PROVE  y = z
  <2>1. ASSUME NEW p \in 1 .. n PROVE y[p] = z[p]
    <3>1. p - 1 \in 0 .. n - 1 /\ (p - 1) + 1 = p
      OBVIOUS
    <3>2. h[y][p - 1] = e[y[p]] /\ h[z][p - 1] = e[z[p]]
      BY <3>1
    <3>3. y[p] \in 1 .. b /\ z[p] \in 1 .. b
      OBVIOUS
    <3> HIDE DEF h
    <3> QED BY <1>3, <1>6, <3>2, <3>3
  <2>2. y = [p \in 1 .. n |-> y[p]] /\ z = [p \in 1 .. n |-> z[p]]
    OBVIOUS
  <2> HIDE DEF h
  <2> QED BY <2>1, <2>2
<1>7. ASSUME NEW z \in D PROVE \E y \in N : h[y] = z
  <2> DEFINE y == [p \in 1 .. n |-> CHOOSE v \in 1 .. b : e[v] = z[p - 1]]
  <2>1. ASSUME NEW p \in 1 .. n PROVE y[p] \in 1 .. b /\ e[y[p]] = z[p - 1]
    <3>1. z[p - 1] \in F
      OBVIOUS
    <3> QED BY <1>3, <3>1
  <2>2. y \in N
    BY <2>1
  <2>3. ASSUME NEW q \in 0 .. n - 1 PROVE e[y[q + 1]] = z[q]
    <3>1. q + 1 \in 1 .. n /\ (q + 1) - 1 = q
      OBVIOUS
    <3> HIDE DEF y
    <3> QED BY <2>1, <3>1
  <2>4. h[y] = [q \in 0 .. n - 1 |-> e[y[q + 1]]]
    <3> HIDE DEF y
    <3> QED BY <2>2
  <2>5. z = [q \in 0 .. n - 1 |-> z[q]]
    OBVIOUS
  <2> HIDE DEF h, y
  <2> QED BY <2>2, <2>3, <2>4, <2>5
<1>8. h \in Bijection(N, D)
  <2>1. DOMAIN h = N
    OBVIOUS
  <2> HIDE DEF h, D, N
  <2> QED BY <1>5, <1>6, <1>7, <2>1 DEF Bijection, Injection, Surjection, IsInjective
<1>9. IsFiniteSet(D) /\ Cardinality(D) = Cardinality(N)
  <2> HIDE DEF h, D, N
  <2>1. ExistsBijection(N, D)
    BY <1>8 DEF ExistsBijection
  <2> QED BY <1>4, <2>1, FS_Bijection
<1>10. Power(b, n) = Cardinality(N)
  BY DEF Power
<1> QED BY <1>9, <1>10 DEF b

-----------------------------------------------------------------------------
(* Types and permutations *)

(* Exchanging two entries of a permutation gives a permutation. *)
LEMMA SwapAtPermutation ==
  ASSUME NEW S, NEW p, IsPermutation(p, S), NEW x \in S, NEW y \in S
  PROVE  IsPermutation(SwapAt(p, x, y), S)
BY DEF IsPermutation, SwapAt

(* Exchanging two rows or two columns gives a matrix. *)
LEMMA SwapsType ==
  ASSUME NEW M \in Matrices, NEW x \in Rows, NEW y \in Rows, NEW c \in Cols, NEW d \in Cols
  PROVE  /\ SwapRows(M, x, y) \in Matrices
         /\ SwapCols(M, c, d) \in Matrices
<1>1. SwapRows(M, x, y) \in Matrices
  BY DEF SwapRows, SwapAt, Matrices
<1>2. \A r \in Rows : SwapAt(M[r], c, d) \in [Cols -> F]
  BY DEF SwapRows, SwapAt, Matrices
<1> QED BY <1>1, <1>2 DEF SwapCols, Matrices

(* Dividing column c of L below the diagonal gives a matrix. *)
LEMMA MultColType ==
  ASSUME Assumptions, NEW M \in Matrices, NEW c \in Cols, NEW offs \in Int, NEW alpha \in F
  PROVE  MultColFrom(M, c, offs, alpha) \in Matrices
<1>1. \A r \in Rows : M[r] \in [Cols -> F] /\ M[r][c] \in F
  BY DEF Matrices
<1>2. \A r \in Rows : [M[r] EXCEPT ![c] = Mul(M[r][c], alpha)] \in [Cols -> F]
  BY <1>1 DEF Assumptions, FieldAssumption
<1> QED BY <1>1, <1>2 DEF MultColFrom, Matrices

(* Eliminating below the pivot gives a matrix. *)
LEMMA EliminateType ==
  ASSUME Assumptions, NEW M \in Matrices, NEW j \in Rows, j \in Cols
  PROVE  Eliminate(M, j) \in Matrices
<1>1. \A r, c : r \in Rows /\ c \in Cols => M[r][c] \in F
  BY DEF Matrices
<1>2. \A r \in Rows : MultAddRowFrom(M, j, j + 1, M[r][j], r) \in [Cols -> F]
  BY <1>1 DEF Assumptions, FieldAssumption, MultAddRowFrom
<1> QED BY <1>2 DEF Eliminate, Matrices

(* A whole update of the undecomposed part gives a matrix. *)
LEMMA StepType ==
  ASSUME Assumptions, NEW M \in Matrices, NEW j \in Rows, j \in Cols, M[j][j] # Zero
  PROVE  Step(M, j) \in Matrices
<1>1. M[j][j] \in F \ {Zero}
  BY DEF Matrices
<1>2. Inv(M[j][j]) \in F
  BY <1>1 DEF Assumptions, FieldAssumption
<1>3. j + 1 \in Int
  BY DEF Rows
<1>4. MultColFrom(M, j, j + 1, Inv(M[j][j])) \in Matrices
  BY <1>2, <1>3, MultColType
<1> QED BY <1>4, EliminateType DEF Step

-----------------------------------------------------------------------------
LEMMA TypeInit ==
  ASSUME Assumptions
  PROVE  Init => TypeOK
BY DEF Assumptions, DimAssumption, Init, TypeOK, IsPermutation, Rows, Cols

LEMMA TypeStep ==
  ASSUME Assumptions
  PROVE  TypeOK /\ [Next]_luVars => TypeOK'
<1> SUFFICES ASSUME TypeOK, [Next]_luVars PROVE TypeOK'
  OBVIOUS
<1>1. ASSUME NEW prow \in Rows, NEW pcol \in Cols, Pivot(prow, pcol)
      PROVE  TypeOK'
  <2>1. i \in Rows /\ i \in Cols
    BY <1>1 DEF Assumptions, DimAssumption, Pivot, TypeOK, Rows, Cols
  <2>2. A \in Matrices
    BY DEF TypeOK
  <2> DEFINE R == SwapRows(A, i, prow)
             M == SwapCols(R, pcol, i)
  <2>3. R \in Matrices
    BY <2>1, <2>2, SwapsType
  <2>4. M \in Matrices
    BY <2>1, <2>3, SwapsType
  <2>5. M[i][i] # Zero
    <3>1. R[i] = A[prow]
      BY <2>1, <2>2 DEF SwapRows, SwapAt, Matrices
    <3>2. R[i] \in [Cols -> F]
      BY <2>1, <2>3 DEF Matrices
    <3>3. M[i][i] = R[i][pcol]
      BY <2>1, <3>2 DEF SwapCols, SwapRows, SwapAt
    <3> QED BY <3>1, <3>3, <1>1 DEF Pivot, IsFirstPivot
  <2>6. A' \in Matrices
    BY <2>1, <2>4, <2>5, <1>1, StepType DEF Pivot
  <2>7. IsPermutation(rp', Rows) /\ IsPermutation(cp', Cols)
    BY <2>1, <1>1, SwapAtPermutation DEF Pivot, TypeOK
  <2>8. i' \in 0 .. NCol /\ i' <= NRow
    BY <1>1 DEF Assumptions, DimAssumption, Pivot, TypeOK
  <2> QED BY <2>6, <2>7, <2>8, <1>1 DEF Pivot, TypeOK
<1>2. CASE NoPivot
  BY <1>2 DEF NoPivot, TypeOK
<1>3. CASE Exhausted
  BY <1>3 DEF Exhausted, TypeOK
<1>4. CASE UNCHANGED luVars
  BY <1>4 DEF luVars, TypeOK
<1> QED BY <1>1, <1>2, <1>3, <1>4 DEF Next

(* Every reachable state is well typed: whatever pivots are chosen, rp and *)
(* cp remain permutations and i remains within both dimensions.            *)
THEOREM TypeCorrect ==
  ASSUME Assumptions
  PROVE  Spec => []TypeOK
BY TypeInit, TypeStep, PTL DEF Spec

-----------------------------------------------------------------------------
(* What one iteration does to a cell *)

(* Where the cell of an exchanged row or column comes from. *)
SwapIndex(x, y, z) == IF z = x THEN y ELSE IF z = y THEN x ELSE z

(* Exchanging rows x, y and columns c, d moves cells accordingly. *)
LEMMA SwapsCell ==
  ASSUME NEW M \in Matrices, NEW x \in Rows, NEW y \in Rows, NEW c \in Cols, NEW d \in Cols,
         NEW r \in Rows, NEW e \in Cols
  PROVE  SwapCols(SwapRows(M, x, y), c, d)[r][e] = M[SwapIndex(x, y, r)][SwapIndex(c, d, e)]
<1>1. SwapRows(M, x, y) \in Matrices
  BY SwapsType
<1>2. SwapRows(M, x, y)[r] = M[SwapIndex(x, y, r)]
  BY DEF SwapRows, SwapAt, SwapIndex, Matrices
<1>3. SwapRows(M, x, y)[r] \in [Cols -> F]
  BY <1>1 DEF Matrices
<1>4. SwapAt(SwapRows(M, x, y)[r], c, d)[e] = SwapRows(M, x, y)[r][SwapIndex(c, d, e)]
  BY <1>3 DEF SwapRows, SwapAt, SwapIndex
<1> QED BY <1>2, <1>4 DEF SwapCols

(* The update leaves the pivot row, the rows above it and the columns left *)
(* of it alone, and a column that is zero in the pivot row unchanged.      *)
LEMMA StepCell ==
  ASSUME Assumptions, NEW M \in Matrices, NEW j \in Rows, j \in Cols, M[j][j] # Zero,
         NEW r \in Rows, NEW c \in Cols,
         r <= j \/ c < j \/ (c > j /\ M[j][c] = Zero)
  PROVE  Step(M, j)[r][c] = M[r][c]
<1> DEFINE N == MultColFrom(M, j, j + 1, Inv(M[j][j]))
<1>0. M[j][j] \in F \ {Zero}
  BY DEF Matrices
<1>1. M[j][j] \in F \ {Zero} /\ j \in Int /\ r \in Int /\ c \in Int
  BY <1>0 DEF Rows, Cols
<1>2. N \in Matrices
  BY <1>1, MultColType DEF Assumptions, FieldAssumption
<1>3. N[j] = M[j]
  BY <1>1 DEF MultColFrom
<1>4. c # j \/ r <= j => N[r][c] = M[r][c]
  BY <1>1 DEF MultColFrom, Matrices
<1>5. CASE r <= j
  BY <1>1, <1>4, <1>5 DEF Step, Eliminate
<1>6. CASE r > j
  <2>1. Step(M, j)[r][c] = IF c >= j + 1 THEN Add(N[r][c], Mul(N[r][j], N[j][c])) ELSE N[r][c]
    BY <1>1, <1>6 DEF Step, Eliminate, MultAddRowFrom
  <2>2. N[r][j] \in F /\ N[r][c] \in F
    BY <1>2 DEF Matrices
  <2>3. CASE c < j
    BY <1>1, <1>4, <2>1, <2>3
  <2>4. CASE c > j /\ M[j][c] = Zero
    <3>1. Add(N[r][c], Mul(N[r][j], N[j][c])) = N[r][c]
      BY <1>3, <2>2, <2>4 DEF Assumptions, FieldAssumption
    <3> QED BY <1>1, <1>4, <2>1, <2>4, <3>1
  <2> QED BY <1>1, <1>6, <2>3, <2>4
<1> QED BY <1>1, <1>5, <1>6

(* The matrix a pivot step hands to the update: exchanged, pivot in place. *)
LEMMA PivotStep ==
  ASSUME Assumptions, TypeOK, NEW prow \in Rows, NEW pcol \in Cols, Pivot(prow, pcol)
  PROVE  LET M == SwapCols(SwapRows(A, i, prow), pcol, i)
         IN  /\ i \in Rows /\ i \in Cols
             /\ M \in Matrices /\ M[i][i] # Zero
             /\ A' = Step(M, i)
             /\ \A r \in Rows, c \in Cols :
                  M[r][c] = A[SwapIndex(i, prow, r)][SwapIndex(pcol, i, c)]
<1> DEFINE M == SwapCols(SwapRows(A, i, prow), pcol, i)
<1>1. i \in Rows /\ i \in Cols /\ A \in Matrices
  BY DEF Assumptions, DimAssumption, Pivot, TypeOK, Rows, Cols
<1>2. M \in Matrices
  BY <1>1, SwapsType
<1>3. \A r \in Rows, c \in Cols :
        M[r][c] = A[SwapIndex(i, prow, r)][SwapIndex(pcol, i, c)]
  BY <1>1, SwapsCell
<1>4. M[i][i] = A[prow][pcol]
  BY <1>1, <1>3 DEF SwapIndex
<1> QED BY <1>1, <1>2, <1>3, <1>4 DEF Pivot, IsFirstPivot

-----------------------------------------------------------------------------
(* A column moves only because another one is dead *)

(* The strengthening FullRankKeepsColumns needs: once a column has been    *)
(* moved, some column not yet settled is zero in every unsettled row.      *)
DeadColumn(c) == c >= i /\ \A r \in Rows : r >= i => A[r][c] = Zero
MovedForDeadColumn == cp # [c \in Cols |-> c] => \E c \in Cols : DeadColumn(c)

LEMMA PivotKeepsDeadColumn ==
  ASSUME Assumptions, TypeOK, MovedForDeadColumn, NEW prow \in Rows, NEW pcol \in Cols, Pivot(prow, pcol)
  PROVE  MovedForDeadColumn'
<1> DEFINE M == SwapCols(SwapRows(A, i, prow), pcol, i)
<1>1. /\ i \in Rows /\ i \in Cols
      /\ M \in Matrices /\ M[i][i] # Zero
      /\ A' = Step(M, i)
      /\ \A r \in Rows, c \in Cols :
           M[r][c] = A[SwapIndex(i, prow, r)][SwapIndex(pcol, i, c)]
  BY PivotStep
<1>2. /\ i' = i + 1
      /\ cp' = SwapAt(cp, i, pcol)
      /\ IsFirstPivot(prow, pcol)
  BY DEF Pivot
<1>3. i \in Int /\ prow \in Int /\ pcol \in Int /\ Rows \subseteq Int /\ Cols \subseteq Int
  BY <1>1 DEF Rows, Cols
(* A column zero in the unsettled rows of M stays so. *)
<1>4. ASSUME NEW c \in Cols, c > i, \A r \in Rows : r >= i => M[r][c] = Zero
      PROVE  DeadColumn(c)'
  <2>1. \A r \in Rows : r >= i' => A'[r][c] = Zero
    BY <1>1, <1>2, <1>3, <1>4, StepCell
  <2>2. c >= i'
    BY <1>2, <1>3, <1>4
  <2> QED BY <2>1, <2>2 DEF DeadColumn, Rows
<1>5. CASE pcol = i
  <2>1. cp' = cp
    BY <1>1, <1>2, <1>5 DEF SwapRows, SwapAt, TypeOK, IsPermutation
  <2> SUFFICES ASSUME NEW c \in Cols, DeadColumn(c) PROVE \E d \in Cols : DeadColumn(d)'
    BY <2>1 DEF MovedForDeadColumn, Cols
  <2>2. c # i
    BY <1>2, <1>3, <1>5 DEF DeadColumn, IsFirstPivot
  <2>3. \A r \in Rows : r >= i => M[r][c] = Zero
    BY <1>1, <1>2, <1>3, <1>5, <2>2 DEF SwapIndex, DeadColumn, IsFirstPivot
  <2>4. c > i
    BY <1>3, <2>2 DEF DeadColumn
  <2> QED BY <1>4, <2>3, <2>4
<1>6. CASE pcol # i
  <2>1. pcol > i
    BY <1>2, <1>3, <1>6 DEF IsFirstPivot
  <2>2. \A r \in Rows : r >= i => A[r][i] = Zero
    BY <1>1, <1>2, <1>3, <2>1 DEF IsFirstPivot
  <2>3. \A r \in Rows : r >= i => M[r][pcol] = Zero
    BY <1>1, <1>2, <1>3, <2>2 DEF SwapIndex, IsFirstPivot
  <2>4. DeadColumn(pcol)'
    BY <1>4, <2>1, <2>3
  <2> QED BY <2>4 DEF MovedForDeadColumn, Cols
<1> QED BY <1>5, <1>6

LEMMA DeadColumnStep ==
  ASSUME Assumptions
  PROVE  TypeOK /\ MovedForDeadColumn /\ [Next]_luVars => MovedForDeadColumn'
<1> SUFFICES ASSUME TypeOK, MovedForDeadColumn, [Next]_luVars
             PROVE  MovedForDeadColumn'
  OBVIOUS
<1>1. ASSUME NEW prow \in Rows, NEW pcol \in Cols, Pivot(prow, pcol)
      PROVE  MovedForDeadColumn'
  BY <1>1, PivotKeepsDeadColumn
<1>2. CASE NoPivot
  BY <1>2 DEF NoPivot, MovedForDeadColumn, DeadColumn, Rows, Cols
<1>3. CASE Exhausted
  BY <1>3 DEF Exhausted, MovedForDeadColumn, DeadColumn, Rows, Cols
<1>4. CASE UNCHANGED luVars
  BY <1>4 DEF luVars, MovedForDeadColumn, DeadColumn, Rows, Cols
<1> QED BY <1>1, <1>2, <1>3, <1>4 DEF Next

(* RqInterCompile asserts that colperm is the identity when the rank is    *)
(* the number of columns, and RqInterExecute solves without any column     *)
(* permutation: no decomposition ends with a pivot in every column and a   *)
(* column out of place.                                                    *)
THEOREM FullRankKeepsColumnsHolds ==
  ASSUME Assumptions
  PROVE  Spec => []FullRankKeepsColumns
<1>1. Init => MovedForDeadColumn
  BY DEF Init, MovedForDeadColumn
<1>2. TypeOK /\ MovedForDeadColumn => FullRankKeepsColumns
  BY DEF Assumptions, DimAssumption, TypeOK, MovedForDeadColumn, DeadColumn,
         FullRankKeepsColumns, Cols
<1> QED BY <1>1, <1>2, DeadColumnStep, TypeCorrect, PTL DEF Spec

-----------------------------------------------------------------------------
(* No later pivot disturbs what is settled: the prefixes of rp and cp stay *)
(* and entries of L and U follow their row or their column.                *)
THEOREM SettledFactorsTravelHolds ==
  ASSUME Assumptions
  PROVE  Spec => SettledFactorsTravel
<1>1. TypeOK /\ [Next]_luVars => [FactorsTravel]_luVars
  <2> SUFFICES ASSUME TypeOK, [Next]_luVars PROVE [FactorsTravel]_luVars
    OBVIOUS
  <2>1. ASSUME NEW prow \in Rows, NEW pcol \in Cols, Pivot(prow, pcol)
        PROVE  FactorsTravel
    <3> DEFINE M == SwapCols(SwapRows(A, i, prow), pcol, i)
    <3>1. /\ i \in Rows /\ i \in Cols
          /\ M \in Matrices /\ M[i][i] # Zero
          /\ A' = Step(M, i)
          /\ \A r \in Rows, c \in Cols :
               M[r][c] = A[SwapIndex(i, prow, r)][SwapIndex(pcol, i, c)]
      BY <2>1, PivotStep
    <3>2. /\ rp' = SwapAt(rp, i, prow) /\ cp' = SwapAt(cp, i, pcol)
          /\ prow >= i /\ pcol >= i
      BY <2>1 DEF Pivot, IsFirstPivot
    <3>3. /\ i \in Int /\ prow \in Int /\ pcol \in Int
          /\ Rows \subseteq Int /\ Cols \subseteq Int
          /\ \A q \in 0 .. i - 1 : q \in Rows /\ q \in Cols /\ q < i
      BY <3>1 DEF Assumptions, DimAssumption, Rows, Cols
    <3>4. /\ IsPermutation(rp, Rows) /\ IsPermutation(cp, Cols)
      BY DEF TypeOK
    <3>5. \A q \in 0 .. i - 1 : rp'[q] = rp[q] /\ cp'[q] = cp[q]
      BY <3>1, <3>2, <3>3, <3>4 DEF SwapRows, SwapAt, IsPermutation
    <3>6. \A r \in Rows : rp'[r] = rp[SwapIndex(i, prow, r)]
      BY <3>1, <3>4, <3>2 DEF SwapRows, SwapAt, SwapIndex, IsPermutation
    <3>7. \A c \in Cols : cp'[c] = cp[SwapIndex(pcol, i, c)]
      BY <3>1, <3>4, <3>2 DEF SwapRows, SwapAt, SwapIndex, IsPermutation
    <3>8. ASSUME NEW q \in 0 .. i - 1, NEW c \in Cols, NEW d \in Cols, cp'[d] = cp[c]
          PROVE  A'[q][d] = A[q][c]
      <4>1. SwapIndex(pcol, i, d) = c
        BY <3>1, <3>4, <3>7, <3>8 DEF SwapIndex, IsPermutation
      <4>2. SwapIndex(i, prow, q) = q
        BY <3>2, <3>3 DEF SwapIndex
      <4>3. A'[q][d] = M[q][d]
        BY <3>1, <3>3, StepCell
      <4> QED BY <3>1, <3>3, <4>1, <4>2, <4>3
    <3>9. ASSUME NEW q \in 0 .. i - 1, NEW r \in Rows, NEW s \in Rows, rp'[s] = rp[r]
          PROVE  A'[s][q] = A[r][q]
      <4>1. SwapIndex(i, prow, s) = r
        BY <3>1, <3>4, <3>6, <3>9 DEF SwapIndex, IsPermutation
      <4>2. SwapIndex(pcol, i, q) = q
        BY <3>2, <3>3 DEF SwapIndex
      <4>3. A'[s][q] = M[s][q]
        BY <3>1, <3>3, StepCell
      <4> QED BY <3>1, <3>3, <4>1, <4>2, <4>3
    <3> QED BY <3>5, <3>8, <3>9 DEF FactorsTravel
  <2>2. CASE NoPivot
    BY <2>2
       DEF Assumptions, DimAssumption, NoPivot, TypeOK, IsPermutation, FactorsTravel, Rows, Cols
  <2>3. CASE Exhausted
    BY <2>3
       DEF Assumptions, DimAssumption, Exhausted, TypeOK, IsPermutation, FactorsTravel, Rows,
           Cols
  <2> QED BY <2>1, <2>2, <2>3 DEF Next
<1> QED BY <1>1, TypeCorrect, PTL DEF Spec, SettledFactorsTravel

-----------------------------------------------------------------------------
(* The product of the factors *)

(* The update of the cells below and right of the pivot. *)
LEMMA StepRest ==
  ASSUME NEW M \in Matrices, NEW j \in Rows, j \in Cols, M[j][j] # Zero,
         NEW r \in Rows, r > j
  PROVE  /\ Step(M, j)[r][j] = Mul(M[r][j], Inv(M[j][j]))
         /\ \A c \in Cols : c > j =>
              Step(M, j)[r][c] = Add(M[r][c], Mul(Step(M, j)[r][j], M[j][c]))
<1> DEFINE N == MultColFrom(M, j, j + 1, Inv(M[j][j]))
<1>1. j \in Int /\ r \in Int /\ Cols \subseteq Int
  BY DEF Rows, Cols
<1>2. N[j] = M[j]
  BY <1>1 DEF MultColFrom
<1>3. N[r] = [M[r] EXCEPT ![j] = Mul(M[r][j], Inv(M[j][j]))]
  BY <1>1 DEF MultColFrom
<1>4. M[r] \in [Cols -> F]
  BY DEF Matrices
<1>5. N[r][j] = Mul(M[r][j], Inv(M[j][j])) /\ \A c \in Cols : c # j => N[r][c] = M[r][c]
  BY <1>3, <1>4
<1>6. \A c \in Cols : Step(M, j)[r][c] =
                        IF c >= j + 1 THEN Add(N[r][c], Mul(N[r][j], N[j][c])) ELSE N[r][c]
  BY <1>1 DEF Step, Eliminate, MultAddRowFrom
<1>7. Step(M, j)[r][j] = N[r][j]
  BY <1>1, <1>6
<1> HIDE DEF N
<1>8. \A c \in Cols : c > j => c >= j + 1 /\ c # j
  BY <1>1
<1> QED BY <1>2, <1>5, <1>6, <1>7, <1>8

(* The term a pivot adds to the product is what it takes from the rest. *)
LEMMA PivotTerm ==
  ASSUME Assumptions, NEW M \in Matrices, NEW j \in Rows, j \in Cols, M[j][j] # Zero,
         NEW r \in Rows, NEW c \in Cols
  PROVE  LET B == Step(M, j)
             l == IF j < r THEN B[r][j] ELSE IF j = r THEN One ELSE Zero
             u == IF j <= c THEN B[j][c] ELSE Zero
             before == IF r >= j /\ c >= j THEN M[r][c] ELSE Zero
             after  == IF r >= j + 1 /\ c >= j + 1 THEN B[r][c] ELSE Zero
         IN  /\ before = Add(Mul(l, u), after)
             /\ Mul(l, u) \in F /\ after \in F
<1> DEFINE B == Step(M, j)
           l == IF j < r THEN B[r][j] ELSE IF j = r THEN One ELSE Zero
           u == IF j <= c THEN B[j][c] ELSE Zero
           before == IF r >= j /\ c >= j THEN M[r][c] ELSE Zero
           after  == IF r >= j + 1 /\ c >= j + 1 THEN B[r][c] ELSE Zero
<1>1. B \in Matrices
  BY StepType
<1>2. r \in Int /\ j \in Int /\ c \in Int
  BY DEF Rows, Cols
<1>3. /\ B[r][j] \in F /\ B[j][c] \in F /\ B[r][c] \in F
      /\ M[r][j] \in F /\ M[j][c] \in F /\ M[r][c] \in F
      /\ M[j][j] \in F \ {Zero}
  BY <1>1 DEF Matrices
<1>4. l \in F /\ u \in F /\ after \in F /\ before \in F
  BY <1>3 DEF Assumptions, FieldAssumption
<1>5. Mul(l, u) \in F
  BY <1>4 DEF Assumptions, FieldAssumption
<1>6. B[j][c] = M[j][c] /\ B[j][j] = M[j][j]
  BY <1>2, StepCell
<1>7. CASE r < j
  <2>1. l = Zero /\ after = Zero /\ before = Zero
    BY <1>2, <1>7
  <2>2. Zero = Add(Mul(Zero, u), Zero)
    BY <1>4 DEF Assumptions, FieldAssumption
  <2> HIDE DEF l, u, before, after
  <2> QED BY <2>1, <2>2, <1>4, <1>5 DEF l, u, before, after
<1>8. CASE c < j
  <2>1. u = Zero /\ after = Zero /\ before = Zero
    BY <1>2, <1>8
  <2>2. Zero = Add(Mul(l, Zero), Zero)
    BY <1>4 DEF Assumptions, FieldAssumption
  <2> HIDE DEF l, u, before, after
  <2> QED BY <2>1, <2>2, <1>4, <1>5 DEF l, u, before, after
<1>9. CASE r = j /\ c >= j
  <2>1. l = One /\ u = M[r][c] /\ after = Zero /\ before = M[r][c]
    BY <1>2, <1>6, <1>9
  <2>2. M[r][c] = Add(Mul(One, M[r][c]), Zero)
    BY <1>3 DEF Assumptions, FieldAssumption, FieldLaws
  <2> HIDE DEF l, u, before, after
  <2> QED BY <2>1, <2>2, <1>4, <1>5 DEF l, u, before, after
<1>10. CASE r > j /\ c = j
  <2>1. B[r][j] = Mul(M[r][j], Inv(M[j][j]))
    BY <1>10, StepRest
  <2>2. l = B[r][j] /\ u = M[j][j] /\ after = Zero /\ before = M[r][j]
    BY <1>2, <1>6, <1>10
  <2>3. M[r][j] = Add(Mul(Mul(M[r][j], Inv(M[j][j])), M[j][j]), Zero)
    <3>1. \A a, b \in F : b # Zero => a = Add(Mul(Mul(a, Inv(b)), b), Zero)
      <4> SUFFICES ASSUME NEW a \in F, NEW b \in F, b # Zero
                   PROVE  a = Add(Mul(Mul(a, Inv(b)), b), Zero)
        OBVIOUS
      <4>1. Inv(b) \in F /\ Mul(b, Inv(b)) = One /\ Mul(Inv(b), b) = One
        BY DEF Assumptions, FieldAssumption, FieldLaws
      <4>2. Mul(Mul(a, Inv(b)), b) = Mul(a, One)
        BY <4>1 DEF Assumptions, FieldLaws
      <4>3. Mul(a, One) = a /\ Add(a, Zero) = a
        BY DEF Assumptions, FieldAssumption, FieldLaws
      <4> QED BY <4>2, <4>3
    <3> QED BY <1>3, <3>1
  <2> HIDE DEF l, u, before, after, B
  <2> QED BY <2>1, <2>2, <2>3, <1>4, <1>5 DEF l, u, before, after, B
<1>11. CASE r > j /\ c > j
  <2>1. B[r][c] = Add(M[r][c], Mul(B[r][j], M[j][c]))
    BY <1>11, StepRest
  <2>2. l = B[r][j] /\ u = M[j][c] /\ after = B[r][c] /\ before = M[r][c]
    BY <1>2, <1>6, <1>11
  <2>3. M[r][c] = Add(Mul(B[r][j], M[j][c]), Add(M[r][c], Mul(B[r][j], M[j][c])))
    <3>1. \A a, p \in F : Add(p, Add(a, p)) = a
      <4> SUFFICES ASSUME NEW a \in F, NEW p \in F PROVE Add(p, Add(a, p)) = a
        OBVIOUS
      <4>1. Add(p, Add(a, p)) = Add(Add(a, p), p)
        BY DEF Assumptions, FieldAssumption, FieldLaws
      <4>2. Add(Add(a, p), p) = Add(a, Add(p, p))
        BY DEF Assumptions, FieldLaws
      <4> QED BY <4>1, <4>2 DEF Assumptions, FieldAssumption, FieldLaws
    <3> HIDE DEF B
    <3>2. Mul(B[r][j], M[j][c]) \in F
      BY <1>3 DEF Assumptions, FieldAssumption
    <3> QED BY <1>3, <3>1, <3>2
  <2> HIDE DEF l, u, before, after, B
  <2> QED BY <2>1, <2>2, <2>3, <1>4, <1>5 DEF l, u, before, after, B
<1> QED BY <1>2, <1>7, <1>8, <1>9, <1>10, <1>11

(* A pivot settles one more row of U and column of L, and the product of   *)
(* the factors gains what the undecomposed part loses.                     *)
LEMMA PivotFactorises ==
  ASSUME Assumptions, TypeOK, Factorisation, NEW prow \in Rows, NEW pcol \in Cols, Pivot(prow, pcol)
  PROVE  Factorisation'
<1> DEFINE M == SwapCols(SwapRows(A, i, prow), pcol, i)
<1>1. /\ i \in Rows /\ i \in Cols
      /\ M \in Matrices /\ M[i][i] # Zero
      /\ A' = Step(M, i)
      /\ \A r \in Rows, c \in Cols :
           M[r][c] = A[SwapIndex(i, prow, r)][SwapIndex(pcol, i, c)]
  BY PivotStep
<1>2. /\ rp' = SwapAt(rp, i, prow) /\ cp' = SwapAt(cp, i, pcol) /\ i' = i + 1 /\ A0' = A0
      /\ prow >= i /\ pcol >= i
  BY DEF Pivot, IsFirstPivot
<1>3. /\ i \in Nat /\ prow \in Int /\ pcol \in Int
      /\ Rows \subseteq Int /\ Cols \subseteq Int
      /\ \A q \in 0 .. i - 1 : q \in Rows /\ q \in Cols /\ q < i
  BY <1>1 DEF Assumptions, DimAssumption, Rows, Cols
<1>4. A \in Matrices /\ A' \in Matrices /\ A0 \in Matrices
  BY <1>1, StepType DEF TypeOK
<1> SUFFICES ASSUME NEW r \in Rows, NEW c \in Cols
             PROVE  A0[rp'[r]][cp'[c]] =
                      Add(Sum([q \in 0 .. i |-> Mul(LEntry(r, q)', UEntry(q, c)')], i + 1),
                          Residual(r, c)')
  <2>1. \A r \in Rows, c \in Cols :
          [q \in 0 .. i |-> Mul(LEntry(r, q)', UEntry(q, c)')]
            = [q \in 0 .. i' - 1 |-> Mul(LEntry(r, q)', UEntry(q, c)')]
    <3>1. i' - 1 = i
      BY <1>2, <1>3
    <3> QED BY <3>1
  <2> QED BY <1>2, <2>1 DEF Factorisation, Rows, Cols
<1> DEFINE s == SwapIndex(i, prow, r)
           d == SwapIndex(pcol, i, c)
           old == [q \in 0 .. i - 1 |-> Mul(LEntry(s, q), UEntry(q, d))]
           new == [q \in 0 .. i |-> Mul(LEntry(r, q)', UEntry(q, c)')]
<1>5. s \in Rows /\ d \in Cols
  BY <1>1 DEF SwapIndex
<1>6. rp'[r] = rp[s] /\ cp'[c] = cp[d]
  BY <1>1, <1>2 DEF SwapAt, SwapIndex, TypeOK, IsPermutation
<1>7. A0[rp[s]][cp[d]] = Add(Sum(old, i), Residual(s, d))
  BY <1>5 DEF Factorisation
<1>8. M[r][c] = A[s][d]
  BY <1>1
<1>9. (r >= i <=> s >= i) /\ (r < i => s = r) /\ (c >= i <=> d >= i) /\ (c < i => d = c)
  BY <1>2, <1>3 DEF SwapIndex
<1>10. ASSUME NEW q \in 0 .. i - 1
       PROVE  old[q] = new[q] /\ old[q] \in F
  <2>1. q \in Rows /\ q \in Cols /\ q < i /\ q \in Int /\ q \in 0 .. i
    BY <1>3
  <2>2. SwapIndex(i, prow, q) = q /\ SwapIndex(pcol, i, q) = q
    BY <1>2, <1>3, <2>1 DEF SwapIndex
  <2>3. A'[r][q] = A[s][q]
    BY <1>1, <1>3, <2>1, <2>2, StepCell
  <2>4. A'[q][c] = A[q][d]
    BY <1>1, <1>3, <2>1, <2>2, StepCell
  <2>5. r \in Int /\ c \in Int /\ s \in Int /\ d \in Int
    BY <1>3, <1>5
  <2> HIDE DEF s, d
  <2>6. LEntry(r, q)' = LEntry(s, q)
    BY <1>9, <1>3, <2>1, <2>3, <2>5 DEF LEntry
  <2>7. UEntry(q, c)' = UEntry(q, d)
    BY <1>9, <1>3, <2>1, <2>4, <2>5 DEF UEntry
  <2>8. LEntry(s, q) \in F /\ UEntry(q, d) \in F
    BY <1>4, <1>5, <2>1 DEF Assumptions, FieldAssumption, LEntry, UEntry, Matrices
  <2> QED BY <2>1, <2>6, <2>7, <2>8 DEF Assumptions, FieldAssumption
<1>11. Sum(old, i) = Sum(new, i) /\ Sum(old, i) \in F
  <2> HIDE DEF old, new
  <2> QED BY <1>3, <1>10, SumEqual, SumType
<1>12. Sum(new, i + 1) = Add(Sum(new, i), new[i])
  <2> HIDE DEF new
  <2> QED BY <1>3, SumNext
<1>13. Residual(s, d) = Add(new[i], Residual(r, c)') /\ new[i] \in F /\ Residual(r, c)' \in F
  <2> HIDE DEF M, s, d
  <2>1. i \in 0 .. i
    BY <1>3
  <2>2. Residual(s, d) = IF r >= i /\ c >= i THEN M[r][c] ELSE Zero
    BY <1>8, <1>9 DEF Residual
  <2>3. new[i] = Mul(IF i < r THEN A'[r][i] ELSE IF i = r THEN One ELSE Zero,
                     IF i <= c THEN A'[i][c] ELSE Zero)
    BY <2>1 DEF LEntry, UEntry
  <2>4. Residual(r, c)' = IF r >= i + 1 /\ c >= i + 1 THEN A'[r][c] ELSE Zero
    BY <1>2 DEF Residual
  <2> HIDE DEF new
  <2> QED BY <1>1, <2>2, <2>3, <2>4, PivotTerm
<1>14. Add(Sum(old, i), Residual(s, d)) = Add(Sum(new, i + 1), Residual(r, c)')
  <2> HIDE DEF old, new, s, d
  <2> QED BY <1>11, <1>12, <1>13 DEF Assumptions, FieldLaws
<1> QED BY <1>6, <1>7, <1>14

-----------------------------------------------------------------------------
(* Everything the solvers use of the decomposition *)

(* U can be divided by: no settled pivot ever becomes zero. *)
PivotsNonzero == \A q \in 0 .. i - 1 : A[q][q] # Zero

(* Once done, the undecomposed part is zero: the factors are the matrix. *)
NothingLeft ==
  pc = "done" => \A r \in Rows, c \in Cols : r >= i /\ c >= i => A[r][c] = Zero

LUInv == TypeOK /\ MovedForDeadColumn /\ Factorisation /\ PivotsNonzero /\ NothingLeft

LEMMA EntryType ==
  ASSUME Assumptions, TypeOK
  PROVE  /\ \A r \in Rows, q \in 0 .. i - 1 : LEntry(r, q) \in F
         /\ \A q \in 0 .. i - 1, c \in Cols : UEntry(q, c) \in F
<1>1. \A q \in 0 .. i - 1 : q \in Rows /\ q \in Cols
  BY DEF Assumptions, DimAssumption, TypeOK, Rows, Cols
<1>2. \A r \in Rows, c \in Cols : A[r][c] \in F
  BY DEF TypeOK, Matrices
<1> QED BY <1>1, <1>2 DEF Assumptions, FieldAssumption, LEntry, UEntry

LEMMA LUInvInit ==
  ASSUME Assumptions
  PROVE  Init => LUInv
<1> SUFFICES ASSUME Init PROVE LUInv
  OBVIOUS
<1>1. TypeOK
  BY TypeInit
<1>2. MovedForDeadColumn /\ PivotsNonzero /\ NothingLeft
  BY DEF Init, MovedForDeadColumn, PivotsNonzero, NothingLeft
<1>3. Factorisation
  <2> SUFFICES ASSUME NEW r \in Rows, NEW c \in Cols
               PROVE  A0[rp[r]][cp[c]] =
                        Add(Sum([q \in 0 .. i - 1 |-> Mul(LEntry(r, q), UEntry(q, c))], i),
                            Residual(r, c))
    BY DEF Factorisation
  <2>1. Sum([q \in 0 .. i - 1 |-> Mul(LEntry(r, q), UEntry(q, c))], i) = Zero
    BY SumNone DEF Init
  <2>2. r >= 0 /\ c >= 0
    BY DEF Rows, Cols
  <2>3. rp[r] = r /\ cp[c] = c /\ i = 0 /\ A = A0
    BY DEF Init
  <2>4. A0[r][c] \in F
    BY <1>1 DEF TypeOK, Matrices
  <2>5. Residual(r, c) = A0[rp[r]][cp[c]] /\ A0[rp[r]][cp[c]] \in F
    BY <2>2, <2>3, <2>4 DEF Residual
  <2> QED BY <2>1, <2>5 DEF Assumptions, FieldAssumption, FieldLaws
<1> QED BY <1>1, <1>2, <1>3 DEF LUInv

LEMMA LUInvStep ==
  ASSUME Assumptions
  PROVE  LUInv /\ [Next]_luVars => LUInv'
<1> SUFFICES ASSUME LUInv, [Next]_luVars PROVE LUInv'
  OBVIOUS
<1>1. TypeOK'
  BY TypeStep DEF LUInv
<1>2. MovedForDeadColumn'
  BY DeadColumnStep DEF LUInv
<1>3. Factorisation'
  <2>1. ASSUME NEW prow \in Rows, NEW pcol \in Cols, Pivot(prow, pcol)
        PROVE  Factorisation'
    BY <2>1, PivotFactorises DEF LUInv
  <2>2. ASSUME UNCHANGED <<A0, A, rp, cp, i>> PROVE Factorisation'
    BY <2>2 DEF LUInv, Factorisation, LEntry, UEntry, Residual, Rows, Cols
  <2> QED BY <2>1, <2>2 DEF Next, NoPivot, Exhausted, luVars
<1>4. PivotsNonzero'
  <2>1. ASSUME NEW prow \in Rows, NEW pcol \in Cols, Pivot(prow, pcol)
        PROVE  PivotsNonzero'
    <3> DEFINE M == SwapCols(SwapRows(A, i, prow), pcol, i)
    <3>1. /\ i \in Rows /\ i \in Cols
          /\ M \in Matrices /\ M[i][i] # Zero
          /\ A' = Step(M, i)
          /\ \A r \in Rows, c \in Cols :
               M[r][c] = A[SwapIndex(i, prow, r)][SwapIndex(pcol, i, c)]
      BY <2>1, PivotStep DEF LUInv
    <3>2. i' = i + 1 /\ prow >= i /\ pcol >= i
      BY <2>1 DEF Pivot, IsFirstPivot
    <3> SUFFICES ASSUME NEW q \in 0 .. i PROVE A'[q][q] # Zero
      BY <3>1, <3>2 DEF PivotsNonzero, Rows
    <3>3. q \in Rows /\ q \in Cols /\ q <= i /\ i \in Int /\ prow \in Int /\ pcol \in Int
      BY <3>1 DEF Assumptions, DimAssumption, Rows, Cols
    <3>4. A'[q][q] = M[q][q]
      BY <3>1, <3>3, StepCell
    <3>5. CASE q = i
      BY <3>1, <3>4, <3>5
    <3>6. CASE q # i
      <4>1. SwapIndex(i, prow, q) = q /\ SwapIndex(pcol, i, q) = q
        BY <3>2, <3>3, <3>6 DEF SwapIndex
      <4>2. q \in 0 .. i - 1
        BY <3>3, <3>6
      <4> QED BY <3>1, <3>3, <3>4, <4>1, <4>2 DEF LUInv, PivotsNonzero
    <3> QED BY <3>5, <3>6
  <2>2. ASSUME UNCHANGED <<A0, A, rp, cp, i>> PROVE PivotsNonzero'
    BY <2>2 DEF LUInv, PivotsNonzero
  <2> QED BY <2>1, <2>2 DEF Next, NoPivot, Exhausted, luVars
<1>5. NothingLeft'
  <2>1. ASSUME NEW prow \in Rows, NEW pcol \in Cols, Pivot(prow, pcol)
        PROVE  NothingLeft'
    BY <2>1 DEF Pivot, NothingLeft
  <2>2. CASE NoPivot
    BY <2>2 DEF NoPivot, NoPivotLeft, NothingLeft, Rows, Cols
  <2>3. CASE Exhausted
    BY <2>3 DEF Assumptions, DimAssumption, LUInv, TypeOK, Exhausted, NothingLeft, Rows, Cols
  <2>4. CASE UNCHANGED luVars
    BY <2>4 DEF LUInv, luVars, NothingLeft, Rows, Cols
  <2> QED BY <2>1, <2>2, <2>3, <2>4 DEF Next
<1> QED BY <1>1, <1>2, <1>3, <1>4, <1>5 DEF LUInv

LEMMA LUInvHolds ==
  ASSUME Assumptions
  PROVE  Spec => []LUInv
BY LUInvInit, LUInvStep, PTL DEF Spec

(* What the storage encodes between two iterations is the permuted input:  *)
(* for every matrix, of any shape over any field of characteristic two.    *)
THEOREM FactorisationHolds ==
  ASSUME Assumptions
  PROVE  Spec => []Factorisation
<1>1. LUInv => Factorisation
  BY DEF LUInv
<1> QED BY <1>1, LUInvHolds, PTL

-----------------------------------------------------------------------------
(* The rank *)

(* What the rows of A0 add up to when row r is taken x[r] times. *)
RowCombination(x) == [c \in Cols |-> Sum([r \in Rows |-> Mul(x[r], A0[r][c])], NRow)]

(* The same for the rows of U, in the order of its columns. *)
UCombination(z) == [d \in Cols |-> Sum([q \in 0 .. i - 1 |-> Mul(UEntry(q, d), z[q])], i)]

(* How often a combination of the rows of A0 takes each row of U. *)
Weights(x) ==
  [q \in 0 .. i - 1 |-> Sum([r \in Rows |-> Mul(LEntry(r, q), x[rp[r]])], NRow)]

LEMMA WeightsType ==
  ASSUME Assumptions, TypeOK, NEW x \in [Rows -> F]
  PROVE  Weights(x) \in [0 .. i - 1 -> F]
<1> SUFFICES ASSUME NEW q \in 0 .. i - 1
             PROVE  Sum([r \in Rows |-> Mul(LEntry(r, q), x[rp[r]])], NRow) \in F
  BY DEF Weights
<1> DEFINE f == [r \in Rows |-> Mul(LEntry(r, q), x[rp[r]])]
<1>1. \A r \in 0 .. NRow - 1 : f[r] \in F
  BY EntryType DEF Assumptions, FieldAssumption, TypeOK, IsPermutation, Rows
<1> HIDE DEF f
<1>2. Sum(f, NRow) \in F
  BY <1>1, SumType DEF Assumptions, DimAssumption
<1> QED BY <1>2 DEF f

(* Every combination of the rows of A0 is one of the rows of U. *)
LEMMA CombinationOfU ==
  ASSUME Assumptions, LUInv, pc = "done", NEW x \in [Rows -> F], NEW d \in Cols
  PROVE  RowCombination(x)[cp[d]] = UCombination(Weights(x))[d]
<1>1. /\ TypeOK /\ i \in Nat /\ NRow \in Nat /\ IsPermutation(rp, Rows)
      /\ \A q \in 0 .. i - 1 : q \in Rows /\ q \in Cols
  BY DEF Assumptions, DimAssumption, LUInv, TypeOK, Rows, Cols
<1>2. cp[d] \in Cols /\ \A r \in Rows : rp[r] \in Rows
  BY <1>1 DEF TypeOK, IsPermutation
<1>3. \A s \in Rows, c \in Cols : A0[s][c] \in F
  BY <1>1 DEF TypeOK, Matrices
<1> DEFINE col == [r \in Rows |-> Mul(x[r], A0[r][cp[d]])]
           g == [r \in Rows |-> Mul(x[rp[r]], A0[rp[r]][cp[d]])]
           l == [q \in 0 .. i - 1 |-> Mul(UEntry(q, d), Weights(x)[q])]
           t == [q \in 0 .. i - 1 |-> [r \in Rows |->
                   Mul(UEntry(q, d), Mul(LEntry(r, q), x[rp[r]]))]]
           u == [r \in Rows |-> [q \in 0 .. i - 1 |-> t[q][r]]]
<1>4. \A r \in Rows : col[r] \in F /\ g[r] = col[rp[r]]
  BY <1>2, <1>3 DEF Assumptions, FieldAssumption
<1>5. Sum(g, NRow) = Sum(col, NRow)
  <2> HIDE DEF g, col
  <2> QED BY <1>1, <1>4, SumPermute DEF Rows
<1>6. ASSUME NEW q \in 0 .. i - 1, NEW r \in Rows
      PROVE  /\ t[q][r] = Mul(UEntry(q, d), Mul(LEntry(r, q), x[rp[r]]))
             /\ t[q][r] = Mul(x[rp[r]], Mul(LEntry(r, q), UEntry(q, d)))
             /\ t[q][r] \in F
             /\ Mul(LEntry(r, q), x[rp[r]]) \in F
  <2>1. t[q][r] = Mul(UEntry(q, d), Mul(LEntry(r, q), x[rp[r]]))
    OBVIOUS
  <2>2. LEntry(r, q) \in F /\ UEntry(q, d) \in F /\ x[rp[r]] \in F
    BY <1>1, <1>2, EntryType
  <2> HIDE DEF t
  <2>3. Mul(LEntry(r, q), x[rp[r]]) \in F
    BY <2>2 DEF Assumptions, FieldAssumption
  <2>4. \A a, b, e \in F : Mul(a, Mul(b, e)) \in F /\ Mul(a, Mul(b, e)) = Mul(e, Mul(b, a))
    BY DEF Assumptions, FieldAssumption, FieldLaws
  <2>5. /\ Mul(UEntry(q, d), Mul(LEntry(r, q), x[rp[r]])) \in F
        /\ Mul(UEntry(q, d), Mul(LEntry(r, q), x[rp[r]])) =
             Mul(x[rp[r]], Mul(LEntry(r, q), UEntry(q, d)))
    BY <2>2, <2>4
  <2> QED BY <2>1, <2>3, <2>5
<1>7. ASSUME NEW q \in 0 .. i - 1
      PROVE  l[q] = Sum(t[q], NRow)
  <2> DEFINE w == [r \in Rows |-> Mul(LEntry(r, q), x[rp[r]])]
  <2>1. \A r \in 0 .. NRow - 1 : w[r] \in F /\ t[q][r] = Mul(UEntry(q, d), w[r])
    BY <1>6 DEF Rows
  <2>2. UEntry(q, d) \in F
    BY <1>1, EntryType
  <2>3. Sum(t[q], NRow) = Mul(UEntry(q, d), Sum(w, NRow))
    <3> HIDE DEF t, w
    <3>1. Scaled(t[q], w, UEntry(q, d), NRow)
      BY <2>1 DEF Scaled
    <3> QED BY <1>1, <2>2, <3>1, SumScale
  <2>4. Weights(x)[q] = Sum(w, NRow)
    BY DEF Weights
  <2> QED BY <2>3, <2>4
<1>8. ASSUME NEW r \in Rows
      PROVE  g[r] = Sum(u[r], i)
  <2> DEFINE lu == [q \in 0 .. i - 1 |-> Mul(LEntry(r, q), UEntry(q, d))]
             h == u[r]
  <2>1. A0[rp[r]][cp[d]] = Add(Sum(lu, i), Residual(r, d))
    BY DEF LUInv, Factorisation
  <2>2. Residual(r, d) = Zero
    BY DEF LUInv, NothingLeft, Residual
  <2>3. \A q \in 0 .. i - 1 : lu[q] \in F
    BY <1>1, EntryType DEF Assumptions, FieldAssumption
  <2>4. \A q \in 0 .. i - 1 : h[q] = Mul(x[rp[r]], lu[q])
    BY <1>6
  <2>5. Sum(lu, i) \in F /\ x[rp[r]] \in F
    <3> HIDE DEF lu
    <3> QED BY <1>1, <1>2, <2>3, SumType
  <2>6. A0[rp[r]][cp[d]] = Sum(lu, i)
    BY <2>1, <2>2, <2>5 DEF Assumptions, FieldAssumption
  <2>7. Sum(h, i) = Mul(x[rp[r]], Sum(lu, i))
    <3> HIDE DEF lu, h
    <3>1. Scaled(h, lu, x[rp[r]], i)
      BY <2>3, <2>4 DEF Scaled
    <3> QED BY <1>1, <2>5, <3>1, SumScale
  <2>8. g[r] = Mul(x[rp[r]], A0[rp[r]][cp[d]])
    OBVIOUS
  <2> QED BY <2>6, <2>7, <2>8
<1>9. Sum(l, i) = Sum(g, NRow)
  <2>1. \A q \in 0 .. i - 1, r \in 0 .. NRow - 1 : u[r][q] = t[q][r]
    BY DEF Rows
  <2>2. \A q \in 0 .. i - 1, r \in 0 .. NRow - 1 : t[q][r] \in F
    BY <1>6 DEF Rows
  <2>3. \A r \in 0 .. NRow - 1 : g[r] = Sum(u[r], i)
    BY <1>8 DEF Rows
  <2>4. \A q \in 0 .. i - 1 : l[q] = Sum(t[q], NRow)
    BY <1>7
  <2> HIDE DEF l, g, t, u
  <2>5. LineSums(t, u, l, g, i, NRow)
    BY <2>1, <2>2, <2>3, <2>4 DEF LineSums
  <2> QED BY <2>5, <1>1, SumSwap
<1>10. RowCombination(x)[cp[d]] = Sum(col, NRow)
  BY <1>2 DEF RowCombination
<1>11. UCombination(Weights(x))[d] = Sum(l, i)
  BY DEF UCombination
<1> QED BY <1>5, <1>9, <1>10, <1>11

(* The rows of U are independent: they have their pivots on the diagonal.  *)
LEMMA UIndependent ==
  ASSUME Assumptions, LUInv, NEW y \in [0 .. i - 1 -> F], NEW z \in [0 .. i - 1 -> F],
         UCombination(y) = UCombination(z)
  PROVE  y = z
<1>1. /\ TypeOK /\ i \in Nat /\ \A q \in 0 .. i - 1 : q \in Rows /\ q \in Cols /\ q \in Nat
  BY DEF Assumptions, DimAssumption, LUInv, TypeOK, Rows, Cols
<1> DEFINE T == [d \in 0 .. i - 1 |-> [q \in 0 .. i - 1 |-> UEntry(q, d)]]
           o == [q \in 0 .. i - 1 |-> q]
<1>2. \A a \in 0 .. i - 1 : o[a] \in Nat /\ y[a] \in F /\ z[a] \in F
  BY <1>1
<1>3. ASSUME NEW a \in 0 .. i - 1
      PROVE  Triangular(T, o, y, z, a, i)
  <2>1. ASSUME NEW b \in 0 .. i - 1
        PROVE  T[a][b] \in F /\ (b # a /\ o[b] >= o[a] => T[a][b] = Zero)
    <3>1. T[a][b] = UEntry(b, a) /\ a \in Cols
      BY <1>1
    <3>2. UEntry(b, a) \in F
      BY <1>1, <3>1, EntryType
    <3> QED BY <1>1, <3>1, <3>2 DEF UEntry
  <2>2. T[a][a] # Zero
    BY <1>1 DEF UEntry, LUInv, PivotsNonzero
  <2>3. \A v : [b \in 0 .. i - 1 |-> Mul(T[a][b], v[b])] =
               [b \in 0 .. i - 1 |-> Mul(UEntry(b, a), v[b])]
    OBVIOUS
  <2>4. Sum([b \in 0 .. i - 1 |-> Mul(UEntry(b, a), y[b])], i) =
        Sum([b \in 0 .. i - 1 |-> Mul(UEntry(b, a), z[b])], i)
    <3>1. /\ UCombination(y)[a] = Sum([b \in 0 .. i - 1 |-> Mul(UEntry(b, a), y[b])], i)
          /\ UCombination(z)[a] = Sum([b \in 0 .. i - 1 |-> Mul(UEntry(b, a), z[b])], i)
      BY <1>1 DEF UCombination
    <3> QED BY <3>1
  <2>5. Sum([b \in 0 .. i - 1 |-> Mul(T[a][b], y[b])], i) =
        Sum([b \in 0 .. i - 1 |-> Mul(T[a][b], z[b])], i)
    <3> HIDE DEF T
    <3> QED BY <2>3, <2>4
  <2> HIDE DEF T, o
  <2> QED BY <2>1, <2>2, <2>5 DEF Triangular
<1>4. \A a \in 0 .. i - 1 : y[a] = z[a]
  <2> HIDE DEF T, o
  <2>1. SolveTheSame(T, o, y, z, i)
    BY <1>2, <1>3 DEF SolveTheSame
  <2> QED BY <1>1, <2>1, TriangularUnique
<1>5. y = [a \in 0 .. i - 1 |-> y[a]] /\ z = [a \in 0 .. i - 1 |-> z[a]]
  OBVIOUS
<1> HIDE DEF T, o
<1> QED BY <1>4, <1>5

(* The combination of the rows of A0 that takes row rp[q] y[q] times for   *)
(* each of the first i rows, and no other row.                             *)
Extended(y) ==
  [r \in Rows |-> LET q == CHOOSE q \in Rows : rp[q] = r
                  IN  IF q < i THEN y[q] ELSE Zero]

LEMMA ExtendedType ==
  ASSUME Assumptions, TypeOK, NEW y \in [0 .. i - 1 -> F]
  PROVE  /\ Extended(y) \in [Rows -> F]
         /\ \A q \in Rows : Extended(y)[rp[q]] = IF q < i THEN y[q] ELSE Zero
<1>1. NRow \in Int /\ i \in Nat /\ IsPermutation(rp, Rows)
  BY DEF Assumptions, DimAssumption, TypeOK
<1>2. \A r \in Rows : \E q \in Rows : rp[q] = r
  BY <1>1, PermutationOnto, ZenonT(20) DEF Rows
<1>3. \A q \in Rows : q < i => y[q] \in F
  BY <1>1 DEF Rows
<1>4. \A q \in Rows : rp[q] \in Rows
  BY <1>1 DEF IsPermutation
<1>5. ASSUME NEW q \in Rows
      PROVE  (CHOOSE p \in Rows : rp[p] = rp[q]) = q
  BY <1>1 DEF IsPermutation
<1>6. ASSUME NEW r \in Rows
      PROVE  Extended(y)[r] \in F
  <2>1. (CHOOSE q \in Rows : rp[q] = r) \in Rows
    BY <1>2
  <2> QED BY <1>3, <2>1 DEF Assumptions, FieldAssumption, Extended
<1>7. Extended(y) \in [Rows -> F]
  <2>1. Extended(y) = [r \in Rows |-> Extended(y)[r]]
    BY DEF Extended
  <2> QED BY <1>6, <2>1
<1>8. \A q \in Rows : Extended(y)[rp[q]] = IF q < i THEN y[q] ELSE Zero
  BY <1>4, <1>5 DEF Extended
<1> QED BY <1>7, <1>8

(* Different vectors give different combinations: the first i columns of L *)
(* are independent as well.                                                *)
LEMMA CombinationsApart ==
  ASSUME Assumptions, LUInv, pc = "done",
         NEW y \in [0 .. i - 1 -> F], NEW z \in [0 .. i - 1 -> F],
         RowCombination(Extended(y)) = RowCombination(Extended(z))
  PROVE  y = z
<1>1. /\ TypeOK /\ i \in Nat /\ NRow \in Nat /\ IsPermutation(rp, Rows)
      /\ Rows = 0 .. NRow - 1
      /\ \A q \in 0 .. i - 1 : q \in Rows /\ q < i
  BY DEF Assumptions, DimAssumption, LUInv, TypeOK, Rows
<1>2. /\ Extended(y) \in [Rows -> F] /\ Extended(z) \in [Rows -> F]
      /\ \A q \in Rows : Extended(y)[rp[q]] = IF q < i THEN y[q] ELSE Zero
      /\ \A q \in Rows : Extended(z)[rp[q]] = IF q < i THEN z[q] ELSE Zero
  BY <1>1, ExtendedType
<1>3. \A d \in Cols :
        UCombination(Weights(Extended(y)))[d] = UCombination(Weights(Extended(z)))[d]
  BY <1>2, CombinationOfU
<1>4. UCombination(Weights(Extended(y))) = UCombination(Weights(Extended(z)))
  <2>1. \A w : UCombination(w) = [d \in Cols |-> UCombination(w)[d]]
    BY DEF UCombination
  <2>2. /\ UCombination(Weights(Extended(y))) =
             [d \in Cols |-> UCombination(Weights(Extended(y)))[d]]
        /\ UCombination(Weights(Extended(z))) =
             [d \in Cols |-> UCombination(Weights(Extended(z)))[d]]
    BY <2>1
  <2> QED BY <1>3, <2>2
<1>5. Weights(Extended(y)) = Weights(Extended(z))
  <2>1. /\ Weights(Extended(y)) \in [0 .. i - 1 -> F]
        /\ Weights(Extended(z)) \in [0 .. i - 1 -> F]
    BY <1>1, <1>2, WeightsType
  <2> QED BY <1>4, <2>1, UIndependent
<1> DEFINE T == [q \in Rows |-> [r \in Rows |-> LEntry(r, q)]]
           o == [r \in Rows |-> NRow - r]
           v == [r \in Rows |-> Extended(y)[rp[r]]]
           w == [r \in Rows |-> Extended(z)[rp[r]]]
<1>6. \A r \in Rows : /\ rp[r] \in Rows /\ v[r] \in F /\ w[r] \in F
                      /\ o[r] = NRow - r /\ NRow - r \in Nat
  BY <1>1, <1>2 DEF IsPermutation
<1>7. ASSUME NEW q \in Rows, ~(q < i)
      PROVE  v[q] = w[q]
  BY <1>2, <1>7
<1>8. ASSUME NEW q \in Rows, q < i
      PROVE  Triangular(T, o, v, w, q, NRow)
  <2>1. q \in 0 .. i - 1
    BY <1>1, <1>8
  <2>2. ASSUME NEW r \in Rows
        PROVE  T[q][r] \in F /\ (r # q /\ o[r] >= o[q] => T[q][r] = Zero)
    <3>1. T[q][r] = LEntry(r, q)
      OBVIOUS
    <3>2. LEntry(r, q) \in F
      BY <1>1, <2>1, EntryType
    <3>3. NRow - r >= NRow - q /\ r # q => r < q
      BY <1>1
    <3>4. r < q => LEntry(r, q) = Zero
      BY <1>1 DEF LEntry
    <3> QED BY <3>1, <3>2, <3>3, <3>4, <1>6
  <2>3. T[q][q] # Zero
    <3>1. T[q][q] = LEntry(q, q)
      OBVIOUS
    <3>2. LEntry(q, q) # Zero
      <4> HIDE DEF T, o, v, w
      <4>1. A[q][q] # Zero
        BY <2>1 DEF LUInv, PivotsNonzero
      <4>2. A[q][q] \in F
        BY <1>1, <2>1 DEF Assumptions, DimAssumption, TypeOK, Matrices, Rows, Cols
      <4>3. One # Zero
        BY <4>1, <4>2 DEF Assumptions, FieldAssumption, FieldLaws
      <4>4. q \in Int
        BY <1>1
      <4>5. LEntry(q, q) = One
        BY <4>4 DEF LEntry
      <4> QED BY <4>3, <4>5
    <3> QED BY <3>1, <3>2
  <2>4. Sum([r \in Rows |-> Mul(LEntry(r, q), Extended(y)[rp[r]])], NRow) =
        Sum([r \in Rows |-> Mul(LEntry(r, q), Extended(z)[rp[r]])], NRow)
    <3>1. /\ Weights(Extended(y))[q] =
               Sum([r \in Rows |-> Mul(LEntry(r, q), Extended(y)[rp[r]])], NRow)
          /\ Weights(Extended(z))[q] =
               Sum([r \in Rows |-> Mul(LEntry(r, q), Extended(z)[rp[r]])], NRow)
      BY <2>1 DEF Weights
    <3> QED BY <1>5, <3>1
  <2>5. /\ [r \in Rows |-> Mul(T[q][r], v[r])] =
            [r \in Rows |-> Mul(LEntry(r, q), Extended(y)[rp[r]])]
        /\ [r \in Rows |-> Mul(T[q][r], w[r])] =
            [r \in Rows |-> Mul(LEntry(r, q), Extended(z)[rp[r]])]
    OBVIOUS
  <2> HIDE DEF T, o, v, w
  <2>6. Sum([r \in Rows |-> Mul(T[q][r], v[r])], NRow) =
        Sum([r \in Rows |-> Mul(T[q][r], w[r])], NRow)
    BY <2>4, <2>5
  <2> QED BY <1>1, <2>2, <2>3, <2>6 DEF Triangular
<1>9. \A q \in Rows : v[q] = w[q]
  <2> HIDE DEF T, o, v, w
  <2>1. SolveTheSame(T, o, v, w, NRow)
    BY <1>1, <1>6, <1>7, <1>8 DEF SolveTheSame
  <2> QED BY <1>1, <2>1, TriangularUnique
<1>10. \A q \in 0 .. i - 1 : y[q] = z[q]
  BY <1>1, <1>2, <1>9
<1>11. y = [q \in 0 .. i - 1 |-> y[q]] /\ z = [q \in 0 .. i - 1 |-> z[q]]
  OBVIOUS
<1> HIDE DEF T, o, v, w
<1> QED BY <1>10, <1>11

(* Once done, the rows of A0 span |F|^i vectors.                           *)
LEMMA RankIs ==
  ASSUME Assumptions
  PROVE  LUInv /\ pc = "done" => Cardinality(RowSpan) = Power(Cardinality(F), i)
<1> SUFFICES ASSUME LUInv, pc = "done"
             PROVE  Cardinality(RowSpan) = Power(Cardinality(F), i)
  OBVIOUS
<1> DEFINE D == [0 .. i - 1 -> F]
           Image == {UCombination(y) : y \in D}
<1>1. TypeOK /\ i \in Nat /\ NRow \in Nat /\ NCol \in Nat
  BY DEF Assumptions, DimAssumption, LUInv, TypeOK
<1>2. RowSpan = {RowCombination(x) : x \in [Rows -> F]}
  BY DEF RowSpan, RowCombination
<1>3. IsFiniteSet(D) /\ Cardinality(D) = Power(Cardinality(F), i)
  BY <1>1, VectorsCount
<1>4. IsFiniteSet(RowSpan)
  <2> DEFINE m == [x \in [Rows -> F] |-> RowCombination(x)]
  <2>1. IsFiniteSet([Rows -> F])
    <3>1. IsFiniteSet(Rows)
      BY <1>1, FS_Interval DEF Rows
    <3> QED BY <3>1, FunctionsFinite DEF Assumptions, FieldLaws
  <2>2. m \in Surjection([Rows -> F], RowSpan)
    BY <1>2 DEF Surjection
  <2> HIDE DEF m
  <2> QED BY <2>1, <2>2, FS_Surjection
<1>5. Cardinality(D) <= Cardinality(RowSpan)
  <2> DEFINE m == [y \in D |-> RowCombination(Extended(y))]
  <2>1. m \in [D -> RowSpan]
    BY <1>1, <1>2, ExtendedType
  <2>2. \A y, z \in D : m[y] = m[z] => y = z
    BY CombinationsApart
  <2>3. DOMAIN m = D
    OBVIOUS
  <2>4. m \in Injection(D, RowSpan)
    <3> HIDE DEF m, D
    <3> QED BY <2>1, <2>2, <2>3 DEF Injection, IsInjective
  <2> HIDE DEF m, D
  <2> QED BY <1>4, <2>4, FS_Injection
<1>6. IsFiniteSet(Image) /\ Cardinality(Image) <= Cardinality(D)
  <2> DEFINE m == [y \in D |-> UCombination(y)]
  <2>1. m \in Surjection(D, Image)
    BY DEF Surjection
  <2> HIDE DEF m, D, Image
  <2> QED BY <1>3, <2>1, FS_Surjection
<1>7. \A c \in Cols : \E d \in Cols : cp[d] = c
  <2>1. NCol \in Int /\ IsPermutation(cp, Cols)
    BY <1>1 DEF TypeOK
  <2> QED BY <2>1, PermutationOnto, ZenonT(20) DEF Cols
<1>8. Cardinality(RowSpan) <= Cardinality(Image)
  <2> DEFINE m == [s \in RowSpan |-> [d \in Cols |-> s[cp[d]]]]
  <2>1. ASSUME NEW s \in RowSpan PROVE m[s] \in Image
    <3>1. PICK x \in [Rows -> F] : s = RowCombination(x)
      BY <1>2
    <3>2. \A d \in Cols : s[cp[d]] = UCombination(Weights(x))[d]
      BY <3>1, CombinationOfU
    <3>3. UCombination(Weights(x)) = [d \in Cols |-> UCombination(Weights(x))[d]]
      BY DEF UCombination
    <3>4. m[s] = UCombination(Weights(x))
      BY <3>2, <3>3
    <3>5. Weights(x) \in D
      BY <1>1, WeightsType
    <3> QED BY <3>4, <3>5
  <2>2. ASSUME NEW s \in RowSpan, NEW t \in RowSpan, m[s] = m[t]
        PROVE  s = t
    <3>1. s = [c \in Cols |-> s[c]] /\ t = [c \in Cols |-> t[c]]
      BY <1>2 DEF RowCombination
    <3>2. ASSUME NEW c \in Cols PROVE s[c] = t[c]
      <4>1. PICK d \in Cols : cp[d] = c
        BY <1>7
      <4>2. m[s][d] = s[c] /\ m[t][d] = t[c]
        BY <4>1
      <4> QED BY <2>2, <4>2
    <3> QED BY <3>1, <3>2
  <2>3. DOMAIN m = RowSpan /\ m = [s \in RowSpan |-> m[s]]
    OBVIOUS
  <2>4. m \in Injection(RowSpan, Image)
    <3> HIDE DEF m, Image
    <3>1. m \in [RowSpan -> Image]
      BY <2>1, <2>3
    <3> QED BY <3>1, <2>2, <2>3 DEF Injection, IsInjective
  <2> HIDE DEF m, D, Image
  <2> QED BY <1>6, <2>4, FS_Injection
<1>9. Cardinality(D) \in Int /\ Cardinality(RowSpan) \in Int /\ Cardinality(Image) \in Int
  <2> HIDE DEF D, Image
  <2> QED BY <1>3, <1>4, <1>6, FS_CardinalityType
<1> HIDE DEF D, Image
<1> QED BY <1>3, <1>5, <1>6, <1>8, <1>9

(* When the decomposition is done, i is the rank of the input: the rows of *)
(* A0 span |F|^i vectors, for every matrix.                                *)
THEOREM ReturnsRankHolds ==
  ASSUME Assumptions
  PROVE  Spec => ReturnsRank
<1>1. LUInv' => (pc = "done" => Cardinality(RowSpan) = Power(Cardinality(F), i))'
  BY RankIs, PTL
<1>2. [Next]_luVars /\ LUInv' =>
        [pc # "done" /\ pc' = "done" => Cardinality(RowSpan) = Power(Cardinality(F), i')]_luVars
  <2> SUFFICES ASSUME Next, LUInv', pc' = "done"
               PROVE  Cardinality(RowSpan) = Power(Cardinality(F), i')
    OBVIOUS
  <2>1. A0' = A0
    BY DEF Next, Pivot, NoPivot, Exhausted
  <2>2. RowSpan' = RowSpan
    BY <2>1 DEF RowSpan
  <2> QED BY <1>1, <2>2
<1> QED BY <1>2, LUInvHolds, PTL DEF Spec, ReturnsRank
=============================================================================
