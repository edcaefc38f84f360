-------------------------- MODULE GeneratorsProofs --------------------------
(***************************************************************************)
(* Proofs about three generators.                                          *)
(*   - RandomEsis, for every number of IDs and whatever rand() returns: the*)
(*     made-up IDs are different.                                          *)
(*   - LTWalk, for all parameters with prime W and P1 and every tuple: the *)
(*     walk over a matrix row and the walk over the intermediate symbols   *)
(*     take the same columns, each once, as many as the tuple's degrees.   *)
(*   - Tuples, for every 32-bit ID: its tuple is one the walks start from, *)
(*     its symbol is no other's, and the matrix has the row of its symbol. *)
(***************************************************************************)
EXTENDS RandomEsis, LTWalk, SequenceTheorems, FiniteSetTheorems, WellFoundedInduction, TLAPS

-----------------------------------------------------------------------------
(* The IDs of get_random_esis and get_esis_after_loss *)

Slots == 0 .. hashtab_sz - 1
Home(v) == v % hashtab_sz

(* How far slot g is behind the home of v, around the end of the table.    *)
Dist(g, v) == IF g >= Home(v) THEN g - Home(v) ELSE g - Home(v) + hashtab_sz

TypesOK ==
  /\ kind \in {"random", "loss"}
  /\ pc \in {"draw", "probe", "done"}
  /\ ESIs \in Seq(Nat)
  /\ hESIs \in [Slots -> Nat \cup {hempty}]
  /\ proposed_value \in Nat /\ hidx \in Slots
  /\ esi \in Int /\ esi >= -1
  /\ pc = "probe" => kind = "random"

(* Whatever was drawn is in the table. *)
Recorded ==
  kind = "random" => \A n \in DOMAIN ESIs : \E h \in Slots : hESIs[h] = ESIs[n]

(* Between the home of a value and its slot no slot is empty.              *)
Packed ==
  \A g, h \in Slots :
    hESIs[h] # hempty /\ Dist(g, hESIs[h]) < Dist(h, hESIs[h]) => hESIs[g] # hempty

(* The search has met no empty slot and not the value it looks for.        *)
Searched ==
  pc = "probe" =>
    \A g \in Slots : Dist(g, proposed_value) < Dist(hidx, proposed_value) =>
      hESIs[g] # hempty /\ hESIs[g] # proposed_value

(* Counting through the IDs goes up. *)
Ascends == kind = "loss" => \A n \in DOMAIN ESIs : ESIs[n] <= esi

IInv == TypesOK /\ Recorded /\ Packed /\ Searched /\ Ascends /\ Distinct

-----------------------------------------------------------------------------
(* Distances in the table *)

LEMMA SizeType == hashtab_sz \in Nat \ {0}
  BY EsiAssumption DEF hashtab_sz

LEMMA HomeType ==
  ASSUME NEW v \in Nat
  PROVE  Home(v) \in Slots /\ Home(v) \in Nat
<1>1. ASSUME NEW s \in Nat \ {0} PROVE v % s \in 0 .. s - 1
  OBVIOUS
<1> QED BY <1>1, SizeType DEF Home, Slots

LEMMA DistAtHome ==
  ASSUME NEW v \in Nat, NEW g \in Slots
  PROVE  Dist(g, v) \in Nat /\ ~(Dist(g, v) < Dist(Home(v), v))
  BY SizeType, HomeType DEF Dist, Slots

(* The next slot is one farther, or the home again. *)
LEMMA DistNext ==
  ASSUME NEW v \in Nat, NEW h \in Slots
  PROVE  /\ NextSlot(h) \in Slots
         /\ \A g \in Slots : Dist(g, v) < Dist(NextSlot(h), v) => g = h \/ Dist(g, v) < Dist(h, v)
  BY SizeType, HomeType DEF Dist, Slots, NextSlot

(* Two slots have different distances. *)
LEMMA DistApart ==
  ASSUME NEW v \in Nat, NEW g \in Slots, NEW h \in Slots, g # h
  PROVE  Dist(g, v) < Dist(h, v) \/ Dist(h, v) < Dist(g, v)
  BY SizeType, HomeType DEF Dist, Slots

-----------------------------------------------------------------------------
(* The invariant *)

(* Nothing is drawn and the table is empty. *)
LEMMA InitHolds == Init => IInv
<1> SUFFICES ASSUME Init PROVE IInv
  OBVIOUS
<1>1. TypesOK
  BY SizeType DEF Init, TypesOK, Slots, hempty
<1>2. Recorded /\ Packed /\ Searched /\ Ascends /\ Distinct
  BY DEF Init, Recorded, Packed, Searched, Ascends, Distinct, Slots, hempty
<1> QED BY <1>1, <1>2 DEF IInv

LEMMA DrawKeeps == ASSUME IInv, Draw PROVE IInv'
<1>1. proposed_value' \in Nat /\ hidx' = Home(proposed_value') /\ hidx' \in Slots
  BY HomeType, EsiAssumption DEF Draw, Home
<1>2. TypesOK'
  BY <1>1 DEF IInv, TypesOK, Draw, Slots, hempty, hashtab_sz
<1>3. Searched'
  <2>1. \A g \in Slots : ~(Dist(g, proposed_value') < Dist(hidx', proposed_value'))
    BY <1>1, DistAtHome
  <2> QED BY <2>1 DEF Searched, Slots, Dist, Home, hashtab_sz
<1>4. Recorded' /\ Packed' /\ Ascends' /\ Distinct'
  BY DEF IInv, Recorded, Packed, Ascends, Distinct, Draw, Slots, Dist, Home, hashtab_sz, hempty
<1> QED BY <1>2, <1>3, <1>4 DEF IInv

LEMMA RetryKeeps == ASSUME IInv, Retry PROVE IInv'
<1>1. TypesOK' /\ Searched'
  BY DEF IInv, TypesOK, Searched, Retry, Slots, hashtab_sz, hempty
<1>2. Recorded' /\ Packed' /\ Ascends' /\ Distinct'
  BY DEF IInv, Recorded, Packed, Ascends, Distinct, Retry, Slots, Dist, Home, hashtab_sz, hempty
<1> QED BY <1>1, <1>2 DEF IInv

(* The slot that was met holds another value.                              *)
LEMMA StepOnKeeps == ASSUME IInv, StepOn PROVE IInv'
<1>1. hidx' \in Slots
  BY DistNext DEF IInv, TypesOK, StepOn
<1>2. TypesOK'
  BY <1>1 DEF IInv, TypesOK, StepOn, Slots, hashtab_sz, hempty
<1>3. Searched'
  <2> SUFFICES ASSUME NEW g \in Slots, Dist(g, proposed_value) < Dist(NextSlot(hidx), proposed_value)
               PROVE  hESIs[g] # hempty /\ hESIs[g] # proposed_value
    BY DEF Searched, StepOn, Slots, Dist, Home, hashtab_sz, hempty
  <2>1. g = hidx \/ Dist(g, proposed_value) < Dist(hidx, proposed_value)
    BY DistNext DEF IInv, TypesOK
  <2>2. hESIs[hidx] # hempty /\ hESIs[hidx] # proposed_value
    BY DEF StepOn, Probing, Known
  <2> QED BY <2>1, <2>2 DEF IInv, Searched, StepOn, Probing
<1>4. Recorded' /\ Packed' /\ Ascends' /\ Distinct'
  BY DEF IInv, Recorded, Packed, Ascends, Distinct, StepOn, Slots, Dist, Home, hashtab_sz, hempty
<1> QED BY <1>2, <1>3, <1>4 DEF IInv

(* A value that is in the table is not behind an empty slot, so the search *)
(* would have met it.                                                      *)
LEMMA NotYetDrawn ==
  ASSUME IInv, Store
  PROVE  \A h \in Slots : hESIs[h] # proposed_value
<1> SUFFICES ASSUME NEW h \in Slots, hESIs[h] = proposed_value
             PROVE  FALSE
  OBVIOUS
<1>1. proposed_value \in Nat /\ hidx \in Slots /\ hESIs[hidx] = hempty
  BY DEF IInv, TypesOK, Store
<1>2. hESIs[h] # hempty /\ h # hidx
  BY <1>1 DEF hempty
<1>3. ~(Dist(hidx, proposed_value) < Dist(h, proposed_value))
  BY <1>1, <1>2 DEF IInv, Packed
<1>4. Dist(h, proposed_value) < Dist(hidx, proposed_value)
  BY <1>1, <1>2, <1>3, DistApart
<1> QED BY <1>4 DEF IInv, Searched, Store

LEMMA StoreKeeps == ASSUME IInv, Store PROVE IInv'
<1>1. /\ proposed_value \in Nat /\ hidx \in Slots /\ hESIs[hidx] = hempty
      /\ hESIs \in [Slots -> Nat \cup {hempty}] /\ ESIs \in Seq(Nat) /\ kind = "random"
      /\ hESIs' = [hESIs EXCEPT ![hidx] = proposed_value]
      /\ ESIs' = Append(ESIs, proposed_value)
  BY DEF IInv, TypesOK, Store
<1>2. /\ ESIs' \in Seq(Nat)
      /\ DOMAIN ESIs = 1 .. Len(ESIs) /\ DOMAIN ESIs' = 1 .. Len(ESIs) + 1
      /\ \A n \in 1 .. Len(ESIs) : ESIs'[n] = ESIs[n]
      /\ ESIs'[Len(ESIs) + 1] = proposed_value
  BY <1>1, AppendProperties
<1>3. TypesOK'
  BY <1>1, <1>2 DEF IInv, TypesOK, Store, Slots, hashtab_sz, hempty
<1>4. Recorded'
  <2>1. \A h \in Slots : h # hidx => hESIs'[h] = hESIs[h]
    BY <1>1
  <2>2. hESIs'[hidx] = proposed_value
    BY <1>1
  <2>3. \A n \in 1 .. Len(ESIs) : \E h \in Slots : h # hidx /\ hESIs[h] = ESIs[n]
    <3> SUFFICES ASSUME NEW n \in 1 .. Len(ESIs)
                 PROVE  \E h \in Slots : h # hidx /\ hESIs[h] = ESIs[n]
      OBVIOUS
    <3>1. PICK h \in Slots : hESIs[h] = ESIs[n]
      BY <1>1, <1>2 DEF IInv, Recorded
    <3>2. ESIs[n] \in Nat
      BY <1>1, <1>2
    <3> QED BY <1>1, <3>1, <3>2 DEF hempty
  <2>4. \A n \in DOMAIN ESIs' : \E h \in Slots : hESIs'[h] = ESIs'[n]
    <3> SUFFICES ASSUME NEW n \in DOMAIN ESIs'
                 PROVE  \E h \in Slots : hESIs'[h] = ESIs'[n]
      OBVIOUS
    <3>1. CASE n \in 1 .. Len(ESIs)
      BY <3>1, <1>2, <2>1, <2>3
    <3>2. CASE n = Len(ESIs) + 1
      BY <3>2, <1>1, <1>2, <2>2
    <3>3. Len(ESIs) \in Nat
      BY <1>1
    <3> QED BY <3>1, <3>2, <3>3, <1>2
  <2> QED BY <2>4 DEF Recorded, Slots, hashtab_sz
<1>5. Packed'
  <2> SUFFICES ASSUME NEW g \in Slots, NEW h \in Slots,
                      hESIs'[h] # hempty, Dist(g, hESIs'[h]) < Dist(h, hESIs'[h])
               PROVE  hESIs'[g] # hempty
    BY DEF Packed, Slots, Dist, Home, hashtab_sz, hempty
  <2>1. proposed_value # hempty
    BY <1>1 DEF hempty
  <2>2. CASE g = hidx
    BY <1>1, <2>1, <2>2
  <2>3. CASE g # hidx /\ h = hidx
    <3>1. hESIs'[h] = proposed_value /\ hESIs'[g] = hESIs[g]
      BY <1>1, <2>3
    <3> QED BY <3>1, <2>3 DEF IInv, Searched, Store
  <2>4. CASE g # hidx /\ h # hidx
    <3>1. hESIs'[h] = hESIs[h] /\ hESIs'[g] = hESIs[g]
      BY <1>1, <2>4
    <3> QED BY <3>1 DEF IInv, Packed
  <2> QED BY <2>2, <2>3, <2>4
<1>6. Searched' /\ Ascends'
  BY <1>1 DEF Searched, Ascends, Store
<1>7. Distinct'
  <2>1. \A n \in 1 .. Len(ESIs) : ESIs[n] # proposed_value
    BY <1>1, <1>2, NotYetDrawn DEF IInv, Recorded
  <2>2. Len(ESIs) \in Nat
    BY <1>1
  <2> QED BY <1>2, <2>1, <2>2 DEF IInv, Distinct
<1> QED BY <1>3, <1>4, <1>5, <1>6, <1>7 DEF IInv

LEMMA LoseKeeps == ASSUME IInv, Lose PROVE IInv'
<1>1. TypesOK' /\ Ascends'
  <2>1. \A n \in DOMAIN ESIs : ESIs[n] \in Nat
    BY DEF IInv, TypesOK
  <2> QED BY <2>1 DEF IInv, TypesOK, Ascends, Lose, Count, Slots, hashtab_sz, hempty
<1>2. Recorded' /\ Packed' /\ Searched' /\ Distinct'
  BY DEF IInv, Recorded, Packed, Searched, Distinct, Lose, Count, Wanted, Slots, Dist, Home, hashtab_sz, hempty
<1> QED BY <1>1, <1>2 DEF IInv

LEMMA ArriveKeeps == ASSUME IInv, Arrive PROVE IInv'
<1>1. /\ kind = "loss" /\ pc = "draw" /\ esi \in Int /\ esi >= -1
      /\ esi' = esi + 1 /\ esi' \in Nat
      /\ ESIs \in Seq(Nat) /\ ESIs' = Append(ESIs, esi')
  BY DEF IInv, TypesOK, Arrive, Count, Wanted
<1>2. /\ ESIs' \in Seq(Nat)
      /\ DOMAIN ESIs = 1 .. Len(ESIs) /\ DOMAIN ESIs' = 1 .. Len(ESIs) + 1
      /\ \A n \in 1 .. Len(ESIs) : ESIs'[n] = ESIs[n] /\ ESIs[n] \in Nat
      /\ ESIs'[Len(ESIs) + 1] = esi'
      /\ Len(ESIs) \in Nat
  BY <1>1, AppendProperties
<1>3. \A n \in 1 .. Len(ESIs) : ESIs[n] <= esi
  BY <1>1, <1>2 DEF IInv, Ascends
<1>4. TypesOK'
  BY <1>1, <1>2 DEF IInv, TypesOK, Arrive, Count, Slots, hashtab_sz, hempty
<1>5. Ascends'
  BY <1>1, <1>2, <1>3 DEF Ascends
<1>6. Distinct'
  BY <1>1, <1>2, <1>3 DEF IInv, Distinct
<1>7. Recorded' /\ Searched' /\ Packed'
  BY <1>1 DEF IInv, Recorded, Packed, Searched, Arrive, Count, Slots, Dist, Home, hashtab_sz, hempty
<1> QED BY <1>4, <1>5, <1>6, <1>7 DEF IInv

LEMMA ReturnKeeps == ASSUME IInv, Return PROVE IInv'
<1>1. TypesOK' /\ Ascends'
  BY DEF IInv, TypesOK, Ascends, Return, Slots, hashtab_sz, hempty
<1>2. Recorded' /\ Packed' /\ Searched' /\ Distinct'
  BY DEF IInv, Recorded, Packed, Searched, Distinct, Return, Slots, Dist, Home, hashtab_sz, hempty
<1> QED BY <1>1, <1>2 DEF IInv

LEMMA Invariance == IInv /\ [Next]_vars => IInv'
<1> SUFFICES ASSUME IInv, [Next]_vars PROVE IInv'
  OBVIOUS
<1>1. CASE UNCHANGED vars
  BY <1>1 DEF IInv, TypesOK, Recorded, Packed, Searched, Ascends, Distinct, vars,
              Slots, Dist, Home, hashtab_sz, hempty
<1> QED
  BY <1>1, DrawKeeps, RetryKeeps, StepOnKeeps, StoreKeeps, LoseKeeps, ArriveKeeps, ReturnKeeps
  DEF Next

-----------------------------------------------------------------------------
(* The theorem *)

(* get_random_esis and get_esis_after_loss never return an ID twice, for   *)
(* every number of IDs and every sequence of random numbers: linear        *)
(* probing finds a value that the table has.                               *)
THEOREM DistinctHolds == Spec => []Distinct
<1>1. Init => IInv
  BY InitHolds
<1>2. IInv /\ [Next]_vars => IInv'
  BY Invariance
<1>3. IInv => Distinct
  BY DEF IInv
<1> QED BY <1>1, <1>2, <1>3, PTL DEF Spec

-----------------------------------------------------------------------------
(* Remainders and primes *)

(* Every set of naturals that has an element has a least one. *)
LEMMA LeastOf ==
  ASSUME NEW S, S \subseteq Nat, S # {}
  PROVE  \E x \in S : \A y \in S : x <= y
<1>1. PICK x \in S : \A y \in S : ~ (<<y, x>> \in OpToRel(<, Nat))
  BY NatLessThanWellFounded, WFMin
<1>2. ASSUME NEW y \in S PROVE x <= y
  <2>1. ~(y < x)
    BY <1>1 DEF OpToRel
  <2> QED BY <2>1
<1> QED BY <1>2

(* Division with remainder, and that it is unique. *)
LEMMA ModRange ==
  ASSUME NEW n \in Nat \ {0}, NEW x \in Int
  PROVE  x % n \in 0 .. n - 1 /\ x \div n \in Int /\ x = n * (x \div n) + (x % n)
OBVIOUS

LEMMA ModUnique ==
  ASSUME NEW n \in Nat \ {0}, NEW q \in Int, NEW r \in 0 .. n - 1
  PROVE  (n * q + r) % n = r
OBVIOUS

(* A step on after the remainder was taken, or before. *)
LEMMA ModStep ==
  ASSUME NEW n \in Nat \ {0}, NEW x \in Int, NEW a \in Int
  PROVE  ((x % n) + a) % n = (x + a) % n
<1> DEFINE y == x + a
           q == x \div n
           p == y \div n
           r == y % n
<1>1. q \in Int /\ x % n \in Int /\ x = n * q + (x % n)
  BY ModRange
<1>2. y \in Int
  OBVIOUS
<1>3. p \in Int /\ r \in 0 .. n - 1 /\ y = n * p + r
  <2> HIDE DEF y
  <2> QED BY <1>2, ModRange
<1>4. (x % n) + a = n * (p - q) + r
  <2> HIDE DEF p, q, r
  <2>1. n * (p - q) = n * p - n * q
    BY <1>1, <1>3
  <2> QED BY <1>1, <1>3, <2>1
<1> HIDE DEF p, q
<1>5. p - q \in Int
  BY <1>1, <1>3
<1>6. (n * (p - q) + r) % n = r
  <2> HIDE DEF r
  <2> QED BY <1>3, <1>5, ModUnique
<1> QED BY <1>4, <1>6

(* n divides x. *)
Divides(n, x) == \E q \in Int : x = n * q

(* Numbers with the same remainder differ by a multiple. *)
LEMMA SameRemainder ==
  ASSUME NEW n \in Nat \ {0}, NEW x \in Int, NEW y \in Int, x % n = y % n
  PROVE  Divides(n, x - y)
<1> DEFINE q == x \div n
           p == y \div n
<1>1. q \in Int /\ p \in Int /\ x = n * q + (x % n) /\ y = n * p + (y % n)
      /\ x % n \in Int
  BY ModRange
<1> HIDE DEF p, q
<1>2. n * (q - p) = n * q - n * p
  BY <1>1
<1>3. x - y = n * (q - p) /\ q - p \in Int
  BY <1>1, <1>2
<1> QED BY <1>3 DEF Divides

(* Multiples of n are not between 0 and n. *)
LEMMA TooSmall ==
  ASSUME NEW n \in Nat \ {0}, NEW a \in 1 .. n - 1
  PROVE  ~Divides(n, a)
<1> SUFFICES ASSUME NEW q \in Int, a = n * q PROVE FALSE
  BY DEF Divides
<1>1. q >= 1 => n * q >= n
  OBVIOUS
<1>2. q <= 0 => n * q <= 0
  OBVIOUS
<1> QED BY <1>1, <1>2

(* Trial division finds every divisor. *)
LEMMA NoDivisor ==
  ASSUME NEW n \in Nat, n < Bound, IsPrime(n), NEW m \in 2 .. n - 1
  PROVE  n % m # 0
<1> SUFFICES ASSUME n % m = 0 PROVE FALSE
  OBVIOUS
<1> DEFINE e == n \div m
<1>1. e \in Int /\ n = m * e
  BY ModRange
<1> HIDE DEF e
<1>2. e >= 2 /\ e <= n
  <2>1. e <= 0 => m * e <= 0
    BY <1>1
  <2>2. e = 1 => m * e = m
    BY <1>1
  <2>3. e >= 1 => m * e >= e
    BY <1>1
  <2> QED BY <1>1, <2>1, <2>2, <2>3 DEF IsPrime
<1>3. ASSUME NEW a \in Int, NEW b \in Int, a >= 2, b >= a, n = a * b
      PROVE  FALSE
  <2>1. a * a <= a * b
    BY <1>3
  <2>2. a * a <= n
    BY <1>3, <2>1
  <2>3. a >= 246 => a * a >= 246 * 246
    BY <1>3
  <2>4. a \in 2 .. 245
    BY <1>3, <2>2, <2>3 DEF Bound
  <2>5. n % a # 0
    BY <2>2, <2>4 DEF IsPrime
  <2>6. n = a * b + 0 /\ (a * b + 0) % a = 0
    BY <1>3, ModUnique
  <2> QED BY <2>5, <2>6
<1>4. CASE m <= e
  BY <1>1, <1>2, <1>3, <1>4
<1>5. CASE e <= m
  <2>1. n = e * m
    BY <1>1
  <2> QED BY <1>1, <1>2, <1>3, <1>5, <2>1
<1> QED BY <1>1, <1>4, <1>5

(* A prime divides no product of two smaller numbers. *)
LEMMA NoProduct ==
  ASSUME NEW n \in Nat, n < Bound, IsPrime(n), NEW a \in 1 .. n - 1, NEW k \in 1 .. n - 1
  PROVE  ~Divides(n, k * a)
<1> DEFINE S == {x \in Nat \ {0} : Divides(n, x * a)}
<1>1. n \in S
  <2>1. n \in Nat \ {0} /\ a \in Int
    BY DEF IsPrime
  <2> QED BY <2>1 DEF Divides
<1>2. PICK m \in S : \A y \in S : m <= y
  <2>1. S # {} /\ S \subseteq Nat
    BY <1>1
  <2> HIDE DEF S
  <2> QED BY <2>1, LeastOf
<1>3. m \in Nat \ {0} /\ m <= n
  BY <1>1, <1>2
<1>4. PICK t \in Int : m * a = n * t
  BY <1>2 DEF Divides
<1> DEFINE q == n \div m
           r == n % m
<1>5. q \in Int /\ r \in 0 .. m - 1 /\ n = m * q + r
  BY <1>3, ModRange
<1> HIDE DEF q, r
<1>6. r * a = n * (a - q * t)
  <2>1. r = n - m * q
    BY <1>3, <1>5
  <2>2. r * a = n * a - (m * q) * a
    BY <1>3, <1>5, <2>1
  <2>3. (m * q) * a = q * (m * a)
    BY <1>3, <1>5
  <2>4. q * (n * t) = n * (q * t)
    BY <1>4, <1>5
  <2>5. q * t \in Int
    BY <1>4, <1>5
  <2>6. n * (a - q * t) = n * a - n * (q * t)
    BY <2>5
  <2> QED BY <1>4, <2>2, <2>3, <2>4, <2>6
<1>7. r = 0
  <2>1. a - q * t \in Int
    BY <1>4, <1>5
  <2>2. Divides(n, r * a)
    BY <1>6, <2>1 DEF Divides
  <2>3. r # 0 => r \in S
    BY <1>5, <2>2
  <2> HIDE DEF S
  <2> QED BY <1>2, <1>3, <1>5, <2>3
<1>8. m = n
  <2>1. n % m = 0
    BY <1>7 DEF r
  <2>2. m # 1
    <3>1. ~Divides(n, a)
      BY TooSmall DEF IsPrime
    <3>2. m = 1 => m * a = a
      OBVIOUS
    <3> QED BY <1>4, <3>1, <3>2 DEF Divides
  <2>3. m < n => m \in 2 .. n - 1
    BY <1>3, <2>2
  <2> HIDE DEF S
  <2> QED BY <1>3, <2>1, <2>3, NoDivisor
<1>9. k \notin S
  <2> HIDE DEF S
  <2> QED BY <1>2, <1>8
<1> QED BY <1>9

(* So a walk in steps of a, modulo a prime, meets no number twice. *)
LEMMA WalkApart ==
  ASSUME NEW n \in Nat, n < Bound, IsPrime(n), NEW a \in 1 .. n - 1, NEW b \in Nat,
         NEW p \in Nat, NEW q \in Nat, p < q, q - p < n
  PROVE  (b + p * a) % n # (b + q * a) % n
<1> SUFFICES ASSUME (b + p * a) % n = (b + q * a) % n PROVE FALSE
  OBVIOUS
<1> DEFINE x == b + q * a
           y == b + p * a
<1>1. x \in Int /\ y \in Int /\ x % n = y % n /\ n \in Nat \ {0}
  BY DEF IsPrime
<1>2. x - y = (q - p) * a
  <2>1. (q - p) * a = q * a - p * a
    OBVIOUS
  <2> QED BY <2>1
<1> HIDE DEF x, y
<1>3. Divides(n, (q - p) * a)
  BY <1>1, <1>2, SameRemainder
<1>4. q - p \in 1 .. n - 1
  OBVIOUS
<1> QED BY <1>3, <1>4, NoProduct

(* A walk from b in steps of a. *)
LEMMA ModWalk ==
  ASSUME NEW n \in Nat \ {0}, NEW a \in Int, NEW b \in 0 .. n - 1, NEW q \in Nat
  PROVE  /\ (b + q * a) % n \in 0 .. n - 1
         /\ (b + 0 * a) % n = b
         /\ (((b + q * a) % n) + a) % n = (b + (q + 1) * a) % n
<1>1. /\ b + q * a \in Int
      /\ b + 0 * a = n * 0 + b
      /\ (b + q * a) + a = b + (q + 1) * a
  OBVIOUS
<1>2. (b + q * a) % n \in 0 .. n - 1
  BY <1>1, ModRange
<1>3. (n * 0 + b) % n = b
  BY ModUnique
<1>4. (((b + q * a) % n) + a) % n = ((b + q * a) + a) % n
  BY <1>1, ModStep
<1> QED BY <1>1, <1>2, <1>3, <1>4


-----------------------------------------------------------------------------
(* The walk *)

(* The indices of a tuple's two walks. *)
Lt(q) == (T0.b + q * T0.a) % P.W
Pi(q) == (T0.b1 + q * T0.a1) % P.P1

LtTaken(n) == {Lt(q) : q \in 0 .. n - 1}

(* Of the first s indices of the second walk, those of a PI symbol. *)
Hits(s) == {q \in 0 .. s - 1 : Pi(q) < P.P}
PiTaken(s) == {P.W + Pi(q) : q \in Hits(s)}

Ones(S) == [c \in Columns(P) |-> IF c \in S THEN 1 ELSE 0]

WalkTyped == P \in Sets \cup BlockSets /\ T0 \in TuplesOf(P)

(* The walk steps two elements of the tuple forward. *)
WalkStepped ==
  /\ T \in TuplesOf(P)
  /\ T.d = T0.d /\ T.a = T0.a /\ T.d1 = T0.d1 /\ T.a1 = T0.a1
  /\ use \in {"matrix", "output"}
  /\ stage \in {"lt", "skip", "done"}

LtWalked ==
  stage = "lt" =>
    /\ j \in 1 .. T0.d /\ T.b = Lt(j - 1) /\ T.b1 = T0.b1
    /\ acc = Ones(LtTaken(j))

(* After s indices n were taken; no more can be missed than there are.     *)
PiAt(s, n) ==
  /\ T.b1 = Pi(s) /\ s <= n + (P.P1 - P.P)
  /\ Cardinality(Hits(s)) = n
  /\ acc = Ones(LtTaken(T0.d) \cup PiTaken(s))

PiWalked ==
  stage = "skip" =>
    /\ j \in 0 .. T0.d1 - 1
    /\ \E s \in Nat : PiAt(s, j)

WalkInv == WalkTyped /\ WalkStepped /\ LtWalked /\ PiWalked /\ SameRow

(* The numbers of a parameter set and its tuples. *)
LEMMA WalkTypes ==
  ASSUME WalkTyped
  PROVE  /\ P.W \in Nat /\ P.W < Bound /\ IsPrime(P.W) /\ P.W >= 3
         /\ P.P1 \in Nat /\ P.P1 < Bound /\ IsPrime(P.P1)
         /\ P.P \in Nat /\ P.P >= 3 /\ P.P <= P.P1
         /\ T0.d \in 1 .. P.W - 2 /\ T0.a \in 1 .. P.W - 1 /\ T0.b \in 0 .. P.W - 1
         /\ T0.d1 \in 2 .. 3 /\ T0.a1 \in 1 .. P.P1 - 1 /\ T0.b1 \in 0 .. P.P1 - 1
<1>1. /\ P.W \in Nat /\ P.W < Bound /\ IsPrime(P.W) /\ P.W >= 3
      /\ P.P1 \in Nat /\ P.P1 < Bound /\ IsPrime(P.P1)
      /\ P.P \in Nat /\ P.P >= 3 /\ P.P <= P.P1
  BY WalkAssumption DEF WalkTyped
<1>2. /\ T0.d \in 1 .. Capped(30, P.W) /\ T0.a \in 1 .. P.W - 1 /\ T0.b \in 0 .. P.W - 1
      /\ T0.d1 \in 2 .. 3 /\ T0.a1 \in 1 .. P.P1 - 1 /\ T0.b1 \in 0 .. P.P1 - 1
  BY DEF WalkTyped, TuplesOf
<1>3. Capped(30, P.W) \in Int /\ Capped(30, P.W) <= P.W - 2
  BY <1>1 DEF Capped
<1> QED BY <1>1, <1>2, <1>3

(* The indices are in range, start with the tuple's and go on as the loops *)
(* step.                                                                   *)
LEMMA WalkIndices ==
  ASSUME WalkTyped, NEW q \in Nat
  PROVE  /\ Lt(q) \in 0 .. P.W - 1 /\ Lt(0) = T0.b /\ (Lt(q) + T0.a) % P.W = Lt(q + 1)
         /\ Pi(q) \in 0 .. P.P1 - 1 /\ Pi(0) = T0.b1 /\ (Pi(q) + T0.a1) % P.P1 = Pi(q + 1)
<1>1. /\ P.W \in Nat \ {0} /\ T0.a \in Int /\ T0.b \in 0 .. P.W - 1
      /\ P.P1 \in Nat \ {0} /\ T0.a1 \in Int /\ T0.b1 \in 0 .. P.P1 - 1
  BY WalkTypes
<1>2. /\ (T0.b + q * T0.a) % P.W \in 0 .. P.W - 1
      /\ (T0.b + 0 * T0.a) % P.W = T0.b
      /\ (((T0.b + q * T0.a) % P.W) + T0.a) % P.W = (T0.b + (q + 1) * T0.a) % P.W
  BY <1>1, ModWalk, ZenonT(20)
<1>3. /\ (T0.b1 + q * T0.a1) % P.P1 \in 0 .. P.P1 - 1
      /\ (T0.b1 + 0 * T0.a1) % P.P1 = T0.b1
      /\ (((T0.b1 + q * T0.a1) % P.P1) + T0.a1) % P.P1 = (T0.b1 + (q + 1) * T0.a1) % P.P1
  BY <1>1, ModWalk, ZenonT(20)
<1> QED BY <1>2, <1>3, Zenon DEF Lt, Pi

(* They depend on nothing that the walk changes. *)
LEMMA IndicesStay ==
  ASSUME P' = P, T0' = T0
  PROVE  /\ \A q : Lt(q)' = Lt(q) /\ Pi(q)' = Pi(q)
         /\ \A n : LtTaken(n)' = LtTaken(n) /\ Hits(n)' = Hits(n) /\ PiTaken(n)' = PiTaken(n)
         /\ \A S : Ones(S)' = Ones(S)
BY DEF Lt, Pi, LtTaken, Hits, PiTaken, Ones

(* No index comes twice. *)
LEMMA LtApart ==
  ASSUME WalkTyped, NEW p \in Nat, NEW q \in Nat, p < q, q - p < P.W
  PROVE  Lt(p) # Lt(q)
<1>1. P.W \in Nat /\ P.W < Bound /\ IsPrime(P.W) /\ T0.a \in 1 .. P.W - 1 /\ T0.b \in Nat
  BY WalkTypes
<1> QED BY <1>1, WalkApart DEF Lt

(* The same of the second walk.                                           *)
LEMMA PiApart ==
  ASSUME WalkTyped, NEW p \in Nat, NEW q \in Nat, p < q, q - p < P.P1
  PROVE  Pi(p) # Pi(q)
<1>1. P.P1 \in Nat /\ P.P1 < Bound /\ IsPrime(P.P1) /\ T0.a1 \in 1 .. P.P1 - 1 /\ T0.b1 \in Nat
  BY WalkTypes
<1> QED BY <1>1, WalkApart DEF Pi

(* Setting a new column's coefficient and adding 1 to it are the same.     *)
LEMMA TakenIs ==
  ASSUME use \in {"matrix", "output"}, NEW S, NEW c \in Columns(P), c \notin S
  PROVE  Taken(Ones(S), c) = Ones(S \cup {c})
<1> DEFINE m == Ones(S)
           one == IF use = "matrix" THEN 1 ELSE 1 - m[c]
<1>1. DOMAIN m = Columns(P) /\ \A b \in Columns(P) : m[b] = IF b \in S THEN 1 ELSE 0
  BY DEF Ones
<1>2. one = 1
  BY <1>1
<1>3. Taken(m, c) = [b \in Columns(P) |-> IF b = c THEN one ELSE m[b]]
  BY <1>1 DEF Taken
<1> HIDE DEF m, one
<1>4. [b \in Columns(P) |-> IF b = c THEN one ELSE m[b]]
        = [b \in Columns(P) |-> IF b \in S \cup {c} THEN 1 ELSE 0]
  BY <1>1, <1>2
<1> QED BY <1>3, <1>4 DEF m, Ones

(* One more index of the second walk. *)
LEMMA HitsNext ==
  ASSUME WalkTyped, NEW s \in Nat
  PROVE  /\ IsFiniteSet(Hits(s)) /\ Cardinality(Hits(s)) \in Nat
         /\ Pi(s) >= P.P => Hits(s + 1) = Hits(s)
         /\ Pi(s) < P.P => /\ Hits(s + 1) = Hits(s) \cup {s} /\ PiTaken(s + 1) = PiTaken(s) \cup {P.W + Pi(s)}
                           /\ Cardinality(Hits(s + 1)) = Cardinality(Hits(s)) + 1
<1>1. IsFiniteSet(0 .. s - 1) /\ Hits(s) \subseteq 0 .. s - 1
  BY FS_Interval DEF Hits
<1>2. IsFiniteSet(Hits(s)) /\ Cardinality(Hits(s)) \in Nat
  BY <1>1, FS_Subset, FS_CardinalityType
<1>3. 0 .. (s + 1) - 1 = 0 .. s - 1 \cup {s} /\ s \notin 0 .. s - 1
  OBVIOUS
<1>4. Pi(s) \in Nat /\ P.P \in Nat
  BY WalkTypes, WalkIndices, SMTT(20)
<1>5. Pi(s) >= P.P => Hits(s + 1) = Hits(s)
  BY <1>3, <1>4 DEF Hits
<1>6. Pi(s) < P.P => Hits(s + 1) = Hits(s) \cup {s}
  BY <1>3 DEF Hits
<1>7. s \notin Hits(s)
  BY <1>1
<1>8. Pi(s) < P.P => PiTaken(s + 1) = PiTaken(s) \cup {P.W + Pi(s)}
  BY <1>6 DEF PiTaken
<1>9. Pi(s) < P.P => Cardinality(Hits(s + 1)) = Cardinality(Hits(s)) + 1
  BY <1>2, <1>6, <1>7, FS_AddElement
<1> QED BY <1>2, <1>5, <1>6, <1>8, <1>9

(* Of indices that are all different at most P1 - P are missed. *)
LEMMA FewMisses ==
  ASSUME WalkTyped, NEW s \in Nat, s <= P.P1
  PROVE  s - Cardinality(Hits(s)) <= P.P1 - P.P
<1> DEFINE M == 0 .. s - 1
           Misses == M \ Hits(s)
           Missed == P.P .. P.P1 - 1
           m == [q \in Misses |-> Pi(q)]
<1>1. P.P \in Nat /\ P.P1 \in Nat /\ P.P <= P.P1
  BY WalkTypes
<1>2. IsFiniteSet(M) /\ Cardinality(M) = s /\ IsFiniteSet(Missed) /\ Cardinality(Missed) = P.P1 - P.P
  <2>1. ASSUME NEW a \in Int, NEW b \in Int, a <= b + 1
        PROVE  IsFiniteSet(a .. b) /\ Cardinality(a .. b) = (b - a) + 1
    BY <2>1, FS_Interval
  <2>2. IsFiniteSet(0 .. s - 1) /\ Cardinality(0 .. s - 1) = ((s - 1) - 0) + 1
    BY <2>1
  <2>3. /\ IsFiniteSet(P.P .. P.P1 - 1)
        /\ Cardinality(P.P .. P.P1 - 1) = ((P.P1 - 1) - P.P) + 1
    <3>1. P.P \in Int /\ P.P1 - 1 \in Int /\ P.P <= (P.P1 - 1) + 1
      BY <1>1
    <3> QED BY <2>1, <3>1
  <2> QED BY <1>1, <2>2, <2>3
<1>3. Hits(s) \subseteq M
  BY DEF Hits
<1>4. m \in [Misses -> Missed]
  <2> SUFFICES ASSUME NEW q \in Misses PROVE Pi(q) \in Missed
    OBVIOUS
  <2>1. q \in Nat /\ ~(Pi(q) < P.P)
    BY DEF Hits
  <2> QED BY <1>1, <2>1, WalkIndices
<1>5. \A p, q \in Misses : m[p] = m[q] => p = q
  <2> SUFFICES ASSUME NEW p \in Misses, NEW q \in Misses, p # q PROVE m[p] # m[q]
    OBVIOUS
  <2>1. p \in Nat /\ q \in Nat /\ p - q < P.P1 /\ q - p < P.P1
    BY <1>1
  <2>2. p < q => Pi(p) # Pi(q)
    BY <2>1, PiApart
  <2>3. q < p => Pi(q) # Pi(p)
    BY <2>1, PiApart
  <2> QED BY <2>1, <2>2, <2>3
<1>6. DOMAIN m = Misses
  OBVIOUS
<1>7. m \in Injection(Misses, Missed)
  <2> HIDE DEF m, Misses, Missed
  <2> QED BY <1>4, <1>5, <1>6 DEF Injection, IsInjective
<1>8. Cardinality(Misses) <= Cardinality(Missed)
  <2> HIDE DEF m, Misses, Missed
  <2> QED BY <1>2, <1>7, FS_Injection
<1>9. Cardinality(Misses) = Cardinality(M) - Cardinality(M \cap Hits(s))
  <2> HIDE DEF M
  <2> QED BY <1>2, FS_Difference
<1>10. M \cap Hits(s) = Hits(s)
  BY <1>3
<1> QED
  <2> HIDE DEF M, Misses, Missed
  <2> QED BY <1>2, <1>8, <1>9, <1>10

-----------------------------------------------------------------------------
(* The invariant of the walk *)

(* The first column is the tuple's b. *)
LEMMA WalkStarts == WalkInit => WalkInv
<1> SUFFICES ASSUME WalkInit PROVE WalkInv
  OBVIOUS
<1>1. WalkTyped /\ WalkStepped
  BY DEF WalkInit, WalkTyped, WalkStepped
<1>2. LtWalked
  <2>1. T0.d \in 1 .. P.W - 2 /\ T = T0 /\ j = 1 /\ Lt(0) = T0.b
    BY <1>1, WalkTypes, WalkIndices DEF WalkInit
  <2>2. LtTaken(1) = {T0.b}
    BY <2>1 DEF LtTaken
  <2>3. acc = Ones({T0.b})
    BY <2>1 DEF WalkInit, Ones
  <2> QED BY <1>1, <2>1, <2>2, <2>3, WalkTypes DEF LtWalked
<1>3. PiWalked /\ SameRow
  BY DEF WalkInit, PiWalked, SameRow
<1> QED BY <1>1, <1>2, <1>3 DEF WalkInv

(* Every column that is taken is new. *)
LEMMA StepLtKeeps == WalkInv /\ StepLt => WalkInv'
<1> SUFFICES ASSUME WalkInv, StepLt PROVE WalkInv'
  OBVIOUS
<1>1. WalkTyped /\ WalkStepped /\ LtWalked /\ stage = "lt" /\ j < T0.d
  BY DEF WalkInv, WalkTyped, WalkStepped, StepLt
<1>2. j \in 1 .. T0.d /\ T.b = Lt(j - 1) /\ T.b1 = T0.b1 /\ acc = Ones(LtTaken(j))
  BY <1>1 DEF LtWalked
<1>3. j \in Nat /\ j - 1 \in Nat /\ T0.d \in 1 .. P.W - 2 /\ (j - 1) + 1 = j
  BY <1>1, <1>2, WalkTypes
<1>4. /\ T' = [T EXCEPT !.b = (T.b + T.a) % P.W]
      /\ P' = P /\ T0' = T0 /\ use' = use /\ stage' = stage /\ j' = j + 1
      /\ acc' = Taken(acc, T'.b)
  BY DEF StepLt
<1>5. (T.b + T.a) % P.W = Lt(j) /\ Lt(j) \in 0 .. P.W - 1
  <2>1. T.a = T0.a
    BY <1>1 DEF WalkTyped, WalkStepped
  <2> QED BY <1>1, <1>2, <1>3, <2>1, WalkIndices
<1>6. /\ T' \in TuplesOf(P) /\ T'.d = T.d /\ T'.a = T.a /\ T'.d1 = T.d1 /\ T'.a1 = T.a1
      /\ T'.b1 = T.b1 /\ T'.b = Lt(j)
  <2>1. T \in TuplesOf(P)
    BY <1>1 DEF WalkTyped, WalkStepped
  <2> QED BY <1>4, <1>5, <2>1 DEF TuplesOf
<1>7. WalkTyped' /\ WalkStepped'
  BY <1>1, <1>4, <1>6 DEF WalkTyped, WalkStepped
<1>8. Lt(j) \notin LtTaken(j)
  <2> SUFFICES ASSUME NEW q \in 0 .. j - 1 PROVE Lt(q) # Lt(j)
    BY DEF LtTaken
  <2>1. q \in Nat /\ q < j /\ j - q < P.W
    BY <1>1, <1>3, WalkTypes
  <2> QED BY <1>1, <1>3, <2>1, LtApart
<1>9. acc' = Ones(LtTaken(j + 1))
  <2>1. LtTaken(j + 1) = LtTaken(j) \cup {Lt(j)}
    <3>1. 0 .. (j + 1) - 1 = 0 .. j - 1 \cup {j}
      BY <1>3
    <3> QED BY <3>1 DEF LtTaken
  <2>2. Lt(j) \in Columns(P) /\ use \in {"matrix", "output"}
    BY <1>1, <1>5, WalkTypes DEF Columns, WalkTyped, WalkStepped
  <2>3. Taken(Ones(LtTaken(j)), Lt(j)) = Ones(LtTaken(j) \cup {Lt(j)})
    BY <1>8, <2>2, TakenIs
  <2> QED BY <1>2, <1>4, <1>6, <2>1, <2>3
<1>10. /\ (Ones(LtTaken(j)))' = Ones(LtTaken(j')) /\ (Lt(j - 1))' = Lt(j)
  BY <1>3, <1>4 DEF Ones, LtTaken, Lt
<1>11. LtWalked'
  BY <1>1, <1>2, <1>3, <1>4, <1>6, <1>9, <1>10 DEF LtWalked
<1>12. PiWalked' /\ SameRow'
  BY <1>1, <1>4 DEF PiWalked, SameRow
<1> QED BY <1>7, <1>11, <1>12 DEF WalkInv

(* The second walk starts. *)
LEMMA LtDoneKeeps == WalkInv /\ LtDone => WalkInv'
<1> SUFFICES ASSUME WalkInv, LtDone PROVE WalkInv'
  OBVIOUS
<1>1. WalkTyped /\ WalkStepped /\ LtWalked /\ stage = "lt"
  BY DEF WalkInv, LtDone
<1>2. j \in 1 .. T0.d /\ T.b1 = T0.b1 /\ acc = Ones(LtTaken(j)) /\ j >= T0.d
  BY <1>1 DEF LtWalked, LtDone, WalkTyped, WalkStepped
<1>3. j = T0.d
  BY <1>1, <1>2, WalkTypes
<1>4. P' = P /\ T0' = T0 /\ use' = use /\ T' = T /\ acc' = acc /\ stage' = "skip" /\ j' = 0
  BY DEF LtDone
<1>5. WalkTyped' /\ WalkStepped'
  BY <1>1, <1>4 DEF WalkTyped, WalkStepped
<1>6. LtWalked' /\ SameRow'
  BY <1>4 DEF LtWalked, SameRow
<1>7. PiWalked'
  <2>1. Hits(0) = {} /\ PiTaken(0) = {} /\ Cardinality({}) = 0
    BY FS_EmptySet DEF Hits, PiTaken
  <2>2. Pi(0) = T.b1
    BY <1>1, <1>2, WalkIndices
  <2>3. 0 <= 0 + (P.P1 - P.P) /\ 0 \in 0 .. T0.d1 - 1
    BY <1>1, WalkTypes
  <2>4. acc = Ones(LtTaken(T0.d) \cup PiTaken(0))
    BY <1>2, <1>3, <2>1
  <2>5. PiAt(0, 0)
    BY <2>1, <2>2, <2>3, <2>4 DEF PiAt
  <2>6. PiAt(0, j)'
    BY <1>4, <2>5, IndicesStay DEF PiAt
  <2> QED BY <1>4, <2>3, <2>6 DEF PiWalked
<1> QED BY <1>5, <1>6, <1>7 DEF WalkInv

(* An index without a PI symbol: at most P1 - P come before the last one   *)
(* that is taken.                                                          *)
LEMMA SkipKeeps == WalkInv /\ Skip => WalkInv'
<1> SUFFICES ASSUME WalkInv, Skip PROVE WalkInv'
  OBVIOUS
<1>1. WalkTyped /\ WalkStepped /\ PiWalked /\ stage = "skip" /\ T.b1 >= P.P
  BY DEF WalkInv, Skip
<1>2. j \in 0 .. T0.d1 - 1 /\ \E s \in Nat : PiAt(s, j)
  BY <1>1 DEF PiWalked
<1>3. PICK s \in Nat : PiAt(s, j)
  BY <1>2
<1>4. /\ T' = [T EXCEPT !.b1 = (T.b1 + T.a1) % P.P1]
      /\ P' = P /\ T0' = T0 /\ use' = use /\ stage' = stage /\ j' = j /\ acc' = acc
  BY DEF Skip, Advance
<1>5. (T.b1 + T.a1) % P.P1 = Pi(s + 1) /\ Pi(s + 1) \in 0 .. P.P1 - 1
  <2>1. T.a1 = T0.a1 /\ T.b1 = Pi(s)
    BY <1>1, <1>3 DEF WalkTyped, WalkStepped, PiAt
  <2> QED BY <1>1, <2>1, WalkIndices
<1>6. /\ T' \in TuplesOf(P) /\ T'.d = T.d /\ T'.a = T.a /\ T'.d1 = T.d1 /\ T'.a1 = T.a1
      /\ T'.b1 = Pi(s + 1)
  <2>1. T \in TuplesOf(P)
    BY <1>1 DEF WalkTyped, WalkStepped
  <2> QED BY <1>4, <1>5, <2>1 DEF TuplesOf
<1>7. WalkTyped' /\ WalkStepped'
  BY <1>1, <1>4, <1>6 DEF WalkTyped, WalkStepped
<1>8. Hits(s + 1) = Hits(s) /\ PiTaken(s + 1) = PiTaken(s)
  <2>1. Hits(s + 1) = Hits(s)
    BY <1>1, <1>3, HitsNext DEF PiAt
  <2> QED BY <2>1 DEF PiTaken
<1>9. s + 1 <= j + (P.P1 - P.P)
  <2>1. s <= j + (P.P1 - P.P) /\ Cardinality(Hits(s)) = j
    BY <1>3 DEF PiAt
  <2>2. j \in Int /\ j <= 2 /\ P.P \in Nat /\ P.P1 \in Nat /\ P.P >= 3
    BY <1>1, <1>2, WalkTypes
  <2>3. s + 1 <= P.P1
    BY <2>1, <2>2
  <2>4. (s + 1) - Cardinality(Hits(s + 1)) <= P.P1 - P.P
    BY <1>1, <2>3, FewMisses
  <2> QED BY <1>8, <2>1, <2>2, <2>4
<1>10. PiAt(s + 1, j)'
  <2>1. /\ Cardinality(Hits(s + 1)) = j
        /\ acc = Ones(LtTaken(T0.d) \cup PiTaken(s + 1))
    BY <1>3, <1>8 DEF PiAt
  <2> QED BY <1>4, <1>6, <1>9, <2>1, IndicesStay DEF PiAt
<1>11. PiWalked'
  BY <1>2, <1>4, <1>10 DEF PiWalked
<1>12. LtWalked' /\ SameRow'
  BY <1>1, <1>4 DEF LtWalked, SameRow
<1> QED BY <1>7, <1>11, <1>12 DEF WalkInv

(* The first d1 indices with a PI symbol are those up to the last taken.   *)
LEMMA PiColumnsAre ==
  ASSUME WalkTyped, NEW s \in Nat, Pi(s) < P.P, s <= (T0.d1 - 1) + (P.P1 - P.P),
         Cardinality(Hits(s)) = T0.d1 - 1
  PROVE  PiColumns(P, T0, T0.d1) = PiTaken(s + 1)
<1> DEFINE last == (T0.d1 - 1) + (P.P1 - P.P)
           First == {q \in 0 .. last : Pi(q) < P.P /\ Cardinality(Hits(q + 1)) <= T0.d1}
<1>1. /\ T0.d1 \in 2 .. 3 /\ P.P \in Nat /\ P.P1 \in Nat /\ P.P <= P.P1
      /\ Cardinality(Hits(s + 1)) = T0.d1 /\ IsFiniteSet(Hits(s + 1))
  BY WalkTypes, HitsNext
<1>2. ASSUME NEW q \in Hits(s + 1)
      PROVE  q \in First
  <2>1. q \in Nat /\ q <= s /\ q + 1 \in Nat /\ Pi(q) < P.P
    BY DEF Hits
  <2>2. Hits(q + 1) \subseteq Hits(s + 1)
    BY <2>1 DEF Hits
  <2>3. Cardinality(Hits(q + 1)) <= T0.d1
    BY <1>1, <2>2, FS_Subset
  <2> QED BY <1>1, <2>1, <2>3
<1>3. ASSUME NEW q \in First
      PROVE  q \in Hits(s + 1)
  <2>1. q \in Nat /\ q + 1 \in Nat /\ Pi(q) < P.P /\ Cardinality(Hits(q + 1)) <= T0.d1
    BY <1>1
  <2>2. SUFFICES ASSUME q > s PROVE FALSE
    BY <2>1 DEF Hits
  <2>3. q \notin Hits(s + 1)
    BY <2>1, <2>2 DEF Hits
  <2>4. Hits(s + 1) \cup {q} \subseteq Hits(q + 1)
    BY <2>1, <2>2 DEF Hits
  <2>5. Cardinality(Hits(s + 1) \cup {q}) = T0.d1 + 1
    BY <1>1, <2>3, FS_AddElement
  <2>6. IsFiniteSet(Hits(q + 1)) /\ Cardinality(Hits(q + 1)) \in Nat
    BY <2>1, HitsNext
  <2>7. Cardinality(Hits(s + 1) \cup {q}) <= Cardinality(Hits(q + 1))
    BY <2>4, <2>6, FS_Subset
  <2> QED BY <1>1, <2>1, <2>5, <2>6, <2>7
<1>4. First = Hits(s + 1)
  <2> HIDE DEF First
  <2>1. First \subseteq Hits(s + 1) /\ Hits(s + 1) \subseteq First
    BY <1>2, <1>3
  <2> QED BY <2>1
<1>5. PiColumns(P, T0, T0.d1) = {P.W + Pi(q) : q \in First}
  <2>1. \A q \in 0 .. last : 0 .. (q + 1) - 1 = 0 .. q
    BY <1>1
  <2>2. \A q \in 0 .. last : Hits(q + 1) = {b \in 0 .. q : Pi(b) < P.P}
    BY <2>1 DEF Hits
  <2> QED BY <2>2 DEF PiColumns, Pi
<1> QED BY <1>4, <1>5 DEF PiTaken

(* A PI symbol's column is new as well. *)
LEMMA TakePiKeeps == WalkInv /\ TakePi => WalkInv'
<1> SUFFICES ASSUME WalkInv, TakePi PROVE WalkInv'
  OBVIOUS
<1>1. WalkTyped /\ WalkStepped /\ PiWalked /\ stage = "skip" /\ T.b1 < P.P
  BY DEF WalkInv, TakePi
<1>2. j \in 0 .. T0.d1 - 1 /\ \E s \in Nat : PiAt(s, j)
  BY <1>1 DEF PiWalked
<1>3. PICK s \in Nat : PiAt(s, j)
  BY <1>2
<1>4. P' = P /\ T0' = T0 /\ use' = use /\ j' = j + 1 /\ acc' = Taken(acc, P.W + T.b1)
  BY DEF TakePi
<1>5. /\ T.b1 = Pi(s) /\ Pi(s) < P.P /\ Pi(s) \in Nat /\ s <= j + (P.P1 - P.P)
      /\ Cardinality(Hits(s)) = j /\ acc = Ones(LtTaken(T0.d) \cup PiTaken(s))
      /\ T.d1 = T0.d1 /\ T.a1 = T0.a1
  BY <1>1, <1>3, WalkIndices DEF PiAt, WalkTyped, WalkStepped
<1>6. /\ P.W \in Nat /\ P.P \in Nat /\ P.P1 \in Nat /\ P.P >= 3 /\ P.P <= P.P1
      /\ T0.d1 \in 2 .. 3 /\ j \in Nat /\ j <= 2 /\ s < P.P1
  BY <1>1, <1>2, <1>5, WalkTypes
<1>7. P.W + Pi(s) \notin LtTaken(T0.d) \cup PiTaken(s)
  <2>1. ASSUME NEW q \in 0 .. T0.d - 1 PROVE Lt(q) # P.W + Pi(s)
    <3>1. q \in Nat
      OBVIOUS
    <3> QED BY <1>1, <1>5, <1>6, <3>1, WalkIndices
  <2>2. ASSUME NEW q \in Hits(s) PROVE P.W + Pi(q) # P.W + Pi(s)
    <3>1. q \in Nat /\ q < s /\ s - q < P.P1
      BY <1>6 DEF Hits
    <3>2. Pi(q) # Pi(s) /\ Pi(q) \in Nat
      BY <1>1, <3>1, PiApart, WalkIndices
    <3> QED BY <1>5, <1>6, <3>2
  <2> QED BY <2>1, <2>2 DEF LtTaken, PiTaken
<1>8. /\ Cardinality(Hits(s + 1)) = j + 1
      /\ PiTaken(s + 1) = PiTaken(s) \cup {P.W + Pi(s)}
  BY <1>1, <1>5, HitsNext
<1>9. acc' = Ones(LtTaken(T0.d) \cup PiTaken(s + 1))
  <2>1. P.W + Pi(s) \in Columns(P)
    BY <1>5, <1>6 DEF Columns
  <2>2. use \in {"matrix", "output"}
    BY <1>1 DEF WalkTyped, WalkStepped
  <2>3. Taken(Ones(LtTaken(T0.d) \cup PiTaken(s)), P.W + Pi(s))
          = Ones((LtTaken(T0.d) \cup PiTaken(s)) \cup {P.W + Pi(s)})
    BY <1>7, <2>1, <2>2, TakenIs
  <2>4. (LtTaken(T0.d) \cup PiTaken(s)) \cup {P.W + Pi(s)} = LtTaken(T0.d) \cup PiTaken(s + 1)
    BY <1>8
  <2> QED BY <1>4, <1>5, <2>3, <2>4
<1>10. CASE j + 1 < T.d1
  <2>1. T' = [T EXCEPT !.b1 = (T.b1 + T.a1) % P.P1] /\ stage' = stage
    BY <1>10 DEF TakePi, Advance
  <2>2. (T.b1 + T.a1) % P.P1 = Pi(s + 1) /\ Pi(s + 1) \in 0 .. P.P1 - 1
    BY <1>1, <1>5, WalkIndices
  <2>3. T \in TuplesOf(P)
    BY <1>1 DEF WalkTyped, WalkStepped
  <2>4. /\ T' \in TuplesOf(P) /\ T'.d = T.d /\ T'.a = T.a /\ T'.d1 = T.d1 /\ T'.a1 = T.a1
        /\ T'.b1 = Pi(s + 1)
    BY <2>1, <2>2, <2>3 DEF TuplesOf
  <2>5. WalkTyped' /\ WalkStepped'
    BY <1>1, <1>4, <2>1, <2>4 DEF WalkTyped, WalkStepped
  <2>6. s + 1 <= (j + 1) + (P.P1 - P.P)
    BY <1>5, <1>6
  <2>7. PiAt(s + 1, j)'
    BY <1>4, <1>8, <1>9, <2>4, <2>6, IndicesStay DEF PiAt
  <2>8. j + 1 \in 0 .. T0.d1 - 1
    BY <1>5, <1>6, <1>10
  <2>9. PiWalked'
    BY <1>4, <2>7, <2>8 DEF PiWalked
  <2>10. LtWalked' /\ SameRow'
    BY <1>1, <2>1 DEF LtWalked, SameRow
  <2> QED BY <2>5, <2>9, <2>10 DEF WalkInv
<1>11. CASE ~(j + 1 < T.d1)
  <2>1. T' = T /\ stage' = "done"
    BY <1>11 DEF TakePi
  <2>2. WalkTyped' /\ WalkStepped'
    BY <1>1, <1>4, <2>1 DEF WalkTyped, WalkStepped
  <2>3. j = T0.d1 - 1
    BY <1>2, <1>5, <1>6, <1>11
  <2>4. PiColumns(P, T0, T0.d1) = PiTaken(s + 1)
    BY <1>1, <1>5, <2>3, PiColumnsAre
  <2>5. LtRow(P, T0) = LtTaken(T0.d) \cup PiTaken(s + 1)
    BY <2>4 DEF LtRow, LtColumn, LtTaken, Lt
  <2>6. SameRow'
    BY <1>4, <1>9, <2>5 DEF SameRow, Ones
  <2>7. LtWalked' /\ PiWalked'
    BY <2>1 DEF LtWalked, PiWalked
  <2> QED BY <2>2, <2>6, <2>7 DEF WalkInv
<1> QED BY <1>10, <1>11

(* It holds in every state of every walk. *)
LEMMA WalkInvHolds == WalkSpec => []WalkInv
<1>1. ASSUME WalkInv, UNCHANGED walkVars PROVE WalkInv'
  <2>1. /\ P' = P /\ T0' = T0 /\ use' = use /\ T' = T /\ j' = j /\ stage' = stage /\ acc' = acc
    BY <1>1 DEF walkVars
  <2>2. WalkTyped' /\ WalkStepped'
    BY <1>1, <2>1 DEF WalkInv, WalkTyped, WalkStepped
  <2>3. LtWalked'
    BY <1>1, <2>1, IndicesStay DEF WalkInv, LtWalked, Lt
  <2>4. PiWalked'
    <3>1. stage = "skip" => /\ j \in 0 .. T0.d1 - 1
                            /\ \E s \in Nat : PiAt(s, j)
      BY <1>1 DEF WalkInv, PiWalked
    <3>2. \A s \in Nat : PiAt(s, j) => PiAt(s, j)'
      BY <2>1, IndicesStay DEF PiAt
    <3> QED BY <2>1, <3>1, <3>2 DEF PiWalked
  <2>5. SameRow'
    BY <1>1, <2>1 DEF WalkInv, SameRow
  <2> QED BY <2>2, <2>3, <2>4, <2>5 DEF WalkInv
<1>2. WalkInv /\ [WalkNext]_walkVars => WalkInv'
  BY <1>1, StepLtKeeps, LtDoneKeeps, SkipKeeps, TakePiKeeps DEF WalkNext
<1> QED BY <1>2, WalkStarts, PTL DEF WalkSpec

(* The two loops agree for every parameter set with prime W and P1 and     *)
(* every tuple: lt_generate_mat, which sets elements, and RqOutExecute,    *)
(* which adds symbols, use the columns of LtRow, each once.                *)
THEOREM SameRowHolds == WalkSpec => []SameRow
<1>1. WalkInv => SameRow
  BY DEF WalkInv
<1> QED BY <1>1, WalkInvHolds, PTL

-----------------------------------------------------------------------------
(* The number of columns *)

(* A set has as many elements as indices that are all different.           *)
LEMMA AsMany ==
  ASSUME NEW S, IsFiniteSet(S), NEW g, DOMAIN g = S,
         \A p, q \in S : g[p] = g[q] => p = q
  PROVE  LET C == {g[q] : q \in S} IN IsFiniteSet(C) /\ Cardinality(C) = Cardinality(S)
<1> DEFINE C == {g[q] : q \in S}
           h == [q \in S |-> g[q]]
<1>1. h \in [S -> C]
  OBVIOUS
<1>2. \A p, q \in S : h[p] = h[q] => p = q
  OBVIOUS
<1>3. \A c \in C : \E q \in S : h[q] = c
  OBVIOUS
<1> HIDE DEF h, C
<1>4. h \in Bijection(S, C)
  BY <1>1, <1>2, <1>3 DEF Bijection, Injection, Surjection, IsInjective
<1>5. ExistsBijection(S, C)
  BY <1>4 DEF ExistsBijection
<1> QED BY <1>5, FS_Bijection DEF C

(* The walk of the PI part meets d1 of its symbols before it comes round.  *)
LEMMA PiMet ==
  ASSUME WalkTyped
  PROVE  \E s \in Nat : /\ Pi(s) < P.P /\ s <= (T0.d1 - 1) + (P.P1 - P.P)
                        /\ Cardinality(Hits(s)) = T0.d1 - 1
<1> DEFINE S == {s \in Nat : Cardinality(Hits(s)) >= T0.d1}
           n == T0.d1 + (P.P1 - P.P)
<1>1. /\ P.P \in Nat /\ P.P1 \in Nat /\ P.P >= 3 /\ P.P <= P.P1
      /\ T0.d1 \in 2 .. 3 /\ n \in Nat /\ n <= P.P1
  BY WalkTypes
<1>2. n \in S
  <2>1. n - Cardinality(Hits(n)) <= P.P1 - P.P
    <3> HIDE DEF n
    <3> QED BY <1>1, FewMisses
  <2>2. Cardinality(Hits(n)) \in Nat
    BY <1>1, HitsNext
  <2> QED BY <1>1, <2>1, <2>2
<1>3. PICK t \in S : \A y \in S : t <= y
  <2>1. S \subseteq Nat /\ S # {}
    BY <1>2
  <2> HIDE DEF S
  <2> QED BY <2>1, LeastOf
<1>4. t # 0
  <2>1. Hits(0) = {}
    BY DEF Hits
  <2> QED BY <1>1, <2>1, FS_EmptySet
<1> DEFINE s == t - 1
<1>5. s \in Nat /\ t = s + 1 /\ s <= n - 1 /\ s \notin S
  BY <1>1, <1>2, <1>3, <1>4
<1>6. /\ Cardinality(Hits(s)) \in Nat
      /\ Pi(s) >= P.P => Hits(s + 1) = Hits(s)
      /\ Pi(s) < P.P => Cardinality(Hits(s + 1)) = Cardinality(Hits(s)) + 1
      /\ Pi(s) \in Nat
  BY <1>5, HitsNext, WalkIndices, SMTT(20)
<1>7. Cardinality(Hits(s + 1)) >= T0.d1 /\ Cardinality(Hits(s)) < T0.d1
  BY <1>1, <1>3, <1>5, <1>6
<1>8. Pi(s) < P.P /\ Cardinality(Hits(s)) = T0.d1 - 1
  BY <1>1, <1>6, <1>7
<1> QED BY <1>1, <1>5, <1>8

LEMMA RowDegreeIs ==
  ASSUME WalkTyped
  PROVE  RowDegree(P, T0)
<1>1. /\ P.W \in Nat /\ P.W >= 3 /\ P.P \in Nat /\ P.P1 \in Nat /\ P.P >= 3 /\ P.P <= P.P1
      /\ T0.d \in 1 .. P.W - 2 /\ T0.d1 \in 2 .. 3
  BY WalkTypes
<1>2. PICK s \in Nat : /\ Pi(s) < P.P /\ s <= (T0.d1 - 1) + (P.P1 - P.P)
                       /\ Cardinality(Hits(s)) = T0.d1 - 1
  BY PiMet
<1> DEFINE L == LtTaken(T0.d)
           Q == PiTaken(s + 1)
           I == 0 .. T0.d - 1
           H == Hits(s + 1)
<1>3. LtRow(P, T0) = L \cup Q
  <2>1. PiColumns(P, T0, T0.d1) = Q
    BY <1>2, PiColumnsAre
  <2> QED BY <2>1 DEF LtRow, LtColumn, LtTaken, Lt
<1>4. IsFiniteSet(L) /\ Cardinality(L) = T0.d
  <2> DEFINE g == [q \in I |-> Lt(q)]
  <2>1. IsFiniteSet(I) /\ Cardinality(I) = T0.d
    <3>1. 0 \in Int /\ T0.d - 1 \in Int /\ ~(0 > T0.d - 1) /\ (T0.d - 1) - 0 + 1 = T0.d
      BY <1>1
    <3> QED BY <3>1, FS_Interval
  <2>2. ASSUME NEW p \in I, NEW q \in I, g[p] = g[q] PROVE p = q
    <3>1. p \in Nat /\ q \in Nat /\ q - p < P.W /\ p - q < P.W /\ Lt(p) = Lt(q)
      BY <1>1, <2>2
    <3>2. ~(p < q) /\ ~(q < p)
      BY <3>1, LtApart
    <3> QED BY <3>1, <3>2
  <2>3. DOMAIN g = I /\ L = {g[q] : q \in I}
    BY DEF LtTaken
  <2> HIDE DEF g, I, L
  <2> QED BY <2>1, <2>2, <2>3, AsMany
<1>5. IsFiniteSet(Q) /\ Cardinality(Q) = T0.d1
  <2> DEFINE g == [q \in H |-> P.W + Pi(q)]
  <2>1. IsFiniteSet(H) /\ Cardinality(H) = T0.d1
    BY <1>1, <1>2, HitsNext
  <2>2. ASSUME NEW p \in H, NEW q \in H, g[p] = g[q] PROVE p = q
    <3>1. p \in Nat /\ q \in Nat /\ p <= s /\ q <= s
      BY DEF Hits
    <3>2. q - p < P.P1 /\ p - q < P.P1
      BY <1>1, <1>2, <3>1
    <3>3. Pi(p) \in Nat /\ Pi(q) \in Nat /\ P.W + Pi(p) = P.W + Pi(q)
      BY <2>2, <3>1, WalkIndices
    <3>4. Pi(p) = Pi(q)
      BY <1>1, <3>3
    <3>5. ~(p < q) /\ ~(q < p)
      BY <3>1, <3>2, <3>4, PiApart
    <3> QED BY <3>1, <3>5
  <2>3. DOMAIN g = H /\ Q = {g[q] : q \in H}
    BY DEF PiTaken
  <2> HIDE DEF g, H, Q
  <2> QED BY <2>1, <2>2, <2>3, AsMany
<1>6. \A c \in L : c \in 0 .. P.W - 1
  <2>1. \A q \in I : q \in Nat
    OBVIOUS
  <2> QED BY <2>1, WalkIndices DEF LtTaken
<1>7. \A c \in Q : c \in Nat /\ c >= P.W /\ c <= P.W + P.P - 1
  <2>1. ASSUME NEW q \in H PROVE Pi(q) \in Nat /\ Pi(q) < P.P
    <3>1. q \in Nat /\ Pi(q) < P.P
      BY DEF Hits
    <3> QED BY <3>1, WalkIndices
  <2> QED BY <1>1, <2>1 DEF PiTaken
<1> HIDE DEF L, Q
<1>8. L \cap Q = {}
  BY <1>1, <1>6, <1>7
<1>9. Cardinality(L \cup Q) = T0.d + T0.d1
  BY <1>1, <1>4, <1>5, <1>8, FS_Union, FS_EmptySet
<1>10. (L \cup Q) \cap 0 .. P.W - 1 = L
  BY <1>1, <1>6, <1>7
<1>11. L \cup Q \subseteq Columns(P)
  BY <1>1, <1>6, <1>7 DEF Columns
<1> QED BY <1>3, <1>4, <1>9, <1>10, <1>11 DEF RowDegree

(* For every parameter set with prime W and P1 and every tuple a symbol is *)
(* the sum of d different LT symbols and d1 different PI symbols, all of   *)
(* them inside the matrix.                                                 *)
THEOREM RowDegreeHolds == WalkSpec => []RowDegree(P, T0)
<1>1. WalkInv => RowDegree(P, T0)
  BY RowDegreeIs DEF WalkInv
<1> QED BY <1>1, WalkInvHolds, PTL

-----------------------------------------------------------------------------
(* The tuples of tuple.c and the numbers of rand.c *)

(* An uint32_t, and a pair of halves that may have left its range.         *)
IsWord(x) == x[1] \in 0 .. Half - 1 /\ x[2] \in 0 .. Half - 1
IsPair(x) == x[1] \in Int /\ x[2] \in Int

(* Not an equation: an interval below a literal would be enumerated.       *)
LEMMA HalfIs == Half \in Nat /\ Half <= 65536 /\ 65536 <= Half
BY DEF Half

LEMMA WordIsPair == ASSUME NEW x, IsWord(x) PROVE IsPair(x)
BY HalfIs DEF IsWord, IsPair

LEMMA ByteType ==
  ASSUME NEW x, IsWord(x), NEW n \in 0 .. 3
  PROVE  WByte(x, n) \in 0 .. 255
<1> DEFINE h == x[IF n < 2 THEN 2 ELSE 1]
<1>1. h \in 0 .. Half - 1
  BY DEF IsWord
<1> HIDE DEF h
<1>2. h \in Nat /\ h < 65536
  BY <1>1, HalfIs
<1>3. h % 256 \in 0 .. 255 /\ h \div 256 \in 0 .. 255
  BY <1>2
<1> QED BY <1>3 DEF WByte, h

LEMMA WordOf == ASSUME NEW n \in Int PROVE IsPair(Word(n))
BY HalfIs DEF IsPair, Word

LEMMA SumIsWord ==
  ASSUME NEW x, NEW y, IsPair(x), IsPair(y)
  PROVE  IsWord(WAdd(x, y))
<1> DEFINE a == x[1] + y[1] + (x[2] + y[2]) \div Half
           b == x[2] + y[2]
<1>1. a \in Int /\ b \in Int
  BY HalfIs DEF IsPair
<1> HIDE DEF a, b
<1>2. a % Half \in 0 .. Half - 1 /\ b % Half \in 0 .. Half - 1
  BY <1>1, HalfIs
<1>3. WAdd(x, y) = <<a % Half, b % Half>>
  BY DEF WAdd, a, b
<1> QED BY <1>2, <1>3 DEF IsWord

(* The product is a sum whatever the bytes of its factors are.             *)
LEMMA ByteProductType ==
  ASSUME NEW x, IsPair(x), NEW b \in Int
  PROVE  IsPair(WMulByte(x, b))
<1> DEFINE u == x[1] * b
           v == x[2] * b
<1>1. u \in Int /\ v \in Int
  BY DEF IsPair
<1> HIDE DEF u, v
<1>2. (u + v \div Half) % Half \in Int /\ v % Half \in Int
  BY <1>1, HalfIs
<1>3. WMulByte(x, b) = <<(u + v \div Half) % Half, v % Half>>
  BY DEF WMulByte, u, v
<1> QED BY <1>2, <1>3 DEF IsPair

LEMMA ShiftType ==
  ASSUME NEW x, IsPair(x)
  PROVE  IsPair(WShiftByte(x))
BY DEF IsPair, WShiftByte

LEMMA ProductType ==
  ASSUME NEW x, NEW y, IsPair(x), IsPair(y)
  PROVE  IsPair(WMul(x, y))
<1> DEFINE Step(n, q) == WAdd(WMulByte(x, WByte(y, n)), WShiftByte(q))
           IsP(q) == q = [n \in 0 .. 4 |-> IF n = 4 THEN Word(0) ELSE Step(n, q[n + 1])]
           p == CHOOSE q : IsP(q)
<1>1. WMul(x, y) = p[0]
  BY DEF WMul
<1>2. ASSUME NEW n \in 0 .. 3 PROVE WByte(y, n) \in Int
  BY DEF IsPair, WByte
<1>3. ASSUME NEW n \in 0 .. 3, NEW q, IsPair(q) PROVE IsPair(Step(n, q))
  BY <1>2, <1>3, ByteProductType, ShiftType, SumIsWord, WordIsPair
<1> HIDE DEF Step
<1>4. IsP(p)
  <2> DEFINE p4 == Word(0)
             p3 == Step(3, p4)
             p2 == Step(2, p3)
             p1 == Step(1, p2)
             p0 == Step(0, p1)
             q == [n \in 0 .. 4 |-> IF n = 4 THEN p4 ELSE IF n = 3 THEN p3 ELSE IF n = 2 THEN p2
                                    ELSE IF n = 1 THEN p1 ELSE p0]
  <2>1. q[4] = p4 /\ q[3] = p3 /\ q[2] = p2 /\ q[1] = p1 /\ q[0] = p0
    <3> HIDE DEF p4, p3, p2, p1, p0
    <3> QED OBVIOUS
  <2>2. \A n \in 0 .. 4 : n = 0 \/ n = 1 \/ n = 2 \/ n = 3 \/ n = 4
    OBVIOUS
  <2>3. ASSUME NEW n \in 0 .. 4 PROVE q[n] = IF n = 4 THEN Word(0) ELSE Step(n, q[n + 1])
    <3>1. p3 = Step(3, p4) /\ p2 = Step(2, p3) /\ p1 = Step(1, p2) /\ p0 = Step(0, p1) /\ p4 = Word(0)
      OBVIOUS
    <3> HIDE DEF q, p4, p3, p2, p1, p0
    <3> QED BY <2>1, <2>2, <3>1
  <2>4. q = [n \in 0 .. 4 |-> q[n]]
    <3> HIDE DEF p4, p3, p2, p1, p0
    <3> QED OBVIOUS
  <2>5. IsP(q)
    <3> HIDE DEF q
    <3> QED BY <2>3, <2>4
  <2> HIDE DEF IsP, q
  <2> QED BY <2>5
<1> HIDE DEF p
<1>5. IsPair(p[4])
  BY <1>4, WordOf
<1>6. \A n \in 0 .. 3 : p[n] = Step(n, p[n + 1])
  BY <1>4
<1>7. IsPair(p[3])
  BY <1>3, <1>5, <1>6
<1>8. IsPair(p[2])
  BY <1>3, <1>6, <1>7
<1>9. IsPair(p[1])
  BY <1>3, <1>6, <1>8
<1>10. IsPair(p[0])
  BY <1>3, <1>6, <1>9
<1> QED BY <1>1, <1>10

LEMMA RemainderType ==
  ASSUME NEW x, IsWord(x), NEW k \in Nat \ {0}
  PROVE  WMod(x, k) \in 0 .. k - 1
<1> DEFINE Step(n, q) == (q * 256 + WByte(x, n)) % k
           IsR(q) == q = [n \in 0 .. 4 |-> IF n = 4 THEN 0 ELSE Step(n, q[n + 1])]
           r == CHOOSE q : IsR(q)
<1>1. WMod(x, k) = r[0]
  BY DEF WMod
<1>2. ASSUME NEW n \in 0 .. 3, NEW q \in Int PROVE Step(n, q) \in 0 .. k - 1
  <2>1. q * 256 + WByte(x, n) \in Int
    BY ByteType
  <2> QED BY <2>1
<1> HIDE DEF Step
<1>3. IsR(r)
  <2> DEFINE r4 == 0
             r3 == Step(3, r4)
             r2 == Step(2, r3)
             r1 == Step(1, r2)
             r0 == Step(0, r1)
             q == [n \in 0 .. 4 |-> IF n = 4 THEN r4 ELSE IF n = 3 THEN r3 ELSE IF n = 2 THEN r2
                                    ELSE IF n = 1 THEN r1 ELSE r0]
  <2>1. q[4] = r4 /\ q[3] = r3 /\ q[2] = r2 /\ q[1] = r1 /\ q[0] = r0
    <3> HIDE DEF r4, r3, r2, r1, r0
    <3> QED OBVIOUS
  <2>2. \A n \in 0 .. 4 : n = 0 \/ n = 1 \/ n = 2 \/ n = 3 \/ n = 4
    OBVIOUS
  <2>3. ASSUME NEW n \in 0 .. 4 PROVE q[n] = IF n = 4 THEN 0 ELSE Step(n, q[n + 1])
    <3>1. r3 = Step(3, r4) /\ r2 = Step(2, r3) /\ r1 = Step(1, r2) /\ r0 = Step(0, r1) /\ r4 = 0
      OBVIOUS
    <3> HIDE DEF q, r4, r3, r2, r1, r0
    <3> QED BY <2>1, <2>2, <3>1
  <2>4. q = [n \in 0 .. 4 |-> q[n]]
    <3> HIDE DEF r4, r3, r2, r1, r0
    <3> QED OBVIOUS
  <2>5. IsR(q)
    <3> HIDE DEF q
    <3> QED BY <2>3, <2>4
  <2> HIDE DEF IsR, q
  <2> QED BY <2>5
<1> HIDE DEF r
<1>4. r[4] = 0 /\ \A n \in 0 .. 3 : r[n] = Step(n, r[n + 1])
  BY <1>3
<1>5. r[3] \in Int
  BY <1>2, <1>4
<1>6. r[2] \in Int
  BY <1>2, <1>4, <1>5
<1>7. r[1] \in Int
  BY <1>2, <1>4, <1>6
<1>8. r[0] \in 0 .. k - 1
  BY <1>2, <1>4, <1>7
<1> QED BY <1>1, <1>8

(* Exclusive or stays in range.                                            *)
LEMMA XorByteType ==
  ASSUME NEW a \in 0 .. 255, NEW b \in 0 .. 255
  PROVE  XorByte(a, b) \in 0 .. 255
<1>1. ASSUME NEW x \in 0 .. 15, NEW y \in 0 .. 15
      PROVE  XorNibble[x][y] \in 0 .. 15
  <2> DEFINE bit(k) == ((x \div k) + (y \div k)) % 2
  <2>1. bit(1) \in 0 .. 1 /\ bit(2) \in 0 .. 1 /\ bit(4) \in 0 .. 1 /\ bit(8) \in 0 .. 1
    OBVIOUS
  <2>2. XorNibble[x][y] = bit(1) + 2 * bit(2) + 4 * bit(4) + 8 * bit(8)
    BY DEF XorNibble
  <2> HIDE DEF bit
  <2> QED BY <2>1, <2>2
<1>2. /\ a \div 16 \in 0 .. 15 /\ a % 16 \in 0 .. 15
      /\ b \div 16 \in 0 .. 15 /\ b % 16 \in 0 .. 15
  OBVIOUS
<1> DEFINE g(u, v) == 16 * XorNibble[u \div 16][v \div 16] + XorNibble[u % 16][v % 16]
<1>3. XorByte(a, b) = g(a, b)
  <2>1. XorTable = [u \in 0 .. 255 |-> [v \in 0 .. 255 |-> g(u, v)]]
    BY Zenon DEF XorTable
  <2> HIDE DEF g
  <2>2. XorTable[a][b] = g(a, b)
    BY <2>1
  <2> QED BY <2>2, Zenon DEF XorByte
<1>4. XorNibble[a \div 16][b \div 16] \in 0 .. 15 /\ XorNibble[a % 16][b % 16] \in 0 .. 15
  BY <1>1, <1>2
<1> QED BY <1>3, <1>4

LEMMA XorHalfType ==
  ASSUME NEW a \in 0 .. Half - 1, NEW b \in 0 .. Half - 1
  PROVE  XorHalf(a, b) \in 0 .. Half - 1
<1>1. a \in Nat /\ a < 65536 /\ b \in Nat /\ b < 65536
  BY HalfIs
<1>2. /\ a \div 256 \in 0 .. 255 /\ a % 256 \in 0 .. 255
      /\ b \div 256 \in 0 .. 255 /\ b % 256 \in 0 .. 255
  BY <1>1
<1> DEFINE u == XorByte(a \div 256, b \div 256)
           v == XorByte(a % 256, b % 256)
<1>3. u \in 0 .. 255 /\ v \in 0 .. 255
  BY <1>2, XorByteType, ZenonT(20)
<1>4. XorHalf(a, b) = 256 * u + v
  BY DEF XorHalf
<1> HIDE DEF u, v
<1> QED BY <1>3, <1>4, HalfIs

LEMMA XorIsWord ==
  ASSUME NEW x, NEW y, IsWord(x), IsWord(y)
  PROVE  IsWord(WXor(x, y))
<1>1. XorHalf(x[1], y[1]) \in 0 .. Half - 1 /\ XorHalf(x[2], y[2]) \in 0 .. Half - 1
  BY XorHalfType DEF IsWord
<1> QED BY <1>1 DEF IsWord, WXor

(* The entries of the tables are words.                                    *)
LEMMA EntryIsWord ==
  ASSUME NEW t \in 0 .. 255
  PROVE  /\ IsWord(Entry(V0, t)) /\ IsWord(Entry(V1, t))
         /\ IsWord(Entry(V2, t)) /\ IsWord(Entry(V3, t))
<1>1. \A n \in 1 .. 2 :
        /\ Entry(V0, t)[n] \in 0 .. Half - 1 /\ Entry(V1, t)[n] \in 0 .. Half - 1
        /\ Entry(V2, t)[n] \in 0 .. Half - 1 /\ Entry(V3, t)[n] \in 0 .. Half - 1
  BY EntryAssumption
<1>2. 1 \in 1 .. 2 /\ 2 \in 1 .. 2
  OBVIOUS
<1> QED BY <1>1, <1>2, Zenon DEF IsWord

(* Rand(y, i, m) is below m.                                               *)
LEMMA RandType ==
  ASSUME NEW y, IsWord(y), NEW n \in Nat, NEW k \in Nat \ {0}
  PROVE  Rand(y, n, k) \in Nat /\ Rand(y, n, k) < k
<1> DEFINE x(l) == (WByte(y, l) + n) % 256
<1>1. x(0) \in 0 .. 255 /\ x(1) \in 0 .. 255 /\ x(2) \in 0 .. 255 /\ x(3) \in 0 .. 255
  <2>1. /\ WByte(y, 0) \in 0 .. 255 /\ WByte(y, 1) \in 0 .. 255
        /\ WByte(y, 2) \in 0 .. 255 /\ WByte(y, 3) \in 0 .. 255
    BY ByteType
  <2>2. \A b \in 0 .. 255 : (b + n) % 256 \in 0 .. 255
    OBVIOUS
  <2> QED BY <2>1, <2>2, Zenon
<1> HIDE DEF x
<1>2. /\ IsWord(Entry(V0, x(0))) /\ IsWord(Entry(V1, x(1)))
      /\ IsWord(Entry(V2, x(2))) /\ IsWord(Entry(V3, x(3)))
  BY <1>1, EntryIsWord
<1> DEFINE w == WXor(WXor(Entry(V0, x(0)), Entry(V1, x(1))), WXor(Entry(V2, x(2)), Entry(V3, x(3))))
<1>3. IsWord(w)
  BY <1>2, XorIsWord
<1>4. Rand(y, n, k) = WMod(w, k)
  BY DEF Rand, x
<1>5. WMod(w, k) \in 0 .. k - 1
  BY <1>3, RemainderType
<1> HIDE DEF w
<1> QED BY <1>4, <1>5

(* Bounds that begin with zero leave no value below the last without a     *)
(* degree.                                                                 *)
LEMMA BetweenBounds ==
  ASSUME NEW B, \A c \in 1 .. 31 : B[c] \in Nat, B[1] = 0,
         NEW v \in Nat, v < B[31]
  PROVE  \E c \in 1 .. 30 : B[c] <= v /\ v < B[c + 1]
<1> DEFINE S == {c \in 1 .. 30 : v < B[c + 1]}
<1>1. 30 \in S
  OBVIOUS
<1>2. PICK c \in S : \A n \in S : c <= n
  <2>1. S \subseteq Nat /\ S # {}
    BY <1>1, SMTT(20)
  <2> HIDE DEF S
  <2> QED BY <2>1, LeastOf
<1>3. c \in 1 .. 30 /\ v < B[c + 1]
  BY <1>2
<1>4. B[c] <= v
  <2>1. CASE c = 1
    BY <2>1
  <2>2. CASE c # 1
    <3>1. c - 1 \in 1 .. 30 /\ (c - 1) + 1 = c /\ ~(c <= c - 1)
      BY <1>3, <2>2
    <3>2. c - 1 \notin S
      BY <1>2, <3>1
    <3>3. ~(v < B[c]) /\ B[c] \in Nat
      BY <3>1, <3>2, <1>3
    <3> QED BY <3>3
  <2> QED BY <2>1, <2>2
<1> QED BY <1>3, <1>4

LEMMA FirstBound == f[1] = 0
BY SMTT(60) DEF f

LEMMA LastBound == f[31] = 1048576
BY SMTT(60) DEF f

LEMMA DegType ==
  ASSUME NEW v \in Nat, v < f[31], NEW w \in Nat, w >= 3
  PROVE  Deg(v, w) \in 1 .. Capped(30, w)
<1> DEFINE IsDegree(c) == f[c] <= v /\ v < f[c + 1]
<1>1. Len(f) = 31
  BY SMTT(60) DEF f
<1>2. \A c \in 1 .. 31 : f[c] \in Nat
  BY SMTT(60) DEF f
<1>3. \E c \in 1 .. 30 : IsDegree(c)
  BY <1>2, FirstBound, BetweenBounds, Zenon
<1> DEFINE e == CHOOSE c \in 1 .. Len(f) - 1 : IsDegree(c)
<1>4. Deg(v, w) = Capped(e, w)
  BY Zenon DEF Deg
<1> HIDE DEF IsDegree
<1>5. e \in 1 .. 30
  BY <1>1, <1>3
<1> HIDE DEF e
<1> QED BY <1>4, <1>5 DEF Capped

(* Every tuple of the code is one the walks are about.                     *)
LEMMA TupleInRange ==
  ASSUME NEW Q, Q.J \in Nat, Q.W \in Nat, Q.W >= 3, Q.P1 \in Nat, Q.P1 >= 2,
         NEW X, IsWord(X)
  PROVE  tuple_generate_from_ISI(X, Q) \in TuplesOf(Q)
<1> DEFINE A == Word(Odd(53591 + Q.J * 997))
           B == Word(10267 * (Q.J + 1))
           y == WAdd(B, WMul(X, A))
           d == Deg(Rand(y, 0, 1048576), Q.W)
<1>1. IsWord(y)
  <2>1. IsPair(A) /\ IsPair(B)
    BY WordOf DEF Odd
  <2> HIDE DEF A, B
  <2> QED BY <2>1, WordIsPair, ProductType, SumIsWord
<1> HIDE DEF y
<1>2. Rand(y, 0, 1048576) \in Nat /\ Rand(y, 0, 1048576) < 1048576
  BY <1>1, RandType
<1>3. d \in 1 .. Capped(30, Q.W)
  <2>1. Rand(y, 0, 1048576) < f[31]
    BY <1>2, LastBound
  <2> QED BY <1>2, <2>1, DegType
<1> HIDE DEF d
<1>4. 1 + Rand(y, 1, Q.W - 1) \in 1 .. Q.W - 1 /\ Rand(y, 2, Q.W) \in 0 .. Q.W - 1
  <2>1. Q.W - 1 \in Nat \ {0} /\ Q.W \in Nat \ {0}
    OBVIOUS
  <2>2. /\ Rand(y, 1, Q.W - 1) \in Nat /\ Rand(y, 1, Q.W - 1) < Q.W - 1
        /\ Rand(y, 2, Q.W) \in Nat /\ Rand(y, 2, Q.W) < Q.W
    BY <1>1, <2>1, RandType
  <2> QED BY <2>2
<1>5. (IF d < 4 THEN 2 + Rand(X, 3, 2) ELSE 2) \in 2 .. 3
  <2>1. Rand(X, 3, 2) \in Nat /\ Rand(X, 3, 2) < 2
    BY RandType
  <2> QED BY <2>1
<1>6. PiStep(X, Q) \in 1 .. Q.P1 - 1 /\ Rand(X, 5, Q.P1) \in 0 .. Q.P1 - 1
  <2>1. Q.P1 - 1 \in Nat \ {0} /\ Q.P1 \in Nat \ {0}
    OBVIOUS
  <2>2. /\ Rand(X, 4, Q.P1 - 1) \in Nat /\ Rand(X, 4, Q.P1 - 1) < Q.P1 - 1
        /\ Rand(X, 5, Q.P1) \in Nat /\ Rand(X, 5, Q.P1) < Q.P1
    BY <2>1, RandType
  <2> QED BY <2>2 DEF PiStep
<1>7. tuple_generate_from_ISI(X, Q) =
        [d |-> d, a |-> 1 + Rand(y, 1, Q.W - 1), b |-> Rand(y, 2, Q.W),
         d1 |-> IF d < 4 THEN 2 + Rand(X, 3, 2) ELSE 2,
         a1 |-> PiStep(X, Q), b1 |-> Rand(X, 5, Q.P1)]
  BY DEF tuple_generate_from_ISI, d, y
<1> QED BY <1>3, <1>4, <1>5, <1>6, <1>7 DEF TuplesOf

(* An ID of 32 bits stays one when the padding symbols are skipped.        *)
LEMMA InternalIdType ==
  ASSUME NEW Q, Q.K \in Nat, Q.Kprime \in Nat, NEW X, IsWord(X)
  PROVE  IsWord(ISI(X, Q))
<1>1. Q.Kprime - Q.K \in Int
  OBVIOUS
<1>2. IsWord(WAdd(X, Word(Q.Kprime - Q.K)))
  BY <1>1, WordOf, WordIsPair, SumIsWord
<1> QED BY <1>2 DEF ISI

(* For every parameter set the generators can use and every 32-bit ID the  *)
(* tuple made is one the walks start from: RowDegree and SameRow hold of   *)
(* the row of every ID a client may send.                                  *)
THEOREM TupleOfEveryId ==
  ASSUME NEW Q \in Sets \cup BlockSets, Q.J \in Nat, Q.K \in Nat, Q.Kprime \in Nat,
         NEW X, IsWord(X)
  PROVE  tuple_generate_from_ESI(X, Q) \in TuplesOf(Q)
<1>1. Q.W \in Nat /\ Q.W >= 3 /\ Q.P1 \in Nat /\ Q.P1 >= 2
  <2>1. /\ Q.W \in Nat /\ Q.W - 2 >= 1
        /\ Q.P1 \in Nat /\ Q.P \in Nat /\ Q.P >= 3 /\ Q.P <= Q.P1
    BY WalkAssumption
  <2> QED BY <2>1
<1>2. tuple_generate_from_ISI(ISI(X, Q), Q) \in TuplesOf(Q)
  BY <1>1, InternalIdType, TupleInRange
<1> QED BY <1>2 DEF tuple_generate_from_ESI

-----------------------------------------------------------------------------
(* The IDs as numbers *)

(* The number a word stands for. *)
Value(x) == Half * x[1] + x[2]

LEMMA SmallWord ==
  ASSUME NEW n \in Nat, n < Half
  PROVE  Word(n) = <<0, n>>
<1>1. n \div Half = 0 /\ n % Half = n
  BY HalfIs
<1> QED BY <1>1 DEF Word

LEMMA LessIs ==
  ASSUME NEW x, NEW y, IsWord(x), IsWord(y)
  PROVE  WLess(x, y) <=> Value(x) < Value(y)
<1> DEFINE a == x[1]  b == x[2]  c == y[1]  d == y[2]
<1>1. a \in Int /\ b \in Int /\ c \in Int /\ d \in Int /\ 0 <= b /\ b < 65536 /\ 0 <= d /\ d < 65536
  BY HalfIs DEF IsWord
<1>2. Half = 65536
  BY HalfIs
<1> HIDE DEF a, b, c, d
<1>3. (a < c \/ (a = c /\ b < d)) <=> 65536 * a + b < 65536 * c + d
  BY <1>1
<1> QED BY <1>2, <1>3 DEF WLess, Value, a, b, c, d

(* Where a sum does not wrap it is the sum of the numbers. *)
LEMMA SumIs ==
  ASSUME NEW x, IsWord(x), NEW n \in Nat, n < Half,
         ~WLess(WAdd(x, Word(n)), x)
  PROVE  IsWord(WAdd(x, Word(n))) /\ Value(WAdd(x, Word(n))) = Value(x) + n
<1> DEFINE a == x[1]  b == x[2]  q == (b + n) \div Half  r == (b + n) % Half
<1>1. a \in Nat /\ b \in Nat /\ a < 65536 /\ b < 65536 /\ n < 65536
  BY HalfIs DEF IsWord
<1>2. Half = 65536
  BY HalfIs
<1>3. WAdd(x, Word(n)) = <<(a + 0 + q) % Half, r>>
  <2>1. Word(n)[1] = 0 /\ Word(n)[2] = n
    BY SmallWord
  <2> QED BY <2>1 DEF WAdd
<1>4. q \in {0, 1} /\ r \in Nat /\ r < 65536 /\ b + n = 65536 * q + r
  <2> HIDE DEF a, b
  <2> QED BY <1>1, <1>2
<1>5. WLess(<<(a + 0 + q) % Half, r>>, <<a, b>>) <=> (a + 0 + q) % Half < a \/ ((a + 0 + q) % Half = a /\ r < b)
  BY DEF WLess
<1>6. WLess(WAdd(x, Word(n)), x) <=> (a + 0 + q) % Half < a \/ ((a + 0 + q) % Half = a /\ r < b)
  BY <1>3 DEF WLess
<1> HIDE DEF a, b, q, r
<1>7. (a + 0 + q) % Half = a + q
  <2>1. CASE a + q < 65536
    BY <1>1, <1>2, <1>4, <2>1
  <2>2. CASE ~(a + q < 65536)
    <3>1. a + q = 65536 /\ a = 65535
      BY <1>1, <1>4, <2>2
    <3>2. (a + 0 + q) % Half = 0
      BY <1>2, <3>1, <1>4
    <3> QED BY <1>6, <3>1, <3>2
  <2> QED BY <2>1, <2>2
<1>8. a + q < 65536
  <2>1. (a + 0 + q) % Half < 65536
    BY <1>1, <1>2, <1>4
  <2> QED BY <1>7, <2>1
<1>9. Value(x) = 65536 * a + b
  BY <1>2 DEF Value, a, b
<1>10. WAdd(x, Word(n)) = <<a + q, r>>
  BY <1>3, <1>7
<1>11. Value(<<a + q, r>>) = 65536 * (a + q) + r
  BY <1>2 DEF Value
<1>12. IsWord(<<a + q, r>>)
  <2>1. a + q \in 0 .. Half - 1 /\ r \in 0 .. Half - 1
    BY <1>1, <1>4, <1>8, HalfIs
  <2> QED BY <2>1 DEF IsWord
<1>13. 65536 * (a + q) + r = 65536 * a + b + n
  BY <1>1, <1>4
<1> QED BY <1>9, <1>10, <1>11, <1>12, <1>13

LEMMA ValueType ==
  ASSUME NEW x, IsWord(x)
  PROVE  Value(x) \in Nat
<1>1. x[1] \in Nat /\ x[2] \in Nat
  BY HalfIs DEF IsWord
<1> QED BY <1>1, HalfIs DEF Value

(* Different words stand for different numbers. *)
LEMMA ValueApart ==
  ASSUME NEW x, NEW y, IsWord(x), IsWord(y), Value(x) = Value(y)
  PROVE  x[1] = y[1] /\ x[2] = y[2]
<1> DEFINE a == x[1]  b == x[2]  c == y[1]  d == y[2]
<1>1. a \in Int /\ b \in Int /\ c \in Int /\ d \in Int /\ 0 <= b /\ b < 65536 /\ 0 <= d /\ d < 65536
  BY HalfIs DEF IsWord
<1>2. Half = 65536
  BY HalfIs
<1>3. 65536 * a + b = 65536 * c + d
  BY <1>2 DEF Value
<1> HIDE DEF a, b, c, d
<1>4. a = c /\ b = d
  BY <1>1, <1>3
<1> QED BY <1>4 DEF a, b, c, d

(* An ID below K is its internal one, another moves up by K' - K. *)
LEMMA InternalIs ==
  ASSUME NEW Q, Q.K \in Nat, Q.Kprime \in Nat, Q.K <= Q.Kprime, Q.Kprime < Half,
         NEW x, IsWord(x), ~Wraps(x, Q)
  PROVE  Value(ISI(x, Q)) = IF Value(x) < Q.K THEN Value(x) ELSE Value(x) + (Q.Kprime - Q.K)
<1>1. Q.Kprime - Q.K \in Nat /\ Q.Kprime - Q.K < Half /\ Q.K < Half
  BY HalfIs
<1>2. WLess(x, Word(Q.K)) <=> Value(x) < Q.K
  <2>1. Word(Q.K) = <<0, Q.K>>
    BY <1>1, SmallWord
  <2>2. IsWord(<<0, Q.K>>) /\ Value(<<0, Q.K>>) = Q.K
    BY <1>1, HalfIs DEF IsWord, Value
  <2> QED BY <2>1, <2>2, LessIs
<1>3. Value(WAdd(x, Word(Q.Kprime - Q.K))) = Value(x) + (Q.Kprime - Q.K)
  BY <1>1, SumIs DEF Wraps
<1> QED BY <1>2, <1>3 DEF ISI

(* For every K and K' below 2^16, as all of the table are, each of the 2^32 *)
(* IDs stands for another symbol than any other, and for no padding symbol. *)
THEOREM SymbolsApartHolds ==
  ASSUME NEW Q, Q.K \in Nat, Q.Kprime \in Nat, Q.K <= Q.Kprime, Q.Kprime < Half,
         NEW X \in Uint32
  PROVE  SymbolApart(X, Q, Uint32)
<1>1. \A y \in Uint32 : IsWord(y) /\ Value(y) \in Nat
  <2>1. \A y \in Uint32 : IsWord(y)
    BY DEF IsWord, Uint32
  <2> QED BY <2>1, ValueType
<1>2. \A y \in Uint32 :
        ~Wraps(y, Q) =>
          Value(ISI(y, Q)) = IF Value(y) < Q.K THEN Value(y) ELSE Value(y) + (Q.Kprime - Q.K)
  BY <1>1, InternalIs
<1>3. ASSUME ~Wraps(X, Q) PROVE ~IsPadding(ISI(X, Q), Q)
  <2> SUFFICES ASSUME NEW n \in Q.K .. Q.Kprime - 1, ISI(X, Q) = Word(n) PROVE FALSE
    BY DEF IsPadding
  <2>1. n \in Nat /\ n < Half
    BY HalfIs
  <2>2. Value(ISI(X, Q)) = n
    <3>1. ISI(X, Q) = <<0, n>>
      BY <2>1, SmallWord
    <3> QED BY <2>1, <3>1, HalfIs DEF Value
  <2>3. Value(X) \in Nat
    BY <1>1
  <2> QED BY <1>2, <1>3, <2>2, <2>3
<1>4. ASSUME ~Wraps(X, Q), NEW y \in Uint32, ~Wraps(y, Q), ISI(y, Q) = ISI(X, Q)
      PROVE  y = X
  <2>1. Value(X) \in Nat /\ Value(y) \in Nat
    BY <1>1
  <2>2. Value(ISI(y, Q)) = Value(ISI(X, Q))
    BY <1>4
  <2>3. Value(X) = Value(y)
    BY <1>2, <1>4, <2>1, <2>2
  <2>4. X[1] = y[1] /\ X[2] = y[2]
    BY <1>1, <2>3, ValueApart
  <2> QED BY <2>4 DEF Uint32
<1> QED BY <1>3, <1>4 DEF SymbolApart

-----------------------------------------------------------------------------
(* The tuple of a symbol *)

(* A tuple that was made is the one of its symbol. *)
TupleInv ==
  /\ P \in BlockSets /\ symbol \in IDs(P)
  /\ T0 # <<>> => T0 = tuple_generate_from_ESI(symbol, P)

LEMMA TupleInvHolds == TupleSpec => []TupleInv
<1>1. TupleInit => TupleInv
  BY DEF TupleInit, TupleInv
<1>2. TupleInv /\ [MakeTuple]_tupleVars => TupleInv'
  <2>1. ASSUME TupleInv, MakeTuple PROVE TupleInv'
    <3>1. P' = P /\ symbol' = symbol /\ T0' = tuple_generate_from_ESI(symbol, P)
      BY <2>1 DEF MakeTuple
    <3> QED BY <2>1, <3>1, Zenon DEF TupleInv
  <2>2. ASSUME TupleInv, UNCHANGED tupleVars PROVE TupleInv'
    <3>1. P' = P /\ symbol' = symbol /\ T0' = T0
      BY <2>2 DEF tupleVars
    <3> QED BY <2>2, <3>1, Zenon DEF TupleInv
  <2> QED BY <2>1, <2>2
<1> QED BY <1>1, <1>2, PTL DEF TupleSpec

LEMMA SymbolTypes ==
  ASSUME TupleInv
  PROVE  /\ P.J \in Nat /\ P.K \in Nat /\ P.Kprime \in Nat
         /\ P.K <= P.Kprime /\ P.Kprime < Half
         /\ P.L = P.W + P.P
         /\ \A y \in IDs(P) : y \in Uint32
         /\ symbol \in Uint32 /\ IsWord(symbol)
<1>1. \A y \in IDs(P) : y \in Uint32
  BY BlockAssumption DEF TupleInv
<1>2. symbol \in Uint32
  BY <1>1 DEF TupleInv
<1>3. IsWord(symbol)
  BY <1>2 DEF Uint32, IsWord
<1> QED BY <1>1, <1>2, <1>3, BlockAssumption DEF TupleInv

(* A tuple that was made is one the walks start from. *)
LEMMA MadeIsTyped ==
  ASSUME TupleInv, T0 # <<>>
  PROVE  WalkTyped
<1>1. P \in Sets \cup BlockSets /\ T0 = tuple_generate_from_ESI(symbol, P)
  BY DEF TupleInv
<1>2. tuple_generate_from_ESI(symbol, P) \in TuplesOf(P)
  BY <1>1, SymbolTypes, TupleOfEveryId
<1> QED BY <1>1, <1>2 DEF WalkTyped

(* For every block whose W and P1 are prime and every 32-bit ID: the row   *)
(* of the tuple made has as many columns as its degrees say, all of them   *)
(* columns of the matrix.                                                  *)
THEOREM RowHasDegreeHolds == TupleSpec => []RowHasDegree
<1>1. TupleInv => RowHasDegree
  <2> SUFFICES ASSUME TupleInv, T0 # <<>>
               PROVE  T0 \in TuplesOf(P) /\ RowDegree(P, T0) /\ Columns(P) = 0 .. P.L - 1
    BY DEF RowHasDegree, Made
  <2>1. WalkTyped
    BY MadeIsTyped
  <2>2. T0 \in TuplesOf(P) /\ RowDegree(P, T0)
    BY <2>1, RowDegreeIs DEF WalkTyped
  <2>3. Columns(P) = 0 .. P.L - 1
    <3>1. P.L = P.W + P.P /\ P.W \in Nat /\ P.P \in Nat
      BY <2>1, SymbolTypes, WalkTypes
    <3>2. Columns(P) = 0 .. P.W + P.P - 1
      BY DEF Columns
    <3> QED BY <3>1, <3>2
  <2> QED BY <2>2, <2>3
<1> QED BY <1>1, TupleInvHolds, PTL

(* The shift that rq_matrix.c applies to an ID is the one of tuple.c.      *)
LEMMA ShiftIs ==
  ASSUME NEW Q, NEW y \in Uint32
  PROVE  Shifted(y, Q) = ISI(y, Q)
<1>1. WAdd(y, Word(0)) = y
  <2>1. PICK h \in Nat, l \in Nat : y = <<h, l>> /\ h < 65536 /\ l < 65536
    <3>1. y = <<y[1], y[2]>> /\ y[1] \in 0 .. Half - 1 /\ y[2] \in 0 .. Half - 1
      BY DEF Uint32
    <3>2. y[1] \in Nat /\ y[2] \in Nat /\ y[1] < 65536 /\ y[2] < 65536
      BY <3>1, HalfIs
    <3> QED BY <3>1, <3>2
  <2>2. Word(0) = <<0, 0>>
    BY SmallWord, HalfIs
  <2>3. \A n \in Nat : n < 65536 => n % 65536 = n /\ n \div 65536 = 0
    OBVIOUS
  <2>4. WAdd(y, Word(0)) = <<(h + 0 + (l + 0) \div 65536) % 65536, (l + 0) % 65536>>
    BY <2>1, <2>2 DEF WAdd, Half
  <2>5. l + 0 = l /\ h + 0 + 0 = h
    OBVIOUS
  <2> QED BY <2>1, <2>3, <2>4, <2>5
<1> QED BY <1>1 DEF Shifted, ISI

(* The first row of the matrix generated for an ID belongs to that ID.     *)
LEMMA FirstIs ==
  ASSUME NEW Q, Q.K \in Nat, Q.Kprime \in Nat, Q.K <= Q.Kprime, NEW y \in Uint32
  PROVE  ISIs(Q, <<y>>)[1] = ISI(y, Q)
<1> DEFINE p == Q.Kprime - Q.K
           s == [n \in 1 .. 1 |-> Shifted(<<y>>[n], Q)]
           t == [n \in 1 .. p |-> Word(Q.K + n - 1)]
           S == {s[n] : n \in 1 .. 1} \cup {t[n] : n \in 1 .. p}
<1>1. Len(<<y>>) = 1 /\ 1 \in 1 .. 1 /\ s[1] = Shifted(y, Q) /\ p \in Nat
  OBVIOUS
<1>2. s \in Seq(S) /\ t \in Seq(S) /\ Len(s) = 1
  <2> HIDE DEF p
  <2>1. s \in [1 .. 1 -> S] /\ t \in [1 .. p -> S]
    OBVIOUS
  <2> HIDE DEF s, t, S
  <2> QED BY <1>1, <2>1
<1>3. ISIs(Q, <<y>>) = s \o t
  BY <1>1 DEF ISIs
<1> HIDE DEF s, t, S, p
<1>4. (s \o t)[1] = s[1]
  <2>1. ASSUME NEW n \in Nat, Len(s) = n PROVE \A k \in 1 .. n : (s \o t)[k] = s[k]
    BY <1>2, <2>1
  <2> QED BY <1>2, <2>1
<1> QED BY <1>1, <1>3, <1>4, ShiftIs

(* For every block and every 32-bit ID, also where the shift wraps, the    *)
(* row rq_matrix.c generates is that of the symbol tuple.c makes.          *)
THEOREM MatrixFollowsOutputHolds == TupleSpec => []MatrixFollowsOutput
<1>1. TupleInv => MatrixFollowsOutput
  <2> SUFFICES ASSUME TupleInv, T0 # <<>>
               PROVE  LtRow(P, tuple_generate_from_ISI(ISIs(P, <<symbol>>)[1], P)) = LtRow(P, T0)
    BY DEF MatrixFollowsOutput, Made
  <2>1. ISIs(P, <<symbol>>)[1] = ISI(symbol, P)
    BY SymbolTypes, FirstIs
  <2>2. T0 = tuple_generate_from_ISI(ISI(symbol, P), P)
    BY DEF TupleInv, tuple_generate_from_ESI
  <2> QED BY <2>1, <2>2
<1> QED BY <1>1, TupleInvHolds, PTL

(* For every block and every set of 32-bit IDs, different IDs that do not  *)
(* wrap stand for different symbols, and for no padding one.               *)
THEOREM SymbolsStayApart == TupleSpec => []SymbolsApart
<1>1. TupleInv => SymbolsApart
  <2> SUFFICES ASSUME TupleInv PROVE SymbolApart(symbol, P, IDs(P))
    BY DEF SymbolsApart
  <2>1. SymbolApart(symbol, P, Uint32)
    BY SymbolTypes, SymbolsApartHolds
  <2> QED BY <2>1, SymbolTypes DEF SymbolApart
<1> QED BY <1>1, TupleInvHolds, PTL

=============================================================================
