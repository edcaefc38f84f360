------------------------------- MODULE Tuples -------------------------------
(***************************************************************************)
(* src/rfc6330_alg/tuple.c and rand.c: the pseudo-random tuple of a        *)
(* symbol, from which both the matrix and the output are made.  X is an    *)
(* uint32_t (a word of Words); P is a parameter set of RqParams.           *)
(***************************************************************************)
EXTENDS Words, RandTables

(* Two halves each, as the table of an uint32_t has. *)
ASSUME EntryAssumption ==
  \A x \in 0 .. 255 : \A n \in 1 .. 2 :
    /\ Entry(V0, x)[n] \in 0 .. Half - 1 /\ Entry(V1, x)[n] \in 0 .. Half - 1
    /\ Entry(V2, x)[n] \in 0 .. Half - 1 /\ Entry(V3, x)[n] \in 0 .. Half - 1

Rand(y, i, m) ==
  LET x(n) == (WByte(y, n) + i) % 256 IN
  WMod(WXor(WXor(Entry(V0, x(0)), Entry(V1, x(1))), WXor(Entry(V2, x(2)), Entry(V3, x(3)))), m)

(* The bounds of the degrees 0 .. 30. *)
f == <<0, 5243, 529531, 704294, 791675, 844104, 879057, 904023, 922747, 937311, 948962,
       958494, 966438, 973160, 978921, 983914, 988283, 992138, 995565, 998631, 1001391,
       1003887, 1006157, 1008229, 1010129, 1011876, 1013490, 1014983, 1016370, 1017662,
       1048576>>

Capped_Bug(d, W) == d
Capped(d, W) == IF d <= W - 2 THEN d ELSE W - 2
Deg(v, W) == Capped(CHOOSE d \in 1 .. Len(f) - 1 : f[d] <= v /\ v < f[d + 1], W)

Odd(n) == IF n % 2 = 0 THEN n + 1 ELSE n

(* The range of a1 is one below P1 and shifted by one, so never zero. *)
PiStep(X, P) == 1 + Rand(X, 4, P.P1 - 1)

tuple_generate_from_ISI(X, P) ==
  LET A == Word(Odd(53591 + P.J * 997))
      B == Word(10267 * (P.J + 1))
      y == WAdd(B, WMul(X, A))
      d == Deg(Rand(y, 0, 1048576), P.W)
  IN [d  |-> d,
      a  |-> 1 + Rand(y, 1, P.W - 1),
      b  |-> Rand(y, 2, P.W),
      d1 |-> IF d < 4 THEN 2 + Rand(X, 3, 2) ELSE 2,
      a1 |-> PiStep(X, P),
      b1 |-> Rand(X, 5, P.P1)]

(* Symbols from K on skip the padding symbols; the sum wraps at 2^32. *)
ISI_Bug(X, P) == IF WLess(Word(P.K), X) THEN WAdd(X, Word(P.Kprime - P.K)) ELSE X
ISI(X, P) == IF WLess(X, Word(P.K)) THEN X ELSE WAdd(X, Word(P.Kprime - P.K))
tuple_generate_from_ESI(X, P) == tuple_generate_from_ISI(ISI(X, P), P)

-----------------------------------------------------------------------------
(* Properties *)

Wraps(X, P) == WLess(WAdd(X, Word(P.Kprime - P.K)), X)
IsPadding(X, P) == \E k \in P.K .. P.Kprime - 1 : X = Word(k)

(* The ID stands for another symbol than every other ID, and for none of   *)
(* the padding ones, except in the last K' - K of the 32-bit range, which  *)
(* wrap.                                                                   *)
SymbolApart(X, P, others) ==
  ~Wraps(X, P) =>
    /\ ~IsPadding(ISI(X, P), P)
    /\ \A Y \in others \ {X} : ~Wraps(Y, P) => ISI(Y, P) # ISI(X, P)

=============================================================================
