------------------------------- MODULE Fields -------------------------------
(* Small fields of characteristic two for the model-checking runs: GF(2),  *)
(* the field of m2v, and GF(4), the smallest field with elements other     *)
(* than 0 and 1, in place of the GF(256) of m256v.                         *)
EXTENDS Integers

GF2 == 0 .. 1
GF2Add(a, b) == (a + b) % 2
GF2Mul(a, b) == a * b
GF2Inv(a) == 1

(* GF(4) = GF(2)[x] / (x^2 + x + 1): element 2 is x, element 3 is x + 1. *)
GF4 == 0 .. 3
GF4Add(a, b) == 2 * (((a \div 2) + (b \div 2)) % 2) + ((a + b) % 2)
GF4Mul(a, b) ==
  IF a = 0 \/ b = 0 THEN 0 ELSE LET e == ((a - 1) + (b - 1)) % 3 IN e + 1
GF4Inv(a) == ((3 - (a - 1)) % 3) + 1

=============================================================================
