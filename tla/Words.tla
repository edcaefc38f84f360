------------------------------- MODULE Words --------------------------------
(***************************************************************************)
(* Unsigned integers of fixed width.  An uint8_t is a number below 256; an *)
(* uint32_t is the pair of its upper and its lower 16 bits, because the    *)
(* model checker's integers are signed and 32 bits wide.                   *)
(***************************************************************************)
EXTENDS Integers, Sequences

XorNibble == [a \in 0 .. 15 |-> [b \in 0 .. 15 |->
                LET bit(k) == ((a \div k) + (b \div k)) % 2
                IN bit(1) + 2 * bit(2) + 4 * bit(4) + 8 * bit(8)]]
XorTable == [a \in 0 .. 255 |-> [b \in 0 .. 255 |->
               16 * XorNibble[a \div 16][b \div 16] + XorNibble[a % 16][b % 16]]]
XorByte(a, b) == XorTable[a][b]
XorHalf(a, b) == 256 * XorByte(a \div 256, b \div 256) + XorByte(a % 256, b % 256)

Half == 65536

(* n as an uint32_t, for 0 <= n < 2^31. *)
Word(n) == <<n \div Half, n % Half>>

WXor(x, y) == <<XorHalf(x[1], y[1]), XorHalf(x[2], y[2])>>
WAdd(x, y) == <<(x[1] + y[1] + (x[2] + y[2]) \div Half) % Half, (x[2] + y[2]) % Half>>
WLess(x, y) == x[1] < y[1] \/ (x[1] = y[1] /\ x[2] < y[2])

(* The bytes of a word, the least significant first. *)
WByte(x, n) ==
  LET h == x[IF n < 2 THEN 2 ELSE 1] IN IF n % 2 = 0 THEN h % 256 ELSE h \div 256

(* x shifted up by n bytes, and x times a byte, modulo 2^32. *)
WShiftByte(x) == <<(x[1] % 256) * 256 + x[2] \div 256, (x[2] % 256) * 256>>
WMulByte(x, b) == <<(x[1] * b + (x[2] * b) \div Half) % Half, (x[2] * b) % Half>>

(* Product modulo 2^32, byte by byte of the second factor. *)
WMul(x, y) ==
  LET p[n \in 0 .. 4] ==
        IF n = 4 THEN Word(0) ELSE WAdd(WMulByte(x, WByte(y, n)), WShiftByte(p[n + 1]))
  IN p[0]

(* Remainder modulo m < 2^23. *)
WMod(x, m) ==
  LET r[n \in 0 .. 4] == IF n = 4 THEN 0 ELSE (r[n + 1] * 256 + WByte(x, n)) % m
  IN r[0]

=============================================================================
