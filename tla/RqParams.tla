------------------------------ MODULE RqParams ------------------------------
(***************************************************************************)
(* The code parameters of src/rfc6330_alg/parameters.c: parameters_get     *)
(* derives everything the codec needs from the number K of source symbols  *)
(* of a block.  The table of RFC 6330 is the parameter ParamSets, so that  *)
(* the API modules can be checked over small tables and proved about for   *)
(* every table; RqParamTable has the real one.                             *)
(***************************************************************************)
EXTENDS Integers, Sequences

CONSTANT ParamSets   \* base_param_sets: records Kprime, J, S, H, W

IsParamSet(s) == /\ DOMAIN s = {"Kprime", "J", "S", "H", "W"}
                 /\ s.Kprime \in Nat \ {0} /\ s.J \in Nat
                 /\ s.S \in Nat \ {0} /\ s.H \in Nat \ {0} /\ s.W \in Nat \ {0}
                 /\ s.H <= s.Kprime + s.S   \* no more HDPC rows than GAMMA has columns

(* Larger blocks come later in the table and need no smaller a code. *)
IsTable(sets) ==
  /\ Len(sets) \in Nat \ {0} /\ DOMAIN sets = 1 .. Len(sets)
  /\ \A n \in DOMAIN sets : IsParamSet(sets[n])
  /\ \A m, n \in DOMAIN sets : m < n => /\ sets[m].Kprime < sets[n].Kprime
                                        /\ sets[m].S <= sets[n].S
                                        /\ sets[m].H <= sets[n].H

ASSUME TableAssumption == IsTable(ParamSets)

small_primes == <<
  2, 3, 5, 7, 11, 13, 17, 19, 23, 29, 31, 37, 41, 43, 47, 53, 59, 61, 67, 71, 73, 79, 83, 89, 97, 101, 103,
   107, 109, 113, 127, 131, 137, 139, 149, 151, 157, 163, 167, 173, 179, 181, 191, 193, 197, 199, 211, 223,
   227, 229, 233, 239, 241, 251, 257, 263, 269, 271, 277, 281, 283, 293, 307, 311, 313, 317, 331, 337, 347,
   349, 353, 359, 367, 373, 379, 383, 389, 397, 401, 409, 419, 421, 431, 433, 439, 443, 449, 457, 461, 463,
   467, 479, 487, 491, 499, 503, 509, 521, 523, 541, 547, 557, 563, 569, 571, 577, 587, 593, 599, 601, 607,
   613, 617, 619, 631, 641, 643, 647, 653, 659, 661, 673, 677, 683, 691, 701, 709, 719, 727, 733, 739, 743,
   751, 757, 761, 769, 773, 787, 797, 809, 811, 821, 823, 827, 829, 839, 853, 857, 859, 863, 877, 881, 883,
   887, 907, 911, 919, 929, 937, 941, 947, 953, 967, 971, 977, 983, 991, 997, 1009, 1013, 1019, 1021, 1031,
   1033, 1039, 1049, 1051, 1061, 1063, 1069, 1087, 1091, 1093, 1097, 1103, 1109, 1117, 1123, 1129, 1151,
   1153, 1163, 1171, 1181, 1187, 1193, 1201, 1213, 1217, 1223, 1229, 1231, 1237, 1249, 1259, 1277, 1279,
   1283, 1289, 1291, 1297, 1301, 1303, 1307, 1319, 1321, 1327, 1361, 1367, 1373, 1381, 1399, 1409, 1423,
   1427, 1429, 1433, 1439, 1447, 1451, 1453, 1459, 1471, 1481, 1483, 1487, 1489, 1493, 1499, 1511, 1523,
   1531, 1543, 1549, 1553, 1559, 1567, 1571, 1579, 1583, 1597, 1601, 1607, 1609, 1613, 1619, 1621, 1627,
   1637, 1657, 1663, 1667, 1669, 1693, 1697, 1699, 1709, 1721, 1723, 1733, 1741, 1747, 1753, 1759, 1777,
   1783, 1787, 1789, 1801, 1811, 1823, 1831, 1847, 1861, 1867, 1871, 1873, 1877, 1879, 1889, 1901, 1907,
   1913, 1931, 1933, 1949, 1951, 1973, 1979, 1987, 1993, 1997, 1999>>

(* The first listed prime not below val; -1, past an assert that release   *)
(* builds drop, when the list ends.                                        *)
FirstPrime(val, n) == small_primes[n] >= val /\ \A m \in 1 .. n - 1 : small_primes[m] < val

nextprime(val) ==
  IF \E n \in DOMAIN small_primes : FirstPrime(val, n)
    THEN small_primes[CHOOSE n \in DOMAIN small_primes : FirstPrime(val, n)]
    ELSE -1

(* The loop over the table stops at the first row that K fits. *)
FirstFit(K, n) == /\ K <= ParamSets[n].Kprime
                  /\ \A m \in 1 .. n - 1 : K > ParamSets[m].Kprime

(* {-1}, whose other members are zero: the K is not supported. *)
Unsupported == [K |-> -1, Kprime |-> 0, J |-> 0, L |-> 0, S |-> 0, H |-> 0,
                B |-> 0, W |-> 0, P |-> 0, P1 |-> 0, U |-> 0]

Derived(K, s) ==
  LET L == s.Kprime + s.S + s.H
      P == L - s.W
  IN  [K |-> K, Kprime |-> s.Kprime, J |-> s.J, L |-> L, S |-> s.S, H |-> s.H,
       B |-> s.W - s.S, W |-> s.W, P |-> P, P1 |-> nextprime(P), U |-> P - s.H]

parameters_get_Bug(K) ==
  IF K < 0 \/ ~\E n \in DOMAIN ParamSets : FirstFit(K, n)
    THEN Unsupported
    ELSE Derived(K, ParamSets[CHOOSE n \in DOMAIN ParamSets : FirstFit(K, n)])
parameters_get(K) ==
  IF K <= 0 \/ ~\E n \in DOMAIN ParamSets : FirstFit(K, n)
    THEN Unsupported
    ELSE Derived(K, ParamSets[CHOOSE n \in DOMAIN ParamSets : FirstFit(K, n)])

-----------------------------------------------------------------------------
(* ldpc_generate_mat, left part: the rows of column c that are set.        *)
LdpcRows_Bug(R, c) == LET a == c \div R.S
                          b == c % R.S
                      IN  {b, (b + a) % R.S, (b + 2 * a) % R.S}
LdpcRows(R, c) == LET a == 1 + (c \div R.S)
                      b == c % R.S
                  IN  {b, (b + a) % R.S, (((b + a) % R.S) + a) % R.S}

=============================================================================
