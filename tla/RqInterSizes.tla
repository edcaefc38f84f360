---------------------------- MODULE RqInterSizes ----------------------------
(***************************************************************************)
(* The byte sizes of src/api/tvrq_api.c: what RqInterGetMemSizes reports   *)
(* for a largest block size and overhead, and what RqInterInit and         *)
(* RqInterCompile make of the memory the client then passes.               *)
(***************************************************************************)
EXTENDS RqParams

CONSTANTS
  MaxInt,    \* INT_MAX
  WorkHdr,   \* sizeof(RqInterWorkMem)
  ProgHdr,   \* sizeof(RqInterProgram)
  Word       \* sizeof(uint32_t) = sizeof(int)

ASSUME SizeAssumption ==
  /\ MaxInt \in Nat /\ WorkHdr \in Nat \ {0} /\ ProgHdr \in Nat \ {0} /\ Word \in Nat \ {0}

WorkSize(P, nMaxExtra) == WorkHdr + (nMaxExtra + P.Kprime) * Word

(* RqInterInit: the IDs that fit in size bytes. *)
Capacity_Bug(size) == size \div Word
Capacity(size) == (size - WorkHdr) \div Word

(* The program size has a product of two ints.  Past INT_MAX it is         *)
(* undefined; the build makes a negative int of it and, converted to       *)
(* size_t, a size no allocator grants: NoSize.                             *)
NoSize == -1
FitsInt(a, b) == b = 0 \/ a <= MaxInt \div b

ProgSize_Bug(P, nMaxExtra) ==
  LET n_rows == nMaxExtra + P.K + P.S + P.H
  IN  IF FitsInt(n_rows, P.L) THEN ProgHdr + Word * n_rows + n_rows * P.L ELSE NoSize
ProgSize(P, nMaxExtra) ==
  LET n_rows == nMaxExtra + P.Kprime + P.S + P.H
  IN  IF FitsInt(n_rows, P.L) THEN ProgHdr + Word * n_rows + n_rows * P.L ELSE NoSize

(* RqInterCompile: rows of the matrix for nESI IDs, padding included, and  *)
(* the memory the program needs, computed in size_t.                       *)
NRows(P, nESI) == nESI + (P.Kprime - P.K) + P.S + P.H
MemNeeded(P, nESI) == ProgHdr + Word * NRows(P, nESI) + NRows(P, nESI) * P.L

=============================================================================
