---------------------------- MODULE MCGenerators ----------------------------
(***************************************************************************)
(* What the matrix and the symbols of a block are generated from, over the *)
(* real tables.  A behaviour is one of six: a query of the parameters, the *)
(* tuple of a symbol, products of an octet, the HDPC part of a matrix      *)
(* column by column, the walk from a tuple to its columns, and the IDs the *)
(* tests draw.                                                             *)
(***************************************************************************)
EXTENDS HdpcColumns, RqParamTable, LTWalk, RandomEsis

CONSTANT TupleBlocks   \* numbers of source symbols whose tuples are made

(* The real table is one that RqParams, and the proofs, assume. *)
ASSUME RealTable == IsTable(base_param_sets)

VARIABLES task,         \* which of the six
          query, R,     \* number of the query; what parameters_get returned
          alpha, x      \* a multiplier and an element of a row

genVars == <<task, query, R, alpha, x, tupleVars, hdpcVars, walkVars, vars>>

NoQuery == query = 0 /\ R = <<>>
NoSymbol == symbol = <<>>
NoProduct == alpha = 0 /\ x = 0
NoHdpc == params = <<>> /\ part = <<>> /\ col = 0 /\ at = ""
OnlyTuple == use = "" /\ T = <<>> /\ j = 0 /\ stage = "" /\ acc = <<>>
NoWalk == P = <<>> /\ T0 = <<>> /\ NoSymbol /\ OnlyTuple
NoEsis == /\ kind = "" /\ pc = "" /\ ESIs = <<>> /\ hESIs = <<>>
          /\ proposed_value = 0 /\ hidx = 0 /\ esi = 0

(* Parameter sets with no, one and three indices to step over. *)
SmallSets == {[W |-> 5, P |-> 5, P1 |-> 5], [W |-> 5, P |-> 6, P1 |-> 7],
              [W |-> 5, P |-> 8, P1 |-> 11]}

SomeBlocks == {parameters_get(K) : K \in TupleBlocks}

Oct == INSTANCE OctMatrix WITH
         NRow <- 1, NCol <- 256, F <- GF256, Zero <- 0, One <- 1,
         Add <- gf256_add, Mul <- gf256_mul, Exp <- gf256_exp, Log <- gf256_log

(* The tables of gf256.c are what the theorems of StorageProofs about the   *)
(* octets of a matrix assume.                                              *)
ASSUME RealOctets == Oct!LogDomain

Table == INSTANCE RqParams WITH ParamSets <- base_param_sets

(* The values of K where the result of parameters_get changes: each row's  *)
(* K', the value after it, and the ends of the supported range.            *)
Query == IF query = 0 THEN 0
         ELSE IF query = 1 THEN 1
         ELSE base_param_sets[query \div 2].Kprime + (query % 2)

(* The first IDs, those around K and K', others, and the last before 2^32. *)
Near(n) == {Word(n + k) : k \in 0 .. 12}
SomeIDs(Q) == Near(0) \cup Near(Q.K - 1) \cup Near(Q.Kprime - 1) \cup Near(1000000)
            \cup {<<k, (3 * k) % Half>> : k \in {255, 4096, 21845, 21846}}
            \cup {<<65535, k>> : k \in 65520 .. 65535}

GenInit ==
  \/ /\ task = "query" /\ query \in 0 .. 2 * Len(base_param_sets) + 1 /\ R = <<>>
     /\ NoProduct /\ NoHdpc /\ NoWalk /\ NoEsis
  \/ /\ task = "tuple" /\ TupleInit /\ OnlyTuple
     /\ NoQuery /\ NoProduct /\ NoHdpc /\ NoEsis
  \/ /\ task = "product" /\ alpha \in GF256 /\ x = 0
     /\ NoQuery /\ NoHdpc /\ NoWalk /\ NoEsis
  \/ /\ task = "hdpc" /\ HdpcInit
     /\ NoQuery /\ NoProduct /\ NoWalk /\ NoEsis
  \/ /\ task = "walk" /\ WalkInit /\ NoSymbol
     /\ NoQuery /\ NoProduct /\ NoHdpc /\ NoEsis
  \/ /\ task = "esis" /\ Init
     /\ NoQuery /\ NoProduct /\ NoHdpc /\ NoWalk

GetParameters ==
  /\ task = "query" /\ R = <<>>
  /\ R' = Table!parameters_get(Query)
  /\ UNCHANGED <<task, query, alpha, x, tupleVars, hdpcVars, walkVars, vars>>

TupleStep ==
  /\ task = "tuple" /\ MakeTuple
  /\ UNCHANGED <<task, query, R, alpha, x, hdpcVars, use, T, j, stage, acc, vars>>

NextElement ==
  /\ task = "product" /\ x < 255
  /\ x' = x + 1
  /\ UNCHANGED <<task, query, R, alpha, tupleVars, hdpcVars, walkVars, vars>>

HdpcStep ==
  /\ task = "hdpc" /\ HdpcNext
  /\ UNCHANGED <<task, query, R, alpha, x, tupleVars, walkVars, vars>>

WalkStep ==
  /\ task = "walk" /\ WalkNext
  /\ UNCHANGED <<task, query, R, symbol, alpha, x, hdpcVars, vars>>

EsiStep ==
  /\ task = "esis" /\ Next
  /\ UNCHANGED <<task, query, R, alpha, x, tupleVars, hdpcVars, walkVars>>

GenNext == GetParameters \/ TupleStep \/ NextElement \/ HdpcStep \/ WalkStep \/ EsiStep

(* The walk goes on in the caller's thread. *)
GenSpec == GenInit /\ [][GenNext]_genVars /\ WF_genVars(WalkStep)

-----------------------------------------------------------------------------
(* Parameters *)

Supported == R # <<>> /\ R.K # -1

(* Unsupported is answered exactly outside 1 .. RQ_MAX_K, the constant     *)
(* rq_api.h publishes apart from the table.                                *)
RQ_MAX_K == 56403
SupportedUpToMaxK == R # <<>> => (Supported <=> Query \in 1 .. RQ_MAX_K)

(* What the generators rely on.  The walks of tuple generation step modulo *)
(* W and modulo P1 and set elements in lt_generate_mat where RqOutExecute  *)
(* adds symbols: both agree because a walk modulo a prime repeats no       *)
(* index.  nextprime finds the smallest prime for every P the table leads  *)
(* to, and never runs off its list.                                        *)
PrimeModuli(Q) ==
  /\ IsPrime(Q.W) /\ IsPrime(Q.P1) /\ Q.W < Bound /\ Q.P1 < Bound
  /\ Q.P1 >= Q.P
  /\ \A n \in Q.P .. Q.P1 - 1 : ~IsPrime(n)

(* Each of the B columns of the left LDPC part gets three distinct rows,   *)
(* so no set_el overwrites another.  The S columns of a group rotate the   *)
(* same three rows; the first and the last of each group are looked at.    *)
LdpcColumnsHaveWeightThree(Q) ==
  \A g \in 0 .. (Q.B - 1) \div Q.S : \A c \in {g * Q.S, g * Q.S + Q.S - 1} :
    c < Q.B => Cardinality(LdpcRows(Q, c)) = 3

(* No generator divides by zero or walks an empty range: Rand is called    *)
(* with W - 1, P1 - 1 and H - 1, the PI part has room for the up to three  *)
(* PI symbols of a tuple and for the H HDPC ones.                          *)
RangesNotEmpty(Q) ==
  /\ Q.W - 2 >= 1 /\ Q.P1 - 1 >= 1 /\ Q.H - 1 >= 1
  /\ Q.P >= 3 /\ Q.U >= 0 /\ Q.B >= 1

(* Every row of the table gives parameters that the generators can use.    *)
GeneratorsWellDefined ==
  Supported => PrimeModuli(R) /\ LdpcColumnsHaveWeightThree(R) /\ RangesNotEmpty(R)

-----------------------------------------------------------------------------
(* Octets *)

(* Multiplication of polynomials over GF(2) modulo 2^8 + 2^4 + 2^3 + 2^2 +  *)
(* 1, the polynomial tools/gf256/get_primpoly.c prints.                    *)
TimesX(a) == IF a < 128 THEN 2 * a ELSE XorByte(2 * a - 256, 29)
PolyProduct(a, b) ==
  LET s[k \in 0 .. 8] ==
        IF k = 8 THEN 0
        ELSE XorByte(TimesX(s[k + 1]), IF (b \div 2^k) % 2 = 1 THEN a ELSE 0)
  IN s[0]

(* The tables give the product of the field, for all pairs, and the        *)
(* inverse of every octet but zero.  The row operations skip the tables'   *)
(* zero checks and add logarithms themselves: they compute the same        *)
(* products, and no index leaves the table of powers, which gf256_exp      *)
(* asserts.                                                                *)
ProductsArePolynomials ==
  task = "product" =>
    /\ gf256_mul(alpha, x) = PolyProduct(alpha, x)
    /\ alpha # 0 =>
         /\ gf256_mul(alpha, x) = 1 <=> x = gf256_inv(alpha)
         /\ Oct!TimesByte(alpha, x) = gf256_mul(alpha, x)
         /\ Oct!Times(alpha, x) = gf256_mul(alpha, x)
         /\ \A t \in {0, alpha, x} : Oct!Gain(alpha, x, t) = gf256_add(t, gf256_mul(alpha, x))
         /\ x # 0 => gf256_log(alpha) + gf256_log(x) \in 0 .. Len(OCT_EXP) - 1

=============================================================================
