------------------------------- MODULE LTWalk -------------------------------
(***************************************************************************)
(* From the ID of a symbol to its columns: how its tuple is made, and the  *)
(* walk from a tuple to the columns, which the code has twice.  lt_generate*)
(* _mat sets elements of a matrix row, RqOutExecute adds intermediate      *)
(* symbols.  acc is the coefficient of each column so far.                 *)
(***************************************************************************)
EXTENDS RqMatrix

CONSTANTS Sets,      \* parameter sets with W, P and P1, whose walks are taken
          BlockSets, \* parameter sets of blocks, whose tuples are made
          IDs(_)     \* IDs (ESIs) of symbols of a block

(* By trial division, enough for every number below 246^2. *)
Bound == 246 * 246
IsPrime(n) == n > 1 /\ \A d \in 2 .. 245 : d * d <= n => n % d # 0

(* What MCGenerators finds of every row of the real table. *)
ASSUME WalkAssumption == \A Q \in Sets \cup BlockSets :
  /\ Q.W \in Nat /\ Q.W < Bound /\ IsPrime(Q.W) /\ Q.W - 2 >= 1
  /\ Q.P1 \in Nat /\ Q.P1 < Bound /\ IsPrime(Q.P1)
  /\ Q.P \in Nat /\ Q.P >= 3 /\ Q.P <= Q.P1

Uint32 == (0 .. Half - 1) \X (0 .. Half - 1)

(* What parameters_get leads to, and the type of an ID. *)
ASSUME BlockAssumption == \A Q \in BlockSets :
  /\ Q.J \in Nat /\ Q.K \in Nat /\ Q.Kprime \in Nat
  /\ Q.K <= Q.Kprime /\ Q.Kprime < Half
  /\ Q.L = Q.W + Q.P
  /\ \A x \in IDs(Q) : x \in Uint32

VARIABLES P, T0,  \* the parameters and the tuple of the symbol
          symbol, \* its ID, of a block
          use,    \* "matrix" or "output"
          T,      \* the tuple the walk steps forward
          j,      \* steps of the current loop
          stage,  \* "lt", "skip" or "done"
          acc

tupleVars == <<P, T0, symbol>>
walkVars == <<P, T0, use, T, j, stage, acc>>

Columns(Q) == 0 .. Q.W + Q.P - 1

(* Every tuple tuple_generate_from_ISI may return. *)
TuplesOf(Q) ==
  [d : 1 .. Capped(30, Q.W), a : 1 .. Q.W - 1, b : 0 .. Q.W - 1,
   d1 : 2 .. 3, a1 : 1 .. Q.P1 - 1, b1 : 0 .. Q.P1 - 1]

TupleInit == P \in BlockSets /\ symbol \in IDs(P) /\ T0 = <<>>

MakeTuple ==
  /\ T0 = <<>>
  /\ T0' = tuple_generate_from_ESI(symbol, P)
  /\ UNCHANGED <<P, symbol>>

TupleSpec == TupleInit /\ [][MakeTuple]_tupleVars

(* m256v_set_el(.., 1), or m256v_multadd_row(.., 1, ..). *)
Taken(m, c) == [m EXCEPT ![c] = IF use = "matrix" THEN 1 ELSE 1 - @]

WalkInit ==
  /\ P \in Sets /\ T0 \in TuplesOf(P)
  /\ use \in {"matrix", "output"}
  /\ T = T0
  /\ acc = [c \in Columns(P) |-> IF c = T.b THEN 1 ELSE 0]
  /\ j = 1 /\ stage = "lt"

StepLt ==
  /\ stage = "lt" /\ j < T.d
  /\ T' = [T EXCEPT !.b = (@ + T.a) % P.W]
  /\ acc' = Taken(acc, T'.b)
  /\ j' = j + 1
  /\ UNCHANGED <<P, T0, use, stage>>

LtDone ==
  /\ stage = "lt" /\ j >= T.d
  /\ stage' = "skip" /\ j' = 0
  /\ UNCHANGED <<P, T0, use, T, acc>>

Advance_Bug(b1) == (b1 + T.a1) % P.P
Advance_Short(b1) == (b1 + T.a1) % (P.P1 - 1)
Advance(b1) == (b1 + T.a1) % P.P1

(* An iteration of "while (T.b1 >= P->P)". *)
Skip ==
  /\ stage = "skip" /\ T.b1 >= P.P
  /\ T' = [T EXCEPT !.b1 = Advance(@)]
  /\ UNCHANGED <<P, T0, use, j, stage, acc>>

(* The column is taken; another step follows until d1 are. *)
TakePi ==
  /\ stage = "skip" /\ T.b1 < P.P
  /\ acc' = Taken(acc, P.W + T.b1)
  /\ j' = j + 1
  /\ IF j + 1 < T.d1 THEN T' = [T EXCEPT !.b1 = Advance(@)] /\ stage' = stage
                     ELSE T' = T /\ stage' = "done"
  /\ UNCHANGED <<P, T0, use>>

WalkNext == StepLt \/ LtDone \/ Skip \/ TakePi

(* A loop in the caller's thread: it goes on as long as it can. *)
WalkSpec == WalkInit /\ [][WalkNext]_walkVars /\ WF_walkVars(WalkNext)

-----------------------------------------------------------------------------
(* Properties *)

(* A tuple selects d distinct columns of the LT part and d1 distinct ones  *)
(* of the PI part: no step of its walks is zero, and no degree exceeds     *)
(* what a walk can visit.                                                  *)
RowDegree(Q, t) ==
  /\ Cardinality(LtRow(Q, t)) = t.d + t.d1
  /\ Cardinality(LtRow(Q, t) \cap 0 .. Q.W - 1) = t.d
  /\ LtRow(Q, t) \subseteq Columns(Q)

OfBlock == symbol # <<>>
Made == OfBlock /\ T0 # <<>>

(* Every tuple made is one the walks start from, and selects as many       *)
(* columns as its degrees say, so a row written by set_el equals the sum   *)
(* of symbols.                                                             *)
RowHasDegree ==
  Made => T0 \in TuplesOf(P) /\ RowDegree(P, T0) /\ Columns(P) = 0 .. P.L - 1

(* rq_matrix.c and tuple.c shift IDs to internal ones separately: the row  *)
(* a receiver builds belongs to the symbol the sender makes of the same    *)
(* ID, also where the sum wraps.                                           *)
MatrixFollowsOutput ==
  Made => LtRow(P, tuple_generate_from_ISI(ISIs(P, <<symbol>>)[1], P)) = LtRow(P, T0)

(* Different IDs stand for different symbols and none for a padding one,   *)
(* unless they wrap.                                                       *)
SymbolsApart == OfBlock => SymbolApart(symbol, P, IDs(P))

(* Setting and adding give the same row, the one of LtRow: no column is    *)
(* met twice, so the matrix describes the symbols the encoder sends.       *)
SameRow ==
  stage = "done" => acc = [c \in Columns(P) |-> IF c \in LtRow(P, T0) THEN 1 ELSE 0]

(* The inner loop over indices without a PI symbol comes to an end, for    *)
(* every tuple.                                                            *)
WalkEnds == stage = "lt" ~> stage = "done"

=============================================================================
