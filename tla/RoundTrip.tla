----------------------------- MODULE RoundTrip ------------------------------
(***************************************************************************)
(* The whole codec on a real block, as test_consistency_for of             *)
(* samples_tests/api/rq_encdec_match.c runs it: compile the matrix of the  *)
(* source symbols and solve for the intermediate block, make symbols of    *)
(* other IDs, and from those alone compile, solve and make the source      *)
(* again.  A symbol is one octet; octets of longer symbols never mix.      *)
(*                                                                         *)
(* The decomposition and the solve are those of LUSolve, over GF(256), one *)
(* pivot or row per step; matrix and tuples are those of RqMatrix.         *)
(***************************************************************************)
EXTENDS RqMatrix

CONSTANTS K,        \* source symbols of the block
          NExtra,   \* symbols the decoder has beyond K
          Sources,  \* source blocks, sequences of K octets
          IdLists,  \* lists of K + NExtra IDs the decoder may have
          Fill      \* octet malloc'ed memory is full of

VARIABLES A0, A, rp, cp, i, pc, X0, X, passed, k, phase,  \* of LUSolve
          stage,   \* "encoder", "decoder", "insufficient", "finished"
          src, C,  \* source block, and the encoder's intermediate block
          ids, Y,  \* the decoder's IDs and symbols
          dec      \* what it decodes

luVars == <<A0, A, rp, cp, i, pc>>
solveVars == <<X0, X, passed, k, phase>>
vars == <<luVars, solveVars, stage, src, C, ids, Y, dec>>

P == parameters_get(K)

(* The block is one the code supports, symbols are octets, IDs uint32_t,   *)
(* and the memory starts with whatever octets malloc leaves in it.         *)
Words == (0 .. Half - 1) \X (0 .. Half - 1)
ASSUME BlockAssumption ==
  /\ K \in Nat /\ P.K = K /\ K < Half /\ NExtra \in Nat
  /\ \A s \in Sources : s \in [1 .. K -> GF256]
  /\ \A list \in IdLists : list \in [1 .. K + NExtra -> Words]
  /\ Fill \in GF256

(* The tables of gf256.c are those of a field. *)
ASSUME FieldTables == NibbleLaws /\ TableLaws /\ DoublingLaw

E == INSTANCE LUSolve WITH NRow <- P.L, NCol <- P.L, F <- GF256, Zero <- 0, One <- 1,
                           Add <- gf256_add, Mul <- gf256_mul, Inv <- gf256_inv
D == INSTANCE LUSolve WITH NRow <- P.L + NExtra, NCol <- P.L, F <- GF256, Zero <- 0, One <- 1,
                           Add <- gf256_add, Mul <- gf256_mul, Inv <- gf256_inv

SourceIds == [n \in 1 .. K |-> Word(n - 1)]

(* The matrix as RqInterCompile generates it over the program's memory. *)
MatrixOf(list, x) ==
  LET dim == rq_matrix_get_dim(P, Len(list)) IN
  rq_matrix_generate(P, list,
    [r \in 0 .. dim.n_row - 1 |-> [c \in 0 .. dim.n_col - 1 |-> x]])

(* Mutant: the sum leaves out the last PI symbol. *)
SymbolOf_Bug(block, id) ==
  LET row == LtRow(P, tuple_generate_from_ESI(id, P))
      s[c \in 0 .. P.L] ==
        IF c = P.L THEN 0
        ELSE IF c \in row /\ c < P.L - 1 THEN gf256_add(block[c], s[c + 1]) ELSE s[c + 1]
  IN s[0]

(* RqOutExecute: the symbol of an ID is the sum over the columns of its    *)
(* tuple (LTWalk).                                                         *)
SymbolOf(block, id) ==
  LET row == LtRow(P, tuple_generate_from_ESI(id, P))
      s[c \in 0 .. P.L] ==
        IF c = P.L THEN 0
        ELSE IF c \in row THEN gf256_add(block[c], s[c + 1]) ELSE s[c + 1]
  IN s[0]

(* The decomposition starts over on a matrix. *)
Decomposing(list, x) ==
  /\ A0' = MatrixOf(list, x) /\ A' = A0'
  /\ rp' = [r \in DOMAIN A0' |-> r] /\ cp' = [c \in 0 .. P.L - 1 |-> c]
  /\ i' = 0 /\ pc' = "loop"
  /\ X0' = <<>> /\ X' = <<>> /\ passed' = FALSE /\ k' = 0 /\ phase' = "decomp"

(* RqInterExecute on the symbols y, for the rows of one of the solvers. *)
Loading(gathered) ==
  /\ phase = "decomp" /\ pc = "done" /\ i = P.L
  /\ X' = gathered
  /\ k' = 0 /\ phase' = "forward"
  /\ UNCHANGED <<luVars, X0, passed>>

ZeroBased(s) == [r \in 0 .. Len(s) - 1 |-> s[r + 1]]

Init ==
  /\ stage = "encoder"
  /\ src = <<>> /\ C = <<>> /\ ids = <<>> /\ Y = <<>> /\ dec = <<>>
  /\ A0 = MatrixOf(SourceIds, Fill) /\ A = A0
  /\ rp = [r \in DOMAIN A0 |-> r] /\ cp = [c \in 0 .. P.L - 1 |-> c]
  /\ i = 0 /\ pc = "loop"
  /\ X0 = <<>> /\ X = <<>> /\ passed = FALSE /\ k = 0 /\ phase = "decomp"

EncoderSteps ==
  /\ stage = "encoder"
  /\ E!Decompose \/ E!ForwardRow \/ E!ForwardDone \/ E!BackwardRow \/ E!Return
  /\ UNCHANGED <<stage, src, C, ids, Y, dec>>

EncoderExecute(s) ==
  /\ stage = "encoder"
  /\ Loading(E!Gather(ZeroBased(s), K))
  /\ src' = s
  /\ UNCHANGED <<stage, C, ids, Y, dec>>

(* The symbols of the list are made; a decoder with nothing but them       *)
(* starts in wiped memory.                                                 *)
Send(list) ==
  /\ stage = "encoder" /\ phase = "solved"
  /\ C' = X
  /\ ids' = list
  /\ Y' = [n \in DOMAIN list |-> SymbolOf(X, list[n])]
  /\ stage' = "decoder"
  /\ Decomposing(list, 0)
  /\ UNCHANGED <<src, dec>>

DecoderSteps ==
  /\ stage = "decoder"
  /\ D!Decompose \/ D!ForwardRow \/ D!ForwardDone \/ D!BackwardRow \/ D!Return
  /\ UNCHANGED <<stage, src, C, ids, Y, dec>>

(* RQ_ERR_INSUFF_IDS *)
Insufficient ==
  /\ stage = "decoder" /\ phase = "decomp" /\ pc = "done" /\ i < P.L
  /\ stage' = "insufficient"
  /\ UNCHANGED <<luVars, solveVars, src, C, ids, Y, dec>>

DecoderExecute ==
  /\ stage = "decoder"
  /\ Loading(D!Gather(ZeroBased(Y), Len(ids)))
  /\ UNCHANGED <<stage, src, C, ids, Y, dec>>

Finish ==
  /\ stage = "decoder" /\ phase = "solved"
  /\ dec' = [n \in 1 .. K |-> SymbolOf(X, SourceIds[n])]
  /\ stage' = "finished"
  /\ UNCHANGED <<luVars, solveVars, src, C, ids, Y>>

(* The test's process exits; nothing else may stop it. *)
Ended == stage \in {"finished", "insufficient"} /\ UNCHANGED vars

Next ==
  \/ EncoderSteps
  \/ \E s \in Sources : EncoderExecute(s)
  \/ \E list \in IdLists : Send(list)
  \/ DecoderSteps
  \/ Insufficient
  \/ DecoderExecute
  \/ Finish
  \/ Ended

Spec == Init /\ [][Next]_vars

-----------------------------------------------------------------------------
(* Properties *)

(* The matrix of the source symbols is invertible (rq_syst_inv.c).         *)
Compiles == stage = "encoder" /\ pc = "done" => i = P.L

(* The symbols of the IDs below K are the source itself, and the padding   *)
(* symbols and the constraints are zero.                                   *)
SystematicBlock ==
  stage = "encoder" /\ phase = "solved" =>
    /\ \A n \in 1 .. K : SymbolOf(X, SourceIds[n]) = src[n]
    /\ \A r \in 0 .. P.L - 1 : r >= K => E!Product(X, r) = 0

(* The code is systematic. *)
Systematic == Compiles /\ SystematicBlock

(* A decoder that can solve has the encoder's block and decodes the source,*)
(* whichever IDs it has, in whichever order.                               *)
Decodes ==
  stage = "finished" => X = C /\ dec = src

=============================================================================
