----------------------------- MODULE MCStorage ------------------------------
(***************************************************************************)
(* Matrices in memory: a behaviour either uses one (Storage, over GF(2)    *)
(* and, for the octets, over GF(4)) or permutes its lines in place         *)
(* (PermuteRows).                                                          *)
(***************************************************************************)
EXTENDS Storage, PermuteRows, Fields, Sequences

(* The log tables of GF(4) in the form of those of gf256.c: two periods of *)
(* powers of the generator 2, and a filler for the logarithm of zero.      *)
GF4Exp(k) == <<1, 2, 3, 1, 2, 3>>[k + 1]
GF4Log(a) == IF a = 0 THEN 0 ELSE a - 1

(* 3 x 3, row by row: one without a zero row, one with a zero row and a    *)
(* zero column.                                                            *)
SomeContents ==
  {[k \in 0 .. OctRows * OctCols - 1 |-> s[k + 1]] :
     s \in {<<0, 1, 2,  3, 2, 0,  1, 3, 1>>, <<2, 0, 1,  0, 0, 0,  1, 0, 3>>}}

(* The hypotheses of the theorems of StorageProofs. *)
ASSUME StorageAssumed == Assumptions /\ OffsetsInRow /\ LastWordPartial /\ Oct!Assumptions

(* What a behaviour does not do has ended before it begins. *)
NothingStored ==
  /\ kind = "none" /\ NothingDecomposed
  /\ mem = <<>> /\ matrix = <<>> /\ A = <<>> /\ B = <<>> /\ C = <<>> /\ calls = 0
NothingToPermute ==
  /\ LET v == CHOOSE w \in V : TRUE IN M0 = [x \in Idx |-> v] /\ M = M0 /\ buf = v
  /\ perm = [x \in Idx |-> x] /\ visited = [x \in Idx |-> TRUE]
  /\ i = N /\ e = 0 /\ e_next = 0 /\ pc = "done"

MCInit == (StorageInit /\ NothingToPermute) \/ (Init /\ NothingStored)

UseStorage == StorageNext /\ UNCHANGED vars
Permute == Next /\ UNCHANGED storageVars
MCNext == UseStorage \/ Permute

MCSpec == MCInit /\ [][MCNext]_<<vars, storageVars>> /\ WF_vars(Permute)

=============================================================================
