---------------------------- MODULE MCRqInterApi ----------------------------
(***************************************************************************)
(* A table of two rows, for blocks of one and of up to three symbols,      *)
(* and a rank with the shape of the code's: no set smaller than K          *)
(* determines the block, the source symbols do, any K + 1 symbols do, and  *)
(* some other sets of K do not.                                            *)
(***************************************************************************)
EXTENDS RqInterApi

MCParamSets == << [Kprime |-> 1, J |-> 1, S |-> 1, H |-> 1, W |-> 2],
                  [Kprime |-> 3, J |-> 2, S |-> 2, H |-> 1, W |-> 4] >>

MCExtras == {-1, 0, 1}

MCFullRank(K, S) ==
  LET n == Cardinality(S)
  IN  n > K \/ (n = K /\ (S = 0 .. K - 1 \/ 0 \notin S))

=============================================================================
