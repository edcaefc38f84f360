----------------------------- MODULE MCRqOutApi -----------------------------
(* RqOutApi over a table of one row. *)
EXTENDS RqOutApi

MCParamSets == << [Kprime |-> 3, J |-> 2, S |-> 2, H |-> 1, W |-> 4] >>

=============================================================================
