---------------------------- MODULE MCFileCodec -----------------------------
(* FileCodec with blocks of two symbols, padded to three. *)
EXTENDS FileCodec, FiniteSets

(* Two different IDs suffice, except the pair 3, 4. *)
MostPairs(S) == Cardinality(S) >= K /\ S # {3, 4}

SomeCommands == {<< <<0, 4>> >>, << <<3, 4>>, <<1, 1>> >>, << <<2, 3>>, <<3, 5>> >>}

(* All positions, losses, a repetition, a shuffle, and too few. *)
SomeReceptions ==
  {<<1, 2, 3>>, <<3, 1>>, <<2, 2, 1>>, <<1, 2>>, <<5, 2, 4>>, <<3>>, <<1, 1>>}
=============================================================================
