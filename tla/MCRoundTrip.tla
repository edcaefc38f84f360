---------------------------- MODULE MCRoundTrip -----------------------------
(* RoundTrip on blocks of eight symbols, with two symbols of padding. *)
EXTENDS RoundTrip, RqParamTable

SomeSources == {<<1, 2, 4, 8, 16, 32, 64, 128>>, <<255, 0, 0, 7, 254, 19, 0, 99>>}

Window(offs) == [n \in 1 .. K + NExtra |-> Word(offs + n - 1)]

(* The windows of rq_encdec_match.c from 0 on, one at the wrap of 2^32, a  *)
(* shuffled mix of source and repair symbols, and lists with an ID twice,  *)
(* which the API does not refuse.                                          *)
SomeLists ==
  {Window(offs) : offs \in {0, 8, 16, 24}}
    \cup {[n \in 1 .. K + NExtra |-> <<65535, 65526 + n>>],
          [n \in 1 .. K + NExtra |-> Word((7 * n) % 23)],
          [n \in 1 .. K + NExtra |-> Word(2 * (n \div 2))]}
=============================================================================
