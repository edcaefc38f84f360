------------------------------ MODULE Delivery ------------------------------
(***************************************************************************)
(* What a file transfer promises: the symbols that are delivered are those *)
(* of the source, in order and from the first on, none is taken back, and  *)
(* the transfer ends.                                                      *)
(***************************************************************************)
EXTENDS Integers, Sequences

VARIABLES source, delivered, ended

vars == <<source, delivered, ended>>

Init == delivered = <<>> /\ ~ended

Next == /\ ~ended
        /\ \E n \in Len(delivered) .. Len(source) : delivered' = SubSeq(source, 1, n)
        /\ ended' \in BOOLEAN
        /\ UNCHANGED source

(* Fairness of Next would still allow delivering nothing forever.          *)
Spec == Init /\ [][Next]_vars /\ <>ended

=============================================================================
