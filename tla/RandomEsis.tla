----------------------------- MODULE RandomEsis -----------------------------
(***************************************************************************)
(* How samples_tests/test_utils/test_utils.c makes up the IDs of received  *)
(* symbols for the failure statistics and the benchmark: get_random_esis   *)
(* draws distinct IDs with a hash table that probes linearly, and          *)
(* get_esis_after_loss counts through the IDs and drops some.              *)
(***************************************************************************)
EXTENDS Integers, Sequences

CONSTANTS nESIs,   \* IDs asked for
          Values,  \* what rand() & 0xffffff may be
          MaxEsi   \* bound on the IDs counted through

ASSUME EsiAssumption == nESIs \in Nat \ {0} /\ Values \subseteq Nat /\ MaxEsi \in Nat

VARIABLES kind,    \* "random" or "loss", the function that was called
          pc,      \* "draw", "probe" or "done"
          ESIs,    \* the IDs so far
          hESIs,   \* the hash table
          proposed_value, hidx,
          esi      \* the counter of get_esis_after_loss

vars == <<kind, pc, ESIs, hESIs, proposed_value, hidx, esi>>

hashtab_sz == 3 * nESIs
hempty == -1

Init ==
  /\ kind \in {"random", "loss"}
  /\ pc = "draw" /\ ESIs = <<>>
  /\ hESIs = [h \in 0 .. hashtab_sz - 1 |-> hempty]
  /\ proposed_value = 0 /\ hidx = 0
  /\ esi = -1

Wanted == pc = "draw" /\ Len(ESIs) < nESIs

Draw ==
  /\ kind = "random" /\ Wanted
  /\ proposed_value' \in Values
  /\ hidx' = proposed_value' % hashtab_sz
  /\ pc' = "probe"
  /\ UNCHANGED <<kind, ESIs, hESIs, esi>>

Probing == pc = "probe" /\ hESIs[hidx] # hempty

Known_Bug == hESIs[hidx] = proposed_value /\ hidx = proposed_value % hashtab_sz
Known == hESIs[hidx] = proposed_value

Retry ==
  /\ Probing /\ Known
  /\ pc' = "draw"
  /\ UNCHANGED <<kind, ESIs, hESIs, proposed_value, hidx, esi>>

NextSlot(h) == IF h + 1 = hashtab_sz THEN 0 ELSE h + 1

StepOn ==
  /\ Probing /\ ~Known
  /\ hidx' = NextSlot(hidx)
  /\ UNCHANGED <<kind, pc, ESIs, hESIs, proposed_value, esi>>

Store ==
  /\ pc = "probe" /\ hESIs[hidx] = hempty
  /\ hESIs' = [hESIs EXCEPT ![hidx] = proposed_value]
  /\ ESIs' = Append(ESIs, proposed_value)
  /\ pc' = "draw"
  /\ UNCHANGED <<kind, proposed_value, hidx, esi>>

(* An iteration of do { ++esi; } while (lost): the symbol arrives or not.  *)
Count ==
  /\ kind = "loss" /\ Wanted /\ esi < MaxEsi
  /\ esi' = esi + 1
  /\ UNCHANGED <<kind, pc, hESIs, proposed_value, hidx>>
Lose == Count /\ UNCHANGED ESIs
Arrive == Count /\ ESIs' = Append(ESIs, esi')

Return ==
  /\ pc = "draw" /\ Len(ESIs) = nESIs
  /\ pc' = "done"
  /\ UNCHANGED <<kind, ESIs, hESIs, proposed_value, hidx, esi>>

Next == Draw \/ Retry \/ StepOn \/ Store \/ Lose \/ Arrive \/ Return

Spec == Init /\ [][Next]_vars

-----------------------------------------------------------------------------
(* Properties *)

(* No ID is returned twice, wherever the probing put the earlier ones: a   *)
(* repeated ID would count as a symbol and add nothing to the rank.        *)
Distinct == \A i, j \in DOMAIN ESIs : ESIs[i] = ESIs[j] => i = j

=============================================================================
