---------------------------- MODULE PermuteRows -----------------------------
(***************************************************************************)
(* permute_rows and permute_cols of src/algebra/mv_generic.h: a matrix is  *)
(* permuted in place, with one line of buffer, by walking the cycles of    *)
(* the permutation.  The two functions are the same algorithm on rows and  *)
(* on columns; a line is either, and is one value of V here.               *)
(*                                                                         *)
(* LUSolve treats the permutation as one step (Gather, Unpermuted); this   *)
(* module is what justifies it.                                            *)
(***************************************************************************)
EXTENDS Integers

CONSTANTS N,   \* number of lines
          V    \* values of a line

ASSUME NAssumption == N \in Nat

Idx == 0 .. N - 1
Perms == {p \in [Idx -> Idx] : \A x, y \in Idx : p[x] = p[y] => x = y}

VARIABLES M0,       \* the matrix before the call
          perm,     \* rowperm or colperm, in "from" form
          M,        \* the storage
          visited,
          buf,      \* rowbuf or colbuf
          i,        \* index of the outer loop
          e, e_next,
          pc        \* "scan", "cycle" or "done"

vars == <<M0, perm, M, visited, buf, i, e, e_next, pc>>

(* The buffer is uninitialised until the first long cycle. *)
Init == /\ M0 \in [Idx -> V]
        /\ perm \in Perms
        /\ M = M0
        /\ visited = [x \in Idx |-> FALSE]
        /\ buf \in V
        /\ i = 0
        /\ e = 0 /\ e_next = 0
        /\ pc = "scan"

(* A line some earlier cycle has moved already, or one that stays. *)
Skip ==
  /\ pc = "scan" /\ i < N
  /\ visited[i] \/ perm[i] = i
  /\ visited' = [visited EXCEPT ![i] = TRUE]
  /\ i' = i + 1
  /\ UNCHANGED <<M0, perm, M, buf, e, e_next, pc>>

(* The first line of a longer cycle goes to the buffer. *)
Lift ==
  /\ pc = "scan" /\ i < N
  /\ ~visited[i] /\ perm[i] # i
  /\ buf' = M[i]
  /\ e' = i
  /\ e_next' = perm[i]
  /\ pc' = "cycle"
  /\ UNCHANGED <<M0, perm, M, visited, i>>

Marked_Bug(x) == [visited EXCEPT ![e] = TRUE]
Marked(x) == [visited EXCEPT ![x] = TRUE]

Successor_Bug(x) == x
Successor(x) == perm[x]

Shift ==
  /\ pc = "cycle" /\ e_next # i
  /\ visited' = Marked(e_next)
  /\ M' = [M EXCEPT ![e] = M[e_next]]
  /\ e' = e_next
  /\ e_next' = Successor(e_next)
  /\ UNCHANGED <<M0, perm, buf, i, pc>>

LastLine_Bug == M[i]
LastLine == buf

Drop ==
  /\ pc = "cycle" /\ e_next = i
  /\ visited' = [visited EXCEPT ![i] = TRUE]
  /\ M' = [M EXCEPT ![e] = LastLine]
  /\ i' = i + 1
  /\ pc' = "scan"
  /\ UNCHANGED <<M0, perm, buf, e, e_next>>

Return ==
  /\ pc = "scan" /\ i = N
  /\ pc' = "done"
  /\ UNCHANGED <<M0, perm, M, visited, buf, i, e, e_next>>

Next == Skip \/ Lift \/ Shift \/ Drop \/ Return

(* The call runs to its end on the caller's thread, hence weak fairness;   *)
(* that it has an end is a claim about the loops (Terminates).             *)
Spec == Init /\ [][Next]_vars /\ WF_vars(Next)

-----------------------------------------------------------------------------
(* Properties *)

(* The storage always holds N lines and the walk stays inside it. *)
TypeOK ==
  /\ M0 \in [Idx -> V] /\ M \in [Idx -> V] /\ buf \in V
  /\ perm \in Perms
  /\ visited \in [Idx -> BOOLEAN]
  /\ i \in 0 .. N
  /\ pc \in {"scan", "cycle", "done"}
  /\ pc = "cycle" => i \in Idx /\ e \in Idx /\ e_next \in Idx

(* "row rowperm[i] will be moved to row i" (mv_generic.h:93-94), whatever  *)
(* cycles the permutation has.                                             *)
Permuted == pc = "done" => M = [x \in Idx |-> M0[perm[x]]]

(* assert(!visited[e_next]): a cycle never runs into lines an earlier      *)
(* cycle moved, so no line is copied from after it was overwritten.        *)
NeverVisitedTwice == pc = "cycle" /\ e_next # i => ~visited[e_next]

(* Both loops end: each cycle comes back to the line it started from. *)
Terminates == <>(pc = "done")

=============================================================================
