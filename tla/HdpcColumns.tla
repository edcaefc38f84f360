---------------------------- MODULE HdpcColumns -----------------------------
(***************************************************************************)
(* hdpc_generate_mat_faster of src/tvrq/hdpc.c, one column per step, over  *)
(* memory that holds what an earlier use left there.                       *)
(***************************************************************************)
EXTENDS RqMatrix

CONSTANTS Blocks,    \* numbers of source symbols
          Leftovers  \* octets the memory was filled with

(* Every block is one that the code supports. *)
ASSUME HdpcAssumption == \A b \in Blocks : b \in Nat /\ parameters_get(b).K = b

VARIABLES params,  \* parameter set
          part,    \* the memory of the matrix
          col,     \* the column written last
          at       \* "columns" or "done"

hdpcVars == <<params, part, col, at>>

HdpcInit == \E b \in Blocks, x \in Leftovers :
  /\ params = parameters_get(b)
  /\ part = PutColumn([r \in 0 .. params.H - 1 |-> [c \in 0 .. params.L - 1 |-> x]],
                     params.Kprime + params.S - 1, LastColumn(params))
  /\ col = params.Kprime + params.S - 1
  /\ at = "columns"

Column ==
  /\ at = "columns" /\ col > 0
  /\ part' = PutColumn(part, col - 1,
                      NextColumn(params, ColumnOf(part, col), ColumnOf(part, col - 1), col - 1))
  /\ col' = col - 1
  /\ UNCHANGED <<params, at>>

AddIdentity ==
  /\ at = "columns" /\ col = 0
  /\ part' = WithIdentity(params, part)
  /\ at' = "done"
  /\ UNCHANGED <<params, col>>

HdpcNext == Column \/ AddIdentity

HdpcSpec == HdpcInit /\ [][HdpcNext]_hdpcVars

-----------------------------------------------------------------------------
(* Properties *)

(* Each column of the fast generator is that of MT * GAMMA as the RFC      *)
(* defines it, whatever the memory held; and columns that are finished     *)
(* stay: the whole matrix is the specified one.                            *)
HdpcExact ==
  /\ at = "columns" => ExactColumn(params, col) = ColumnOf(part, col)
  /\ at = "done" => part = hdpc_generate_mat_specexact(params)

=============================================================================
