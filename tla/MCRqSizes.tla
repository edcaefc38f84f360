----------------------------- MODULE MCRqSizes ------------------------------
(***************************************************************************)
(* RqInterGetMemSizes over the real table, at every K' and with the        *)
(* default overhead of rq_api.h.                                           *)
(***************************************************************************)
EXTENDS RqParamTable

INSTANCE RqInterSizes WITH ParamSets <- base_param_sets, MaxInt <- 2147483647,
                           WorkHdr <- 52, ProgHdr <- 40, Word <- 4

VARIABLES row,    \* row of the table whose K' is asked for
          reply   \* program size reported; <<>> before the call
mcVars == <<row, reply>>

RQ_DEFAULT_MAX_EXTRA == 30

MCInit == row \in DOMAIN base_param_sets /\ reply = <<>>
GetMemSizes ==
  /\ reply = <<>>
  /\ reply' = <<ProgSize(parameters_get(base_param_sets[row].Kprime), RQ_DEFAULT_MAX_EXTRA)>>
  /\ UNCHANGED row
MCSpec == MCInit /\ [][GetMemSizes]_mcVars

(* rq_api.h publishes RQ_MAX_K = 56403, and rq_syst_inv.c compiles every   *)
(* K' up to it: RqInterGetMemSizes reports a program size that can be      *)
(* allocated for each of them.                                             *)
EveryBlockHasProgramSize == reply # <<>> => reply[1] # NoSize

=============================================================================
