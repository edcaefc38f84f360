----------------------------- MODULE RqInterApi -----------------------------
(***************************************************************************)
(* The RqInter... half of src/api/tvrq_api.c: how a client turns a block   *)
(* size and a list of encoding symbol IDs into a decoding program, and     *)
(* runs it.  Memory is the client's, sized by RqInterGetMemSizes; the work *)
(* memory and the program survive failed calls in whatever state the call  *)
(* left them, and may be initialised again for another block.              *)
(*                                                                         *)
(* The client is any sequence of legal calls.  Like the repository's own   *)
(* clients it may ignore what RqInterAddIds returns, retry a Compile that  *)
(* had too few IDs, and pass symbols in the order it asked for IDs.  Which *)
(* ID sets determine the block is the parameter FullRank (see LUDecomp for *)
(* the rank computation and CodecRecovers for what Execute computes).      *)
(***************************************************************************)
EXTENDS RqInterSizes, FiniteSets

CONSTANTS
  FullRank(_, _),  \* whether the matrix for K and a set of IDs has rank L
  BlockSizes,      \* values of K the client tries
  Extras,          \* values of nMaxExtra
  Begs, Adds,      \* arguments of RqInterAddIds
  MaxRequested     \* bound on the IDs asked for since Init

Ids == UNION {b .. b + a - 1 : b \in Begs, a \in Adds}

ASSUME ClientAssumption ==
  /\ BlockSizes \subseteq Int /\ Extras \subseteq Int
  /\ Begs \subseteq Nat /\ Adds \subseteq Nat /\ MaxRequested \in Nat

(* More rows never lower a rank. *)
ASSUME RankAssumption ==
  \A K \in BlockSizes : \A T \in SUBSET Ids : \A S \in SUBSET T :
    FullRank(K, S) \in BOOLEAN /\ (FullRank(K, S) => FullRank(K, T))

OK == 0
ENOMEM == -1
EDOM == -2
MAX_IDS_REACHED == -3
INSUFF_IDS == -4

VARIABLES
  mem,        \* arguments and results of the client's RqInterGetMemSizes
  params,     \* work memory: params
  nESI_max,   \* work memory: nESI_max
  ESIs,       \* work memory: the first nESI entries of ESIs
  prog,       \* program memory: state, K and the IDs it was compiled from
  last,       \* last call and its return value
  inited,     \* whether the last RqInterInit succeeded
  promised,   \* nK + nMaxExtra of that call
  requested,  \* IDs the client asked for since, one symbol in hand for each
  progReq,    \* what was requested when prog was compiled
  current     \* whether prog was compiled since the last RqInterInit

workVars == <<params, nESI_max, ESIs>>
clientVars == <<inited, promised, requested, progReq, current>>
vars == <<mem, params, nESI_max, ESIs, prog, last,
          inited, promised, requested, progReq, current>>

-----------------------------------------------------------------------------
NoMem == [nMaxK |-> 0, nMaxExtra |-> 0, work |-> 0, prog |-> 0, symNum |-> 0]
RawProg == [state |-> "raw", K |-> 0, ids |-> <<>>]

Init == /\ mem = NoMem
        /\ params = Unsupported /\ nESI_max = 0 /\ ESIs = <<>>
        /\ prog = RawProg
        /\ last = [op |-> "none", ret |-> OK]
        /\ inited = FALSE /\ promised = 0
        /\ requested = <<>> /\ progReq = <<>> /\ current = FALSE

GetMemSizes(nMaxK, nMaxExtra) ==
  LET P == parameters_get(nMaxK)
      ret == IF P.K = -1 THEN EDOM ELSE OK
  IN  /\ mem = NoMem
      /\ mem' = IF ret = OK THEN [nMaxK |-> nMaxK, nMaxExtra |-> nMaxExtra,
                                  work |-> WorkSize(P, nMaxExtra),
                                  prog |-> ProgSize(P, nMaxExtra),
                                  symNum |-> P.L]
                            ELSE mem
      /\ last' = [op |-> "sizes", ret |-> ret]
      /\ UNCHANGED <<workVars, prog, clientVars>>

(* RqInterInit on size bytes of work memory.  Its checks come between its  *)
(* assignments: a failed call has overwritten what precedes the check.     *)
InterInit(nK, nMaxExtra, size) ==
  LET P == parameters_get(nK)
      capacity == Capacity(size)
      ret == IF size < WorkHdr THEN ENOMEM
             ELSE IF P.K = -1 THEN EDOM
             ELSE IF capacity < nK + nMaxExtra THEN ENOMEM ELSE OK
  IN  /\ mem # NoMem
      /\ params' = IF size < WorkHdr THEN params ELSE P
      /\ nESI_max' = IF size < WorkHdr \/ P.K = -1 THEN nESI_max ELSE capacity
      /\ ESIs' = IF ret = OK THEN <<>> ELSE ESIs
      /\ inited' = (ret = OK)
      /\ promised' = nK + nMaxExtra
      /\ requested' = <<>>
      /\ current' = FALSE
      /\ last' = [op |-> "init", ret |-> ret, nK |-> nK, nMaxExtra |-> nMaxExtra, size |-> size]
      /\ UNCHANGED <<mem, prog, progReq>>

IdRange(beg, n) == [j \in 1 .. n |-> beg + j - 1]

(* How many of n more IDs fit. *)
Admitted_Unchecked(n) == n
Admitted_Bug(n) == IF Len(ESIs) + n > nESI_max THEN 0 ELSE n
Admitted(n) == IF Len(ESIs) + n > nESI_max THEN nESI_max - Len(ESIs) ELSE n

WithIds_Bug(beg, n) == IdRange(beg, n)
WithIds(beg, n) == ESIs \o IdRange(beg, n)

AddIds(beg, n) ==
  /\ inited
  /\ Len(requested) + n <= MaxRequested
  /\ ESIs' = WithIds(beg, Admitted(n))
  /\ requested' = requested \o IdRange(beg, n)
  /\ last' = [op |-> "add",
              ret |-> IF Len(ESIs) + n > nESI_max THEN MAX_IDS_REACHED ELSE OK]
  /\ UNCHANGED <<mem, params, nESI_max, prog, inited, promised, progReq, current>>

IdSet(s) == {s[j] : j \in DOMAIN s}

(* A client that could not allocate the program does not get here.         *)
(* A check for memory precedes everything; then the program is overwritten *)
(* and stays so when the rank turns out too low.                           *)
CompileRefused ==
  /\ inited /\ mem.prog # NoSize
  /\ mem.prog < MemNeeded(params, Len(ESIs))
  /\ last' = [op |-> "compile", ret |-> ENOMEM]
  /\ UNCHANGED <<mem, workVars, prog, clientVars>>

Compile ==
  LET solved == FullRank(params.K, IdSet(ESIs))
  IN  /\ inited /\ mem.prog # NoSize
      /\ mem.prog >= MemNeeded(params, Len(ESIs))
      /\ prog' = [state |-> IF solved THEN "ready" ELSE "partial",
                  K |-> params.K, ids |-> ESIs]
      /\ progReq' = requested
      /\ current' = TRUE
      /\ last' = [op |-> "compile", ret |-> IF solved THEN OK ELSE INSUFF_IDS]
      /\ UNCHANGED <<mem, workVars, inited, promised, requested>>

(* RqInterExecute of a program that compiled, on the symbols in hand: row  *)
(* l of Y is taken to be the symbol of the l-th ID of the program.         *)
Execute ==
  LET L == parameters_get(prog.K).L
  IN  /\ prog.state = "ready"
      /\ last' = [op |-> "execute",
                  ret |-> IF mem.symNum < L THEN ENOMEM ELSE OK,
                  used |-> [l \in 1 .. Len(prog.ids) |-> progReq[l]]]
      /\ UNCHANGED <<mem, workVars, prog, clientVars>>

Next ==
  \/ \E nMaxK \in BlockSizes, nMaxExtra \in Extras : GetMemSizes(nMaxK, nMaxExtra)
  \/ \E nK \in BlockSizes, nMaxExtra \in Extras, size \in {mem.work, WorkHdr - 1} :
        InterInit(nK, nMaxExtra, size)
  \/ \E beg \in Begs, n \in Adds : AddIds(beg, n)
  \/ CompileRefused
  \/ Compile
  \/ Execute

Spec == Init /\ [][Next]_vars

-----------------------------------------------------------------------------
(* Properties *)

(* The work memory never holds more IDs than nESI_max once initialised;    *)
(* lists hold IDs the client named.                                        *)
TypeOK ==
  /\ mem.work \in Int /\ mem.prog \in Int
  /\ params.K \in Int
  /\ nESI_max \in Int
  /\ ESIs \in Seq(Ids) /\ requested \in Seq(Ids)
  /\ prog.state \in {"raw", "partial", "ready"} /\ prog.ids \in Seq(Ids)
  /\ inited \in BOOLEAN /\ current \in BOOLEAN
  /\ inited => Len(ESIs) <= nESI_max

(* No write leaves the client's memory: the IDs stay inside the work       *)
(* memory and a compiled program inside the program memory, although the   *)
(* capacity of the one (Kprime + nMaxExtra IDs) exceeds what the other was *)
(* sized for when the block has padding.                                   *)
InsideMemory ==
  /\ inited => WorkHdr + Word * Len(ESIs) <= mem.work
  /\ prog.state # "raw" =>
       LET P == parameters_get(prog.K)
           n_rows == Len(prog.ids) + P.Kprime - P.K + P.S + P.H
       IN  ProgHdr + Word * n_rows + n_rows * P.L <= mem.prog

(* The sizes RqInterGetMemSizes reports for nMaxK and nMaxExtra are enough *)
(* for every smaller block and every smaller overhead: Init accepts it,    *)
(* AddIds takes what Init was promised, Compile has room for nK +          *)
(* nMaxExtra IDs, Execute's block fits.                                    *)
SizesSuffice ==
  /\ last.op = "init" /\ last.size = mem.work /\ last.ret = ENOMEM /\ promised >= 0 =>
       last.nK > mem.nMaxK \/ last.nMaxExtra > mem.nMaxExtra
  /\ last.op = "add" /\ last.ret = MAX_IDS_REACHED => Len(requested) > promised
  /\ last.op = "compile" /\ last.ret = ENOMEM =>
       params.K > mem.nMaxK \/ Len(ESIs) > params.K + mem.nMaxExtra
  /\ last.op = "execute" /\ last.ret = ENOMEM => prog.K > mem.nMaxK

(* Execute pairs the symbols a client holds in the order it asked for IDs  *)
(* with the IDs the program was compiled from, even if the client ignored  *)
(* MAX_IDS_REACHED, asked for more, or asked again for the same IDs.       *)
RightSymbols == last.op = "execute" => last.used = prog.ids

(* A Compile with at least the IDs of a compiled program finds enough.     *)
StaysDecodable ==
  prog.state = "ready" /\ current /\ last'.op = "compile" => last'.ret # INSUFF_IDS

(* A client that keeps adding IDs never loses a block it could decode: a   *)
(* later RqInterCompile for the same RqInterInit is not refused for too    *)
(* few IDs.                                                                *)
OnceDecodable == [][StaysDecodable]_vars

=============================================================================
