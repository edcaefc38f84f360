------------------------------ MODULE RqOutApi ------------------------------
(***************************************************************************)
(* The RqOut... half of src/api/tvrq_api.c: a client announces how many    *)
(* symbols it wants, lists their IDs, and gets a program that computes     *)
(* them from the intermediate block.  The program is a byte copy of the    *)
(* work memory: the two structures are declared alike.                     *)
(*                                                                         *)
(* The client is any sequence of legal calls; it may list fewer or more    *)
(* IDs than announced and ignore what RqOutAddIds returns.                 *)
(***************************************************************************)
EXTENDS RqParams

CONSTANTS
  Hdr,             \* sizeof(RqOutWorkMem) = sizeof(RqOutProgram)
  Word,            \* sizeof(uint32_t)
  BlockSizes,      \* values of K the client tries
  SymNums,         \* values of nOutSymNum
  Begs, Adds,      \* arguments of RqOutAddIds
  MaxRequested     \* bound on the IDs asked for since Init

ASSUME OutAssumption ==
  /\ Hdr \in Nat \ {0} /\ Word \in Nat \ {0}
  /\ BlockSizes \subseteq Int /\ SymNums \subseteq Nat
  /\ Begs \subseteq Nat /\ Adds \subseteq Nat /\ MaxRequested \in Nat

OK == 0
ENOMEM == -1
EDOM == -2
MAX_IDS_REACHED == -3

VARIABLES
  mem,        \* nOutSymNum and the sizes of the client's memories
  params,     \* work memory: params
  nESI_max,   \* work memory: nESI_max
  ESIs,       \* work memory: the first nESI entries of ESIs
  prog,       \* program memory: params.K and ESIs; <<>> while raw
  last,       \* last call and its return value
  inited,     \* whether the last RqOutInit succeeded
  requested,  \* IDs the client asked for since
  progReq     \* what was requested when prog was compiled

workVars == <<params, nESI_max, ESIs>>
clientVars == <<inited, requested, progReq>>
vars == <<mem, params, nESI_max, ESIs, prog, last, inited, requested, progReq>>

NoMem == [nOut |-> 0, work |-> 0, prog |-> 0]

Init == /\ mem = NoMem
        /\ params = Unsupported /\ nESI_max = 0 /\ ESIs = <<>>
        /\ prog = <<>>
        /\ last = [op |-> "none", ret |-> OK]
        /\ inited = FALSE /\ requested = <<>> /\ progReq = <<>>

-----------------------------------------------------------------------------
(* sz of RqOutGetMemSizes and of RqOutCompile. *)
Bytes(n) == Hdr + Word * n

ReportedSize_Bug(n) == Bytes(n + 1)
ReportedSize(n) == Bytes(n)

GetMemSizes(nOutSymNum) ==
  /\ mem = NoMem
  /\ mem' = [nOut |-> nOutSymNum,
             work |-> ReportedSize(nOutSymNum), prog |-> ReportedSize(nOutSymNum)]
  /\ last' = [op |-> "sizes", ret |-> OK]
  /\ UNCHANGED <<workVars, prog, clientVars>>

Capacity_Bug(size) == size \div Word
Capacity(size) == (size - Hdr) \div Word

(* RqOutInit on size bytes of work memory; params is overwritten before it *)
(* is known to be supported.                                               *)
OutInit(nK, size) ==
  LET P == parameters_get(nK)
      ret == IF Hdr > size THEN ENOMEM ELSE IF P.K = -1 THEN EDOM ELSE OK
  IN  /\ mem # NoMem
      /\ params' = IF Hdr > size THEN params ELSE P
      /\ nESI_max' = IF ret = OK THEN Capacity(size) ELSE nESI_max
      /\ ESIs' = IF ret = OK THEN <<>> ELSE ESIs
      /\ inited' = (ret = OK)
      /\ requested' = <<>>
      /\ last' = [op |-> "init", ret |-> ret]
      /\ UNCHANGED <<mem, prog, progReq>>

IdRange(beg, n) == [j \in 1 .. n |-> beg + j - 1]

Admitted_Unchecked(n) == n
Admitted_Bug(n) == IF Len(ESIs) + n > nESI_max THEN 0 ELSE n
Admitted(n) == IF Len(ESIs) + n > nESI_max THEN nESI_max - Len(ESIs) ELSE n

AddIds(beg, n) ==
  /\ inited
  /\ Len(requested) + n <= MaxRequested
  /\ ESIs' = ESIs \o IdRange(beg, Admitted(n))
  /\ requested' = requested \o IdRange(beg, n)
  /\ last' = [op |-> "add",
              ret |-> IF Len(ESIs) + n > nESI_max THEN MAX_IDS_REACHED ELSE OK]
  /\ UNCHANGED <<mem, params, nESI_max, prog, inited, progReq>>

(* The check refuses a program memory larger than the copy. *)
CompileRefused ==
  /\ inited
  /\ Bytes(Len(ESIs)) < mem.prog
  /\ last' = [op |-> "compile", ret |-> ENOMEM, bytes |-> Bytes(Len(ESIs))]
  /\ UNCHANGED <<mem, workVars, prog, clientVars>>

Compile ==
  /\ inited
  /\ Bytes(Len(ESIs)) >= mem.prog
  /\ prog' = [K |-> params.K, ids |-> ESIs]
  /\ progReq' = requested
  /\ last' = [op |-> "compile", ret |-> OK, bytes |-> Bytes(Len(ESIs))]
  /\ UNCHANGED <<mem, workVars, inited, requested>>

(* RqOutExecute: one output row per ID, in the order of the program, into  *)
(* a buffer for rows symbols.                                              *)
Execute(rows) ==
  /\ prog # <<>>
  /\ last' = IF rows < Len(prog.ids)
               THEN [op |-> "execute", ret |-> ENOMEM]
               ELSE [op |-> "execute", ret |-> OK, rows |-> prog.ids]
  /\ UNCHANGED <<mem, workVars, prog, clientVars>>

Next ==
  \/ \E nOutSymNum \in SymNums : GetMemSizes(nOutSymNum)
  \/ \E nK \in BlockSizes, size \in {mem.work, Hdr - 1} : OutInit(nK, size)
  \/ \E beg \in Begs, n \in Adds : AddIds(beg, n)
  \/ CompileRefused
  \/ Compile
  \/ \E rows \in SymNums : Execute(rows)

Spec == Init /\ [][Next]_vars

-----------------------------------------------------------------------------
(* Properties *)

(* The list of IDs never exceeds its capacity, once initialised. *)
TypeOK ==
  /\ mem.nOut \in Nat /\ mem.work \in Nat /\ mem.prog \in Nat
  /\ params.K \in Int
  /\ nESI_max \in Int
  /\ ESIs \in Seq(Int) /\ requested \in Seq(Int) /\ progReq \in Seq(Int)
  /\ prog # <<>> => prog.ids \in Seq(Int)
  /\ inited \in BOOLEAN
  /\ inited => Len(ESIs) <= nESI_max

(* RqOutCompile's check does not keep the copy inside the program memory;  *)
(* that the list cannot outgrow the work memory, which was sized alike,    *)
(* does.                                                                   *)
CopyStaysInside ==
  last.op = "compile" /\ last.ret = OK => last.bytes <= mem.prog

(* A client that lists exactly as many IDs as it announced gets a program  *)
(* for them.                                                               *)
AnnouncedCompiles ==
  last.op = "compile" /\ Len(requested) = mem.nOut =>
    last.ret = OK /\ prog.ids = requested

(* Row l of the output is the symbol of the l-th ID the client asked for,  *)
(* also when it asked for too many and ignored MAX_IDS_REACHED.            *)
OutputInOrder ==
  last.op = "execute" /\ last.ret = OK =>
    \A l \in DOMAIN last.rows : last.rows[l] = progReq[l]

(* What the error says, "Not enough memory for OutProgMem.": Compile       *)
(* refuses only a program memory too small for the program.                *)
RefusedOnlyIfTooSmall ==
  last.op = "compile" /\ last.ret = ENOMEM => mem.prog < last.bytes

=============================================================================
