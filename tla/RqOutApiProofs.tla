--------------------------- MODULE RqOutApiProofs ---------------------------
(***************************************************************************)
(* Proofs about RqOutApi, for every table of parameters and clients of any *)
(* size.                                                                   *)
(***************************************************************************)
EXTENDS RqOutApi, SequenceTheorems, TLAPS

(* Sizes are naturals, and more IDs take no fewer bytes. *)
LEMMA BytesType == ASSUME NEW n \in Nat PROVE Bytes(n) \in Nat
<1>1. Word * n \in Nat
  BY OutAssumption
<1> QED BY <1>1, OutAssumption DEF Bytes

LEMMA BytesMonotone ==
  ASSUME NEW m \in Nat, NEW n \in Nat, m <= n
  PROVE  Bytes(m) <= Bytes(n)
<1>1. Word * m <= Word * n /\ Word * m \in Nat /\ Word * n \in Nat
  BY OutAssumption, SMT
<1> QED BY <1>1, OutAssumption DEF Bytes

LEMMA BytesStrict ==
  ASSUME NEW n \in Nat
  PROVE  ~(Bytes(n) < Bytes(n))
<1>1. Bytes(n) \in Nat
  BY BytesType
<1> QED BY <1>1

(* RqOutInit recovers the number of IDs from the size of the memory. *)
LEMMA CapacityOfBytes ==
  ASSUME NEW n \in Nat
  PROVE  Capacity(Bytes(n)) = n /\ ~(Hdr > Bytes(n))
<1>1. (Word * n) \div Word = n /\ Word * n \in Nat
  BY OutAssumption, SMT
<1>2. Bytes(n) - Hdr = Word * n
  BY <1>1, OutAssumption DEF Bytes
<1>3. ~(Hdr > Bytes(n))
  BY <1>1, OutAssumption DEF Bytes
<1> QED BY <1>1, <1>2, <1>3 DEF Capacity

-----------------------------------------------------------------------------
(* The inductive invariant *)

(* Both memories were sized by RqOutGetMemSizes for as many IDs. *)
MemSized ==
  /\ mem.nOut \in Nat
  /\ mem = NoMem \/ (mem.work = Bytes(mem.nOut) /\ mem.prog = Bytes(mem.nOut))

(* s is a list of IDs that starts the list t. *)
StartOf(s, t) == Len(s) <= Len(t) /\ \A j \in 1 .. Len(s) : s[j] = t[j]

(* Even work memory that a failed Init left behind holds numbers. *)
Typed ==
  /\ params.K \in Int /\ nESI_max \in Int
  /\ ESIs \in Seq(Int) /\ requested \in Seq(Int) /\ progReq \in Seq(Int)
  /\ inited \in BOOLEAN

(* An initialised work memory has room for the IDs announced, and holds    *)
(* the longest part of the request that fits.                              *)
WorkReady ==
  inited =>
    /\ mem # NoMem
    /\ nESI_max = mem.nOut
    /\ Len(ESIs) <= nESI_max
    /\ StartOf(ESIs, requested)
    /\ Len(ESIs) = Len(requested) \/ Len(ESIs) = nESI_max

(* A program is the start of a list of requested IDs. *)
ProgWritten == prog # <<>> => prog.ids \in Seq(Int) /\ StartOf(prog.ids, progReq)

IInv == MemSized /\ Typed /\ WorkReady /\ ProgWritten

LEMMA InitIInv == Init => IInv
<1> SUFFICES ASSUME Init PROVE IInv
  OBVIOUS
<1>1. MemSized
  BY DEF Init, MemSized, NoMem
<1>2. Typed
  <2>1. params.K \in Int /\ nESI_max \in Int
    BY DEF Init, Unsupported
  <2>2. ESIs \in Seq(Int) /\ requested \in Seq(Int) /\ progReq \in Seq(Int)
    BY EmptySeq DEF Init
  <2> QED BY <2>1, <2>2 DEF Init, Typed
<1> QED BY <1>1, <1>2 DEF Init, IInv, WorkReady, ProgWritten

LEMMA GetMemSizesIInv ==
  ASSUME IInv, NEW n \in SymNums, GetMemSizes(n)
  PROVE  IInv'
<1>1. /\ n \in Nat /\ mem = NoMem
      /\ mem'.nOut = n /\ mem'.work = Bytes(n) /\ mem'.prog = Bytes(n)
      /\ UNCHANGED <<params, nESI_max, ESIs, prog, inited, requested, progReq>>
  BY OutAssumption DEF GetMemSizes, ReportedSize, workVars, clientVars
<1>2. MemSized'
  BY <1>1 DEF MemSized
<1> QED BY <1>1, <1>2 DEF IInv, Typed, WorkReady, ProgWritten

(* Whatever parameters_get returns, its K is a number. *)
LEMMA ParamsK == ASSUME NEW K \in Int PROVE parameters_get(K).K \in Int
BY DEF parameters_get, Unsupported, Derived

LEMMA OutInitIInv ==
  ASSUME IInv, NEW nK \in BlockSizes, NEW size \in {mem.work, Hdr - 1}, OutInit(nK, size)
  PROVE  IInv'
<1> DEFINE P == parameters_get(nK)
           ret == IF Hdr > size THEN ENOMEM ELSE IF P.K = -1 THEN EDOM ELSE OK
<1>1. /\ mem # NoMem /\ requested' = <<>> /\ UNCHANGED <<mem, prog, progReq>>
      /\ params' = IF Hdr > size THEN params ELSE P
      /\ nESI_max' = IF ret = OK THEN Capacity(size) ELSE nESI_max
      /\ ESIs' = IF ret = OK THEN <<>> ELSE ESIs
      /\ inited' = (ret = OK)
  BY DEF OutInit
<1>2. nK \in Int /\ P.K \in Int
  BY OutAssumption, ParamsK
<1>3. ret = OK => size = mem.work
  BY OutAssumption DEF OK, ENOMEM, EDOM
<1>4. mem.nOut \in Nat /\ mem.work = Bytes(mem.nOut)
  BY <1>1 DEF IInv, MemSized
<1>5. ret = OK => Capacity(size) = mem.nOut
  BY <1>3, <1>4, CapacityOfBytes
<1> HIDE DEF ret, P
<1>6. Typed'
  BY <1>1, <1>2, <1>4, <1>5, EmptySeq DEF IInv, Typed
<1>7. WorkReady'
  <2> SUFFICES ASSUME ret = OK PROVE WorkReady'
    BY <1>1 DEF WorkReady
  <2>1. ESIs' = <<>> /\ requested' = <<>> /\ nESI_max' = mem.nOut /\ mem' = mem
    BY <1>1, <1>5
  <2>2. Len(ESIs') = 0 /\ Len(requested') = 0
    BY <2>1
  <2> QED BY <1>1, <1>4, <2>1, <2>2 DEF WorkReady, StartOf
<1> QED BY <1>1, <1>6, <1>7 DEF IInv, MemSized, ProgWritten

(* What a list is after another was appended to it. *)
LEMMA Appended ==
  ASSUME NEW s \in Seq(Int), NEW r \in Seq(Int)
  PROVE  /\ s \o r \in Seq(Int) /\ Len(s \o r) = Len(s) + Len(r)
         /\ \A j \in 1 .. Len(s) + Len(r) :
              (s \o r)[j] = IF j <= Len(s) THEN s[j] ELSE r[j - Len(s)]
BY ConcatProperties

LEMMA IdRangeType ==
  ASSUME NEW beg \in Begs, NEW n \in Nat
  PROVE  /\ IdRange(beg, n) \in Seq(Int) /\ Len(IdRange(beg, n)) = n
         /\ \A j \in 1 .. n : IdRange(beg, n)[j] = beg + j - 1
<1>1. beg \in Nat
  BY OutAssumption
<1>2. IdRange(beg, n) \in [1 .. n -> Int]
  BY <1>1 DEF IdRange
<1>3. IdRange(beg, n) \in Seq(Int)
  BY <1>2, SeqDef
<1> QED BY <1>2, <1>3 DEF IdRange

LEMMA AddIdsIInv ==
  ASSUME IInv, NEW beg \in Begs, NEW n \in Adds, AddIds(beg, n)
  PROVE  IInv'
<1> DEFINE a == Admitted(n)
           more == IdRange(beg, a)
           asked == IdRange(beg, n)
<1>1. /\ inited /\ ESIs' = ESIs \o more /\ requested' = requested \o asked
      /\ UNCHANGED <<mem, params, nESI_max, prog, inited, progReq>>
  BY DEF AddIds
<1>2. /\ mem # NoMem /\ nESI_max = mem.nOut /\ mem.nOut \in Nat
      /\ Len(ESIs) <= nESI_max /\ StartOf(ESIs, requested)
      /\ Len(ESIs) = Len(requested) \/ Len(ESIs) = nESI_max
      /\ ESIs \in Seq(Int) /\ requested \in Seq(Int)
      /\ Len(ESIs) \in Nat /\ Len(requested) \in Nat
  BY <1>1, LenProperties DEF IInv, MemSized, Typed, WorkReady
<1>3. /\ n \in Nat /\ a \in Nat /\ a <= n /\ Len(ESIs) + a <= nESI_max
      /\ a = n \/ Len(ESIs) + a = nESI_max
  BY <1>2, OutAssumption DEF Admitted
<1> HIDE DEF a
<1>4. /\ more \in Seq(Int) /\ Len(more) = a /\ \A j \in 1 .. a : more[j] = beg + j - 1
      /\ asked \in Seq(Int) /\ Len(asked) = n /\ \A j \in 1 .. n : asked[j] = beg + j - 1
  BY <1>3, IdRangeType
<1> HIDE DEF more, asked
<1>5. /\ ESIs' \in Seq(Int) /\ Len(ESIs') = Len(ESIs) + a
      /\ \A j \in 1 .. Len(ESIs) + a :
           ESIs'[j] = IF j <= Len(ESIs) THEN ESIs[j] ELSE more[j - Len(ESIs)]
  BY <1>1, <1>2, <1>4, Appended
<1>6. /\ requested' \in Seq(Int) /\ Len(requested') = Len(requested) + n
      /\ \A j \in 1 .. Len(requested) + n :
           requested'[j] = IF j <= Len(requested) THEN requested[j] ELSE asked[j - Len(requested)]
  BY <1>1, <1>2, <1>4, Appended
<1>7. Len(ESIs) < Len(requested) => a = 0
  BY <1>2, <1>3
<1>8. StartOf(ESIs, requested)'
  <2> SUFFICES ASSUME NEW j \in 1 .. Len(ESIs) + a
               PROVE  /\ Len(ESIs) + a <= Len(requested) + n
                      /\ ESIs'[j] = requested'[j]
    BY <1>2, <1>3, <1>5, <1>6 DEF StartOf
  <2>1. Len(ESIs) + a <= Len(requested) + n
    BY <1>2, <1>3 DEF StartOf
  <2>2. CASE j <= Len(ESIs)
    <3>1. j \in 1 .. Len(ESIs) /\ j \in 1 .. Len(requested) + n /\ j <= Len(requested)
      BY <2>1, <2>2, <1>2, <1>3 DEF StartOf
    <3>2. ESIs'[j] = ESIs[j]
      BY <2>2, <1>5
    <3>3. requested'[j] = requested[j]
      BY <3>1, <1>6
    <3> QED BY <2>1, <3>1, <3>2, <3>3, <1>2 DEF StartOf
  <2>3. CASE ~(j <= Len(ESIs))
    <3>1. Len(ESIs) = Len(requested)
      BY <2>3, <1>2, <1>3, <1>7 DEF StartOf
    <3>2. j - Len(ESIs) \in 1 .. a /\ j - Len(ESIs) \in 1 .. n
      BY <2>3, <1>2, <1>3
    <3>3. ESIs'[j] = more[j - Len(ESIs)]
      BY <2>3, <1>5
    <3>4. j \in 1 .. Len(requested) + n
      BY <2>1, <1>2, <1>3
    <3>5. requested'[j] = asked[j - Len(ESIs)]
      BY <2>3, <3>1, <3>4, <1>6
    <3> QED BY <2>1, <3>2, <3>3, <3>5, <1>4
  <2> QED BY <2>2, <2>3
<1>9. WorkReady'
  <2>1. mem' # NoMem /\ nESI_max' = mem'.nOut /\ Len(ESIs') <= nESI_max'
    BY <1>1, <1>2, <1>3, <1>5
  <2>2. Len(ESIs') = Len(requested') \/ Len(ESIs') = nESI_max'
    <3>1. Len(ESIs') = Len(ESIs) + a /\ Len(requested') = Len(requested) + n
      BY <1>5, <1>6
    <3>2. Len(ESIs) + a = Len(requested) + n \/ Len(ESIs) + a = nESI_max
      <4>1. CASE Len(ESIs) = nESI_max
        <5>1. a = 0
          BY <1>2, <1>3, <4>1
        <5> QED BY <1>2, <4>1, <5>1
      <4>2. CASE Len(ESIs) = Len(requested)
        BY <1>3, <4>2
      <4> QED BY <1>2, <4>1, <4>2
    <3>3. nESI_max' = nESI_max
      BY <1>1
    <3> QED BY <3>1, <3>2, <3>3
  <2>3. StartOf(ESIs', requested')
    BY <1>8
  <2> QED BY <2>1, <2>2, <2>3 DEF WorkReady
<1> QED BY <1>1, <1>5, <1>6, <1>9 DEF IInv, MemSized, Typed, ProgWritten

LEMMA CompileIInv == ASSUME IInv, Compile PROVE IInv'
<1>1. /\ inited /\ prog'.ids = ESIs /\ progReq' = requested
      /\ UNCHANGED <<mem, params, nESI_max, ESIs, inited, requested>>
  BY DEF Compile, workVars
<1> QED BY <1>1 DEF IInv, MemSized, Typed, WorkReady, ProgWritten

LEMMA UnchangedIInv ==
  ASSUME IInv, UNCHANGED <<mem, params, nESI_max, ESIs, prog, inited, requested, progReq>>
  PROVE  IInv'
BY DEF IInv, MemSized, Typed, WorkReady, ProgWritten

(* Every call preserves the invariant. *)
LEMMA NextIInv == IInv /\ [Next]_vars => IInv'
<1> SUFFICES ASSUME IInv, [Next]_vars PROVE IInv'
  OBVIOUS
<1>1. CASE CompileRefused
  BY <1>1, UnchangedIInv DEF CompileRefused, workVars, clientVars
<1>2. ASSUME NEW rows \in SymNums, Execute(rows) PROVE IInv'
  BY <1>2, UnchangedIInv DEF Execute, workVars, clientVars
<1>3. CASE UNCHANGED vars
  BY <1>3, UnchangedIInv DEF vars
<1> QED BY <1>1, <1>2, <1>3, GetMemSizesIInv, OutInitIInv, AddIdsIInv, CompileIInv DEF Next

LEMMA Invariance == Spec => []IInv
BY InitIInv, NextIInv, PTL DEF Spec

-----------------------------------------------------------------------------
(* What the calls return *)

LEMMA IInvTypes == IInv => TypeOK
<1> SUFFICES ASSUME IInv PROVE TypeOK
  OBVIOUS
<1>1. mem.nOut \in Nat /\ mem.work \in Nat /\ mem.prog \in Nat
  BY BytesType DEF IInv, MemSized, NoMem
<1> QED BY <1>1 DEF IInv, Typed, WorkReady, ProgWritten, TypeOK

(* What a RqOutCompile has before it. *)
LEMMA BeforeCompile ==
  ASSUME IInv, inited
  PROVE  /\ mem.nOut \in Nat /\ mem.prog = Bytes(mem.nOut)
         /\ Len(ESIs) \in Nat /\ Len(ESIs) <= mem.nOut
         /\ Len(requested) = mem.nOut => ESIs = requested
<1>1. /\ mem # NoMem /\ mem.nOut \in Nat /\ mem.prog = Bytes(mem.nOut)
      /\ Len(ESIs) <= mem.nOut /\ StartOf(ESIs, requested)
      /\ Len(ESIs) = Len(requested) \/ Len(ESIs) = mem.nOut
      /\ ESIs \in Seq(Int) /\ requested \in Seq(Int)
  BY DEF IInv, MemSized, Typed, WorkReady
<1>2. ASSUME Len(requested) = mem.nOut PROVE ESIs = requested
  <2>1. Len(ESIs) = Len(requested)
    BY <1>1, <1>2
  <2> QED BY <1>1, <2>1, SeqEqual DEF StartOf
<1> QED BY <1>1, <1>2, LenProperties

LEMMA CopyNext == IInv /\ CopyStaysInside /\ [Next]_vars => CopyStaysInside'
<1> SUFFICES ASSUME IInv, CopyStaysInside, [Next]_vars PROVE CopyStaysInside'
  OBVIOUS
<1>1. CASE Compile
  <2>1. inited /\ mem' = mem /\ last'.bytes = Bytes(Len(ESIs))
    BY <1>1 DEF Compile
  <2> QED BY <2>1, BeforeCompile, BytesMonotone DEF CopyStaysInside
<1>2. CASE UNCHANGED vars
  BY <1>2 DEF vars, CopyStaysInside
<1>3. ASSUME last'.op # "compile" \/ last'.ret # OK PROVE CopyStaysInside'
  BY <1>3 DEF CopyStaysInside
<1> QED BY <1>1, <1>2, <1>3
        DEF Next, GetMemSizes, OutInit, AddIds, CompileRefused, Execute, OK, ENOMEM

LEMMA AnnouncedNext == IInv /\ AnnouncedCompiles /\ [Next]_vars => AnnouncedCompiles'
<1> SUFFICES ASSUME IInv, AnnouncedCompiles, [Next]_vars PROVE AnnouncedCompiles'
  OBVIOUS
<1>1. CASE Compile
  <2>1. /\ inited /\ mem' = mem /\ requested' = requested
        /\ last'.ret = OK /\ prog'.ids = ESIs
    BY <1>1 DEF Compile
  <2> QED BY <2>1, BeforeCompile DEF AnnouncedCompiles
<1>2. CASE CompileRefused
  <2>1. /\ inited /\ mem' = mem /\ requested' = requested
        /\ Bytes(Len(ESIs)) < mem.prog
    BY <1>2 DEF CompileRefused, clientVars
  <2>2. Len(requested) # mem.nOut
    BY <2>1, BeforeCompile, BytesStrict
  <2> QED BY <2>1, <2>2 DEF AnnouncedCompiles
<1>3. CASE UNCHANGED vars
  BY <1>3 DEF vars, AnnouncedCompiles
<1>4. ASSUME last'.op # "compile" PROVE AnnouncedCompiles'
  BY <1>4 DEF AnnouncedCompiles
<1> QED BY <1>1, <1>2, <1>3, <1>4 DEF Next, GetMemSizes, OutInit, AddIds, Execute

LEMMA OrderNext == IInv /\ OutputInOrder /\ [Next]_vars => OutputInOrder'
<1> SUFFICES ASSUME IInv, OutputInOrder, [Next]_vars PROVE OutputInOrder'
  OBVIOUS
<1>1. ASSUME NEW rows \in SymNums, Execute(rows) PROVE OutputInOrder'
  <2> SUFFICES ASSUME last'.ret = OK, NEW l \in DOMAIN last'.rows
               PROVE  last'.rows[l] = progReq'[l]
    BY DEF OutputInOrder
  <2>1. prog # <<>> /\ progReq' = progReq /\ last'.rows = prog.ids
    BY <1>1 DEF Execute, clientVars, OK, ENOMEM
  <2>2. StartOf(prog.ids, progReq) /\ DOMAIN prog.ids = 1 .. Len(prog.ids)
    BY <2>1, LenProperties DEF IInv, ProgWritten
  <2> QED BY <2>1, <2>2 DEF StartOf
<1>2. CASE UNCHANGED vars
  BY <1>2 DEF vars, OutputInOrder
<1>3. ASSUME last'.op # "execute" PROVE OutputInOrder'
  BY <1>3 DEF OutputInOrder
<1> QED BY <1>1, <1>2, <1>3 DEF Next, GetMemSizes, OutInit, AddIds, CompileRefused, Compile

-----------------------------------------------------------------------------
(* Theorems *)

(* However many IDs the client lists, the work memory of RqOutInit never   *)
(* holds more of them than its capacity.                                   *)
THEOREM TypeCorrect == Spec => []TypeOK
BY Invariance, IInvTypes, PTL

(* RqOutCompile's copy stays inside the program memory in spite of its     *)
(* inverted check.                                                         *)
THEOREM CopyStaysInsideHolds == Spec => []CopyStaysInside
<1>1. Init => CopyStaysInside
  BY DEF Init, CopyStaysInside
<1> QED BY <1>1, Invariance, CopyNext, PTL DEF Spec

(* A client that lists as many IDs as it announced gets their program from *)
(* RqOutCompile, again in spite of the check.                              *)
THEOREM AnnouncedCompilesHolds == Spec => []AnnouncedCompiles
<1>1. Init => AnnouncedCompiles
  BY DEF Init, AnnouncedCompiles
<1> QED BY <1>1, Invariance, AnnouncedNext, PTL DEF Spec

(* RqOutExecute's rows are in the order of the client's list. *)
THEOREM OutputInOrderHolds == Spec => []OutputInOrder
<1>1. Init => OutputInOrder
  BY DEF Init, OutputInOrder
<1> QED BY <1>1, Invariance, OrderNext, PTL DEF Spec

=============================================================================
