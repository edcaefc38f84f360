-------------------------- MODULE RqInterApiProofs --------------------------
(***************************************************************************)
(* Proofs about RqInterApi, for every table of parameters, every rank that *)
(* is monotone in the IDs, and clients of any size.                        *)
(***************************************************************************)
EXTENDS RqInterApi, SequenceTheorems, TLAPS

(* Products of naturals are monotone. *)
LEMMA MulMonotone ==
  ASSUME NEW a \in Nat, NEW b \in Nat, NEW c \in Nat, NEW d \in Nat, a <= b, c <= d
  PROVE  a * c <= b * d
<1>1. a * c <= b * c
  BY SMT
<1>2. b * c <= b * d
  BY SMT
<1> QED BY <1>1, <1>2

IsSupported(K) == parameters_get(K).K # -1

(* A supported K has the parameters of the first row it fits. *)
LEMMA SupportedRow ==
  ASSUME NEW K \in Int, IsSupported(K)
  PROVE  \E n \in DOMAIN ParamSets : /\ FirstFit(K, n)
                                     /\ parameters_get(K) = Derived(K, ParamSets[n])
                                     /\ K > 0
<1>1. /\ K > 0
      /\ \E n \in DOMAIN ParamSets : FirstFit(K, n)
      /\ parameters_get(K)
           = Derived(K, ParamSets[CHOOSE n \in DOMAIN ParamSets : FirstFit(K, n)])
  BY DEF IsSupported, parameters_get, Unsupported
<1> QED BY <1>1

(* The parameters the API computes with are what the table promises. *)
LEMMA ParamsType ==
  ASSUME NEW K \in Int, IsSupported(K)
  PROVE  LET P == parameters_get(K)
         IN  /\ P.K = K /\ K > 0 /\ K <= P.Kprime
             /\ P.Kprime \in Nat /\ P.S \in Nat /\ P.H \in Nat
             /\ P.L = P.Kprime + P.S + P.H
<1>1. PICK n \in DOMAIN ParamSets : /\ FirstFit(K, n)
                                    /\ parameters_get(K) = Derived(K, ParamSets[n])
                                    /\ K > 0
  BY SupportedRow
<1>2. IsParamSet(ParamSets[n])
  BY TableAssumption DEF IsTable
<1> QED BY <1>1, <1>2 DEF Derived, FirstFit, IsParamSet

(* A larger block has no smaller parameters. *)
LEMMA ParamsMonotone ==
  ASSUME NEW K \in Int, NEW M \in Int, IsSupported(K), IsSupported(M), K <= M
  PROVE  LET P == parameters_get(K)
             Q == parameters_get(M)
         IN  P.Kprime <= Q.Kprime /\ P.S <= Q.S /\ P.H <= Q.H /\ P.L <= Q.L
<1>1. PICK m \in DOMAIN ParamSets : /\ FirstFit(K, m)
                                    /\ parameters_get(K) = Derived(K, ParamSets[m])
  BY SupportedRow
<1>2. PICK n \in DOMAIN ParamSets : /\ FirstFit(M, n)
                                    /\ parameters_get(M) = Derived(M, ParamSets[n])
  BY SupportedRow
<1>3. IsParamSet(ParamSets[m]) /\ IsParamSet(ParamSets[n])
  BY TableAssumption DEF IsTable
<1>4. m <= n
  <2>1. DOMAIN ParamSets = 1 .. Len(ParamSets) /\ Len(ParamSets) \in Nat
    BY TableAssumption DEF IsTable
  <2> SUFFICES ASSUME n < m PROVE FALSE
    BY <2>1
  <2>2. K > ParamSets[n].Kprime
    BY <1>1, <2>1 DEF FirstFit
  <2>3. M <= ParamSets[n].Kprime
    BY <1>2 DEF FirstFit
  <2> QED BY <1>3, <2>2, <2>3 DEF IsParamSet
<1>5. /\ ParamSets[m].Kprime <= ParamSets[n].Kprime
      /\ ParamSets[m].S <= ParamSets[n].S
      /\ ParamSets[m].H <= ParamSets[n].H
  <2>1. CASE m = n
    BY <1>3, <2>1 DEF IsParamSet
  <2>2. CASE m < n
    <3>1. /\ ParamSets[m].Kprime < ParamSets[n].Kprime
          /\ ParamSets[m].S <= ParamSets[n].S
          /\ ParamSets[m].H <= ParamSets[n].H
      BY <2>2, TableAssumption DEF IsTable
    <3> QED BY <1>3, <3>1 DEF IsParamSet
  <2> QED BY <1>4, <2>1, <2>2, TableAssumption DEF IsTable
<1> QED BY <1>1, <1>2, <1>3, <1>5 DEF Derived, IsParamSet

(* The heart of the size computation: a program sized for nMaxK and        *)
(* nMaxExtra holds any matrix of a smaller block with nK + nMaxExtra IDs.  *)
LEMMA ProgramFits ==
  ASSUME NEW K \in Int, NEW M \in Int, IsSupported(K), IsSupported(M), K <= M,
         NEW extra \in Int, NEW nESI \in Nat, nESI <= K + extra,
         ProgSize(parameters_get(M), extra) # NoSize
  PROVE  MemNeeded(parameters_get(K), nESI) <= ProgSize(parameters_get(M), extra)
<1> DEFINE P == parameters_get(K)
           Q == parameters_get(M)
           rows == NRows(P, nESI)
           maxRows == extra + Q.Kprime + Q.S + Q.H
<1>1. /\ P.K = K /\ K > 0 /\ K <= P.Kprime
      /\ P.Kprime \in Nat /\ P.S \in Nat /\ P.H \in Nat
      /\ P.L = P.Kprime + P.S + P.H
  BY ParamsType
<1>2. /\ Q.Kprime \in Nat /\ Q.S \in Nat /\ Q.H \in Nat
      /\ Q.L = Q.Kprime + Q.S + Q.H
  BY ParamsType
<1>3. P.Kprime <= Q.Kprime /\ P.S <= Q.S /\ P.H <= Q.H /\ P.L <= Q.L
  BY ParamsMonotone
<1>4. rows \in Nat /\ maxRows \in Nat /\ rows <= maxRows
  BY <1>1, <1>2, <1>3 DEF NRows
<1>5. P.L \in Nat /\ Q.L \in Nat
  BY <1>1, <1>2
<1>6. rows * P.L <= maxRows * Q.L
  BY <1>3, <1>4, <1>5, MulMonotone
<1>7. Word * rows <= Word * maxRows
  BY <1>4, SizeAssumption, MulMonotone
<1>8. ProgSize(Q, extra) = ProgHdr + Word * maxRows + maxRows * Q.L
  BY DEF ProgSize
<1>9. MemNeeded(P, nESI) = ProgHdr + Word * rows + rows * P.L
  BY DEF MemNeeded
<1>10. /\ Word * rows \in Int /\ Word * maxRows \in Int
       /\ rows * P.L \in Int /\ maxRows * Q.L \in Int /\ ProgHdr \in Int
  BY <1>4, <1>5, SizeAssumption
<1> HIDE DEF P, Q, rows, maxRows
<1>11. ProgHdr + Word * rows + rows * P.L <= ProgHdr + Word * maxRows + maxRows * Q.L
  BY <1>6, <1>7, <1>10
<1> QED BY <1>8, <1>9, <1>11 DEF P, Q

-----------------------------------------------------------------------------
(* The inductive invariant *)

(* Memory was sized by RqInterGetMemSizes for a supported block. *)
MemSized ==
  mem # NoMem =>
    LET P == parameters_get(mem.nMaxK)
    IN  /\ mem.nMaxK \in Int /\ IsSupported(mem.nMaxK)
        /\ mem.nMaxExtra \in Int
        /\ mem.work = WorkSize(P, mem.nMaxExtra)
        /\ mem.prog = ProgSize(P, mem.nMaxExtra)
        /\ mem.symNum = P.L

(* s is a list of IDs that starts the list t. *)
StartOf(s, t) == Len(s) <= Len(t) /\ \A j \in 1 .. Len(s) : s[j] = t[j]

(* Even work memory that a failed Init left behind holds numbers. *)
WorkTyped == params.K \in Int /\ nESI_max \in Int

Lists == /\ ESIs \in Seq(Ids) /\ requested \in Seq(Ids) /\ progReq \in Seq(Ids)
         /\ prog.ids \in Seq(Ids)
         /\ inited \in BOOLEAN /\ current \in BOOLEAN
         /\ prog.state \in {"raw", "partial", "ready"}

(* An initialised work memory: its capacity is what fits, and it holds the *)
(* longest part of the request that fits.                                  *)
WorkReady ==
  inited =>
    /\ mem # NoMem /\ mem.work >= WorkHdr
    /\ params.K \in BlockSizes /\ IsSupported(params.K)
    /\ params = parameters_get(params.K)
    /\ nESI_max = Capacity(mem.work) /\ nESI_max \in Int
    /\ promised \in Int /\ promised <= nESI_max
    /\ Len(ESIs) <= nESI_max
    /\ StartOf(ESIs, requested)
    /\ Len(ESIs) = Len(requested) \/ Len(ESIs) = nESI_max

(* A program is inside its memory, was compiled from the start of a list   *)
(* of requested IDs, and determines the block if it is ready.              *)
ProgWritten ==
  prog.state # "raw" =>
    /\ mem # NoMem
    /\ prog.K \in BlockSizes /\ IsSupported(prog.K)
    /\ MemNeeded(parameters_get(prog.K), Len(prog.ids)) <= mem.prog
    /\ StartOf(prog.ids, progReq)
    /\ prog.state = "ready" => FullRank(prog.K, IdSet(prog.ids))

(* While no RqInterInit intervened, the work memory extends the program.   *)
ProgCurrent ==
  current => inited /\ prog.K = params.K /\ StartOf(prog.ids, ESIs)

IInv == MemSized /\ WorkTyped /\ Lists /\ WorkReady /\ ProgWritten /\ ProgCurrent

(* A range of IDs the client names is a list of IDs. *)
LEMMA IdRangeType ==
  ASSUME NEW beg \in Begs, NEW n \in Adds, NEW m \in 0 .. n
  PROVE  /\ IdRange(beg, m) \in Seq(Ids)
         /\ Len(IdRange(beg, m)) = m
         /\ \A j \in 1 .. m : IdRange(beg, m)[j] = IdRange(beg, n)[j]
<1>1. beg \in Nat /\ n \in Nat /\ m \in Nat
  BY ClientAssumption
<1>2. \A j \in 1 .. m : beg + j - 1 \in Ids
  <2> SUFFICES ASSUME NEW j \in 1 .. m PROVE beg + j - 1 \in Ids
    OBVIOUS
  <2>1. beg + j - 1 \in beg .. beg + n - 1
    BY <1>1
  <2> DEFINE Ranges == {b .. b + a - 1 : b \in Begs, a \in Adds}
             range == beg .. beg + n - 1
             id == beg + j - 1
  <2>2. range \in Ranges
    OBVIOUS
  <2>3. Ids = UNION Ranges /\ id \in range
    BY <2>1 DEF Ids
  <2> HIDE DEF Ranges, range, id
  <2>4. id \in Ids
    BY <2>2, <2>3
  <2> QED BY <2>4 DEF id
<1>3. IdRange(beg, m) \in [1 .. m -> Ids]
  BY <1>2 DEF IdRange
<1>4. IdRange(beg, m) \in Seq(Ids)
  BY <1>1, <1>3, SeqDef
<1>5. Len(IdRange(beg, m)) = m
  BY <1>1, <1>3
<1> QED BY <1>1, <1>4, <1>5 DEF IdRange

(* What a list is after another of length len was appended to it. *)
IsAppended(t, s, r, len) ==
  /\ t \in Seq(Ids) /\ Len(t) = Len(s) + len
  /\ \A j \in 1 .. Len(s) + len :
       t[j] = IF j <= Len(s) THEN s[j] ELSE r[j - Len(s)]

LEMMA Appended ==
  ASSUME NEW s, s \in Seq(Ids), NEW r, r \in Seq(Ids),
         NEW t, t = s \o r, NEW len, len = Len(r)
  PROVE  IsAppended(t, s, r, len)
BY ConcatProperties DEF IsAppended

LEMMA InitIInv == Init => IInv
<1> SUFFICES ASSUME Init PROVE IInv
  OBVIOUS
<1>1. <<>> \in Seq(Ids)
  OBVIOUS
<1>2. WorkTyped
  BY DEF Init, WorkTyped, Unsupported
<1>3. Lists
  BY <1>1 DEF Init, Lists, RawProg
<1> QED BY <1>2, <1>3 DEF Init, IInv, MemSized, WorkReady, ProgWritten, ProgCurrent, RawProg

LEMMA GetMemSizesIInv ==
  ASSUME IInv, NEW nMaxK \in BlockSizes, NEW nMaxExtra \in Extras, GetMemSizes(nMaxK, nMaxExtra)
  PROVE  IInv'
<1>1. nMaxK \in Int /\ nMaxExtra \in Int
  BY ClientAssumption
<1>2. UNCHANGED <<params, nESI_max, ESIs, prog, inited, promised, requested, progReq, current>>
  BY DEF GetMemSizes, workVars, clientVars
<1>3. mem = NoMem
  BY DEF GetMemSizes
<1>4. MemSized'
  <2>1. CASE mem' = mem
    BY <1>3, <2>1 DEF MemSized
  <2>2. CASE mem' # mem
    <3>1. /\ parameters_get(nMaxK).K # -1
          /\ mem' = [nMaxK |-> nMaxK, nMaxExtra |-> nMaxExtra,
                     work |-> WorkSize(parameters_get(nMaxK), nMaxExtra),
                     prog |-> ProgSize(parameters_get(nMaxK), nMaxExtra),
                     symNum |-> parameters_get(nMaxK).L]
      BY <2>2 DEF GetMemSizes, OK, EDOM
    <3> QED BY <1>1, <3>1 DEF MemSized, IsSupported
  <2> QED BY <2>1, <2>2
<1>5. ~inited /\ ~current /\ prog.state = "raw"
  BY <1>3 DEF IInv, WorkReady, ProgWritten, ProgCurrent, Lists
<1> QED BY <1>2, <1>4, <1>5 DEF IInv, WorkTyped, Lists, WorkReady, ProgWritten, ProgCurrent

(* Work memory the client sized has a size. *)
LEMMA WorkSized ==
  ASSUME MemSized, mem # NoMem
  PROVE  mem.work \in Int
<1>1. /\ mem.nMaxK \in Int /\ IsSupported(mem.nMaxK) /\ mem.nMaxExtra \in Int
      /\ mem.work = WorkSize(parameters_get(mem.nMaxK), mem.nMaxExtra)
  BY DEF MemSized
<1>2. parameters_get(mem.nMaxK).Kprime \in Nat
  BY <1>1, ParamsType
<1>3. (mem.nMaxExtra + parameters_get(mem.nMaxK).Kprime) * Word \in Int
  BY <1>1, <1>2, SizeAssumption
<1> QED BY <1>1, <1>3, SizeAssumption DEF WorkSize

LEMMA InterInitIInv ==
  ASSUME IInv, NEW nK \in BlockSizes, NEW nMaxExtra \in Extras,
         NEW size \in {mem.work, WorkHdr - 1}, InterInit(nK, nMaxExtra, size)
  PROVE  IInv'
<1>1. nK \in Int /\ nMaxExtra \in Int /\ nMaxExtra \in Int
  BY ClientAssumption
<1>2. /\ mem # NoMem /\ ~current' /\ requested' = <<>>
      /\ ESIs' = ESIs \/ ESIs' = <<>>
      /\ UNCHANGED <<mem, prog, progReq>>
      /\ inited' \in BOOLEAN /\ current' \in BOOLEAN
      /\ params' \in {params, parameters_get(nK)} /\ nESI_max' \in {nESI_max, Capacity(size)}
  BY DEF InterInit
<1>3. MemSized' /\ Lists' /\ ProgWritten' /\ ProgCurrent'
  BY <1>2, EmptySeq DEF IInv, MemSized, Lists, ProgWritten, ProgCurrent
<1>4. mem.work \in Int
  BY <1>2, WorkSized DEF IInv
<1>5. WorkReady'
  <2> SUFFICES ASSUME inited' PROVE WorkReady'
    BY DEF WorkReady
  <2>1. /\ size >= WorkHdr /\ parameters_get(nK).K # -1
        /\ ~(Capacity(size) < nK + nMaxExtra)
        /\ params' = parameters_get(nK) /\ nESI_max' = Capacity(size)
        /\ ESIs' = <<>> /\ promised' = nK + nMaxExtra
    <3> DEFINE P == parameters_get(nK)
               capacity == Capacity(size)
               ret == IF size < WorkHdr THEN ENOMEM
                      ELSE IF P.K = -1 THEN EDOM
                      ELSE IF capacity < nK + nMaxExtra THEN ENOMEM ELSE OK
    <3>1. /\ ret = OK
          /\ params' = IF size < WorkHdr THEN params ELSE P
          /\ nESI_max' = IF size < WorkHdr \/ P.K = -1 THEN nESI_max ELSE capacity
          /\ ESIs' = IF ret = OK THEN <<>> ELSE ESIs
          /\ promised' = nK + nMaxExtra
      BY DEF InterInit
    <3>2. ~(size < WorkHdr) /\ P.K # -1 /\ ~(capacity < nK + nMaxExtra)
      BY <3>1 DEF OK, ENOMEM, EDOM
    <3>3. size \in Int
      BY <1>4, SizeAssumption
    <3>4. size >= WorkHdr
      BY <3>2, <3>3, SizeAssumption
    <3> QED BY <3>1, <3>2, <3>4
  <2>2. size = mem.work
    BY <2>1, SizeAssumption
  <2>4. Capacity(mem.work) \in Nat
    BY <2>1, <2>2, <1>4, SizeAssumption DEF Capacity
  <2>5. params'.K = nK /\ params' = parameters_get(nK)
    BY <1>1, <2>1, ParamsType DEF IsSupported
  <2>6. Len(ESIs') = 0 /\ Len(requested') = 0
    BY <1>2, <2>1
  <2> QED BY <1>1, <1>2, <2>1, <2>2, <2>4, <2>5, <2>6 DEF WorkReady, StartOf, IsSupported
<1>6. WorkTyped'
  <2>1. params'.K \in Int
    <3>1. parameters_get(nK).K \in Int
      BY <1>1, ParamsType DEF IsSupported
    <3> QED BY <1>2, <3>1 DEF IInv, WorkTyped
  <2>2. Capacity(size) \in Int
    BY <1>4, SizeAssumption DEF Capacity
  <2> QED BY <1>2, <2>1, <2>2 DEF IInv, WorkTyped
<1> QED BY <1>3, <1>5, <1>6 DEF IInv

LEMMA AddIdsIInv ==
  ASSUME IInv, NEW beg \in Begs, NEW n \in Adds, AddIds(beg, n)
  PROVE  IInv'
<1> DEFINE m == Admitted(n)
<1>1. n \in Nat /\ Len(ESIs) \in Nat /\ nESI_max \in Int /\ Len(ESIs) <= nESI_max
  BY ClientAssumption, LenProperties DEF IInv, AddIds, Lists, WorkReady
<1>2. m \in 0 .. n /\ Len(ESIs) + m <= nESI_max /\ (m = n \/ Len(ESIs) + m = nESI_max)
  BY <1>1 DEF Admitted
<1>3. /\ IdRange(beg, m) \in Seq(Ids) /\ Len(IdRange(beg, m)) = m
      /\ IdRange(beg, n) \in Seq(Ids) /\ Len(IdRange(beg, n)) = n
      /\ \A j \in 1 .. m : IdRange(beg, m)[j] = IdRange(beg, n)[j]
  BY <1>1, <1>2, IdRangeType
<1>4. /\ ESIs \in Seq(Ids) /\ requested \in Seq(Ids) /\ inited
      /\ ESIs' = ESIs \o IdRange(beg, m)
      /\ requested' = requested \o IdRange(beg, n)
      /\ UNCHANGED <<mem, params, nESI_max, prog, inited, promised, progReq, current>>
  BY DEF IInv, Lists, AddIds, WithIds
<1>a. IsAppended(ESIs', ESIs, IdRange(beg, m), m)
  BY <1>3, <1>4, Appended
<1>b. IsAppended(requested', requested, IdRange(beg, n), n)
  BY <1>3, <1>4, Appended
<1>5. /\ ESIs' \in Seq(Ids) /\ Len(ESIs') = Len(ESIs) + m
      /\ \A j \in 1 .. Len(ESIs) + m :
           ESIs'[j] = IF j <= Len(ESIs) THEN ESIs[j] ELSE IdRange(beg, m)[j - Len(ESIs)]
  BY <1>a DEF IsAppended
<1>6. /\ requested' \in Seq(Ids) /\ Len(requested') = Len(requested) + n
      /\ \A j \in 1 .. Len(requested) + n :
           requested'[j] = IF j <= Len(requested) THEN requested[j]
                           ELSE IdRange(beg, n)[j - Len(requested)]
  BY <1>b DEF IsAppended
<1>7. Len(requested) \in Nat
  BY <1>4, LenProperties
<1>8. /\ StartOf(ESIs, requested)
      /\ Len(ESIs) = Len(requested) \/ (Len(ESIs) = nESI_max)
  BY <1>4 DEF IInv, WorkReady
<1> HIDE DEF m
<1>9. StartOf(ESIs', requested')
  <2>1. CASE Len(ESIs) = Len(requested)
    <3>1. Len(ESIs') <= Len(requested')
      BY <1>1, <1>2, <1>5, <1>6, <2>1
    <3>2. ASSUME NEW j \in 1 .. Len(ESIs') PROVE ESIs'[j] = requested'[j]
      <4>1. j \in 1 .. Len(ESIs) + m /\ j \in 1 .. Len(requested) + n
        BY <1>1, <1>2, <1>5, <1>7, <2>1
      <4>2. CASE j <= Len(ESIs)
        BY <1>1, <1>5, <1>6, <1>8, <2>1, <4>1, <4>2 DEF StartOf
      <4>3. CASE j > Len(ESIs)
        <5>1. j - Len(ESIs) \in 1 .. m
          BY <1>1, <1>2, <4>1, <4>3
        <5> QED BY <1>1, <1>3, <1>5, <1>6, <2>1, <4>1, <4>3, <5>1
      <4> QED BY <1>1, <4>1, <4>2, <4>3
    <3> QED BY <3>1, <3>2 DEF StartOf
  <2>2. CASE Len(ESIs) = nESI_max
    <3>1. m = 0 /\ Len(ESIs') = Len(ESIs)
      BY <1>1, <1>2, <1>5, <2>2
    <3>2. \A j \in 1 .. Len(ESIs') : ESIs'[j] = ESIs[j] /\ requested'[j] = requested[j]
      BY <1>1, <1>5, <1>6, <1>7, <1>8, <3>1 DEF StartOf
    <3> QED BY <1>1, <1>6, <1>7, <1>8, <3>1, <3>2 DEF StartOf
  <2> QED BY <1>8, <2>1, <2>2
<1>10. Len(ESIs') = Len(requested') \/ Len(ESIs') = nESI_max
  BY <1>1, <1>2, <1>4, <1>5, <1>6, <1>7, <1>8
<1>11. WorkReady'
  BY <1>2, <1>4, <1>5, <1>9, <1>10 DEF IInv, WorkReady
<1>12. ProgCurrent'
  <2> SUFFICES ASSUME current PROVE StartOf(prog.ids, ESIs')
    BY <1>4 DEF IInv, ProgCurrent
  <2>1. StartOf(prog.ids, ESIs) /\ prog.ids \in Seq(Ids) /\ Len(prog.ids) \in Nat
    BY LenProperties DEF IInv, ProgCurrent, Lists
  <2> QED BY <1>1, <1>2, <1>5, <2>1 DEF StartOf
<1> QED BY <1>4, <1>5, <1>6, <1>11, <1>12 DEF IInv, MemSized, WorkTyped, Lists, ProgWritten

(* The program memory has a size. *)
LEMMA ProgSized ==
  ASSUME MemSized
  PROVE  mem.prog \in Int
<1>1. CASE mem = NoMem
  BY <1>1 DEF NoMem
<1>2. CASE mem # NoMem
  <2> DEFINE Q == parameters_get(mem.nMaxK)
             r == mem.nMaxExtra + Q.Kprime + Q.S + Q.H
  <2>1. /\ mem.nMaxK \in Int /\ IsSupported(mem.nMaxK) /\ mem.nMaxExtra \in Int
        /\ mem.prog = ProgSize(Q, mem.nMaxExtra)
    BY <1>2 DEF MemSized
  <2>2. Q.Kprime \in Nat /\ Q.S \in Nat /\ Q.H \in Nat /\ Q.L = Q.Kprime + Q.S + Q.H
    BY <2>1, ParamsType
  <2>3. r \in Int /\ Q.L \in Int
    BY <2>1, <2>2
  <2>4. ProgSize(Q, mem.nMaxExtra) \in {ProgHdr + Word * r + r * Q.L, -1}
    BY DEF ProgSize, NoSize
  <2> HIDE DEF r
  <2>5. r * Q.L \in Int /\ Word * r \in Int /\ ProgHdr \in Int
    BY <2>3, SizeAssumption
  <2> QED BY <2>1, <2>4, <2>5
<1> QED BY <1>1, <1>2

(* So has the memory a block needs. *)
LEMMA NeededSized ==
  ASSUME NEW K \in Int, IsSupported(K), NEW n \in Nat
  PROVE  MemNeeded(parameters_get(K), n) \in Int
<1> DEFINE P == parameters_get(K)
<1>1. P.K \in Int /\ P.Kprime \in Nat /\ P.S \in Nat /\ P.H \in Nat /\ P.L \in Nat
  BY ParamsType
<1>2. NRows(P, n) \in Int
  BY <1>1 DEF NRows
<1> HIDE DEF P
<1>3. Word * NRows(P, n) \in Int /\ NRows(P, n) * P.L \in Int
  BY <1>1, <1>2, SizeAssumption
<1>4. MemNeeded(P, n) \in Int
  BY <1>3, SizeAssumption DEF MemNeeded
<1> QED BY <1>4 DEF P

LEMMA CompileIInv ==
  ASSUME IInv, Compile
  PROVE  IInv'
<1>1. /\ inited /\ current'
      /\ mem.prog >= MemNeeded(params, Len(ESIs))
      /\ prog' = [state |-> IF FullRank(params.K, IdSet(ESIs)) THEN "ready" ELSE "partial",
                  K |-> params.K, ids |-> ESIs]
      /\ progReq' = requested
      /\ UNCHANGED <<mem, params, nESI_max, ESIs, inited, promised, requested>>
  BY DEF Compile, workVars
<1>2. /\ mem # NoMem /\ params.K \in BlockSizes /\ IsSupported(params.K)
      /\ params = parameters_get(params.K)
      /\ StartOf(ESIs, requested)
  BY <1>1 DEF IInv, WorkReady
<1>3. /\ prog'.K = params.K /\ prog'.ids = ESIs
      /\ prog'.state \in {"ready", "partial"}
      /\ prog'.state = "ready" => FullRank(params.K, IdSet(ESIs))
  BY <1>1
<1>4. MemSized' /\ WorkTyped' /\ WorkReady'
  BY <1>1 DEF IInv, MemSized, WorkTyped, WorkReady
<1>5. Lists'
  BY <1>1, <1>3 DEF IInv, Lists, Compile
<1>6. mem.prog \in Int /\ MemNeeded(params, Len(ESIs)) \in Int
  <2>2. mem.prog \in Int
    BY ProgSized DEF IInv
  <2>3. params.K \in Int /\ Len(ESIs) \in Nat
    BY <1>2, ClientAssumption, LenProperties DEF IInv, Lists
  <2>4. MemNeeded(params, Len(ESIs)) \in Int
    BY <1>2, <2>3, NeededSized
  <2> QED BY <2>2, <2>4
<1>7. ProgWritten'
  BY <1>1, <1>2, <1>3, <1>6 DEF ProgWritten
<1>8. ProgCurrent'
  <2>1. StartOf(ESIs, ESIs)
    BY LenProperties DEF StartOf, IInv, Lists
  <2> QED BY <1>1, <1>3, <2>1 DEF ProgCurrent
<1> QED BY <1>4, <1>5, <1>7, <1>8 DEF IInv

(* Every step of the protocol preserves the invariant. *)
LEMMA NextIInv == IInv /\ [Next]_vars => IInv'
<1> SUFFICES ASSUME IInv, [Next]_vars PROVE IInv'
  OBVIOUS
<1>1. ASSUME NEW nMaxK \in BlockSizes, NEW nMaxExtra \in Extras, GetMemSizes(nMaxK, nMaxExtra)
      PROVE  IInv'
  BY <1>1, GetMemSizesIInv
<1>2. ASSUME NEW nK \in BlockSizes, NEW nMaxExtra \in Extras,
             NEW size \in {mem.work, WorkHdr - 1}, InterInit(nK, nMaxExtra, size)
      PROVE  IInv'
  BY <1>2, InterInitIInv
<1>3. ASSUME NEW beg \in Begs, NEW n \in Adds, AddIds(beg, n)
      PROVE  IInv'
  BY <1>3, AddIdsIInv
<1>4. CASE Compile
  BY <1>4, CompileIInv
<1>5. ASSUME UNCHANGED <<mem, params, nESI_max, ESIs, prog,
                         inited, promised, requested, progReq, current>>
      PROVE  IInv'
  BY <1>5 DEF IInv, MemSized, WorkTyped, Lists, WorkReady, ProgWritten, ProgCurrent
<1>6. CASE CompileRefused
  BY <1>5, <1>6 DEF CompileRefused, workVars, clientVars
<1>7. CASE Execute
  BY <1>5, <1>7 DEF Execute, workVars, clientVars
<1>8. CASE UNCHANGED vars
  BY <1>5, <1>8 DEF vars
<1> QED BY <1>1, <1>2, <1>3, <1>4, <1>6, <1>7, <1>8 DEF Next

-----------------------------------------------------------------------------
(* What the invariant gives *)

(* A quotient multiplied back is no larger than the dividend. *)
LEMMA QuotientFits ==
  ASSUME NEW y \in Nat, NEW w \in Nat \ {0}, NEW x \in Nat, x <= y \div w
  PROVE  w * x <= y
<1>1. y \div w \in Nat /\ w * (y \div w) <= y
  BY SMT
<1>2. w * x <= w * (y \div w)
  BY <1>1, MulMonotone
<1>3. w * x \in Nat /\ w * (y \div w) \in Nat
  BY <1>1
<1> QED BY <1>1, <1>2, <1>3

LEMMA IInvTypes == IInv => TypeOK
<1> SUFFICES ASSUME IInv PROVE TypeOK
  OBVIOUS
<1>1. mem.work \in Int
  BY WorkSized DEF IInv, NoMem
<1>2. mem.prog \in Int
  BY ProgSized DEF IInv
<1> QED BY <1>1, <1>2 DEF IInv, WorkTyped, Lists, WorkReady, TypeOK

LEMMA IInvInside == IInv => InsideMemory
<1> SUFFICES ASSUME IInv PROVE InsideMemory
  OBVIOUS
<1>1. ASSUME inited PROVE WorkHdr + Word * Len(ESIs) <= mem.work
  <2>1. /\ mem # NoMem /\ mem.work >= WorkHdr
        /\ Len(ESIs) <= Capacity(mem.work) /\ Len(ESIs) \in Nat
    BY <1>1, LenProperties DEF IInv, WorkReady, Lists
  <2>2. mem.work \in Int
    BY <2>1, WorkSized DEF IInv
  <2>3. mem.work - WorkHdr \in Nat
    BY <2>1, <2>2, SizeAssumption
  <2>4. Word * Len(ESIs) <= mem.work - WorkHdr
    BY <2>1, <2>3, SizeAssumption, QuotientFits DEF Capacity
  <2>5. Word * Len(ESIs) \in Int
    BY <2>1, SizeAssumption
  <2> QED BY <2>2, <2>4, <2>5, SizeAssumption
<1>2. ASSUME prog.state # "raw"
      PROVE  LET P == parameters_get(prog.K)
                 n_rows == Len(prog.ids) + P.Kprime - P.K + P.S + P.H
             IN  ProgHdr + Word * n_rows + n_rows * P.L <= mem.prog
  <2> DEFINE P == parameters_get(prog.K)
             n_rows == Len(prog.ids) + P.Kprime - P.K + P.S + P.H
  <2>1. /\ prog.K \in Int /\ IsSupported(prog.K) /\ Len(prog.ids) \in Nat
        /\ MemNeeded(P, Len(prog.ids)) <= mem.prog
    BY <1>2, ClientAssumption, LenProperties DEF IInv, ProgWritten, Lists
  <2>2. P.K \in Int /\ P.Kprime \in Int /\ P.S \in Int /\ P.H \in Int
    BY <2>1, ParamsType
  <2>3. NRows(P, Len(prog.ids)) = n_rows
    BY <2>1, <2>2 DEF NRows
  <2> QED BY <2>1, <2>3 DEF MemNeeded
<1> QED BY <1>1, <1>2 DEF InsideMemory

(* The sizes reported suffice: kept by every step from the invariant. *)
LEMMA SizesSufficeInit ==
  ASSUME IInv, NEW nK \in BlockSizes, NEW nMaxExtra \in Extras,
         NEW size \in {mem.work, WorkHdr - 1}, InterInit(nK, nMaxExtra, size)
  PROVE  SizesSuffice'
<1> DEFINE P == parameters_get(nK)
           Q == parameters_get(mem.nMaxK)
<1>1. /\ last'.op = "init" /\ last'.nK = nK /\ last'.nMaxExtra = nMaxExtra
      /\ last'.size = size /\ mem' = mem /\ promised' = nK + nMaxExtra /\ mem # NoMem
      /\ last'.ret = IF size < WorkHdr THEN ENOMEM
                     ELSE IF P.K = -1 THEN EDOM
                     ELSE IF Capacity(size) < nK + nMaxExtra THEN ENOMEM ELSE OK
  BY DEF InterInit
<1>2. nK \in Int /\ nMaxExtra \in Int
  BY ClientAssumption
<1>3. /\ mem.nMaxK \in Int /\ IsSupported(mem.nMaxK) /\ mem.nMaxExtra \in Int
      /\ mem.work = WorkSize(Q, mem.nMaxExtra)
  BY <1>1 DEF IInv, MemSized
<1>4. Q.Kprime \in Nat /\ mem.nMaxK <= Q.Kprime
  BY <1>3, ParamsType
<1> HIDE DEF P, Q
<1> SUFFICES ASSUME size = mem.work, last'.ret = ENOMEM, nK + nMaxExtra >= 0,
                    nK <= mem.nMaxK, nMaxExtra <= mem.nMaxExtra
             PROVE  FALSE
  BY <1>1, <1>2, <1>3 DEF SizesSuffice
<1> DEFINE n == mem.nMaxExtra + Q.Kprime
<1>5. n \in Nat /\ nK + nMaxExtra <= n
  BY <1>2, <1>3, <1>4
<1>6. size = WorkHdr + n * Word
  BY <1>3 DEF WorkSize
<1> HIDE DEF n
<1>7. size >= WorkHdr /\ size - WorkHdr = n * Word
  BY <1>5, <1>6, SizeAssumption
<1>8. Capacity(size) = n
  <2>1. (n * Word) \div Word = n
    BY <1>5, SizeAssumption
  <2> QED BY <1>7, <2>1 DEF Capacity
<1>9. ~(size < WorkHdr) /\ ~(Capacity(size) < nK + nMaxExtra)
  BY <1>2, <1>5, <1>6, <1>7, <1>8, SizeAssumption
<1> QED BY <1>1, <1>9 DEF ENOMEM, EDOM, OK

LEMMA SizesSufficeAdd ==
  ASSUME IInv, NEW beg \in Begs, NEW n \in Adds, AddIds(beg, n)
  PROVE  SizesSuffice'
<1>1. /\ last'.op = "add" /\ inited /\ promised' = promised
      /\ last'.ret = IF Len(ESIs) + n > nESI_max THEN MAX_IDS_REACHED ELSE OK
      /\ requested' = requested \o IdRange(beg, n)
  BY DEF AddIds
<1>2. /\ promised \in Int /\ nESI_max \in Int /\ promised <= nESI_max
      /\ Len(ESIs) <= nESI_max /\ Len(ESIs) <= Len(requested)
      /\ Len(ESIs) = Len(requested) \/ Len(ESIs) = nESI_max
      /\ Len(ESIs) \in Nat /\ Len(requested) \in Nat /\ n \in Nat
  BY <1>1, ClientAssumption, LenProperties DEF IInv, WorkReady, StartOf, Lists
<1>3. Len(requested') = Len(requested) + n
  <2>1. IdRange(beg, n) \in Seq(Ids) /\ Len(IdRange(beg, n)) = n /\ requested \in Seq(Ids)
    BY <1>2, IdRangeType DEF IInv, Lists
  <2>2. IsAppended(requested', requested, IdRange(beg, n), n)
    BY <1>1, <2>1, Appended
  <2> QED BY <2>2 DEF IsAppended
<1>4. last'.ret = MAX_IDS_REACHED => Len(requested') > promised'
  BY <1>1, <1>2, <1>3 DEF MAX_IDS_REACHED, OK
<1> QED BY <1>1, <1>4 DEF SizesSuffice

LEMMA SizesSufficeRefused ==
  ASSUME IInv, CompileRefused
  PROVE  SizesSuffice'
<1>1. /\ last'.op = "compile" /\ inited /\ mem.prog # NoSize
      /\ mem.prog < MemNeeded(params, Len(ESIs))
      /\ params' = params /\ ESIs' = ESIs /\ mem' = mem
  BY DEF CompileRefused, workVars
<1>2. /\ mem # NoMem /\ params.K \in Int /\ IsSupported(params.K)
      /\ params = parameters_get(params.K) /\ Len(ESIs) \in Nat
  BY <1>1, ClientAssumption, LenProperties DEF IInv, WorkReady, Lists
<1>3. /\ mem.nMaxK \in Int /\ IsSupported(mem.nMaxK) /\ mem.nMaxExtra \in Int
      /\ mem.prog = ProgSize(parameters_get(mem.nMaxK), mem.nMaxExtra)
  BY <1>2 DEF IInv, MemSized
<1>4. ASSUME params.K <= mem.nMaxK, Len(ESIs) <= params.K + mem.nMaxExtra
      PROVE  FALSE
  <2>1. MemNeeded(parameters_get(params.K), Len(ESIs)) <= mem.prog
    BY <1>1, <1>2, <1>3, <1>4, ProgramFits
  <2>2. mem.prog \in Int /\ MemNeeded(params, Len(ESIs)) \in Int
    BY <1>2, ProgSized, NeededSized DEF IInv
  <2> QED BY <1>1, <1>2, <2>1, <2>2
<1>5. params.K > mem.nMaxK \/ Len(ESIs) > params.K + mem.nMaxExtra
  BY <1>2, <1>3, <1>4
<1> QED BY <1>1, <1>5 DEF SizesSuffice

LEMMA SizesSufficeExecute ==
  ASSUME IInv, Execute
  PROVE  SizesSuffice'
<1>1. /\ prog.state = "ready" /\ last'.op = "execute" /\ prog' = prog /\ mem' = mem
      /\ last'.ret = IF mem.symNum < parameters_get(prog.K).L THEN ENOMEM ELSE OK
  BY DEF Execute
<1>2. mem # NoMem /\ prog.K \in Int /\ IsSupported(prog.K)
  BY <1>1, ClientAssumption DEF IInv, ProgWritten
<1>3. /\ mem.nMaxK \in Int /\ IsSupported(mem.nMaxK)
      /\ mem.symNum = parameters_get(mem.nMaxK).L
  BY <1>2 DEF IInv, MemSized
<1>4. ASSUME prog.K <= mem.nMaxK PROVE last'.ret # ENOMEM
  <2>1. parameters_get(prog.K).L <= mem.symNum
    BY <1>2, <1>3, <1>4, ParamsMonotone
  <2>2. parameters_get(prog.K).L \in Int /\ mem.symNum \in Int
    BY <1>2, <1>3, ParamsType
  <2> QED BY <1>1, <2>1, <2>2 DEF ENOMEM, OK
<1> QED BY <1>1, <1>2, <1>3, <1>4 DEF SizesSuffice

LEMMA SizesSufficeNext == IInv /\ SizesSuffice /\ [Next]_vars => SizesSuffice'
<1> SUFFICES ASSUME IInv, SizesSuffice, [Next]_vars PROVE SizesSuffice'
  OBVIOUS
<1>1. ASSUME NEW nMaxK \in BlockSizes, NEW nMaxExtra \in Extras, GetMemSizes(nMaxK, nMaxExtra)
      PROVE  SizesSuffice'
  <2>1. last'.op = "sizes"
    BY <1>1 DEF GetMemSizes
  <2> QED BY <2>1 DEF SizesSuffice
<1>2. CASE Compile
  <2>1. last'.op = "compile" /\ last'.ret \in {OK, INSUFF_IDS}
    BY <1>2 DEF Compile
  <2> QED BY <2>1 DEF SizesSuffice, OK, INSUFF_IDS, ENOMEM
<1>3. CASE UNCHANGED vars
  BY <1>3 DEF vars, SizesSuffice
<1> QED BY <1>1, <1>2, <1>3, SizesSufficeInit, SizesSufficeAdd, SizesSufficeRefused,
           SizesSufficeExecute DEF Next

(* Symbols are paired with the IDs they belong to: only Execute sets them. *)
LEMMA RightSymbolsNext == IInv /\ RightSymbols /\ [Next]_vars => RightSymbols'
<1> SUFFICES ASSUME IInv, RightSymbols, [Next]_vars PROVE RightSymbols'
  OBVIOUS
<1>1. CASE Execute
  <2>1. /\ prog.state = "ready" /\ prog' = prog
        /\ last'.used = [l \in 1 .. Len(prog.ids) |-> progReq[l]]
    BY <1>1 DEF Execute
  <2>2. StartOf(prog.ids, progReq) /\ prog.ids \in Seq(Ids)
    BY <2>1 DEF IInv, ProgWritten, Lists
  <2>3. prog.ids = [l \in 1 .. Len(prog.ids) |-> prog.ids[l]]
    BY <2>2, LenProperties
  <2> QED BY <2>1, <2>2, <2>3 DEF RightSymbols, StartOf
<1>2. CASE UNCHANGED vars
  BY <1>2 DEF vars, RightSymbols
<1>3. ASSUME last'.op # "execute" PROVE RightSymbols'
  BY <1>3 DEF RightSymbols
<1> QED BY <1>1, <1>2, <1>3 DEF Next, GetMemSizes, InterInit, AddIds, CompileRefused, Compile

(* More IDs decode what fewer did. *)
LEMMA StaysDecodableNext == IInv /\ [Next]_vars => [StaysDecodable]_vars
<1> SUFFICES ASSUME IInv, Next PROVE StaysDecodable
  OBVIOUS
<1> SUFFICES ASSUME prog.state = "ready", current, last'.op = "compile"
             PROVE  last'.ret # INSUFF_IDS
  BY DEF StaysDecodable
<1>1. CASE Compile
  <2>1. /\ prog.K \in BlockSizes /\ prog.K = params.K /\ StartOf(prog.ids, ESIs)
        /\ FullRank(prog.K, IdSet(prog.ids))
        /\ prog.ids \in Seq(Ids) /\ ESIs \in Seq(Ids)
    BY DEF IInv, ProgWritten, ProgCurrent, Lists
  <2>2. DOMAIN prog.ids = 1 .. Len(prog.ids) /\ DOMAIN ESIs = 1 .. Len(ESIs)
        /\ Len(prog.ids) \in Nat /\ Len(ESIs) \in Nat
    BY <2>1, LenProperties
  <2>3. IdSet(prog.ids) \in SUBSET IdSet(ESIs)
    BY <2>1, <2>2 DEF IdSet, StartOf
  <2>4. IdSet(ESIs) \in SUBSET Ids
    BY <2>1, <2>2, ElementOfSeq DEF IdSet
  <2>5. FullRank(params.K, IdSet(ESIs))
    BY <2>1, <2>3, <2>4, RankAssumption
  <2> QED BY <1>1, <2>5 DEF Compile, OK, INSUFF_IDS
<1>2. CASE CompileRefused
  BY <1>2 DEF CompileRefused, ENOMEM, INSUFF_IDS
<1>3. Compile \/ CompileRefused
  <2>1. ~Execute
    BY DEF Execute
  <2>2. \A nMaxK, nMaxExtra : ~GetMemSizes(nMaxK, nMaxExtra)
    BY DEF GetMemSizes
  <2>3. \A nK, nMaxExtra, size : ~InterInit(nK, nMaxExtra, size)
    BY DEF InterInit
  <2>4. ASSUME NEW beg, NEW n, AddIds(beg, n) PROVE FALSE
    <3>1. last'.op = "add"
      BY <2>4 DEF AddIds
    <3> QED BY <3>1
  <2> QED BY <2>1, <2>2, <2>3, <2>4 DEF Next
<1> QED BY <1>1, <1>2, <1>3

-----------------------------------------------------------------------------
(* Theorems *)

(* The invariant is one of the protocol. *)
LEMMA Invariance == Spec => []IInv
BY InitIInv, NextIInv, PTL DEF Spec

(* Whatever the client calls, the work memory of RqInterInit and           *)
(* RqInterAddIds never holds more IDs than its capacity.                   *)
THEOREM TypeCorrect == Spec => []TypeOK
BY Invariance, IInvTypes, PTL

(* AddIds and Compile never write outside the client's memory, however     *)
(* small or large the block, and whether Init and Compile fit the sizes    *)
(* asked for or not.                                                       *)
THEOREM InsideMemoryHolds == Spec => []InsideMemory
BY Invariance, IInvInside, PTL

(* The sizes of RqInterGetMemSizes suffice for every smaller block, with   *)
(* the table of parameters monotone and no overflow in the sizes.          *)
THEOREM SizesSufficeHolds == Spec => []SizesSuffice
<1>1. Init => SizesSuffice
  BY DEF Init, SizesSuffice
<1> QED BY <1>1, Invariance, SizesSufficeNext, PTL DEF Spec

(* The symbols Execute combines are those of the IDs compiled.             *)
THEOREM RightSymbolsHolds == Spec => []RightSymbols
<1>1. Init => RightSymbols
  BY DEF Init, RightSymbols
<1> QED BY <1>1, Invariance, RightSymbolsNext, PTL DEF Spec

(* A block that could be decoded stays decodable as IDs are added.         *)
THEOREM OnceDecodableHolds == Spec => OnceDecodable
BY Invariance, StaysDecodableNext, PTL DEF Spec, OnceDecodable

=============================================================================
