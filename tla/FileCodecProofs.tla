-------------------------- MODULE FileCodecProofs ---------------------------
(***************************************************************************)
(* Proofs about FileCodec, for every block length, every source file,      *)
(* every list of IDs and every loss.                                       *)
(***************************************************************************)
EXTENDS FileCodec, SequenceTheorems, TLAPS

Places == {"ids", "compile", "read", "execute", "write", "close", "succeeded", "failed"}
Symbols == (Nat \cup {Garbage}) \X Nat

TypesOK ==
  /\ pc \in Places
  /\ length \in Nat /\ count \in Nat
  /\ inIds \in Seq(Nat) /\ Len(inIds) > 0
  /\ outIds \in Seq(Nat) /\ Len(outIds) > 0
  /\ ids \in Seq(Nat)
  /\ input \in Seq(Symbols) /\ block \in Seq(Symbols)
  /\ enc \in Seq(Symbols) /\ output \in Seq(Symbols)
  /\ buffer \in Seq(Symbols) /\ Len(buffer) <= Buffer
  /\ status \in {0, 1}

(* The work memory holds the ID of every input symbol. *)
Taken == pc # "ids" => ids = inIds

(* The loop has counted what it has read. *)
Accounted == count + Len(input) = length

(* The symbols the file has or the stream still holds. *)
Taking == Len(output) + Len(buffer)

(* Between two iterations b whole blocks have been read and taken by the   *)
(* stream; in between one of them has been read and not taken.             *)
Blocks(b) ==
  /\ count = b * Len(inIds)
  /\ IF pc \in {"execute", "write"} THEN b > 0 /\ Taking = (b - 1) * Len(outIds)
                                    ELSE Taking = b * Len(outIds)
Leaving == pc \in {"close", "succeeded", "failed"}
WholeBlocks == ~Leaving => status = 0 /\ \E b \in Nat : Blocks(b)

(* When the stream is closed without an error it has taken all that is to  *)
(* be written; after an error there is a reason for it.                    *)
ClosesRight ==
  pc = "close" =>
    /\ status = 0 => Taking * Len(inIds) = length * Len(outIds)
    /\ status = 1 /\ Decodable(Range(inIds)) /\ length % Len(inIds) = 0 =>
         buffer = <<>> /\ ~Transcoded(length - Len(input), 0)

BlockFilled == pc = "execute" => Len(block) = Len(inIds)
BlockMade == pc = "write" => Len(enc) = Len(outIds)

IInv ==
  /\ TypesOK /\ Taken /\ Accounted /\ WholeBlocks /\ BlockFilled /\ BlockMade
  /\ ClosesRight /\ ReportsTruthfully

-----------------------------------------------------------------------------
(* Arithmetic of blocks *)

LEMMA ProductType == ASSUME NEW a \in Nat, NEW b \in Nat PROVE a * b \in Nat
  OBVIOUS

(* What is left after whole blocks and is less than one makes the length   *)
(* a non-multiple.                                                         *)
LEMMA Remainder ==
  ASSUME NEW b \in Nat, NEW len \in Nat \ {0}, NEW rest \in Nat, rest < len
  PROVE  (b * len + rest) % len = rest
<1>1. \A q, d \in Nat : d > 0 => \A r \in 0 .. d - 1 : (q * d + r) % d = r
  OBVIOUS
<1> QED BY <1>1

(* Less than the blocks that were counted does not make up for them. *)
LEMMA Incomplete ==
  ASSUME NEW b \in Nat, NEW i \in Nat \ {0}, NEW o \in Nat, NEW n \in Nat, n < b * o
  PROVE  n * i # (b * i) * o
<1>1. PICK c \in Nat \ {0} : b * o = n + c
  <2>1. b * o \in Nat
    BY ProductType
  <2>2. b * o - n \in Nat \ {0} /\ b * o = n + (b * o - n)
    BY <2>1
  <2> QED BY <2>2
<1>2. (b * i) * o = (b * o) * i
  OBVIOUS
<1>3. (n + c) * i = n * i + c * i
  OBVIOUS
<1>4. c * i > 0 /\ c * i \in Nat /\ n * i \in Nat
  OBVIOUS
<1> QED BY <1>1, <1>2, <1>3, <1>4

(* Positions in a file of whole blocks of o symbols, of each of which l    *)
(* are received.                                                           *)
LEMMA Quotient ==
  ASSUME NEW x \in Nat, NEW d \in Nat \ {0}
  PROVE  /\ x \div d \in Nat /\ x % d \in 0 .. d - 1
         /\ (x \div d) * d <= x
<1>1. x = d * (x \div d) + (x % d) /\ x \div d \in Int /\ x % d \in 0 .. d - 1
  OBVIOUS
<1>2. x \div d \in Nat
  OBVIOUS
<1>3. \A q, r \in Nat : x = d * q + r => q * d <= x
  OBVIOUS
<1>4. x % d \in Nat
  BY <1>1
<1> QED BY <1>1, <1>2, <1>3, <1>4

LEMMA LessFactor ==
  ASSUME NEW a \in Nat, NEW b \in Nat, NEW d \in Nat \ {0}, a * d < b * d
  PROVE  a < b
<1> SUFFICES ASSUME b <= a PROVE FALSE
  OBVIOUS
<1>1. PICK c \in Nat : a = b + c
  <2>1. a - b \in Nat /\ a = b + (a - b)
    OBVIOUS
  <2> QED BY <2>1
<1>2. a * d = b * d + c * d
  BY <1>1
<1>3. c * d \in Nat /\ b * d \in Nat
  OBVIOUS
<1> QED BY <1>2, <1>3

LEMMA BlockOf ==
  ASSUME NEW n \in Nat, NEW l \in Nat \ {0}, NEW s \in 1 .. n * l
  PROVE  /\ s - 1 \in Nat /\ (s - 1) \div l \in Nat
         /\ (s - 1) \div l < n /\ ((s - 1) % l) + 1 \in 1 .. l
<1>1. s - 1 \in Nat /\ s - 1 < n * l
  BY ProductType
<1>2. /\ (s - 1) \div l \in Nat /\ (s - 1) % l \in 0 .. l - 1
      /\ ((s - 1) \div l) * l <= s - 1
  BY <1>1, Quotient
<1>3. ((s - 1) \div l) * l < n * l
  <2>1. ((s - 1) \div l) * l \in Nat /\ n * l \in Nat
    BY <1>2, ProductType
  <2> QED BY <1>1, <1>2, <2>1
<1>4. (s - 1) \div l < n
  BY <1>2, <1>3, LessFactor
<1> QED BY <1>1, <1>2, <1>4

LEMMA PositionInside ==
  ASSUME NEW n \in Nat, NEW b \in Nat, NEW o \in Nat, NEW total \in Nat, NEW at \in 1 .. o,
         b < n, n * o <= total
  PROVE  b * o + at \in 1 .. total
<1>1. PICK c \in Nat : n = b + 1 + c
  <2>1. n - b - 1 \in Nat /\ n = b + 1 + (n - b - 1)
    OBVIOUS
  <2> QED BY <2>1
<1>2. n * o = b * o + o + c * o
  BY <1>1
<1>3. b * o \in Nat /\ c * o \in Nat /\ n * o \in Nat
  OBVIOUS
<1> QED BY <1>2, <1>3

-----------------------------------------------------------------------------
(* Sequences *)

LEMMA ExpandType ==
  ASSUME NEW c \in Commands PROVE Expand(c) \in Seq(Nat) /\ Len(Expand(c)) > 0
  BY ArgumentsAssumption

LEMMA SourceIdsType == SourceIds \in Seq(Nat) /\ Len(SourceIds) = K
  BY CodecAssumption DEF SourceIds

LEMMA SourceFileType ==
  ASSUME NEW n \in Nat PROVE SourceFile(n) \in Seq(Symbols) /\ Len(SourceFile(n)) = n
<1>1. \A s, d \in Nat : d > 0 => s \div d \in Nat /\ s % d \in Nat
  OBVIOUS
<1>2. \A s \in 1 .. n : (s - 1) \div K \in Nat /\ (s - 1) % K \in Nat
  BY <1>1, CodecAssumption
<1>3. \A s \in 1 .. n : <<(s - 1) \div K, (s - 1) % K>> \in Symbols
  BY <1>2 DEF Symbols
<1> QED BY <1>3 DEF SourceFile

(* The first symbols of a sequence and the others. *)
LEMMA Cut ==
  ASSUME NEW S, NEW seq \in Seq(S), NEW n \in 0 .. Len(seq)
  PROVE  /\ SubSeq(seq, 1, n) \in Seq(S) /\ Len(SubSeq(seq, 1, n)) = n
         /\ SubSeq(seq, n + 1, Len(seq)) \in Seq(S)
         /\ Len(SubSeq(seq, n + 1, Len(seq))) = Len(seq) - n
<1>1. Len(seq) \in Nat /\ \A i \in 1 .. Len(seq) : seq[i] \in S
  OBVIOUS
<1>2. \A i \in 1 .. n : seq[i] \in S
  BY <1>1
<1>3. \A i \in n + 1 .. Len(seq) : seq[i] \in S
  BY <1>1
<1>4. SubSeq(seq, 1, n) \in Seq(S) /\ Len(SubSeq(seq, 1, n)) = n
  BY <1>1, <1>2, SubSeqProperties
<1>5. /\ SubSeq(seq, n + 1, Len(seq)) \in Seq(S)
      /\ Len(SubSeq(seq, n + 1, Len(seq))) = Len(seq) - n
  BY <1>1, <1>3, SubSeqProperties
<1> QED BY <1>4, <1>5

(* The start of one sequence behind another, and the rest behind that.     *)
LEMMA Split ==
  ASSUME NEW S, NEW a \in Seq(S), NEW b \in Seq(S), NEW n \in 0 .. Len(b)
  PROVE  /\ a \o SubSeq(b, 1, n) \in Seq(S) /\ Len(a \o SubSeq(b, 1, n)) = Len(a) + n
         /\ \A t \in 1 .. Len(a) + n : (a \o SubSeq(b, 1, n))[t] = (a \o b)[t]
         /\ (a \o SubSeq(b, 1, n)) \o SubSeq(b, n + 1, Len(b)) = a \o b
<1> DEFINE start == SubSeq(b, 1, n)
           rest == SubSeq(b, n + 1, Len(b))
<1>1. Len(a) \in Nat /\ Len(b) \in Nat /\ \A i \in 1 .. Len(b) : b[i] \in S
  OBVIOUS
<1>2. /\ start \in Seq(S) /\ Len(start) = n /\ \A i \in 1 .. n : start[i] = b[i]
      /\ rest \in Seq(S) /\ Len(rest) = Len(b) - n
      /\ \A i \in 1 .. Len(b) - n : rest[i] = b[n + i]
  <2>1. start \in Seq(S) /\ Len(start) = n /\ rest \in Seq(S) /\ Len(rest) = Len(b) - n
    BY Cut
  <2>2. \A i \in 1 .. n : start[i] = b[i]
    BY <1>1
  <2>3. \A i \in 1 .. Len(b) - n : rest[i] = b[n + i]
    BY <1>1
  <2> QED BY <2>1, <2>2, <2>3
<1> HIDE DEF start, rest
<1>3. /\ a \o start \in Seq(S) /\ Len(a \o start) = Len(a) + n
      /\ \A t \in 1 .. Len(a) + n :
           (a \o start)[t] = IF t <= Len(a) THEN a[t] ELSE start[t - Len(a)]
  BY <1>2, ConcatProperties
<1>4. /\ a \o b \in Seq(S) /\ Len(a \o b) = Len(a) + Len(b)
      /\ \A t \in 1 .. Len(a) + Len(b) :
           (a \o b)[t] = IF t <= Len(a) THEN a[t] ELSE b[t - Len(a)]
  BY ConcatProperties
<1>5. \A t \in 1 .. Len(a) + n : (a \o start)[t] = (a \o b)[t]
  <2> SUFFICES ASSUME NEW t \in 1 .. Len(a) + n PROVE (a \o start)[t] = (a \o b)[t]
    OBVIOUS
  <2>1. t \in 1 .. Len(a) + Len(b)
    BY <1>1
  <2>2. t <= Len(a) \/ t - Len(a) \in 1 .. n
    BY <1>1
  <2> QED BY <1>2, <1>3, <1>4, <2>1, <2>2
<1>6. (a \o start) \o rest = a \o b
  <2> DEFINE whole == (a \o start) \o rest
  <2>1. /\ whole \in Seq(S) /\ Len(whole) = Len(a) + n + (Len(b) - n)
        /\ \A t \in 1 .. Len(a) + n + (Len(b) - n) :
             whole[t] = IF t <= Len(a) + n THEN (a \o start)[t] ELSE rest[t - (Len(a) + n)]
    <3> DEFINE front == a \o start
    <3>1. front \in Seq(S) /\ Len(front) = Len(a) + n
      BY <1>3
    <3> HIDE DEF front
    <3>2. /\ front \o rest \in Seq(S) /\ Len(front \o rest) = Len(front) + Len(rest)
          /\ \A t \in 1 .. Len(front) + Len(rest) :
               (front \o rest)[t] = IF t <= Len(front) THEN front[t] ELSE rest[t - Len(front)]
      <4>1. rest \in Seq(S)
        BY <1>2
      <4> HIDE DEF whole
      <4> QED BY <3>1, <4>1, ConcatProperties
    <3>3. Len(front) + Len(rest) = Len(a) + n + (Len(b) - n)
      BY <1>2, <3>1
    <3>4. whole = front \o rest
      BY DEF front
    <3> HIDE DEF whole
    <3> QED BY <3>1, <3>2, <3>3, <3>4 DEF front
  <2>2. Len(a) + n + (Len(b) - n) = Len(a) + Len(b)
    BY <1>1
  <2>3. \A t \in 1 .. Len(a) + Len(b) : whole[t] = (a \o b)[t]
    <3> HIDE DEF whole
    <3> SUFFICES ASSUME NEW t \in 1 .. Len(a) + Len(b) PROVE whole[t] = (a \o b)[t]
      OBVIOUS
    <3>1. CASE t <= Len(a) + n
      <4>1. t \in 1 .. Len(a) + n
        BY <1>1, <3>1
      <4> QED BY <1>5, <2>1, <2>2, <3>1, <4>1
    <3>2. CASE ~(t <= Len(a) + n)
      <4>1. /\ t - (Len(a) + n) \in 1 .. Len(b) - n /\ n + (t - (Len(a) + n)) = t - Len(a)
            /\ ~(t <= Len(a))
        BY <1>1, <3>2
      <4>2. whole[t] = rest[t - (Len(a) + n)]
        BY <2>1, <2>2, <3>2
      <4>3. rest[t - (Len(a) + n)] = b[t - Len(a)]
        BY <1>2, <4>1
      <4> QED BY <1>4, <4>1, <4>2, <4>3
    <3> QED BY <3>1, <3>2
  <2> HIDE DEF whole
  <2>4. whole = a \o b
    BY <1>4, <2>1, <2>2, <2>3, SeqEqual
  <2> QED BY <2>4 DEF whole
<1> QED BY <1>3, <1>5, <1>6 DEF start, rest

-----------------------------------------------------------------------------
(* The invariant *)

LEMMA InitHolds == Init => IInv
<1> SUFFICES ASSUME Init PROVE IInv
  OBVIOUS
<1>1. PICK n \in Lengths : source = SourceFile(n)
  BY DEF Init
<1>2. input \in Seq(Symbols) /\ Len(input) = length /\ length \in Nat
  BY <1>1, SourceFileType, ArgumentsAssumption DEF Init
<1>3. inIds \in Seq(Nat) /\ Len(inIds) > 0
  BY SourceIdsType, CodecAssumption DEF Init
<1>4. outIds \in Seq(Nat) /\ Len(outIds) > 0
  BY ExpandType DEF Init
<1>5. /\ pc = "ids" /\ ids = <<>> /\ count = 0 /\ block = <<>> /\ enc = <<>>
      /\ status = 0 /\ buffer = <<>> /\ output = <<>>
  BY DEF Init
<1>6. TypesOK
  BY <1>2, <1>3, <1>4, <1>5, CodecAssumption DEF TypesOK, Places
<1>7. Taken /\ Accounted /\ BlockFilled /\ BlockMade /\ ClosesRight /\ ReportsTruthfully
  BY <1>2, <1>5 DEF Taken, Accounted, BlockFilled, BlockMade, ClosesRight, ReportsTruthfully
<1>8. WholeBlocks
  <2>1. Blocks(0)
    BY <1>3, <1>4, <1>5 DEF Blocks, Taking
  <2> QED BY <2>1, <1>5 DEF WholeBlocks
<1> QED BY <1>6, <1>7, <1>8 DEF IInv

(* All IDs fit, as the memory has room for as many as there are. *)
LEMMA AddIdsKeeps == ASSUME IInv, AddIds PROVE IInv'
<1>1. /\ inIds \in Seq(Nat) /\ Len(inIds) \in Nat /\ pc = "ids" /\ pc' = "compile"
      /\ UNCHANGED <<side, source, length, inIds, outIds, input, count, block, enc>>
      /\ UNCHANGED <<status, buffer, output>>
  BY DEF IInv, TypesOK, AddIds, Transcoding, constants
<1>2. Len(inIds) <= Capacity
  BY <1>1, CodecAssumption DEF Capacity
<1>3. ids' = inIds
  <2>1. ids' = SubSeq(inIds, 1, Len(inIds))
    BY <1>2 DEF AddIds
  <2> QED BY <2>1, <1>1, SubSeqFull
<1>4. TypesOK' /\ Taken' /\ Accounted' /\ BlockFilled' /\ BlockMade'
  BY <1>1, <1>3 DEF IInv, TypesOK, Places, Taken, Accounted, BlockFilled, BlockMade
<1>5. WholeBlocks'
  BY <1>1 DEF IInv, WholeBlocks, Leaving, Blocks, Taking
<1>6. ClosesRight' /\ ReportsTruthfully'
  BY <1>1 DEF ClosesRight, ReportsTruthfully
<1> QED BY <1>4, <1>5, <1>6 DEF IInv

LEMMA CompileKeeps == ASSUME IInv, Compile PROVE IInv'
<1>1. /\ pc = "compile" /\ ids = inIds
      /\ UNCHANGED <<side, source, length, inIds, outIds, input, ids, count, block, enc>>
      /\ UNCHANGED <<buffer, output>>
  BY DEF IInv, Taken, Compile, Transcoding, constants
<1>2. \/ pc' = "read" /\ status' = status
      \/ pc' = "close" /\ status' = 1 /\ ~Decodable(Range(inIds'))
  BY <1>1 DEF Compile, Fail
<1>3. TypesOK' /\ Taken' /\ Accounted' /\ BlockFilled' /\ BlockMade'
  BY <1>1, <1>2 DEF IInv, TypesOK, Places, Taken, Accounted, BlockFilled, BlockMade
<1>4. WholeBlocks'
  BY <1>1, <1>2 DEF IInv, WholeBlocks, Leaving, Blocks, Taking
<1>5. ClosesRight' /\ ReportsTruthfully'
  BY <1>2 DEF ClosesRight, ReportsTruthfully
<1> QED BY <1>3, <1>4, <1>5 DEF IInv

LEMMA ReadKeeps == ASSUME IInv, Read PROVE IInv'
<1>1. /\ pc = "read" /\ pc' = "execute"
      /\ input \in Seq(Symbols) /\ Len(inIds) \in 0 .. Len(input)
      /\ UNCHANGED <<side, source, length, inIds, outIds, ids, enc, status, buffer, output>>
  BY DEF IInv, TypesOK, Read, Transcoding, constants
<1>2. /\ block' \in Seq(Symbols) /\ Len(block') = Len(inIds)
      /\ input' \in Seq(Symbols) /\ Len(input') = Len(input) - Len(inIds)
  BY <1>1, Cut DEF Read
<1>3. /\ count' = count + Len(inIds) /\ count \in Nat /\ Len(inIds) \in Nat
      /\ Len(input) \in Nat /\ Len(outIds) \in Nat
  BY DEF IInv, TypesOK, Read, Counted
<1>4. TypesOK' /\ Taken' /\ BlockFilled' /\ BlockMade'
  BY <1>1, <1>2, <1>3 DEF IInv, TypesOK, Places, Taken, BlockFilled, BlockMade
<1>5. Accounted'
  BY <1>1, <1>2, <1>3 DEF IInv, Accounted
<1>6. WholeBlocks'
  <2>1. PICK b \in Nat : count = b * Len(inIds) /\ Taking = b * Len(outIds)
    BY <1>1 DEF IInv, WholeBlocks, Leaving, Blocks
  <2>2. count' = (b + 1) * Len(inIds)
    BY <2>1, <1>3
  <2>3. Taking' = Taking /\ b + 1 > 0 /\ (b + 1) - 1 = b
    BY <1>1 DEF Taking
  <2>4. Blocks(b + 1)'
    BY <2>1, <2>2, <2>3, <1>1 DEF Blocks
  <2> QED BY <2>4, <1>1 DEF IInv, WholeBlocks, Leaving
<1>7. ClosesRight' /\ ReportsTruthfully'
  BY <1>1 DEF ClosesRight, ReportsTruthfully
<1> QED BY <1>4, <1>5, <1>6, <1>7 DEF IInv

(* Less than a block is left: the input is incomplete. *)
LEMMA ShortReadKeeps == ASSUME IInv, ShortRead PROVE IInv'
<1>1. /\ pc = "read" /\ pc' = "close" /\ status' = 1 /\ count < length
      /\ Len(input) < Len(inIds)
      /\ UNCHANGED <<side, source, length, inIds, outIds, input, ids, count, block, enc>>
      /\ UNCHANGED <<buffer, output>>
  BY DEF ShortRead, TooShort, Fail, Transcoding, constants, LoopGoesOn
<1>2. /\ count \in Nat /\ length \in Nat /\ Len(input) \in Nat /\ Len(inIds) \in Nat \ {0}
      /\ count + Len(input) = length
  BY DEF IInv, TypesOK, Accounted
<1>3. PICK b \in Nat : count = b * Len(inIds)
  BY <1>1 DEF IInv, WholeBlocks, Leaving, Blocks
<1>4. length % Len(inIds) # 0
  <2>1. (b * Len(inIds) + Len(input)) % Len(inIds) = Len(input)
    BY <1>1, <1>2, Remainder
  <2> QED BY <2>1, <1>1, <1>2, <1>3
<1>5. TypesOK' /\ Taken' /\ Accounted' /\ BlockFilled' /\ BlockMade' /\ WholeBlocks'
  BY <1>1 DEF IInv, TypesOK, Places, Taken, Accounted, BlockFilled, BlockMade, WholeBlocks, Leaving
<1>6. ClosesRight' /\ ReportsTruthfully'
  BY <1>1, <1>4 DEF ClosesRight, ReportsTruthfully
<1> QED BY <1>5, <1>6 DEF IInv

LEMMA ExecuteKeeps == ASSUME IInv, Execute PROVE IInv'
<1>1. /\ pc = "execute" /\ pc' = "write"
      /\ block \in Seq(Symbols) /\ Len(block) > 0 /\ outIds \in Seq(Nat)
      /\ ids = inIds /\ Len(ids) > 0
      /\ UNCHANGED <<side, source, length, inIds, outIds, input, ids, count, block>>
      /\ UNCHANGED <<status, buffer, output>>
  BY DEF IInv, TypesOK, BlockFilled, Taken, Execute, Transcoding, constants
<1>2. Solved(block) \in Nat \cup {Garbage}
  <2>1. block[1] \in Symbols
    BY <1>1
  <2> QED BY <2>1 DEF Solved, Symbols
<1>3. enc' \in Seq(Symbols) /\ Len(enc') = Len(outIds)
  <2>1. Len(outIds) \in Nat /\ \A n \in 1 .. Len(outIds) : outIds[n] \in Nat
    BY <1>1
  <2>2. \A n \in 1 .. Len(outIds) : <<Solved(block), outIds[n]>> \in Symbols
    BY <1>2, <2>1 DEF Symbols
  <2>3. enc' = [n \in 1 .. Len(outIds) |-> <<Solved(block), outIds[n]>>]
    BY DEF Execute
  <2> QED BY <2>1, <2>2, <2>3
<1>4. TypesOK' /\ Taken' /\ Accounted' /\ BlockFilled' /\ BlockMade'
  BY <1>1, <1>3 DEF IInv, TypesOK, Places, Taken, Accounted, BlockFilled, BlockMade
<1>5. WholeBlocks'
  BY <1>1 DEF IInv, WholeBlocks, Leaving, Blocks, Taking
<1>6. ClosesRight' /\ ReportsTruthfully'
  BY <1>1 DEF ClosesRight, ReportsTruthfully
<1> QED BY <1>4, <1>5, <1>6 DEF IInv

(* What is written, what is not, and the stream's part in it. *)
LEMMA WritesTyped ==
  ASSUME IInv, pc = "write", NEW n \in 0 .. Len(Pending), Writes(n)
  PROVE  /\ Pending \in Seq(Symbols) /\ Len(Pending) = Len(buffer) + Len(outIds)
         /\ output' \in Seq(Symbols) /\ Len(output') = Len(output) + n
<1>1. /\ buffer \in Seq(Symbols) /\ enc \in Seq(Symbols) /\ output \in Seq(Symbols)
      /\ Len(enc) = Len(outIds)
  BY DEF IInv, TypesOK, BlockMade
<1>2. Pending \in Seq(Symbols) /\ Len(Pending) = Len(buffer) + Len(outIds)
  <2>1. buffer \o enc \in Seq(Symbols) /\ Len(buffer \o enc) = Len(buffer) + Len(enc)
    BY <1>1, ConcatProperties
  <2> QED BY <1>1, <2>1 DEF Pending
<1>3. output' \in Seq(Symbols) /\ Len(output') = Len(output) + n
  BY <1>1, <1>2, Split DEF Writes
<1> QED BY <1>2, <1>3

(* The block that is to be written, and what the stream took before it.    *)
LEMMA BeforeBlock ==
  ASSUME IInv, pc = "write"
  PROVE  \E b \in Nat : /\ b > 0 /\ count = b * Len(inIds)
                         /\ Taking + Len(outIds) = b * Len(outIds)
<1>1. PICK b \in Nat : /\ count = b * Len(inIds)
                       /\ b > 0 /\ Taking = (b - 1) * Len(outIds)
  BY DEF IInv, WholeBlocks, Leaving, Blocks
<1>2. Len(outIds) \in Nat
  BY DEF IInv, TypesOK
<1>3. (b - 1) * Len(outIds) + Len(outIds) = b * Len(outIds)
  BY <1>2
<1> QED BY <1>1, <1>3

LEMMA WriteKeeps == ASSUME IInv, Write PROVE IInv'
<1>1. /\ pc = "write" /\ pc' = "read"
      /\ UNCHANGED <<side, source, length, inIds, outIds, input, ids, count, block, enc, status>>
  BY DEF Write, Transcoding, constants
<1>2. PICK n \in 0 .. Len(Pending) : /\ Len(Pending) - n <= Buffer /\ Writes(n)
                                     /\ buffer' = SubSeq(Pending, n + 1, Len(Pending))
  BY DEF Write
<1>3. /\ Pending \in Seq(Symbols) /\ Len(Pending) = Len(buffer) + Len(outIds)
      /\ output' \in Seq(Symbols) /\ Len(output') = Len(output) + n
  BY <1>1, <1>2, WritesTyped
<1>4. buffer' \in Seq(Symbols) /\ Len(buffer') = Len(Pending) - n
  BY <1>2, <1>3, Cut
<1>5. TypesOK' /\ Taken' /\ Accounted' /\ BlockFilled' /\ BlockMade'
  BY <1>1, <1>2, <1>3, <1>4 DEF IInv, TypesOK, Places, Taken, Accounted, BlockFilled, BlockMade
<1>6. WholeBlocks'
  <2>1. PICK b \in Nat : count = b * Len(inIds) /\ Taking + Len(outIds) = b * Len(outIds)
    BY <1>1, BeforeBlock
  <2>2. Taking' = Taking + Len(outIds)
    <3>1. Len(output) \in Nat /\ Len(buffer) \in Nat /\ Len(outIds) \in Nat /\ n \in Nat
      BY DEF IInv, TypesOK
    <3> QED BY <1>3, <1>4, <3>1 DEF Taking
  <2>3. Blocks(b)'
    BY <1>1, <2>1, <2>2 DEF Blocks
  <2> QED BY <2>3, <1>1 DEF IInv, WholeBlocks, Leaving
<1>7. ClosesRight' /\ ReportsTruthfully'
  BY <1>1 DEF ClosesRight, ReportsTruthfully
<1> QED BY <1>5, <1>6, <1>7 DEF IInv

(* The disk took less than the blocks that were counted. *)
LEMMA WriteFailsKeeps == ASSUME IInv, WriteFails PROVE IInv'
<1>1. /\ pc = "write" /\ pc' = "close" /\ status' = 1 /\ buffer' = <<>>
      /\ UNCHANGED <<side, source, length, inIds, outIds, input, ids, count, block, enc>>
  BY DEF WriteFails, Fail, Transcoding, constants
<1>2. /\ Len(inIds) \in Nat \ {0} /\ Len(outIds) \in Nat \ {0} /\ Len(output) \in Nat
      /\ Len(buffer) \in Nat /\ length \in Nat /\ count \in Nat /\ Len(input) \in Nat
      /\ count + Len(input) = length
  BY DEF IInv, TypesOK, Accounted
<1>3. PICK n \in 0 .. Len(Pending) - 1 : Writes(n)
  BY DEF WriteFails
<1>4. /\ Len(Pending) = Len(buffer) + Len(outIds)
      /\ output' \in Seq(Symbols) /\ Len(output') = Len(output) + n
  <2>1. Pending \in Seq(Symbols)
    BY ConcatProperties DEF Pending, IInv, TypesOK
  <2>2. n \in 0 .. Len(Pending)
    BY <2>1
  <2> QED BY <1>1, <1>3, <2>2, WritesTyped
<1>5. PICK b \in Nat : count = b * Len(inIds) /\ Taking + Len(outIds) = b * Len(outIds)
  BY <1>1, BeforeBlock
<1>6. ~Transcoded(length - Len(input), 0)'
  <2>1. Len(output') \in Nat /\ Len(output') < b * Len(outIds)
    BY <1>2, <1>3, <1>4, <1>5 DEF Taking
  <2>2. Len(output') * Len(inIds) # (b * Len(inIds)) * Len(outIds)
    BY <1>2, <2>1, Incomplete
  <2>3. length - Len(input) = count /\ Len(output') + 0 = Len(output')
    BY <1>2, <2>1
  <2> QED BY <1>1, <1>5, <2>2, <2>3 DEF Transcoded
<1>7. TypesOK' /\ Taken' /\ Accounted' /\ BlockFilled' /\ BlockMade' /\ WholeBlocks'
  BY <1>1, <1>4, CodecAssumption
     DEF IInv, TypesOK, Places, Taken, Accounted, BlockFilled, BlockMade, WholeBlocks, Leaving
<1>8. ClosesRight' /\ ReportsTruthfully'
  BY <1>1, <1>6 DEF ClosesRight, ReportsTruthfully
<1> QED BY <1>7, <1>8 DEF IInv

(* What was counted is the whole length, and the stream has taken it. *)
LEMMA DoneKeeps == ASSUME IInv, Done PROVE IInv'
<1>1. /\ pc = "read" /\ pc' = "close" /\ ~(count < length)
      /\ UNCHANGED <<side, source, length, inIds, outIds, input, ids, count, block, enc>>
      /\ UNCHANGED <<status, buffer, output>>
  BY DEF Done, Transcoding, constants, LoopGoesOn
<1>2. /\ count \in Nat /\ length \in Nat /\ Len(input) \in Nat /\ count + Len(input) = length
      /\ Len(inIds) \in Nat /\ Len(outIds) \in Nat /\ status = 0
  BY <1>1 DEF IInv, TypesOK, Accounted, WholeBlocks, Leaving
<1>3. PICK b \in Nat : count = b * Len(inIds) /\ Taking = b * Len(outIds)
  BY <1>1 DEF IInv, WholeBlocks, Leaving, Blocks
<1>4. Taking * Len(inIds) = length * Len(outIds)
  <2>1. length = b * Len(inIds)
    BY <1>1, <1>2, <1>3
  <2>2. (b * Len(outIds)) * Len(inIds) = (b * Len(inIds)) * Len(outIds)
    BY <1>2
  <2> QED BY <1>3, <2>1, <2>2
<1>5. TypesOK' /\ Taken' /\ Accounted' /\ BlockFilled' /\ BlockMade' /\ WholeBlocks'
  BY <1>1 DEF IInv, TypesOK, Places, Taken, Accounted, BlockFilled, BlockMade, WholeBlocks, Leaving
<1>6. ClosesRight' /\ ReportsTruthfully'
  BY <1>1, <1>2, <1>4 DEF ClosesRight, Taking, ReportsTruthfully
<1> QED BY <1>5, <1>6 DEF IInv

(* Some of what the stream held goes to the file. *)
LEMMA Closes ==
  ASSUME IInv, Close
  PROVE  \E n \in 0 .. Len(buffer) :
           /\ output' = output \o SubSeq(buffer, 1, n)
           /\ output' \in Seq(Symbols) /\ Len(output') = Len(output) + n
<1>1. output \in Seq(Symbols) /\ buffer \in Seq(Symbols)
  BY DEF IInv, TypesOK
<1>2. PICK n \in 0 .. Len(buffer) : output' = output \o SubSeq(buffer, 1, n)
  BY DEF Close
<1> QED BY <1>1, <1>2, Split

(* What does not reach the file any more was in the stream's buffer.       *)
LEMMA CloseKeeps == ASSUME IInv, Close PROVE IInv'
<1>1. /\ pc = "close" /\ buffer' = <<>> /\ pc' = IF status = 0 THEN "succeeded" ELSE "failed"
      /\ UNCHANGED <<side, source, length, inIds, outIds, input, ids, count, block, enc, status>>
  BY DEF Close, Transcoding, constants
<1>2. /\ Len(output) \in Nat /\ Len(buffer) \in Nat /\ Len(buffer) <= Buffer
      /\ output \in Seq(Symbols) /\ status \in {0, 1}
  BY DEF IInv, TypesOK
<1>3. PICK n \in 0 .. Len(buffer) :
        /\ output' = output \o SubSeq(buffer, 1, n)
        /\ output' \in Seq(Symbols) /\ Len(output') = Len(output) + n
  BY Closes
<1>4. TypesOK' /\ Taken' /\ Accounted' /\ BlockFilled' /\ BlockMade' /\ WholeBlocks'
  BY <1>1, <1>3, CodecAssumption
     DEF IInv, TypesOK, Places, Taken, Accounted, BlockFilled, BlockMade, WholeBlocks, Leaving
<1>5. status = 0 => \E missing \in 0 .. Buffer : Transcoded(length, missing)'
  <2>1. PICK missing \in 0 .. Buffer : Len(output') + missing = Taking
    <3>1. Len(buffer) - n \in 0 .. Buffer /\ Len(output') + (Len(buffer) - n) = Taking
      BY <1>2, <1>3, CodecAssumption DEF Taking
    <3> QED BY <3>1
  <2>2. status = 0 => Taking * Len(inIds) = length * Len(outIds)
    BY <1>1 DEF IInv, ClosesRight
  <2>3. status = 0 => Transcoded(length, missing)'
    BY <1>1, <2>1, <2>2 DEF Transcoded
  <2> QED BY <2>3
<1>6. status = 1 /\ Decodable(Range(inIds)) /\ length % Len(inIds) = 0 =>
        ~Transcoded(length - Len(input), 0)'
  <2> SUFFICES ASSUME status = 1, Decodable(Range(inIds)), length % Len(inIds) = 0
               PROVE  ~Transcoded(length - Len(input), 0)'
    OBVIOUS
  <2>1. buffer = <<>> /\ ~Transcoded(length - Len(input), 0)
    BY <1>1 DEF IInv, ClosesRight
  <2>2. Len(output') = Len(output)
    BY <1>2, <1>3, <2>1
  <2> QED BY <1>1, <2>1, <2>2 DEF Transcoded
<1>7. ClosesRight' /\ ReportsTruthfully'
  BY <1>1, <1>2, <1>5, <1>6 DEF ClosesRight, ReportsTruthfully
<1> QED BY <1>4, <1>7 DEF IInv

LEMMA TransmitKeeps == ASSUME IInv, NEW p \in Receptions, Transmit(p) PROVE IInv'
<1>1. /\ output \in Seq(Symbols) /\ outIds \in Seq(Nat) /\ Len(outIds) \in Nat \ {0}
      /\ p \in Seq(Nat) /\ Len(p) \in Nat \ {0} /\ \A n \in 1 .. Len(p) : p[n] \in 1 .. Len(outIds)
  <2>1. output \in Seq(Symbols) /\ outIds \in Seq(Nat) /\ Len(outIds) \in Nat \ {0}
    BY DEF IInv, TypesOK
  <2>2. p \in Seq(Nat) /\ Len(p) \in Nat \ {0} /\ \A n \in 1 .. Len(p) : p[n] \in Nat \ {0}
    BY ArgumentsAssumption
  <2>3. \A n \in 1 .. Len(p) : p[n] <= Len(outIds)
    BY DEF Transmit
  <2> QED BY <2>1, <2>2, <2>3
<1>2. Received(p) \in Seq(Symbols)
  <2> DEFINE blocks == Len(output) \div Len(outIds)
  <2>1. blocks \in Nat /\ blocks * Len(outIds) <= Len(output) /\ Len(output) \in Nat
    <3>1. Len(output) \in Nat
      BY <1>1
    <3> QED BY <1>1, <3>1, Quotient
  <2>2. \A s \in 1 .. blocks * Len(p) :
          output[((s - 1) \div Len(p)) * Len(outIds) + p[((s - 1) % Len(p)) + 1]] \in Symbols
    <3> HIDE DEF blocks
    <3> SUFFICES ASSUME NEW s \in 1 .. blocks * Len(p)
                 PROVE  output[((s - 1) \div Len(p)) * Len(outIds) + p[((s - 1) % Len(p)) + 1]] \in Symbols
      OBVIOUS
    <3>1. /\ s - 1 \in Nat /\ (s - 1) \div Len(p) < blocks
          /\ (s - 1) \div Len(p) \in Nat /\ ((s - 1) % Len(p)) + 1 \in 1 .. Len(p)
      BY <1>1, <2>1, BlockOf
    <3>2. p[((s - 1) % Len(p)) + 1] \in 1 .. Len(outIds)
      BY <1>1, <3>1
    <3>3. ((s - 1) \div Len(p)) * Len(outIds) + p[((s - 1) % Len(p)) + 1] \in 1 .. Len(output)
      BY <1>1, <2>1, <3>1, <3>2, PositionInside
    <3> QED BY <3>3, <1>1
  <2>3. blocks * Len(p) \in Nat
    BY <1>1, <2>1
  <2>4. Received(p) = [s \in 1 .. blocks * Len(p) |->
          output[((s - 1) \div Len(p)) * Len(outIds) + p[((s - 1) % Len(p)) + 1]]]
    BY DEF Received
  <2> HIDE DEF blocks
  <2> QED BY <2>2, <2>3, <2>4
<1>3. input' \in Seq(Symbols) /\ length' \in Nat /\ Len(input') = length'
  <2>1. PICK n \in 0 .. Len(Received(p)) : input' = SubSeq(Received(p), 1, n) /\ length' = n
    BY DEF Transmit
  <2> QED BY <1>2, <2>1, Cut
<1>4. inIds' \in Seq(Nat) /\ Len(inIds') > 0
  <2>1. \A n \in 1 .. Len(p) : outIds[p[n]] \in Nat
    BY <1>1
  <2>2. inIds' = [n \in 1 .. Len(p) |-> outIds[p[n]]]
    BY DEF Transmit
  <2> QED BY <1>1, <2>1, <2>2
<1>5. outIds' \in Seq(Nat) /\ Len(outIds') > 0
  BY SourceIdsType, CodecAssumption DEF Transmit
<1>6. /\ pc' = "ids" /\ ids' = <<>> /\ count' = 0 /\ block' = <<>> /\ enc' = <<>>
      /\ status' = 0 /\ buffer' = <<>> /\ output' = <<>>
  BY DEF Transmit
<1>7. TypesOK'
  BY <1>3, <1>4, <1>5, <1>6, CodecAssumption DEF TypesOK, Places
<1>8. Taken' /\ Accounted' /\ BlockFilled' /\ BlockMade' /\ ClosesRight' /\ ReportsTruthfully'
  <2>1. Taken' /\ BlockFilled' /\ BlockMade'
    BY <1>6 DEF Taken, BlockFilled, BlockMade
  <2>2. Accounted'
    <3>1. Len(input') = length' /\ length' \in Nat /\ count' = 0
      BY <1>3, <1>6
    <3>2. \A x \in Nat : 0 + x = x
      OBVIOUS
    <3> QED BY <3>1, <3>2 DEF Accounted
  <2>3. ClosesRight' /\ ReportsTruthfully'
    BY <1>6 DEF ClosesRight, ReportsTruthfully
  <2> QED BY <2>1, <2>2, <2>3
<1>9. WholeBlocks'
  <2>1. Blocks(0)'
    BY <1>4, <1>5, <1>6 DEF Blocks, Taking
  <2> QED BY <2>1, <1>6 DEF WholeBlocks
<1> QED BY <1>7, <1>8, <1>9 DEF IInv

LEMMA StutterKeeps == ASSUME IInv, UNCHANGED vars PROVE IInv'
<1>1. TypesOK' /\ Taken' /\ Accounted' /\ BlockFilled' /\ BlockMade'
  BY DEF IInv, vars, TypesOK, Taken, Accounted, BlockFilled, BlockMade
<1>2. WholeBlocks'
  BY DEF IInv, vars, WholeBlocks, Leaving, Blocks, Taking
<1>3. ClosesRight' /\ ReportsTruthfully'
  BY DEF IInv, vars, ClosesRight, Taking, ReportsTruthfully, Transcoded
<1> QED BY <1>1, <1>2, <1>3 DEF IInv

LEMMA Invariance == IInv /\ [Next]_vars => IInv'
<1> SUFFICES ASSUME IInv, [Next]_vars PROVE IInv'
  OBVIOUS
<1>1. CASE Transcode
  BY <1>1, AddIdsKeeps, CompileKeeps, ReadKeeps, ShortReadKeeps, ExecuteKeeps, WriteKeeps,
     WriteFailsKeeps, DoneKeeps, CloseKeeps DEF Transcode
<1>2. CASE \E p \in Receptions : Transmit(p)
  BY <1>2, TransmitKeeps
<1>3. CASE Ended \/ UNCHANGED vars
  BY <1>3, StutterKeeps DEF Ended
<1> QED BY <1>1, <1>2, <1>3 DEF Next

-----------------------------------------------------------------------------
(* The theorem *)

(* transcode fails for no reason but an undecodable list of IDs, a short   *)
(* input or its disk, and success means that all of the input was          *)
(* transcoded and is in the file, but for at most what the output stream   *)
(* kept back when it was closed: for every block length, list of IDs, file *)
(* and loss, and every size of the stream's buffer.                        *)
THEOREM ReportsTruthfullyHolds == Spec => []ReportsTruthfully
<1>1. Init => IInv
  BY InitHolds
<1>2. IInv /\ [Next]_vars => IInv'
  BY Invariance
<1>3. IInv => ReportsTruthfully
  BY DEF IInv
<1> QED BY <1>1, <1>2, <1>3, PTL DEF Spec

-----------------------------------------------------------------------------
(* FileCodec implements the safety part of Delivery: its initial states    *)
(* and its steps are those of the abstract transfer, or leave it alone.    *)

(* The symbol at position t of a file of whole blocks with a list of IDs. *)
Sym(list, t) == <<(t - 1) \div Len(list), list[((t - 1) % Len(list)) + 1]>>

SourceIs == source = SourceFile(Len(source)) /\ Len(source) \in Nat
SidesAre == \/ side = "encoder" /\ inIds = SourceIds
            \/ side = "decoder" /\ outIds = SourceIds

(* Both files are in order, and what is read and made belongs to the block *)
(* that is being worked on.                                                *)
InputIs == \A s \in 1 .. Len(input) : input[s] = Sym(inIds, count + s)
Accepted == output \o buffer
OutputIs == \A t \in 1 .. Taking : Accepted[t] = Sym(outIds, t)
BlockIs ==
  pc = "execute" => \A b \in Nat : Blocks(b) =>
                      \A n \in 1 .. Len(inIds) : block[n] = <<b - 1, inIds[n]>>
EncIs ==
  pc = "write" => \A b \in Nat : Blocks(b) =>
                    \A n \in 1 .. Len(outIds) : enc[n] = <<b - 1, outIds[n]>>

(* No file has more blocks than the source. *)
InputBound == \A b \in Nat : b * Len(inIds) <= length => b * K <= Len(source)
OutputBound == \E b \in Nat : b * K <= Len(source) /\ Taking <= b * Len(outIds)

DInv ==
  /\ IInv
  /\ SourceIs /\ SidesAre /\ InputIs /\ OutputIs /\ BlockIs /\ EncIs
  /\ InputBound /\ OutputBound

-----------------------------------------------------------------------------
(* Positions *)

LEMMA DivMod ==
  ASSUME NEW b \in Nat, NEW d \in Nat \ {0}, NEW r \in 0 .. d - 1
  PROVE  (b * d + r) \div d = b /\ (b * d + r) % d = r
<1>1. \A q \in Nat, e \in Nat \ {0} : \A s \in 0 .. e - 1 :
        (q * e + s) \div e = q /\ (q * e + s) % e = s
  OBVIOUS
<1> QED BY <1>1

LEMMA LeqFactor ==
  ASSUME NEW a \in Nat, NEW b \in Nat, NEW d \in Nat \ {0}, a * d <= b * d
  PROVE  a <= b
<1> SUFFICES ASSUME b < a PROVE FALSE
  OBVIOUS
<1>1. PICK c \in Nat : a = b + 1 + c
  <2>1. a - b - 1 \in Nat /\ a = b + 1 + (a - b - 1)
    OBVIOUS
  <2> QED BY <2>1
<1>2. a * d = b * d + d + c * d
  BY <1>1
<1> QED BY <1>2, ProductType

LEMMA LeqProduct ==
  ASSUME NEW a \in Nat, NEW b \in Nat, NEW d \in Nat, a <= b
  PROVE  a * d <= b * d
<1>1. PICK c \in Nat : b = a + c
  <2>1. b - a \in Nat /\ b = a + (b - a)
    OBVIOUS
  <2> QED BY <2>1
<1>2. b * d = a * d + c * d
  BY <1>1
<1> QED BY <1>2, ProductType

(* Symbol n of block b. *)
LEMMA SymOf ==
  ASSUME NEW list \in Seq(Nat), NEW b \in Nat, NEW n \in 1 .. Len(list)
  PROVE  Sym(list, b * Len(list) + n) = <<b, list[n]>>
<1>1. Len(list) \in Nat \ {0} /\ n - 1 \in 0 .. Len(list) - 1
  OBVIOUS
<1>2. (b * Len(list) + n) - 1 = b * Len(list) + (n - 1)
  BY <1>1
<1>3. (b * Len(list) + (n - 1)) \div Len(list) = b /\ (b * Len(list) + (n - 1)) % Len(list) = n - 1
  BY <1>1, DivMod
<1>4. (n - 1) + 1 = n
  OBVIOUS
<1> QED BY <1>2, <1>3, <1>4 DEF Sym

LEMMA SourceSym ==
  ASSUME NEW n \in Nat, NEW s \in 1 .. n
  PROVE  SourceFile(n)[s] = Sym(SourceIds, s)
<1>1. s - 1 \in Nat /\ (s - 1) % K \in 0 .. K - 1
  BY CodecAssumption, Quotient
<1>2. SourceIds[((s - 1) % K) + 1] = (s - 1) % K
  BY <1>1, CodecAssumption DEF SourceIds
<1>3. SourceFile(n)[s] = <<(s - 1) \div K, (s - 1) % K>>
  BY DEF SourceFile
<1> QED BY <1>2, <1>3, SourceIdsType DEF Sym

-----------------------------------------------------------------------------
(* The invariant *)

LEMMA DInit == Init => DInv
<1> SUFFICES ASSUME Init PROVE DInv
  OBVIOUS
<1>1. PICK n \in Lengths : source = SourceFile(n)
  BY DEF Init
<1>2. n \in Nat /\ Len(source) = n /\ source = SourceFile(Len(source))
  BY <1>1, SourceFileType, ArgumentsAssumption
<1>3. /\ side = "encoder" /\ inIds = SourceIds /\ input = source /\ length = Len(source)
      /\ pc = "ids" /\ count = 0 /\ output = <<>> /\ buffer = <<>> /\ Taking = 0
  BY DEF Init, Taking
<1>4. SourceIs /\ SidesAre
  BY <1>2, <1>3 DEF SourceIs, SidesAre
<1>5. InputIs
  <2>1. \A s \in 1 .. n : input[s] = Sym(inIds, s) /\ 0 + s = s
    BY <1>2, <1>3, SourceSym
  <2> QED BY <2>1, <1>2, <1>3 DEF InputIs
<1>6. OutputIs /\ BlockIs /\ EncIs
  BY <1>3 DEF OutputIs, BlockIs, EncIs
<1>7. InputBound
  BY <1>2, <1>3, SourceIdsType DEF InputBound
<1>8. OutputBound
  <2>1. 0 * K <= Len(source) /\ Taking <= 0 * Len(outIds)
    <3>1. Len(outIds) \in Nat
      BY InitHolds DEF IInv, TypesOK
    <3> QED BY <1>2, <1>3, <3>1, CodecAssumption
  <2> QED BY <2>1 DEF OutputBound
<1> QED BY <1>4, <1>5, <1>6, <1>7, <1>8, InitHolds DEF DInv

(* What the invariant says of the types of the files. *)
LEMMA FilesTyped ==
  ASSUME DInv
  PROVE  /\ output \in Seq(Symbols) /\ Len(output) \in Nat
         /\ buffer \in Seq(Symbols) /\ Len(buffer) \in Nat
         /\ Accepted \in Seq(Symbols) /\ Len(Accepted) = Taking /\ Taking \in Nat
         /\ outIds \in Seq(Nat) /\ Len(outIds) \in Nat \ {0}
<1>1. /\ output \in Seq(Symbols) /\ Len(output) \in Nat
      /\ buffer \in Seq(Symbols) /\ Len(buffer) \in Nat
      /\ outIds \in Seq(Nat) /\ Len(outIds) \in Nat \ {0}
  BY DEF DInv, IInv, TypesOK
<1>2. Accepted \in Seq(Symbols) /\ Len(Accepted) = Taking /\ Taking \in Nat
  BY <1>1, ConcatProperties DEF Accepted, Taking
<1> QED BY <1>1, <1>2

(* What is said of all that the stream took holds of what is in the file.  *)
LEMMA FileIs ==
  ASSUME DInv
  PROVE  /\ Len(output) <= Taking
         /\ \A t \in 1 .. Len(output) : output[t] = Sym(outIds, t)
<1>1. /\ output \in Seq(Symbols) /\ Len(output) \in Nat
      /\ buffer \in Seq(Symbols) /\ Len(buffer) \in Nat
  BY FilesTyped
<1>2. \A t \in 1 .. Len(output) + Len(buffer) :
        Accepted[t] = IF t <= Len(output) THEN output[t] ELSE buffer[t - Len(output)]
  BY <1>1, ConcatProperties DEF Accepted
<1>3. Len(output) <= Taking /\ \A t \in 1 .. Len(output) : t \in 1 .. Taking /\ Accepted[t] = output[t]
  BY <1>1, <1>2 DEF Taking
<1> QED BY <1>3 DEF DInv, OutputIs

(* So does what is said of a start of it, as long as the files stay. *)
LEMMA Shorter ==
  ASSUME DInv, NEW m \in 0 .. Taking, Taking' = m, UNCHANGED <<source, outIds>>,
         \A t \in 1 .. m : Accepted'[t] = Accepted[t]
  PROVE  OutputIs' /\ OutputBound'
<1>1. Taking \in Nat /\ Len(outIds) \in Nat
  BY FilesTyped
<1>2. OutputIs'
  BY <1>1 DEF DInv, OutputIs
<1>3. OutputBound'
  <2>1. PICK b \in Nat : b * K <= Len(source) /\ Taking <= b * Len(outIds)
    BY DEF DInv, OutputBound
  <2>2. m <= b * Len(outIds)
    BY <1>1, <2>1, ProductType
  <2> QED BY <2>1, <2>2 DEF OutputBound
<1> QED BY <1>2, <1>3

(* Steps on the same files keep what is said of the source. *)
LEMMA Frame ==
  ASSUME DInv, UNCHANGED <<side, source, length, inIds, outIds>>
  PROVE  SourceIs' /\ SidesAre' /\ InputBound'
BY DEF DInv, SourceIs, SidesAre, InputBound

(* Steps that leave the files and the block alone. *)
LEMMA QuietKeeps ==
  ASSUME DInv, IInv', UNCHANGED <<side, source, length, inIds, outIds, input, count, buffer, output>>,
         pc' \notin {"execute", "write"}
  PROVE  DInv'
<1>1. InputIs' /\ OutputIs' /\ OutputBound'
  BY DEF DInv, InputIs, OutputIs, Accepted, OutputBound, Taking
<1>2. BlockIs' /\ EncIs'
  BY DEF BlockIs, EncIs
<1> QED BY <1>1, <1>2, Frame DEF DInv

(* A block of the input has a block of the source. *)
LEMMA BlockOfSource ==
  ASSUME DInv, NEW b \in Nat, b > 0, count = b * Len(inIds)
  PROVE  b * K <= Len(source) /\ b - 1 \in 0 .. Len(source)
<1>1. /\ count \in Nat /\ length \in Nat /\ Len(input) \in Nat /\ count + Len(input) = length
      /\ Len(source) \in Nat
  BY DEF DInv, IInv, TypesOK, Accounted, SourceIs
<1>2. b * Len(inIds) <= length
  BY <1>1
<1>3. b * K <= Len(source)
  BY <1>2 DEF DInv, InputBound
<1>4. b <= b * K
  BY CodecAssumption
<1> QED BY <1>1, <1>3, <1>4, ProductType, CodecAssumption

LEMMA DRead == ASSUME DInv, IInv', Read PROVE DInv'
<1>1. /\ pc = "read" /\ pc' = "execute"
      /\ input \in Seq(Symbols) /\ Len(inIds) \in 0 .. Len(input) /\ Len(inIds) \in Nat \ {0}
      /\ inIds \in Seq(Nat) /\ count \in Nat /\ Len(input) \in Nat
      /\ count' = count + Len(inIds)
      /\ block' = SubSeq(input, 1, Len(inIds))
      /\ input' = SubSeq(input, Len(inIds) + 1, Len(input))
      /\ UNCHANGED <<side, source, length, inIds, outIds, buffer, output>>
  BY DEF DInv, IInv, TypesOK, Read, Transcoding, constants, Counted
<1>2. InputIs'
  <2>1. Len(input') = Len(input) - Len(inIds)
    BY <1>1, Cut
  <2> SUFFICES ASSUME NEW s \in 1 .. Len(input) - Len(inIds)
               PROVE  input'[s] = Sym(inIds, count' + s)
    BY <1>1, <2>1 DEF InputIs
  <2>2. input'[s] = input[Len(inIds) + s]
    <3>1. \A k \in Len(inIds) + 1 .. Len(input) : input[k] \in Symbols
      BY <1>1
    <3>2. s \in 1 .. Len(input) - (Len(inIds) + 1) + 1 /\ (Len(inIds) + 1) + s - 1 = Len(inIds) + s
      BY <1>1
    <3>3. SubSeq(input, Len(inIds) + 1, Len(input))[s] = input[(Len(inIds) + 1) + s - 1]
      BY <1>1, <3>1, <3>2, SubSeqProperties
    <3> QED BY <1>1, <3>2, <3>3
  <2>3. Len(inIds) + s \in 1 .. Len(input) /\ count + (Len(inIds) + s) = count' + s
    BY <1>1
  <2> QED BY <2>2, <2>3 DEF DInv, InputIs
<1>3. BlockIs'
  <2> SUFFICES ASSUME NEW b \in Nat, Blocks(b)', NEW n \in 1 .. Len(inIds)
               PROVE  block'[n] = <<b - 1, inIds[n]>>
    BY <1>1 DEF BlockIs
  <2>1. b > 0 /\ count' = b * Len(inIds)
    BY <1>1 DEF Blocks
  <2>2. b - 1 \in Nat /\ count = (b - 1) * Len(inIds)
    <3> DEFINE I == Len(inIds)
    <3>1. b - 1 \in Nat /\ b = (b - 1) + 1 /\ I \in Nat
      BY <1>1, <2>1
    <3> HIDE DEF I
    <3>2. \A a \in Nat : (a + 1) * I = a * I + I /\ a * I \in Nat
      BY <3>1
    <3>3. count + I = (b - 1) * I + I /\ (b - 1) * I \in Nat
      BY <1>1, <2>1, <3>1, <3>2 DEF I
    <3>4. \A a, c \in Nat : a + I = c + I => a = c
      BY <3>1
    <3>5. count = (b - 1) * I
      BY <1>1, <3>3, <3>4
    <3> QED BY <3>1, <3>5 DEF I
  <2>3. block'[n] = input[n]
    <3>1. \A k \in 1 .. Len(inIds) : input[k] \in Symbols
      BY <1>1
    <3>2. n \in 1 .. Len(inIds) - 1 + 1 /\ 1 + n - 1 = n
      BY <1>1
    <3>3. SubSeq(input, 1, Len(inIds))[n] = input[1 + n - 1]
      BY <1>1, <3>1, <3>2, SubSeqProperties
    <3> QED BY <1>1, <3>2, <3>3
  <2>4. input[n] = Sym(inIds, count + n)
    BY <1>1 DEF DInv, InputIs
  <2>5. Sym(inIds, (b - 1) * Len(inIds) + n) = <<b - 1, inIds[n]>>
    BY <1>1, <2>2, SymOf
  <2> QED BY <2>2, <2>3, <2>4, <2>5
<1>4. OutputIs' /\ OutputBound' /\ EncIs'
  BY <1>1 DEF DInv, OutputIs, Accepted, OutputBound, Taking, EncIs
<1> QED BY <1>1, <1>2, <1>3, <1>4, Frame DEF DInv

(* The symbols that were read are of one block, and it is found. *)
LEMMA DExecute == ASSUME DInv, IInv', Execute PROVE DInv'
<1>1. /\ pc = "execute" /\ pc' = "write"
      /\ ids = inIds /\ Len(inIds) \in Nat \ {0} /\ Len(outIds) \in Nat
      /\ UNCHANGED <<side, source, length, inIds, outIds, input, ids, count, block>>
      /\ UNCHANGED <<buffer, output>>
      /\ enc' = [n \in 1 .. Len(outIds) |-> <<Solved(block), outIds[n]>>]
  BY DEF DInv, IInv, TypesOK, Taken, Execute, Transcoding, constants
<1>2. EncIs'
  <2> SUFFICES ASSUME NEW b \in Nat, Blocks(b)', NEW n \in 1 .. Len(outIds)
               PROVE  enc'[n] = <<b - 1, outIds[n]>>
    BY <1>1 DEF EncIs
  <2>1. Blocks(b) /\ b > 0 /\ count = b * Len(inIds)
    BY <1>1 DEF Blocks, Taking
  <2>2. \A k \in 1 .. Len(ids) : block[k] = <<b - 1, ids[k]>>
    BY <1>1, <2>1 DEF DInv, BlockIs
  <2>3. b - 1 \in 0 .. Len(source)
    BY <2>1, BlockOfSource
  <2>4. block[1][1] = b - 1
    BY <1>1, <2>2
  <2>5. Solved(block) = b - 1
    BY <2>2, <2>3, <2>4 DEF Solved
  <2> QED BY <1>1, <2>5
<1>3. InputIs' /\ OutputIs' /\ OutputBound' /\ BlockIs'
  BY <1>1 DEF DInv, InputIs, OutputIs, Accepted, OutputBound, Taking, BlockIs
<1> QED BY <1>1, <1>2, <1>3, Frame DEF DInv

(* The start of what the stream took before and of the block it takes now. *)
LEMMA TakesBlock ==
  ASSUME DInv, pc = "write", UNCHANGED <<source, outIds>>,
         NEW m \in 0 .. Taking + Len(outIds), Taking' = m,
         \A t \in 1 .. m : Accepted'[t] = (Accepted \o enc)[t]
  PROVE  OutputIs' /\ OutputBound'
<1>1. /\ enc \in Seq(Symbols) /\ Len(enc) = Len(outIds)
      /\ Len(outIds) \in Nat \ {0} /\ outIds \in Seq(Nat)
      /\ Accepted \in Seq(Symbols) /\ Len(Accepted) = Taking /\ Taking \in Nat
  BY FilesTyped DEF DInv, IInv, TypesOK, BlockMade
<1>2. \A t \in 1 .. Taking + Len(outIds) :
        (Accepted \o enc)[t] = IF t <= Taking THEN Accepted[t] ELSE enc[t - Taking]
  BY <1>1, ConcatProperties
<1>3. PICK b \in Nat : Blocks(b)
  BY DEF DInv, IInv, WholeBlocks, Leaving
<1>4. b > 0 /\ b - 1 \in Nat /\ count = b * Len(inIds) /\ Taking = (b - 1) * Len(outIds)
  BY <1>3 DEF Blocks
<1>5. OutputIs'
  <2> SUFFICES ASSUME NEW t \in 1 .. m PROVE Accepted'[t] = Sym(outIds, t)
    BY DEF OutputIs
  <2>1. t \in 1 .. Taking + Len(outIds)
    BY <1>1
  <2>2. CASE t <= Taking
    <3>1. t \in 1 .. Taking
      BY <2>2
    <3> QED BY <1>2, <2>1, <2>2, <3>1 DEF DInv, OutputIs
  <2>3. CASE ~(t <= Taking)
    <3>1. PICK k \in 1 .. Len(outIds) : t = Taking + k /\ t - Taking = k
      <4>1. t - Taking \in 1 .. Len(outIds) /\ t = Taking + (t - Taking)
        BY <1>1, <2>1, <2>3
      <4> QED BY <4>1
    <3>2. Accepted'[t] = enc[k]
      BY <1>2, <2>1, <2>3, <3>1
    <3>3. enc[k] = <<b - 1, outIds[k]>>
      BY <1>3, <3>1 DEF DInv, EncIs
    <3>4. Sym(outIds, (b - 1) * Len(outIds) + k) = <<b - 1, outIds[k]>>
      BY <1>1, <1>4, <3>1, SymOf
    <3> QED BY <1>4, <3>1, <3>2, <3>3, <3>4
  <2> QED BY <2>2, <2>3
<1>6. OutputBound'
  <2>1. b * K <= Len(source)
    BY <1>4, BlockOfSource
  <2>2. (b - 1) * Len(outIds) + Len(outIds) = b * Len(outIds)
    BY <1>1, <1>4
  <2>3. m <= b * Len(outIds)
    BY <1>1, <1>4, <2>2
  <2> QED BY <2>1, <2>3 DEF OutputBound
<1> QED BY <1>5, <1>6

(* The stream's buffer and the block go to the file in this order. *)
LEMMA InOrder ==
  ASSUME DInv, pc = "write"
  PROVE  /\ Pending \in Seq(Symbols) /\ output \in Seq(Symbols)
         /\ Len(Pending) = Len(buffer) + Len(outIds)
         /\ Len(output) + Len(Pending) = Taking + Len(outIds)
         /\ output \o Pending = Accepted \o enc
<1>1. /\ output \in Seq(Symbols) /\ buffer \in Seq(Symbols) /\ enc \in Seq(Symbols)
      /\ Len(enc) = Len(outIds) /\ Len(outIds) \in Nat
      /\ Len(output) \in Nat /\ Len(buffer) \in Nat
  BY DEF DInv, IInv, TypesOK, BlockMade
<1>2. Pending \in Seq(Symbols) /\ Len(Pending) = Len(buffer) + Len(outIds)
  <2>1. buffer \o enc \in Seq(Symbols) /\ Len(buffer \o enc) = Len(buffer) + Len(enc)
    BY <1>1, ConcatProperties
  <2> QED BY <1>1, <2>1 DEF Pending
<1>3. Len(output) + Len(Pending) = Taking + Len(outIds)
  BY <1>1, <1>2 DEF Taking
<1>4. output \o (buffer \o enc) = (output \o buffer) \o enc
  BY <1>1, ConcatAssociative
<1> QED BY <1>1, <1>2, <1>3, <1>4 DEF Pending, Accepted

LEMMA DWrite == ASSUME DInv, IInv', Write PROVE DInv'
<1>1. /\ pc = "write" /\ pc' = "read"
      /\ UNCHANGED <<side, source, length, inIds, outIds, input, ids, count, block, enc, status>>
  BY DEF Write, Transcoding, constants
<1>2. PICK n \in 0 .. Len(Pending) : Writes(n) /\ buffer' = SubSeq(Pending, n + 1, Len(Pending))
  BY DEF Write
<1>3. Accepted' = Accepted \o enc /\ Taking' = Taking + Len(outIds)
  <2>1. /\ Pending \in Seq(Symbols) /\ output \in Seq(Symbols)
        /\ Len(output) + Len(Pending) = Taking + Len(outIds)
        /\ output \o Pending = Accepted \o enc
    BY <1>1, InOrder
  <2>2. Accepted' = output \o Pending
    BY <1>2, <2>1, Split DEF Accepted, Writes
  <2>3. Len(output') = Len(output) + n /\ Len(buffer') = Len(Pending) - n
    BY <1>2, <2>1, Split, Cut DEF Writes
  <2>4. Len(output) \in Nat /\ Len(Pending) \in Nat /\ n \in Nat
    BY <2>1
  <2> QED BY <2>1, <2>2, <2>3, <2>4 DEF Taking
<1>4. OutputIs' /\ OutputBound'
  <2>1. Taking + Len(outIds) \in 0 .. Taking + Len(outIds)
    BY FilesTyped
  <2>2. \A t \in 1 .. Taking + Len(outIds) : Accepted'[t] = (Accepted \o enc)[t]
    BY <1>3
  <2> QED BY <1>1, <1>3, <2>1, <2>2, TakesBlock
<1>5. InputIs' /\ BlockIs' /\ EncIs'
  BY <1>1 DEF DInv, InputIs, BlockIs, EncIs
<1> QED BY <1>1, <1>4, <1>5, Frame DEF DInv

LEMMA DWriteFails == ASSUME DInv, IInv', WriteFails PROVE DInv'
<1>1. /\ pc = "write" /\ pc' = "close" /\ buffer' = <<>>
      /\ UNCHANGED <<side, source, length, inIds, outIds, input, ids, count, block, enc>>
  BY DEF WriteFails, Fail, Transcoding, constants
<1>2. PICK n \in 0 .. Len(Pending) - 1 : Writes(n)
  BY DEF WriteFails
<1>3. /\ Pending \in Seq(Symbols) /\ output \in Seq(Symbols)
      /\ Len(output) + Len(Pending) = Taking + Len(outIds)
      /\ output \o Pending = Accepted \o enc
  BY <1>1, InOrder
<1>4. /\ n \in 0 .. Len(Pending) /\ Len(output) \in Nat
      /\ output' \in Seq(Symbols) /\ Len(output') = Len(output) + n
      /\ \A t \in 1 .. Len(output) + n : output'[t] = (output \o Pending)[t]
  <2>1. n \in 0 .. Len(Pending) /\ Len(output) \in Nat
    BY <1>3
  <2> QED BY <1>2, <1>3, <2>1, Split DEF Writes
<1>5. Accepted' = output' /\ Taking' = Len(output) + n
  BY <1>1, <1>4, ConcatEmptySeq DEF Accepted, Taking
<1>6. OutputIs' /\ OutputBound'
  <2>1. Len(output) + n \in 0 .. Taking + Len(outIds)
    BY <1>3, <1>4
  <2>2. \A t \in 1 .. Len(output) + n : Accepted'[t] = (Accepted \o enc)[t]
    BY <1>3, <1>4, <1>5
  <2> QED BY <1>1, <1>5, <2>1, <2>2, TakesBlock
<1>7. InputIs' /\ BlockIs' /\ EncIs'
  BY <1>1 DEF DInv, InputIs, BlockIs, EncIs
<1> QED BY <1>1, <1>6, <1>7, Frame DEF DInv

LEMMA DClose == ASSUME DInv, IInv', Close PROVE DInv'
<1>1. /\ pc = "close" /\ pc' \in {"succeeded", "failed"} /\ buffer' = <<>>
      /\ UNCHANGED <<side, source, length, inIds, outIds, input, ids, count, block, enc>>
  BY DEF Close, Transcoding, constants
<1>2. PICK n \in 0 .. Len(buffer) : output' = output \o SubSeq(buffer, 1, n)
  BY DEF Close
<1>3. /\ output \in Seq(Symbols) /\ buffer \in Seq(Symbols)
      /\ Len(output) \in Nat /\ Len(buffer) \in Nat
  BY FilesTyped
<1>4. /\ output' \in Seq(Symbols) /\ Len(output') = Len(output) + n
      /\ \A t \in 1 .. Len(output) + n : output'[t] = Accepted[t]
  BY <1>2, <1>3, Split DEF Accepted
<1>5. Accepted' = output' /\ Taking' = Len(output) + n /\ Len(output) + n \in 0 .. Taking
  BY <1>1, <1>3, <1>4, ConcatEmptySeq DEF Accepted, Taking
<1>6. OutputIs' /\ OutputBound'
  BY <1>1, <1>4, <1>5, Shorter
<1>7. InputIs' /\ BlockIs' /\ EncIs'
  BY <1>1 DEF DInv, InputIs, BlockIs, EncIs
<1> QED BY <1>1, <1>6, <1>7, Frame DEF DInv

(* The file that arrives is in order as the receiver sees it. *)
LEMMA ReceivedIs ==
  ASSUME DInv, NEW p \in Receptions, \A n \in 1 .. Len(p) : p[n] <= Len(outIds),
         inIds' = [n \in 1 .. Len(p) |-> outIds[p[n]]],
         NEW s \in 1 .. (Len(output) \div Len(outIds)) * Len(p)
  PROVE  Received(p)[s] = Sym(inIds', s)
<1>1. /\ output \in Seq(Symbols) /\ Len(output) \in Nat
      /\ outIds \in Seq(Nat) /\ Len(outIds) \in Nat \ {0}
      /\ p \in Seq(Nat) /\ Len(p) \in Nat \ {0} /\ \A n \in 1 .. Len(p) : p[n] \in 1 .. Len(outIds)
  <2>1. /\ output \in Seq(Symbols) /\ Len(output) \in Nat
        /\ outIds \in Seq(Nat) /\ Len(outIds) \in Nat \ {0}
    BY FilesTyped
  <2>2. p \in Seq(Nat) /\ Len(p) \in Nat \ {0} /\ \A n \in 1 .. Len(p) : p[n] \in Nat \ {0}
    BY ArgumentsAssumption
  <2> QED BY <2>1, <2>2
<1> DEFINE blocks == Len(output) \div Len(outIds)
           b == (s - 1) \div Len(p)
           n == ((s - 1) % Len(p)) + 1
<1>2. blocks \in Nat /\ blocks * Len(outIds) <= Len(output)
  BY <1>1, Quotient
<1>3. b \in Nat /\ b < blocks /\ n \in 1 .. Len(p)
  <2>1. blocks \in Nat
    BY <1>2
  <2>2. s \in 1 .. blocks * Len(p)
    OBVIOUS
  <2> HIDE DEF blocks
  <2> QED BY <1>1, <2>1, <2>2, BlockOf
<1>4. Received(p)[s] = output[b * Len(outIds) + p[n]]
  BY DEF Received
<1>5. Sym(inIds', s) = <<b, inIds'[n]>> /\ inIds'[n] = outIds[p[n]]
  <2>1. Len(inIds') = Len(p) /\ inIds'[n] = outIds[p[n]]
    BY <1>1, <1>3
  <2> QED BY <2>1 DEF Sym
<1> HIDE DEF blocks, b, n
<1>6. b * Len(outIds) + p[n] \in 1 .. Len(output)
  BY <1>1, <1>2, <1>3, PositionInside
<1>7. output[b * Len(outIds) + p[n]] = Sym(outIds, b * Len(outIds) + p[n])
  BY <1>6, FileIs
<1>8. Sym(outIds, b * Len(outIds) + p[n]) = <<b, outIds[p[n]]>>
  BY <1>1, <1>3, SymOf
<1> QED BY <1>4, <1>5, <1>7, <1>8

LEMMA DTransmit == ASSUME DInv, IInv', NEW p \in Receptions, Transmit(p) PROVE DInv'
<1>1. /\ side = "encoder" /\ side' = "decoder" /\ pc' = "ids" /\ outIds' = SourceIds
      /\ inIds' = [n \in 1 .. Len(p) |-> outIds[p[n]]]
      /\ count' = 0 /\ output' = <<>> /\ buffer' = <<>> /\ source' = source
      /\ \A n \in 1 .. Len(p) : p[n] <= Len(outIds)
  BY DEF Transmit
<1>2. /\ Len(output) \in Nat /\ Len(outIds) \in Nat \ {0} /\ Len(p) \in Nat \ {0}
      /\ Len(inIds') = Len(p) /\ Len(source) \in Nat
  <2>1. /\ output \in Seq(Symbols) /\ Len(output) \in Nat
        /\ outIds \in Seq(Nat) /\ Len(outIds) \in Nat \ {0}
    BY FilesTyped
  <2>2. Len(source) \in Nat
    BY DEF DInv, SourceIs
  <2>3. Len(p) \in Nat \ {0}
    BY ArgumentsAssumption
  <2>4. Len(inIds') = Len(p)
    BY <1>1, <2>3
  <2> QED BY <2>1, <2>2, <2>3, <2>4
<1> DEFINE blocks == Len(output) \div Len(outIds)
<1>3. blocks \in Nat /\ blocks * Len(outIds) <= Len(output)
  BY <1>2, Quotient
<1>4. Len(Received(p)) = blocks * Len(p) /\ blocks * Len(p) \in Nat
  <2>1. blocks * Len(p) \in Nat
    BY <1>2, <1>3
  <2> QED BY <2>1 DEF Received
<1>5. \A s \in 1 .. blocks * Len(p) : Received(p)[s] = Sym(inIds', s)
  BY <1>1, ReceivedIs
<1> HIDE DEF blocks
<1>6. PICK n \in 0 .. blocks * Len(p) : input' = SubSeq(Received(p), 1, n) /\ length' = n
  BY <1>4 DEF Transmit
<1>7. InputIs'
  <2>1. Len(input') = n /\ \A s \in 1 .. n : input'[s] = Received(p)[s]
    BY <1>4, <1>6
  <2>2. \A s \in 1 .. n : 0 + s = s /\ s \in 1 .. blocks * Len(p)
    BY <1>4, <1>6
  <2> QED BY <1>1, <1>5, <2>1, <2>2 DEF InputIs
<1>8. InputBound'
  <2> SUFFICES ASSUME NEW b \in Nat, b * Len(p) <= n
               PROVE  b * K <= Len(source)
    BY <1>1, <1>2, <1>6 DEF InputBound
  <2>1. b <= blocks
    <3>1. b * Len(p) <= blocks * Len(p)
      BY <1>2, <1>4, <1>6, ProductType
    <3> QED BY <1>2, <1>3, <3>1, LeqFactor
  <2>2. PICK c \in Nat : c * K <= Len(source) /\ Len(output) <= c * Len(outIds)
    <3>1. PICK c \in Nat : c * K <= Len(source) /\ Taking <= c * Len(outIds)
      BY DEF DInv, OutputBound
    <3>2. Len(output) <= Taking /\ Taking \in Nat
      BY FileIs, FilesTyped
    <3>3. Len(output) <= c * Len(outIds)
      BY <1>2, <3>1, <3>2, ProductType
    <3> QED BY <3>1, <3>3
  <2>3. blocks <= c
    <3>1. blocks * Len(outIds) <= c * Len(outIds)
      BY <1>2, <1>3, <2>2, ProductType
    <3> QED BY <1>2, <1>3, <3>1, LeqFactor
  <2>4. b * K <= c * K
    BY <1>3, <2>1, <2>3, LeqProduct, CodecAssumption
  <2> QED BY <1>2, <2>2, <2>4, ProductType, CodecAssumption
<1>9. OutputBound'
  <2>1. Len(outIds') \in Nat /\ Taking' = 0
    BY <1>1, SourceIdsType, CodecAssumption DEF Taking
  <2>2. 0 * K <= Len(source') /\ Taking' <= 0 * Len(outIds')
    BY <1>1, <1>2, <2>1, CodecAssumption
  <2> QED BY <2>2 DEF OutputBound
<1>10. OutputIs' /\ BlockIs' /\ EncIs' /\ SourceIs' /\ SidesAre'
  BY <1>1 DEF DInv, OutputIs, Taking, BlockIs, EncIs, SourceIs, SidesAre
<1> QED BY <1>7, <1>8, <1>9, <1>10 DEF DInv

LEMMA DInvariance == DInv /\ [Next]_vars => DInv'
<1> SUFFICES ASSUME DInv, [Next]_vars PROVE DInv'
  OBVIOUS
<1>1. IInv'
  BY Invariance DEF DInv
<1>2. CASE AddIds \/ Compile \/ ShortRead \/ Done
  <2>1. /\ UNCHANGED <<side, source, length, inIds, outIds, input, count, buffer, output>>
        /\ pc' \notin {"execute", "write"}
    BY <1>2 DEF AddIds, Compile, ShortRead, Done, Fail, Transcoding, constants
  <2> QED BY <1>1, <2>1, QuietKeeps
<1>3. CASE \E p \in Receptions : Transmit(p)
  BY <1>1, <1>3, DTransmit
<1>4. CASE Ended \/ UNCHANGED vars
  <2>1. UNCHANGED vars
    BY <1>4 DEF Ended
  <2>2. InputIs' /\ OutputIs' /\ OutputBound' /\ BlockIs' /\ EncIs'
    BY <2>1 DEF vars, DInv, InputIs, OutputIs, Accepted, OutputBound, BlockIs, EncIs, Blocks, Taking
  <2>3. UNCHANGED <<side, source, length, inIds, outIds>>
    BY <2>1 DEF vars
  <2> QED BY <1>1, <2>2, <2>3, Frame DEF DInv
<1> QED BY <1>1, <1>2, <1>3, <1>4, DRead, DExecute, DWrite, DWriteFails, DClose
   DEF Next, Transcode

-----------------------------------------------------------------------------
(* The refinement *)

(* In the receiver order and bound make the output a prefix. *)
LEMMA PrefixOfSource ==
  ASSUME DInv, side = "decoder"
  PROVE  /\ Len(output) \in Nat /\ Len(source) \in Nat /\ Len(output) <= Len(source)
         /\ output = SubSeq(source, 1, Len(output))
<1>1. /\ output \in Seq(Symbols) /\ Len(output) \in Nat /\ Len(source) \in Nat
      /\ source \in Seq(Symbols) /\ source = SourceFile(Len(source)) /\ outIds = SourceIds
  BY SourceFileType DEF DInv, IInv, TypesOK, SourceIs, SidesAre
<1>2. Len(output) <= Len(source)
  <2>1. PICK b \in Nat : b * K <= Len(source) /\ Taking <= b * K
    BY <1>1, SourceIdsType DEF DInv, OutputBound
  <2>2. Len(output) <= Taking /\ Taking \in Nat
    BY FileIs, FilesTyped
  <2> QED BY <1>1, <2>1, <2>2, ProductType, CodecAssumption
<1>3. \A t \in 1 .. Len(output) : output[t] = source[t]
  <2> SUFFICES ASSUME NEW t \in 1 .. Len(output) PROVE output[t] = source[t]
    OBVIOUS
  <2>1. t \in 1 .. Len(source)
    BY <1>1, <1>2
  <2>2. SourceFile(Len(source))[t] = Sym(SourceIds, t)
    BY <1>1, <2>1, SourceSym
  <2> QED BY <1>1, <2>2, FileIs
<1> DEFINE start == SubSeq(source, 1, Len(output))
<1>4. start \in Seq(Symbols) /\ Len(start) = Len(output)
  BY <1>1, <1>2, Cut
<1>5. \A t \in 1 .. Len(output) : start[t] = source[t]
  BY <1>1, <1>2
<1> HIDE DEF start
<1>6. output = start
  BY <1>1, <1>3, <1>4, <1>5, SeqEqual
<1> QED BY <1>1, <1>2, <1>6 DEF start

(* The variables of Delivery. *)
Delivered == IF decoding THEN output ELSE <<>>

(* A step after which the receiver's file is longer, or the same. *)
LEMMA Grows ==
  ASSUME DInv, DInv', side = "decoder", ~ended,
         UNCHANGED <<side, source>>, Len(output) <= Len(output')
  PROVE  DeliversPrefix!Next
<1>1. /\ Len(output') \in Nat /\ Len(source') \in Nat /\ Len(output') <= Len(source')
      /\ output' = SubSeq(source', 1, Len(output'))
  <2>1. (DInv => (side = "decoder" =>
          /\ Len(output) \in Nat /\ Len(source) \in Nat /\ Len(output) <= Len(source)
          /\ output = SubSeq(source, 1, Len(output))))'
    BY PrefixOfSource, PTL
  <2> QED BY <2>1
<1>2. Len(output) \in Nat
  BY PrefixOfSource
<1>3. Len(output') \in Len(output) .. Len(source)
  BY <1>1, <1>2
<1>4. Delivered = output /\ Delivered' = output'
  BY DEF Delivered, decoding
<1>5. \E n \in Len(Delivered) .. Len(source) : Delivered' = SubSeq(source, 1, n)
  BY <1>1, <1>3, <1>4
<1>6. ~(decoding /\ ended) /\ (decoding /\ ended)' \in BOOLEAN
  BY DEF ended
<1> QED BY <1>5, <1>6 DEF DeliversPrefix!Next, Delivered

LEMMA StepRefines ==
  ASSUME DInv, DInv', [Next]_vars
  PROVE  [DeliversPrefix!Next]_DeliversPrefix!vars
<1>1. side \in {"encoder", "decoder"}
  BY DEF DInv, SidesAre
<1>2. CASE UNCHANGED vars \/ Ended
  BY <1>2 DEF Ended, vars, DeliversPrefix!vars, decoding, ended
<1>3. CASE side = "encoder" /\ (Transcode \/ \E p \in Receptions : Transmit(p))
  <2>1. UNCHANGED source
    BY <1>3 DEF Transcode, AddIds, Compile, Read, ShortRead, Execute, Write, WriteFails, Done,
                Close, Transcoding, constants, Transmit
  <2>2. ~decoding /\ (decoding' => output' = <<>> /\ ~ended')
    BY <1>3 DEF Transcode, AddIds, Compile, Read, ShortRead, Execute, Write, WriteFails, Done,
                Close, Transcoding, constants, Transmit, decoding, ended
  <2> QED BY <2>1, <2>2 DEF DeliversPrefix!vars
<1>4. CASE side = "decoder" /\ Transcode
  <2>1. UNCHANGED <<side, source>> /\ ~ended
    BY <1>4 DEF Transcode, AddIds, Compile, Read, ShortRead, Execute, Write, WriteFails, Done,
                Close, Transcoding, constants, ended
  <2>2. output \in Seq(Symbols) /\ Len(output) \in Nat
    BY FilesTyped
  <2>3. Len(output) <= Len(output')
    <3>1. CASE AddIds \/ Compile \/ Read \/ ShortRead \/ Execute \/ Done
      <4>1. output' = output
        BY <3>1 DEF AddIds, Compile, Read, ShortRead, Execute, Done
      <4> QED BY <2>2, <4>1
    <3>2. CASE Write \/ WriteFails
      <4>1. pc = "write" /\ Pending \in Seq(Symbols)
        BY <3>2, InOrder DEF Write, WriteFails, Transcoding
      <4>2. PICK n \in 0 .. Len(Pending) : output' = output \o SubSeq(Pending, 1, n)
        <5>1. \A n \in 0 .. Len(Pending) - 1 : n \in 0 .. Len(Pending)
          BY <4>1
        <5> QED BY <3>2, <5>1 DEF Write, WriteFails, Writes
      <4> QED BY <2>2, <4>1, <4>2, Split
    <3>3. CASE Close
      <4>1. PICK n \in 0 .. Len(buffer) : Len(output') = Len(output) + n
        BY <3>3, Closes DEF DInv
      <4> QED BY <2>2, <4>1
    <3> QED BY <1>4, <3>1, <3>2, <3>3 DEF Transcode
  <2> QED BY <1>4, <2>1, <2>3, Grows
<1>5. ~(side = "decoder" /\ \E p \in Receptions : Transmit(p))
  BY DEF Transmit
<1> QED BY <1>1, <1>2, <1>3, <1>4, <1>5 DEF Next

(* Whatever is lost, repeated, reordered or cut off, and whichever run     *)
(* fails halfway, also when the stream is closed, the receiver's file only *)
(* grows, is a prefix of the source and stays as it is after the end: for  *)
(* every block length, file, list of IDs and size of the stream's buffer,  *)
(* FileCodec does what Delivery allows.                                    *)
THEOREM DeliversSafely ==
  Spec => DeliversPrefix!Init /\ [][DeliversPrefix!Next]_DeliversPrefix!vars
<1>1. Init => DInv
  BY DInit
<1>2. DInv /\ [Next]_vars => DInv'
  BY DInvariance
<1>3. Init => DeliversPrefix!Init
  BY DEF Init, DeliversPrefix!Init, decoding
<1>4. DInv /\ DInv' /\ [Next]_vars => [DeliversPrefix!Next]_DeliversPrefix!vars
  BY StepRefines
<1> QED BY <1>1, <1>2, <1>3, <1>4, PTL DEF Spec
=============================================================================
