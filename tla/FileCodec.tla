----------------------------- MODULE FileCodec ------------------------------
(***************************************************************************)
(* Two runs of samples_tests/api/file_enc_dec.cpp: one encodes a file, the *)
(* other decodes what is left of its output.  Both are the same function,  *)
(* transcode, with other IDs; it makes its two programs from the IDs of    *)
(* the command line and then goes through the file block by block.  In     *)
(* between symbols are lost, repeated and reordered and the file may lose  *)
(* its tail.                                                               *)
(*                                                                         *)
(* Symbol <<b, x>> is the symbol with ID x of block b of the source.  What *)
(* RoundTrip shows of the codec is assumed: the symbols of a decodable set *)
(* of IDs determine their block, and a mixture determines nothing.         *)
(*                                                                         *)
(* The output file is behind a stream that keeps symbols back and writes   *)
(* them later, at the latest when it is closed.  A disk that refuses a     *)
(* write refuses every later one, so the retries of the stream write       *)
(* nothing; part of a symbol in the file counts as none.                   *)
(***************************************************************************)
EXTENDS Integers, Sequences, SequencesExt

CONSTANTS K, Kprime,
          Decodable(_),  \* the sets of IDs whose matrix has full rank
          Lengths,       \* lengths of the source file, in symbols
          Commands,      \* lists of ranges given with -O to encode
          Receptions,    \* what survives of a block: a list of positions
          Buffer         \* the symbols the output stream keeps back at most

ASSUME CodecAssumption == /\ K \in Nat \ {0} /\ Kprime \in Nat /\ Kprime >= K
                          /\ Buffer \in Nat

VARIABLES side,    \* "encoder" or "decoder"
          pc,      \* where transcode is: "ids", "compile", "read", "execute",
                   \* "write", "close", "succeeded" or "failed"
          source,  \* the file to be encoded
          input,   \* ifs, what is left to read of the input file
          length,  \* its whole length
          inIds, outIds,   \* ESIs_input, ESIs_wanted
          ids,     \* the IDs interWork has taken
          count,   \* symbols of the input the loop has counted
          block,   \* src, the symbols of a block
          enc,     \* the symbols made of them
          status,  \* 0, or 1 after an error
          buffer,  \* what ofs has taken and not yet written
          output   \* the output file

vars == <<side, pc, source, input, length, inIds, outIds, ids, count, block, enc, status,
          buffer, output>>
constants == <<side, source, length, inIds, outIds>>

(* expandEsiStr: "7-9,3" is the list 7, 8, 9, 3. *)
Expand(ranges) ==
  FlattenSeq([r \in 1 .. Len(ranges) |->
                [n \in 1 .. ranges[r][2] - ranges[r][1] + 1 |-> ranges[r][1] + n - 1]])

(* What the range "0-(K-1)" of a source block expands to. *)
SourceIds == [n \in 1 .. K |-> n - 1]
SourceFile(n) == [s \in 1 .. n |-> <<(s - 1) \div K, (s - 1) % K>>]
Garbage == -1

Init ==
  /\ side = "encoder" /\ pc = "ids"
  /\ \E n \in Lengths : source = SourceFile(n)
  /\ input = source /\ length = Len(source)
  /\ inIds = SourceIds
  /\ \E c \in Commands : outIds = Expand(c)
  /\ ids = <<>> /\ count = 0 /\ block = <<>> /\ enc = <<>>
  /\ status = 0 /\ buffer = <<>> /\ output = <<>>

Transcoding(at) ==
  /\ pc = at
  /\ UNCHANGED constants

(* What every error does before DONE(). *)
Fail == status' = 1 /\ pc' = "close"

(* One ID at a time goes to a work memory for nExtra = inputEsiCnt - K     *)
(* more than K' of them; what RqInterAddIds returns is not looked at.      *)
Capacity == Len(inIds) - K + Kprime
AddIds ==
  /\ Transcoding("ids")
  /\ ids' = SubSeq(inIds, 1, IF Len(inIds) <= Capacity THEN Len(inIds) ELSE Capacity)
  /\ pc' = "compile"
  /\ UNCHANGED <<input, count, block, enc, status, buffer, output>>

(* RqInterCompile, then the output program, whose sizes always suffice.    *)
Compile ==
  /\ Transcoding("compile")
  /\ \/ Decodable(Range(ids)) /\ pc' = "read" /\ UNCHANGED status
     \/ ~Decodable(Range(ids)) /\ Fail
  /\ UNCHANGED <<input, ids, count, block, enc, buffer, output>>

(* while (count < length): a whole block is read, or none. *)
LoopGoesOn == count < length
Counted_Bug(n) == n + K
Counted(n) == n + Len(inIds)

Read ==
  /\ Transcoding("read") /\ LoopGoesOn /\ Len(input) >= Len(inIds)
  /\ block' = SubSeq(input, 1, Len(inIds))
  /\ input' = SubSeq(input, Len(inIds) + 1, Len(input))
  /\ count' = Counted(count)
  /\ pc' = "execute"
  /\ UNCHANGED <<ids, enc, status, buffer, output>>

TooShort == LoopGoesOn /\ Len(input) < Len(inIds)
ShortRead_Bug ==
  /\ Transcoding("read") /\ TooShort
  /\ block' = input \o [n \in 1 .. Len(inIds) - Len(input) |-> <<Garbage, 0>>]
  /\ input' = <<>> /\ count' = Counted(count)
  /\ pc' = "execute"
  /\ UNCHANGED <<ids, enc, status, buffer, output>>
ShortRead ==
  /\ Transcoding("read") /\ TooShort
  /\ Fail
  /\ UNCHANGED <<input, ids, count, block, enc, buffer, output>>

(* RqInterExecute pairs the first symbols with the IDs in memory; the      *)
(* block they belong to is found if each is the symbol of its ID.          *)
Solved(symbols) ==
  IF \E b \in 0 .. Len(source) : \A n \in 1 .. Len(ids) : symbols[n] = <<b, ids[n]>>
    THEN symbols[1][1] ELSE Garbage

Execute ==
  /\ Transcoding("execute")
  /\ enc' = [n \in 1 .. Len(outIds) |-> <<Solved(block), outIds[n]>>]
  /\ pc' = "write"
  /\ UNCHANGED <<input, ids, count, block, status, buffer, output>>

(* ofs.write: the block goes behind what the stream still holds, and the   *)
(* first n symbols of all that reach the file.                             *)
Pending == buffer \o enc
Writes(n) == output' = output \o SubSeq(Pending, 1, n)

Write ==
  /\ Transcoding("write")
  /\ \E n \in 0 .. Len(Pending) : /\ Len(Pending) - n <= Buffer
                                  /\ Writes(n)
                                  /\ buffer' = SubSeq(Pending, n + 1, Len(Pending))
  /\ pc' = "read"
  /\ UNCHANGED <<input, ids, count, block, enc, status>>

(* !ofs.good(): the disk refused some of this block or of earlier ones. *)
WriteFails ==
  /\ Transcoding("write")
  /\ \E n \in 0 .. Len(Pending) - 1 : Writes(n)
  /\ buffer' = <<>>
  /\ Fail
  /\ UNCHANGED <<input, ids, count, block, enc>>

Done ==
  /\ Transcoding("read") /\ ~LoopGoesOn
  /\ pc' = "close"
  /\ UNCHANGED <<input, ids, count, block, enc, status, buffer, output>>

(* DONE(): closing the stream writes the rest, or as much of it as the     *)
(* disk takes; whether all of it was written is not looked at.             *)
Close ==
  /\ Transcoding("close")
  /\ \E n \in 0 .. Len(buffer) : output' = output \o SubSeq(buffer, 1, n)
  /\ buffer' = <<>>
  /\ pc' = IF status = 0 THEN "succeeded" ELSE "failed"
  /\ UNCHANGED <<input, ids, count, block, enc, status>>

(* The encoder's file as it is received: of every block the symbols at the *)
(* same positions, and only its first n symbols.  The receiver decodes     *)
(* even if the encoder failed.                                             *)
Received(positions) ==
  [s \in 1 .. (Len(output) \div Len(outIds)) * Len(positions) |->
     LET b == (s - 1) \div Len(positions)
         n == ((s - 1) % Len(positions)) + 1
     IN output[b * Len(outIds) + positions[n]]]

Transmit(positions) ==
  /\ side = "encoder" /\ pc \in {"succeeded", "failed"}
  /\ \A n \in 1 .. Len(positions) : positions[n] <= Len(outIds)
  /\ \E n \in 0 .. Len(Received(positions)) : /\ input' = SubSeq(Received(positions), 1, n)
                                                /\ length' = n
  /\ side' = "decoder" /\ pc' = "ids"
  /\ inIds' = [n \in 1 .. Len(positions) |-> outIds[positions[n]]]
  /\ outIds' = SourceIds
  /\ ids' = <<>> /\ count' = 0 /\ block' = <<>> /\ enc' = <<>>
  /\ status' = 0 /\ buffer' = <<>> /\ output' = <<>>
  /\ UNCHANGED source

Ended == side = "decoder" /\ pc \in {"succeeded", "failed"} /\ UNCHANGED vars

Transcode ==
  AddIds \/ Compile \/ Read \/ ShortRead \/ Execute \/ Write \/ WriteFails \/ Done \/
  Close
Next == Transcode \/ (\E p \in Receptions : Transmit(p)) \/ Ended

(* transcode is a loop in its process and runs on; so does the receiver.   *)
Spec == Init /\ [][Next]_vars /\ WF_vars(Transcode) /\ WF_vars(\E p \in Receptions : Transmit(p))

(* A command names at least one ID and at least one symbol of a block is   *)
(* received.                                                               *)
ASSUME ArgumentsAssumption ==
  /\ Lengths \subseteq Nat
  /\ \A c \in Commands : Expand(c) \in Seq(Nat) /\ Len(Expand(c)) > 0
  /\ \A p \in Receptions :
       /\ p \in Seq(Nat) /\ Len(p) > 0
       /\ \A n \in 1 .. Len(p) : p[n] > 0

-----------------------------------------------------------------------------
(* Properties *)

(* Whatever is lost, repeated, reordered or cut off, and whichever run     *)
(* fails halfway, the receiver's file grows as a prefix of the source and  *)
(* both runs end.                                                          *)
decoding == side = "decoder"
ended == pc \in {"succeeded", "failed"}
DeliversPrefix ==
  INSTANCE Delivery WITH delivered <- IF decoding THEN output ELSE <<>>,
                         ended <- decoding /\ ended
Delivers == DeliversPrefix!Spec

(* The output, with so many symbols more, is what n symbols of the input   *)
(* are transcoded to.                                                      *)
Transcoded(n, missing) == (Len(output) + missing) * Len(inIds) = n * Len(outIds)

(* A run that can decode fails only for its disk or an incomplete input:   *)
(* the loop counts what it reads, also when more than K symbols come in.   *)
(* And a run that reports success has transcoded its whole input, but for  *)
(* what the stream still kept back when it was closed.                     *)
ReportsTruthfully ==
  /\ pc = "failed" /\ Decodable(Range(inIds)) /\ length % Len(inIds) = 0 =>
       ~Transcoded(length - Len(input), 0)
  /\ pc = "succeeded" => \E missing \in 0 .. Buffer : Transcoded(length, missing)

(* What "--> Succeeded" says: everything is in the file.  As nobody looks  *)
(* at what ofs.close() returns, it is not so on a full disk.               *)
SuccessIsComplete == pc = "succeeded" => Transcoded(length, 0)

=============================================================================
