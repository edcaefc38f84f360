# TvRQ in TLA+

TvRQ is a test-vector implementation of RaptorQ (RFC 6330): a block of K source
symbols becomes an intermediate block of L symbols, from which any number of
encoding symbols can be computed; any set of encoding symbols whose matrix has
rank L gives the intermediate block back. This directory holds TLA+ models of
the code, the TLC configurations that check them, and TLAPS proofs. Paths below
are relative to the repository root (`src/` here).

## 1. Inventory

| Component | Source | State it keeps | Operations |
|---|---|---|---|
| LU decomposition | `algebra/mv_generic.h` (included by `m256v.c` and `m2v.c`) | matrix storage, holding L below and U on and above the diagonal; row and column permutation; loop index | `LU_decomp_inplace` with `swap_rows`, `swap_cols`, `mult_col_from`, `multadd_row_from` |
| LU solve | `algebra/mv_generic.h`, `RqInterExecute` | right-hand side becoming the solution, in place | `LU_invmult_inplace`, `L_invmult_inplace_p`, `U_invmult_inplace_p`, `permute_rows`; the codec's gather |
| Other LU operations | `algebra/mv_generic.h` | none | `LU_mult`, `LU_mult_inplace`, `LU_invmult`, `LU_det` |
| Octet matrices, bit matrices | `algebra/m256v.c`, `algebra/m2v.c` | octets; bits packed in 32-bit words; views of either | row and column operations, copies, sums and products |
| GF(256) | `algebra/gf256.c` | EXP and LOG tables | multiply, divide, invert |
| Code parameters | `rfc6330_alg/parameters.c` | constant tables | `parameters_get`, `nextprime` |
| Tuples and random numbers | `rfc6330_alg/tuple.c`, `rand.c` | constant tables | `Rand`, `Deg`, `tuple_generate_from_ISI` |
| Matrix generation | `tvrq/rq_matrix.c`, `lt.c`, `ldpc.c`, `hdpc.c` | none | rows of the LT, LDPC and HDPC parts |
| RqInter API | `api/tvrq_api.c` | client memory: work memory (parameters, capacity, list of IDs), program (LU, row permutation, number of IDs) | `RqInterGetMemSizes`, `RqInterInit`, `RqInterAddIds`, `RqInterCompile`, `RqInterExecute` |
| RqOut API | `api/tvrq_api.c` | client memory: work memory and its byte copy, the program | `RqOutGetMemSizes`, `RqOutInit`, `RqOutAddIds`, `RqOutCompile`, `RqOutExecute` |
| Clients | `samples_tests/` | files | encode, drop symbols, decode, compare |

The library has no threads, no callbacks and no persistent state: everything is
a call by the client. `RqInterCompile` takes the parameters and IDs from the
work memory, generates the matrix into the program memory and decomposes it
there. `RqInterExecute` gathers the client's symbols through the row
permutation and solves. `RqOutExecute` walks the intermediate block.

What is hard here:

* **Shared storage in the decomposition.** L and U live in the matrix; later
  swaps move what is settled already, an update must start one column late, and
  the codec throws the column permutation away because full-rank matrices have
  none *with this search order*. The asserts that say so are compiled out.
* **Calls in any order on memory the client owns.** Failed calls leave partial
  effects (a failed `RqInterInit` has overwritten the parameters, a failed
  `RqInterCompile` the program); the repository's own clients ignore the result
  of `RqInterAddIds`; memory is reused between blocks and attempts; the work
  memory is sized from K', the program for the same rows computed differently.
* **Masks, strides, aliases.** Rows of bits end inside a word; views share
  storage and overlap; generators write over memory with any content.
* **Two programs for one definition.** The matrix and the symbols are made by
  different loops from the same tuples; they agree only because no walk visits
  an index twice, which rests on the tables.
* **Numbers.** A size computed in `int`, IDs that wrap at 2^32, tables with the
  properties that the generators silently rely on.
* **Files.** Lost, repeated and reordered symbols, short reads, full disks that show
  only when a stream writes what it kept back.

## 2. Modules

| Module | Models | Extends or instantiates |
|---|---|---|
| `LUDecomp` | `LU_decomp_inplace` over any finite field of characteristic two | - |
| `LUSolve` | `LU_invmult_inplace`, `RqInterExecute`'s gather and solve | `LUDecomp` |
| `LUOps` | `LU_det`, `LU_mult`, `LU_invmult`, `LU_mult_inplace` | `LUSolve` |
| `PermuteRows` | `permute_rows`, `permute_cols`, cycle by cycle | - |
| `SplitSolve` | the two-part solve of `m256v_splitsolve.c` | `LUDecomp`, twice |
| `MatrixOps` | what an operation on (views of) a matrix means: the reference | - |
| `BitMatrix`, `BitCalls` | `m2v.c` on packed words; calls on two views | `MatrixOps` |
| `BitLU` | the decomposition over packed words | `BitMatrix`; refines `LUDecomp` |
| `OctMatrix`, `OctCalls` | `m256v.c` and the matrix part of `mv_generic.h`; calls on three views | `MatrixOps` |
| `Storage` | a memory used by calls on bits, by calls on octets, or by the decomposition of bits | `BitCalls`; instantiates `OctCalls`, `BitLU` |
| `Gf256` | tables and products of `gf256.c` | `Words` |
| `Words` | 32-bit arithmetic, as pairs of halves | - |
| `RandTables`, `Tuples` | `rand.c`, `tuple.c` | `Words` |
| `RqParams`, `RqParamTable` | `parameters_get`, `nextprime` over any table; the 477 rows | - |
| `RqMatrix` | `rq_matrix.c`, `lt.c`, `ldpc.c`, `hdpc.c` | `Tuples`, `Gf256`, `RqParams` |
| `HdpcColumns` | the fast HDPC generator, a column per step | `RqMatrix` |
| `LTWalk` | the tuple of a symbol; the walk from a tuple to its columns, in its two forms | `RqMatrix` |
| `RoundTrip` | encoder, received IDs, decoder (`rq_encdec_match.c`) | `RqMatrix`, `LUSolve` |
| `RqInterSizes`, `RqInterApi` | byte sizes; the RqInter calls and their client | `RqParams` |
| `RqOutApi` | the RqOut calls and their client | `RqParams` |
| `FileCodec` | `file_enc_dec.cpp`, an encoding and a decoding run with a lossy channel between them | refines `Delivery` |
| `Delivery` | what a file transfer promises | - |
| `RandomEsis` | the made-up IDs of `test_utils.c` | - |
| `*Proofs` | theorems | the module they are about; `RoundTripProofs` instantiates `LUSolveProofs` twice |
| `Fields`, `MC*` | small fields, tables, ranks and contents for TLC | |

`MCStorage` (`Storage` and `PermuteRows`), `MCSplitSolve` (`LUOps` and `SplitSolve`),
`Storage` and `MCGenerators` join several modules in one run: a behaviour belongs
to one of them, chosen in the initial state, and leaves the variables of the others
alone.

**LUDecomp.** `A`, `rp`, `cp`, `i` are the variables of the C function, `pc` its
control point, `A0` the matrix it was passed. `Pivot(prow, pcol)` is an
iteration of the loop with the pivot the two nested searches find
(`IsFirstPivot`: column by column, top down), the two swaps, the division of
column i below the diagonal, and the update of the rest; `NoPivot` is the break,
`Exhausted` the loop condition. GF(256) itself is a parameter: the algorithm
uses only that subtraction is addition and that nonzero elements have inverses.

**LUSolve.** After the decomposition either a general caller solves with `rank`,
`rowperm` and `inv_colperm` (`LoadInplace`, with arbitrary content in the buffer
rows beyond Y), or the codec does (`LoadCodec`: only for full column rank,
symbols gathered through `rp`, zero for constraint rows, no permutations).
`ForwardRow` and `BackwardRow` are single rows of the two triangular solves. A
row of X is a symbol; its octets never mix, so it is one field element.

**LUOps.** The calls that leave the factors alone, as operators on the state the
decomposition ends in. The order in which rows are read and written matters in
each and is kept (`Ascending`, `Descending`).

**PermuteRows.** `LUSolve` permutes in one step; the code follows cycles with one
line of buffer and visited marks. `Skip`, `Lift`, `Shift`, `Drop` are the parts of
the two nested loops.

**BitMatrix, OctMatrix.** A word is the set of its set bits, so masks are
intersections; a view is an address, a shape and a stride. Each operation is
written on memory, addresses and words; `MatrixOps` says what the operation
means for the matrix, and `BitCalls` and `OctCalls` make calls in any order on
views, keeping both. Behind the bit matrix lies memory of somebody else.
`BitLU` writes `LU_decomp_inplace` with these operations and implements `LUDecomp`
under the mapping that unpacks the words. `Storage` states for all three together
what the memory promises.

**RqParams, Tuples, RqMatrix.** The table is a constant with an assumption
(`IsTable`: ascending K', S and H never falling) so that API models run on small
tables and proofs hold for all; `MCGenerators` has TLC evaluate that the real
table satisfies it. A row of the LT and LDPC parts is a set of columns.
`hdpc_generate_mat_specexact` is the product MT * GAMMA; `hdpc_generate_mat` the
recurrence that the codec uses, over memory `m` with any content.

**RoundTrip.** Two instances of `LUSolve` over GF(256), the encoder's and the
decoder's, on matrices that `RqMatrix` makes; a symbol is one octet.

**RqInterApi.** `mem` is what `RqInterGetMemSizes` reported; `params`, `nESI_max`
and `ESIs` are the work memory; `prog` is the program memory (`raw`, `partial`
after `RQ_ERR_INSUFF_IDS`, `ready`); `last` the last call's return. The history
variables `inited`, `promised`, `requested`, `progReq` and `current` are what the
client knows. The order of checks and assignments in `RqInterInit` is kept: a
call that fails late has overwritten what precedes the failing check. Whether a
set of IDs determines the block is the parameter `FullRank` (monotone in the
set). A client does not compile with IDs of an Init that failed; it may ignore
`RQ_ERR_MAX_IDS_REACHED` as `file_enc_dec.cpp` does, ask for IDs twice, retry,
re-initialise with other sizes, and execute an old program in between. A client
that was told an overflowed program size (`NoSize`) cannot allocate it and does
not get to Compile.

**RqOutApi.** The same for the output side; `Execute` is reduced to the list of
IDs it computes, in order (`LTWalk` has the walk, `RoundTrip` the sums).

**FileCodec.** `transcode` is the same function for both directions: IDs from the
command line (`Expand`), the two programs, then read, execute, write, block by block.
Between the runs `Transmit` keeps, of every block, the symbols at a list of positions,
which may leave some out, repeat or reorder them, and cuts the file anywhere. `buffer`
is what the output stream has taken and not yet written, at most `Buffer` symbols once
`ofs.write` has returned. `Write` puts any first part of what is pending into the file
and keeps the rest; in `WriteFails` the disk refuses some of it, of this block or of
earlier ones, which `ofs.good()` sees. `Close` is the macro `DONE()`, at the end and
after every error: it writes what is still kept back, or as much as the disk takes, and
reports `status` as it is. What `RoundTrip` shows of the codec is assumed here: the
symbols of a decodable set determine the block, a mixture of blocks determines nothing.
Steps of `LUSolve`, of the API and of `FileCodec` describe the same calls at three
levels; no run composes all three.

## 3. Runs

| Run | Instance | Shows |
|---|---|---|
| `lu_tall` | every 3x2 system over GF(4) | `TypeOK`, `Factorisation`, `FullRankKeepsColumns`, `CodecRecovers`, `FactorsStandForMatrix` |
| `lu_wide` | every 3x4 system over GF(2), any content behind Y; every 5x3 full-rank system over GF(2) whose top is square | `SolvesInplace`, `FactorsStandForMatrix`, `ReturnsRank`, `SettledFactorsTravel`; `SolvesInParts`, `TopDetIsDeterminant` |
| `storage` | 3x3 bits in words of two, two views and their decomposition; 3x3 octets over GF(4), any three views; every permutation of five lines | `MemoryHoldsMatrix`, `ZerosFound`, `ImplementsLU`; `Permuted`, `NeverVisitedTwice`, `Terminates` |
| `bits_lu_full_words` | 4x2 bits in words of two | **violated:** `Factorises` |
| `generators` | the real tables; 11 block sizes and 50-odd IDs each for tuples; five blocks and two kinds of dirty memory for HDPC; every tuple of three small codes; three IDs in a hash table of nine slots | `SupportedUpToMaxK`, `GeneratorsWellDefined`, `RowHasDegree`, `MatrixFollowsOutput`, `SymbolsApart`, `ProductsArePolynomials`, `HdpcExact`, `SameRow`, `WalkEnds`, `Distinct` |
| `inter_api` | two table rows, K in 0..2, extra in -1..1, up to 4 IDs requested | `TypeOK`, `InsideMemory`, `SizesSuffice`, `RightSymbols`, `OnceDecodable` |
| `inter_sizes_real` | the real table, 32-bit int | **violated:** `EveryBlockHasProgramSize` |
| `out_api` | one table row, up to 3 announced and 4 requested IDs | `TypeOK`, `CopyStaysInside`, `AnnouncedCompiles`, `OutputInOrder` |
| `out_compile_check` | as `out_api` | **violated:** `RefusedOnlyIfTooSmall` |
| `round_trip` | K = 8 of the real code (K' = 10), GF(256), seven lists of nine IDs | `Systematic`, `Decodes` |
| `file_codec` | blocks of two symbols, files of 0 to 6, every cut of the channel, up to five symbols kept back | `ReportsTruthfully`, `Delivers` |
| `file_codec_flush` | as `file_codec` | **violated:** `SuccessIsComplete` |

Why these bounds are enough. A decomposition error shows at the first pivot that needs
both a swap and an update with a later pivot behind it; GF(4) has elements other than 1
and their inverses (in GF(2) a forgotten division is invisible). For the wide run the
number of columns beyond the rank matters, hence 3x4. Five lines have permutations with
two cycles of length two and more, and a fixed point. Words of two bits give rows that
end inside a word, first words that are partial, and columns in the same or in different
words; 3x3 octets give views with a row and a column on every side. One octet operation
per behaviour is enough, because it starts from any views and any state in which memory
and matrix agree looks the same to it. In `inter_api` the row K' = 3 with K = 2 has
padding, so the capacity of the work memory exceeds K + nMaxExtra; K = 0 is unsupported;
four requested IDs exceed every capacity of the smaller row, so truncation, refused
compiles and retries all occur. The result of `parameters_get` other than K itself is
constant between two K'. IDs for tuples are the first ones, those around K and K', and
those next to 2^32. The lists of `round_trip` contain the windows of the repository's
test, one at the wrap, a shuffled mix and lists with repeated IDs. In `file_codec` a
block, an incomplete block and a file without blocks all occur, the encoder writes three
to five symbols for two, and the decoder gets one to three of them. A stream that keeps
five symbols back holds one of the encoder's longest blocks and more than one of the
decoder's, so a refused write loses earlier blocks as well as its own, and a small file
may be lost as a whole when it is closed.

`CHECK_DEADLOCK FALSE` appears where the system stops: a decomposition, a solve or a
query ends, and a client may be done. `round_trip`, `file_codec` and `file_codec_flush`
check for deadlock: only a finished process may stop.

**Fairness.** The code is sequential, so a loop that can go on does: weak fairness of
the loop's own steps in `PermuteRows` (`Terminates`), `LTWalk` (`WalkEnds`) and
`FileCodec` (`Delivers`, whose abstract specification demands an end). In `FileCodec`
the receiver is also assumed to start eventually, whatever it received. `BitLU`
states it so that its counterexample cannot be one that merely stops. The API
modules are safety specifications: nothing there runs unless it is called.

### Findings

* `RqOutCompile` (`api/tvrq_api.c:288`): the comparison is inverted. It answers
  "Not enough memory for OutProgMem." when the memory is *larger* than needed
  and copies when it is too small. A client that announces n IDs and lists fewer
  cannot compile. `CopyStaysInside` holds all the same, because the list cannot
  outgrow the equally sized work memory.
* `RqInterGetMemSizes` (`api/tvrq_api.c:68`): `n_rows * n_cols` overflows `int` for
  K' >= 45638, although `RQ_MAX_K` is 56403 and `rq_syst_inv.c` lists those K'.
* `m2v_multadd_row_from` (`algebra/m2v.c:113`): with `offs` equal to a column count
  that is a multiple of the word size, the first word it changes lies behind the
  row. `LU_decomp_inplace` passes such an offset for the last column, so the
  decomposition of bit matrices of such widths damages the next row. The codec
  does not use bit matrices, and the unit tests have no such width.
* `transcode` (`samples_tests/api/file_enc_dec.cpp:151`): `ofs.close()` writes what the
  stream still holds, and its failure is ignored; `status` is 0, so line 152 returns
  true and `main` prints "--> Succeeded" with symbols missing from the output. The test of
  `ofs.good()` (line 265) sees only what was written by then. What does hold is
  `ReportsTruthfully`: nothing is missing but what the stream kept back.

## 4. Proofs

All are checked by TLAPS for every value of the constants under named assumptions. Those
of API, file and permutation models are the modules' own (`NAssumption`;
`TableAssumption`, `SizeAssumption`, `ClientAssumption`, `RankAssumption`;
`OutAssumption`; `EsiAssumption`, `WalkAssumption`, `EntryAssumption`,
`BlockAssumption`, `HdpcAssumption`; `CodecAssumption`, `ArgumentsAssumption`), and TLC
evaluates each of them in the runs. Theorems about the decomposition and the solves have
`Assumptions` of `LUDecomp` as a hypothesis (those about bits that of `BitMatrix`):
dimensions are natural numbers and the elements a finite field of characteristic two.
`MCLU` has TLC evaluate it for its fields, and `OctetsAreField` proves it for the octets
of `gf256.c`. `RoundTrip` assumes `BlockAssumption` (a supported K, sources and lists of
the right shape) and `FieldTables`, which TLC evaluates on the real tables.

**Induction over data.** The library's induction theorems take an operator as a
parameter, which the installed provers cannot instantiate. `NatSet` in `LUDecompProofs`
states induction with a *set* instead (0 in S and S closed under successor make S all
of Nat), proved from the least element of the complement. Everything about sums,
passes over rows and recurrences is proved with it.

`LUDecompProofs`

* `TypeCorrect`: `Spec => []TypeOK`, by one lemma per kind of operation
  (swaps keep permutations, column scaling and elimination keep matrices).
* `FullRankKeepsColumnsHolds`: not inductive as it stands. The strengthening
  `MovedForDeadColumn` says that a column that was moved was moved because some
  column is zero from row i down (`DeadColumn`), which every later step preserves;
  a dead column can never get a pivot, so i cannot reach NCol.
* `SettledFactorsTravelHolds`: every step, cell by cell (`SwapsCell`, `StepCell`).
* `FactorisationHolds`: inductive with `TypeOK`. A pivot step permutes both sides
  alike, divides by the pivot and moves one product from the undecomposed part to the
  sum. `LUInv` joins to it `MovedForDeadColumn`, `PivotsNonzero` and `NothingLeft` (at the
  end the undecomposed part is zero); it is what the solves rest on.
* `ReturnsRankHolds`: counting both ways. Each vector of the row space is, columns
  permuted, a combination of the i rows of U, so there are at most |F|^i; and vectors
  of |F|^i, as weights of the first i rows, give different ones, because L and U are
  triangular with nonzero diagonals.
* Lemmas on sums (`SumAdd`, `SumScale`, `SumSwap`, `SumSplit`...) and on passes over rows:
  a recursion upwards or downwards exists, is unique, and touches a row once.

`LUSolveProofs`

* `CodecRecoversHolds`, `SolvesInplaceHolds`: from `SolveIInv`. During the forward pass row q
  of X is U x for rows done (`Intermediate`) and the product with the matrix for rows
  to do; during the backward pass rows done fulfil their equation of U with what X
  holds. At the end U times the result is U x (`SolveInv`); then both solve the system, and
  at full rank U determines the vector (`UDetermines`), so it is the block itself.
* `FactorsStandForMatrixHolds`: of `LU_mult`, `LU_mult_inplace` and `LU_invmult`. Each pass
  over memory equals a closed form, row by row, because it reads only rows that it
  has not yet (or has already) written, in the order of the code; the pass that uses
  the permuted storage is compared with the one that does not (`AlikeUp`,
  `AlikeDown`). No hypothesis on what outputs and spare rows held.
* `DeficientUndetermined`: below full column rank every solvable system has a second
  solution (by counting: U drops a dimension).

`RoundTripProofs`, for every block of the table, every source, every list of IDs, and
whatever `malloc` left in the matrices:

* `OctetsAreField`: `gf256_add`, `gf256_mul` and `gf256_inv` satisfy all field laws, from
  the facts `FieldTables`
  (`NibbleLaws`: xor of nibbles is a group; `TableLaws`: the two tables invert each
  other; `DoublingLaw`: doubling distributes). Distributivity for all products follows by
  induction on the exponent (`DistributesAll`).
* `FastHdpcIsExact`: `hdpc_generate_mat` makes MT * GAMMA, for every supported block:
  moving one column to the left doubles the dot product from any entry on
  (`DotsDouble`), and the columns satisfy the recurrence of the fast generator
  (`ColumnsExact`). What the argument needs of the sizes of a block (`SizesAre`)
  follows from the table being one (`SupportedSizes`).
* `HdpcExactHolds`: the same of `HdpcColumns`, column by column, for every supported block
  and a memory full of any octet. `HdpcInv` says that the parameters are those of
  some block, that the columns from the one written last on are those of the
  recurrence, and that the finished part has the identity behind them (`HdpcAt`).
* `MatrixFollowsOutputHolds`: the row of an ID is that of its symbol, at every position of
  every list of `RoundTrip` (from `ShiftedIsISI`, below).
* `DecodesHolds`: a decoder whose matrix has full rank ends with the encoder's
  intermediate block and with the source. `RTInv` says that the encoder has, or is
  solving for, a block whose matrix product is its right-hand side (`EncoderInv`), and
  that the decoder is solving for the encoder's block (`DecoderInv`), with `SolveIInv` of
  either instance of the solver. That this block fits the decoder's system rests on
  `RowsOf` (the generated rows are those of the IDs and of the constraints, the same in
  both matrices, whatever memory they were written to), `ShiftedIsISI` (the padding
  shift of `rq_matrix.c` is that of `tuple.c`), and `SymbolIsRow` (the sum in
  `RqOutExecute` is the row of the matrix times the block).
* `SystematicBlockHolds`: once the encoder has solved, the symbols of the IDs below K are
  the source. The run property `Systematic` says in addition that the encoder can
  solve; that is a fact about the tables at each size and stays with TLC.
* `RefusesOnlyAmbiguousHolds`: if the decoder answers `RQ_ERR_INSUFF_IDS`, a different
  source gives the very symbols received, so no decoder could have done better. It is
  not a property of the run (the quantifier is over all octet vectors).

Writing these down strengthened the model twice: `IsParamSet` now also says
`H <= K' + S`, which the real table satisfies and the HDPC generator needs; and
`BlockAssumption` made TLC notice that one list of received IDs in `MCRoundTrip` lay
beyond 32 bits.

`StorageProofs`, permuting in place: `IInv` joins the type invariant, `CyclesClosed` (the visited
lines are closed under the permutation, between cycles exactly, within one up to
where the walk is), `WalkState` (all lines before i are visited, the buffer holds
the first line of the cycle) and `LinesRight` (a walked line holds what belongs
there, any other still what the caller passed). `PermutedHolds` and
`NeverVisitedTwiceHolds` follow; the latter is the code's assert, and needs that
a permutation enters no closed set from outside.

`StorageProofs`, bit matrices, for every word size W and every shape:

* Division by W sends the columns of a row one to one to the bits of its `Stride` words
  (`ColumnPlace`, `PlaceColumn`, `ColumnApart`), and no two rows share a word
  (`PlaceApart`). One lemma per operation says that memory which holds a matrix holds,
  after the operation, the matrix that `MatrixOps` promises (`Holds`; `SetElHolds`,
  `SwapRowsHolds`, `MultAddRowFromHolds`, `SwapColsHolds`...), marker included. Hence
  `StorageHoldsMatrixHolds` and `ZeroRowsFoundHolds` of the calls of `BitCalls`. Their
  hypothesis `OffsetsInRow` is that no caller starts a sum behind its row's words, as one at
  column NCol does where NCol is a multiple of W.
* `ImplementsLUHolds`: each step of `BitLU` is the step of `LUDecomp` with the words
  unpacked; the elimination is the row lemma applied once per row (`EliminatedHolds`).
  With it `InsideMatrixHolds`, and `FactorisesHolds` by `FactorisationHolds` of an
  instance of `LUDecompProofs`, whose `Assumptions` GF(2) meets (`BinaryField`). These
  need `LastWordPartial`: NCol is no multiple of W. It is what makes the offset
  rank + 1 of the last pivot meet `OffsetsInRow`, and the finding of
  `bits_lu_full_words` shows that without it the conclusion is false.

`StorageProofs`, octet matrices, for every shape and any three views:

* `LogDomain` is what the theorems assume of the elements and tables: sums and products
  stay among the elements and commute, with the usual zero and one, and a product
  of nonzero elements is the power at the sum of their logarithms. No inverses and
  no associativity are needed. TLC evaluates it for GF(4) in `MCStorage`, and for the real tables
  of `gf256.c` in `MCGenerators` (`RealOctets`).
* An octet is the element in its row and column and no other (`CellApart`, `CellOf`), and a view
  is a rectangle of them (`RowIs`, `ColIs`). The inductive invariant is `OctIInv`: the octets
  are those of the matrix (`OctShows`), and A, B, C are rectangles inside it. The property
  alone is not inductive, since the operations use the addresses of the views.
* Operations on a row or a column are single updates of memory; their lemmas say which
  octets change (`OctMultAddRowFromHolds`, `OctSwapColsHolds`, `OctCopyColHolds`...). Those on
  whole views are loops over rows that read the memory they write. After r rows the
  memory shows `UpToRow`: the rows before r of the result, the others as they were.
  Each row then needs that what it reads is not among the rows written
  (`CompletesRows`), which is where the condition on overlapping views of each
  operation is used: `copy` and `add_inplace` may alias in place, `copy_submat` and `mul`
  not at all, `add` only its first argument.
* `OctStorageHolds` is the result for the calls of `OctCalls`, zero tests included.

`MemoryHoldsMatrixHolds`, `ZerosFoundHolds` and `StorageImplementsLU` are three properties
of the run `storage`, which are about all three kinds of behaviour. They are proved of
the behaviours in which m2v serves the rows (`RowsServed`): calls on bits need `OffsetsInRow`, a
decomposition needs `LastWordPartial`, and calls on octets need neither. They say nothing of a
decomposition whose width is a multiple of the word size; there the memory need *not* hold
the matrix, as `bits_lu_full_words` shows. `StorageIInv` says that a behaviour keeps its kind and
the invariant of that kind. TLC evaluates all the hypotheses in the run
(`StorageAssumed`).

`RqInterApiProofs`: the inductive invariant `IInv` is the conjunction of

* `MemSized`: memory was sized for a supported block;
* `WorkTyped`, `Lists`: types, also of memory that a failed Init left behind;
* `WorkReady`: after a successful Init the capacity is what fits into the memory,
  and the list is the longest start of the request that fits;
* `ProgWritten`: the program fits its memory, came from the start of a request,
  and has full rank if it is ready;
* `ProgCurrent`: since the last Init the list only grew beyond the program's.

One lemma per action shows `IInv` preserved. `InsideMemoryHolds` follows with a
lemma on quotients (`QuotientFits`). `SizesSufficeHolds` rests on `ProgramFits`: by the
monotonicity of the table (`ParamsMonotone`) rows and columns of a smaller block
with no more IDs are bounded by those the program was sized for, hence the
product. `RightSymbolsHolds` and `OnceDecodableHolds` follow from `ProgWritten` and
`ProgCurrent`, the latter with `RankAssumption`. `SizesSuffice` speaks of clients that
want a nonnegative number of IDs: for a negative `nK + nMaxExtra` it is false.

`RqOutApiProofs`: the same plan with fewer parts; `CapacityOfBytes` shows that
`RqOutInit` recovers the number of IDs from the size of its memory, which makes
the copy stay inside in spite of the inverted check (`CopyStaysInsideHolds`) and
lets exactly the announced lists compile (`AnnouncedCompilesHolds`).

`GeneratorsProofs`, the IDs drawn: `Distinct` needs what makes linear probing right.
`Dist(g, v)` is how far slot g lies behind the home of v around the table's end;
`Packed` says that no slot is empty between a stored value's home and its slot,
`Searched` that a search has met neither an empty slot nor its value, `Recorded` that
each ID drawn is in the table. A value already in the table would lie before the empty
slot the search ends at (`NotYetDrawn`). `DistinctHolds` assumes `EsiAssumption`: the
table is not empty.

`GeneratorsProofs`, the walk: `SameRow` needs number theory that `LTWalk` starts from
trial division to get. A number below 246^2 that no d up to its root divides has no
divisor (`NoDivisor`); so it divides no product of two smaller positive numbers
(`NoProduct`: Euclid's lemma, by the least counterexample); so a walk with its modulus
meets no index twice in as many steps (`WalkApart`). `WalkInv` then says where a walk
is. In the first loop `acc` holds the `LT` columns met so far (`LtWalked`). In the
second, for some number s of indices stepped over, `acc` holds the PI symbols among
them, and s exceeds their number by P1 - P at most (`PiWalked`), for no more indices
than that can miss (`FewMisses`). At the end s lies in the range in which `LtRow` looks
for the first d1 hits (`PiColumnsAre`). `SameRowHolds` assumes `WalkAssumption`, which
`GeneratorsWellDefined` checks of every row of the real table: W and P1 are primes below
that bound, and P is between 3 and P1. From the same facts `RowDegreeHolds` counts: the
row of a tuple has d columns of the LT part and d1 of the PI part, all inside the
matrix, since the first d1 hits come before a walk modulo P1 could repeat (`PiMet`).

`GeneratorsProofs`, the tuples: `TupleOfEveryId` says that the walks above start from
every tuple that some 32-bit ID gets, where the run looks at 50-odd IDs.
It follows the 32-bit arithmetic: a sum is a word whatever was added (`SumIsWord`), a
product byte by byte too (`ProductType`), the remainder is below its divisor
(`RemainderType`), so `Rand` is below m; the bounds of `Deg` begin with 0 and end with
2^20, the m it is called with, so there is a degree (`BetweenBounds`, `DegType`).
`EntryAssumption` says that the entries of the random tables have 32 bits.
`SymbolsApartHolds` reads an ID as a number: where adding K' - K does not wrap, the
internal ID is that sum (`SumIs`, `InternalIs`), so different IDs stay different and
above the padding.

From these come the properties of the run about `TupleSpec`, for every set of blocks
and of 32-bit IDs: `RowHasDegreeHolds`, `MatrixFollowsOutputHolds` (the row that
`rq_matrix.c` makes of an ID, after its own shift, is that of the tuple that the output
side makes) and `SymbolsStayApart`. `TupleInv` says that the tuple, once made, is that
of the symbol; `MadeIsTyped` makes it one that the lemmas on walks are about. What
`BlockAssumption` asks of a block (K <= K' < 2^16, L = W + P) and of an ID (32 bits) TLC
evaluates on the 11 real blocks; it noticed that one of the IDs enumerated was not a
pair of 16-bit halves.

`FileCodecProofs`: `IInv` counts in blocks. After b iterations `count` is b input
blocks, and file and stream together have taken b output blocks, or b - 1 while a block
is being made (`Blocks`, `Taking`); `count` and what is left of the input make its
length (`Accounted`); the work memory holds all input IDs (`Taken`). `ClosesRight` says
what is known when the stream is closed: without an error it has taken the output of the
whole input, and after an error there is a reason for it (a rest of less than a block
makes the length a non-multiple, `Remainder`; blocks that lack symbols never balance,
`Incomplete`). `ReportsTruthfullyHolds` follows, since the stream holds at most `Buffer`
symbols. That nothing is missing after a success cannot be proved; it is the finding of
`file_codec_flush`. The theorem assumes `CodecAssumption` and `ArgumentsAssumption`: no
empty list of IDs on the command line and none received.

`FileCodecProofs` also shows that `FileCodec` implements the safety part of `Delivery`
(`DeliversSafely`): every step is a step of the abstract transfer or leaves it alone.
`DInv` adds to `IInv` what the symbols are: position t of a file with a list of IDs
holds symbol `Sym(list, t)`, in the rest of the input (`InputIs`) and in the output with
what the stream still holds behind it (`Accepted`, `OutputIs`), on both sides; a block
in work is the block that was counted (`BlockIs`, `EncIs`), so `Solved` finds it; and no
file has more blocks than the source (`InputBound`, `OutputBound`). The channel keeps
this for every list of positions and every cut (`ReceivedIs`, `DTransmit`): it drops
whole blocks from the end, and what it does within blocks is in the receiver's list of
IDs. A write, in part or as a whole, and a close put a first part of what is pending
behind the output (`TakesBlock`, `InOrder`), so in the receiver the output is a prefix
of the source (`PrefixOfSource`), which grows and then stays as it is. How much of the
source it is, no theorem says.

Only model-checked:

* facts about the real tables, which are computation: `SupportedUpToMaxK`,
  `GeneratorsWellDefined`, `ProductsArePolynomials`, and the part of `Systematic` that says
  that the encoder's matrix has full rank;
* `SolvesInParts`: `LUInv` holds of each of its two parts, but the lower part is an
  instance with a parameter, `Bottom(n)`, whose theorems the prover does not let one
  cite; `TopDetIsDeterminant` (a sum over all permutations);
* liveness: `Terminates`, `WalkEnds`, the end that `Delivers` demands. The prover does not
  do ENABLED.

## 5. Not modelled

* Printing (`*_print`, `parameters_dump`, `gf256_print`), parsing of arguments, the
  usage texts, the Python binding, the generators of the constant tables, build
  files: no behaviour that the properties could be about.
* `gen_syms`, `rq_failprob`, `rq_syst_inv` and `codec_speed` are straight-line
  sequences of API calls that `RqInterApi` and `RqOutApi` allow, with statistics and
  timing around them.
* The tables of shapes and random seeds of the unit tests; `BitCalls`, `OctCalls`,
  `LUOps` and `SplitSolve` make the calls they make, in more orders.
* Counts near `INT_MAX` in `RqInterAddIds` and `RqOutAddIds`, and files beyond 2 GiB
  in `file_enc_dec.cpp`: an overflowed sum is undefined in C, and the models'
  numbers do not wrap there. Both are listed as hazards.
* Full disks in full. `FileCodec` assumes that a disk which refuses a write refuses every
  later one, so that the stream's own retries, and the flush in `ofs.close()` after a failed
  write, write nothing; and part of a symbol in the file counts as none. A disk that
  recovers in between, or an open that fails, is not modelled.
* `m2v_multadd_row_from` with `offs` = n_col on rows of full words, outside the
  decomposition: the shapes of `storage` end inside a word, and the theorems exclude the
  call. `bits_lu_full_words` is the only run that reaches that boundary.
* Clients that go on after a failed `RqInterInit` by adding IDs or compiling, or execute
  a program that a failed `RqInterCompile` left half-written. The client of `RqInterApi` calls
  Init again, retries Compile, or executes a program that is ready, as the repository's
  clients do at most; what such calls would do with two blocks mixed is not examined.
* Whether the real code decodes at other block sizes than that of `round_trip`:
  the matrices are too large for TLC.
