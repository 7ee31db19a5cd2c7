----------------------- MODULE AcceleratorClientProofs -----------------------
(***************************************************************************)
(* Proofs about the eight-lane accelerator and its client, for every depth *)
(* of the pixel ring, every size of a filter row and of the result ring,   *)
(* all words, any number of commands, and every adder and multiplier.      *)
(***************************************************************************)
EXTENDS AcceleratorClient, NaturalLemmas, TLAPS

\* The adder and the multiplier return words.
FpClosed == \A a, b \in Float : FpAdd(a, b) \in Float /\ FpMul(a, b) \in Float
-----------------------------------------------------------------------------
(* The inductive invariant.                                                *)

\* Complete rows waiting in the ring, and the edges until the state machine
\* reads one that waits.
Waiting == sent \div 8 - rowsRead
Due == CASE macState = "s_ReadInput"                 -> 1
         [] macState \in {"s_Idle", "s_ReadResult"}  -> 2
         [] macState = "s_WaitForCalc"               -> macWaitCounter + 3

\* The state machine and its registers move together.
MachineInv ==
    /\ macRdEn <=> macState = "s_ReadInput"
    /\ macState # "s_WaitForCalc" => macWaitCounter = 0 /\ ~macWaitEnd
    /\ macState = "s_WaitForCalc" => (macWaitEnd <=> macWaitCounter = 0)

\* The ring: the offsets are the counts of the round, the latch shows whether a
\* row waits, and it is read before the next row is complete.
RingInv ==
    /\ cmdReset <=> stage = "clearing"
    /\ stage = "coeffs" => sent = 0
    /\ pxBfrWrCounter = sent % (8 * PixelBufferDepth)
    /\ pxBfrRdOffset = rowsRead % PixelBufferDepth
    /\ Waiting \in {0, 1}
    /\ macRdEn => Waiting = 1
    /\ pxBfrRdEn <=> Waiting = 1 /\ ~cmdReset
    /\ Waiting = 1 => (sent % 8) + Due <= 8

\* The words of the waiting row and of the row being written are in place, and
\* so are the operands of the row read last.
DataInv ==
    /\ Waiting = 1 => \A lane \in Lane :
          pxBuffer[pxBfrRdOffset][lane] = Pixels[8 * rowsRead + lane]
    /\ \A lane \in 1 .. sent % 8 :
          pxBuffer[WrOffset(pxBfrWrCounter)][lane] = Pixels[8 * (sent \div 8) + lane]
    /\ rowsRead > 0 => macPx = PixelRow(rowsRead) /\ macCoeff = CoeffRow(rowsRead)

\* Filter rows read in this round.
RowsDone == rowsRead \div RowBlocks

\* The coefficient offsets are the place of the next row in its filter row.
PlaceInv == rowsRead = RowsDone * RowBlocks + coeffRdCellOffset * BlockCount
                                            + coeffRdBlockOffset

Bit(b) == IF b THEN 1 ELSE 0
InFlight == Bit(filterRowEnd) + Bit(rowEndPipeSReg[0]) + Bit(rowEndPipeSReg[1])
            + Bit(rowEndPipeSReg[2]) + Bit(rowEndPipeSReg[3]) + Bit(rowEndPipeSReg[4])

\* The end of a filter row travels through the pipeline alone: in step with the
\* state machine, or left over from before a command with too few words sent
\* since to read a row.
Pulses ==
    /\ filterRowEnd => Due = 7 /\ rowsRead > 0 /\ rowsRead % RowBlocks = 0
    /\ \A n \in 0 .. 4 : rowEndPipeSReg[n] =>
          /\ ~filterRowEnd
          /\ \A m \in 0 .. 4 : rowEndPipeSReg[m] => m = n
          /\ \/ ~QuietCommands /\ rowsRead = 0 /\ sent <= n
             \/ rowsRead > 0 /\ rowsRead % RowBlocks = 0 /\ Due = 6 - n

\* Every filter row read has its result stored or its end in the pipeline, and
\* at most one result more is left over from before the command.
Stored == \E stale \in {0, 1} : /\ stored + InFlight = RowsDone + stale
                                /\ QuietCommands => stale = 0

\* A command that waited for an idle accelerator finds it idle.
QuietInv == QuietCommands /\ stage = "clearing" =>
                /\ macState = "s_Idle" /\ ~macRdEn /\ ~filterRowEnd
                /\ \A n \in 0 .. MacEngineLatency :
                      ~macRdEnPipeSReg[n] /\ ~rowEndPipeSReg[n]

\* The sum after n rows, as the accumulator forms it.  A filter row does not start
\* from zero: the sum is cleared while the last block of the row before still
\* stands in stage 3, and that block is loaded again.
RunningSum(n) ==
    LET sum[i \in 0 .. n] ==
            IF i = 0 THEN carry
            ELSE FpAdd(BlockSum(i),
                       IF i > 1 /\ (i - 1) % RowBlocks = 0
                       THEN FpAdd(BlockSum(i - 1), Zero) ELSE sum[i - 1])
    IN  sum[n]

\* What block n is added to: the sum of the row so far, or the block that the
\* clearing of the sum loaded again.
Addend(n) == IF n > 1 /\ (n - 1) % RowBlocks = 0 THEN FpAdd(BlockSum(n - 1), Zero)
                                                 ELSE RunningSum(n - 1)

\* The sum is cleared when the pulse has left the pipeline.
Cleared == rowsRead % RowBlocks = 0 /\ Due <= 2 /\ ~rowEndPipeSReg[4]
                                    /\ ~rowEndPipeSReg[5]

\* With a client that waits before a command, the pulses are exactly where the
\* state machine says.
StageInv ==
    /\ \A k \in 0 .. 3 : macRdEnPipeSReg[k] <=> rowsRead > 0 /\ Due = 7 - k
    /\ rowsRead > 0 /\ rowsRead % RowBlocks = 0 =>
          /\ Due = 7 => filterRowEnd
          /\ \A k \in 0 .. 3 : Due = 6 - k => rowEndPipeSReg[k]
    /\ rowEndPipeSReg[5] => rowsRead > 0 /\ rowsRead % RowBlocks = 0 /\ Due <= 2
                                        /\ ~rowEndPipeSReg[4]

\* Where the products of the row read last are, and what the adder shows.
Products == Multiply(PixelRow(rowsRead), CoeffRow(rowsRead))
SumInv ==
    /\ rowsRead = 0 => result = carry
    /\ rowsRead > 0 =>
          /\ Due = 6 => muladd = Products
          /\ Due = 5 => addsum = AddPairs(Products)
          /\ Due <= 4 => sumacc = AddPairs(AddPairs(Products))
          /\ result = IF Due >= 4 THEN Addend(rowsRead)
                      ELSE IF Cleared THEN FpAdd(BlockSum(rowsRead), Zero)
                      ELSE RunningSum(rowsRead)
    /\ rowEndPipeSReg[4] => dMacResult = RunningSum(rowsRead)

\* The results stored are in their cells, each the running sum at the end of its
\* filter row.
ResultsAsAccumulated ==
    \A k \in 1 .. stored :
        k + ResultBufferSize > stored =>
            resultBuffer[(k - 1) % ResultBufferSize] = RunningSum(k * RowBlocks)

StoreInv == /\ resultWrOffset = stored % ResultBufferSize
            /\ ResultsAsAccumulated

ControlInv == TypeOK /\ MachineInv /\ RingInv
-----------------------------------------------------------------------------
(* Arithmetic.                                                             *)

LEMMA Sizes == /\ BlockCount \in Nat /\ BlockCount > 0
               /\ FilterRowSize \in Nat /\ FilterRowSize > 0
               /\ RowBlocks \in Nat /\ RowBlocks > 0
               /\ RowBlocks = FilterRowSize * BlockCount
               /\ ResultBufferSize \in Nat /\ ResultBufferSize > 0
               /\ PixelBufferDepth \in {2, 4, 8, 16, 32}
  BY PackageAssumption DEF RowBlocks

LEMMA DivMod ==
    ASSUME NEW d \in Nat, d > 0, NEW n \in Nat
    PROVE  n \div d \in Nat /\ n % d \in 0 .. d - 1 /\ n = (n \div d) * d + (n % d)
  OBVIOUS

LEMMA DivModOf ==
    ASSUME NEW d \in Nat, d > 0, NEW q \in Nat, NEW r \in 0 .. d - 1
    PROVE  (q * d + r) \div d = q /\ (q * d + r) % d = r
  OBVIOUS

LEMMA DivModNext ==
    ASSUME NEW d \in Nat, d > 0, NEW n \in Nat
    PROVE  /\ (n + 1) % d = IF n % d = d - 1 THEN 0 ELSE (n % d) + 1
           /\ (n + 1) \div d = IF n % d = d - 1 THEN n \div d + 1 ELSE n \div d
  OBVIOUS

LEMMA Rows8 ==
    ASSUME NEW n \in Nat
    PROVE  n \div 8 \in Nat /\ n % 8 \in 0 .. 7 /\ n = 8 * (n \div 8) + (n % 8)
  OBVIOUS

LEMMA Rows8Ordered ==
    ASSUME NEW n \in Nat, NEW m \in Nat, n <= m
    PROVE  n \div 8 <= m \div 8
  OBVIOUS

\* The offsets of the ring, and how they move.
LEMMA RingOffsets ==
    ASSUME NEW n \in Nat
    PROVE  /\ WrOffset(n % (8 * PixelBufferDepth)) = (n \div 8) % PixelBufferDepth
           /\ WrSelect(n % (8 * PixelBufferDepth)) = (n % 8) + 1
           /\ ((n % (8 * PixelBufferDepth)) + 1) % (8 * PixelBufferDepth)
                  = (n + 1) % (8 * PixelBufferDepth)
           /\ NextRow(n % PixelBufferDepth) = (n + 1) % PixelBufferDepth
           /\ n % PixelBufferDepth # (n + 1) % PixelBufferDepth
           /\ n % PixelBufferDepth \in Row
           /\ n % (8 * PixelBufferDepth) \in 0 .. 8 * PixelBufferDepth - 1
<1> SUFFICES ASSUME NEW D \in {2, 4, 8, 16, 32}, D = PixelBufferDepth
             PROVE  /\ (n % (8 * D)) \div 8 = (n \div 8) % D
                    /\ (n % (8 * D)) % 8 = n % 8
                    /\ ((n % (8 * D)) + 1) % (8 * D) = (n + 1) % (8 * D)
                    /\ ((n % D) + 1) % D = (n + 1) % D
                    /\ n % D # (n + 1) % D
                    /\ n % D \in 0 .. D - 1
                    /\ n % (8 * D) \in 0 .. 8 * D - 1
  BY Sizes DEF WrOffset, WrSelect, NextRow, Row
<1>1. QED
  OBVIOUS
-----------------------------------------------------------------------------
(* The steps of the client.                                                *)

Typed(access) ==
    /\ access.route = "coeff" => /\ access.cell \in Cell /\ access.block \in Block
                                 /\ access.lane \in Lane /\ access.data \in Float
    /\ access.route = "data" => access.data \in Float
    /\ access.route = "result" => access.offset \in 0 .. ResultBufferSize - 1

\* What a clock edge of the client does: the access it makes and what it keeps
\* of it.
ClientStep(access) ==
    /\ Typed(access)
    /\ Edge(access)
    /\ nextCoeff' \in 0 .. NumCoeffs /\ commands' \in 0 .. MaxCommands
    /\ stage' \in {"coeffs", "pixels", "clearing"}
    /\ stage' = "clearing" <=> access.route = "control"
    /\ stage' = "coeffs" => \/ stage = "clearing"
                            \/ stage = "coeffs" /\ access.route # "data"
    /\ stage = "clearing" => stage' = "coeffs" /\ access.route = "none"
    /\ access.route = "coeff" => stage = "coeffs"
    /\ access.route = "control" /\ QuietCommands => Quiet
    /\ access.route = "data" => sent < Len(Pixels) /\ access.data = Pixels[sent + 1]
    /\ sent' = IF stage = "clearing" THEN 0
               ELSE IF access.route = "data" THEN sent + 1 ELSE sent

LEMMA ClientSteps ==
    ASSUME TypeOK, Next
    PROVE  Reset \/ \E access : ClientStep(access)
<1>1. CASE SendCoeff
  <2> DEFINE lane == (nextCoeff % 8) + 1
             block == (nextCoeff \div 8) % BlockCount
             cell == nextCoeff \div (8 * BlockCount)
             access == CoeffWrite(cell, block, lane, Coeff(cell, block, lane))
  <2>1. lane \in Lane /\ block \in Block /\ cell \in Cell
    <3>1. nextCoeff \in Nat /\ nextCoeff < NumCoeffs
      BY <1>1, Sizes DEF TypeOK, SendCoeff, NumCoeffs
    <3>2. lane \in Lane
      BY <3>1 DEF Lane
    <3>3. block \in Block
      BY <3>1, Sizes, DivMod DEF Block
    <3>4. cell \in Cell
      <4>1. 8 * BlockCount \in Nat /\ 8 * BlockCount > 0
        BY Sizes
      <4>2. cell \in Nat /\ cell * (8 * BlockCount) <= nextCoeff
        BY <3>1, <4>1, DivMod
      <4>3. NumCoeffs = FilterRowSize * (8 * BlockCount)
        BY Sizes DEF NumCoeffs
      <4>4. cell < FilterRowSize
        BY <3>1, <4>1, <4>2, <4>3, Sizes
      <4>5. QED
        BY <4>2, <4>4, Sizes DEF Cell
    <3>5. QED
      BY <3>2, <3>3, <3>4
  <2>2. Coeff(cell, block, lane) \in Float
    BY <2>1, ClientAssumption
  <2>3. Edge(access)
    BY <1>1 DEF SendCoeff
  <2>4. /\ nextCoeff' \in 0 .. NumCoeffs /\ sent' = sent /\ commands' = commands
        /\ stage = "coeffs" /\ stage' \in {"coeffs", "pixels"}
    BY <1>1, Sizes DEF SendCoeff, TypeOK, NumCoeffs
  <2>5. Typed(access) /\ access.route = "coeff"
    BY <2>1, <2>2 DEF Typed, CoeffWrite
  <2> HIDE DEF access
  <2>6. ClientStep(access)
    BY <2>3, <2>4, <2>5 DEF ClientStep, TypeOK
  <2>7. QED
    BY <2>6
<1>2. CASE SendPixel
  <2> DEFINE access == DataWrite(Pixels[sent + 1])
  <2>1. Pixels[sent + 1] \in Float
    BY <1>2, ClientAssumption DEF SendPixel, TypeOK
  <2>2. Typed(access) /\ access.route = "data" /\ access.data = Pixels[sent + 1]
    BY <2>1 DEF Typed, DataWrite
  <2>3. Edge(access)
    BY <1>2 DEF SendPixel
  <2> HIDE DEF access
  <2>4. ClientStep(access)
    BY <1>2, <2>2, <2>3 DEF ClientStep, SendPixel, TypeOK
  <2>5. QED
    BY <2>4
<1>3. CASE ReadResult
  <2>1. PICK offset \in 0 .. ResultBufferSize - 1 : Edge(ResultAccess(offset))
    BY <1>3 DEF ReadResult
  <2> DEFINE access == ResultAccess(offset)
  <2>2. Typed(access) /\ access.route = "result"
    BY DEF Typed, ResultAccess
  <2>3. Edge(access)
    BY <2>1
  <2> HIDE DEF access
  <2>4. ClientStep(access)
    BY <1>3, <2>2, <2>3 DEF ClientStep, ReadResult, clientVars, TypeOK
  <2>5. QED
    BY <2>4
<1>4. CASE SendCommand
  <2>1. Typed(ControlWrite) /\ ControlWrite.route = "control"
    BY DEF Typed, ControlWrite
  <2>2. ClientStep(ControlWrite)
    BY <1>4, <2>1, ClientAssumption DEF ClientStep, SendCommand, TypeOK
  <2>3. QED
    BY <2>2
<1>5. CASE BusIdle \/ Pause
  <2>1. Typed(NoAccess) /\ NoAccess.route = "none"
    BY DEF Typed, NoAccess
  <2>2. 0 \in 0 .. NumCoeffs
    BY Sizes DEF NumCoeffs
  <2>3. ClientStep(NoAccess)
    BY <1>5, <2>1, <2>2 DEF ClientStep, BusIdle, Pause, clientVars, TypeOK
  <2>4. QED
    BY <2>3
<1>6. QED
  BY <1>1, <1>2, <1>3, <1>4, <1>5 DEF Next
-----------------------------------------------------------------------------
(* Types.                                                                  *)

LEMMA ZeroTyped == /\ Zero \in Float /\ ZeroRow \in RowType
                   /\ Zeros(8) \in [1 .. 8 -> Float]
                   /\ Zeros(4) \in [1 .. 4 -> Float]
                   /\ Zeros(2) \in [1 .. 2 -> Float]
                   /\ ZeroCoeffs \in [Cell -> [Block -> RowType]]
                   /\ ZeroPixels \in [Row -> RowType]
                   /\ ZeroResults \in [0 .. ResultBufferSize - 1 -> Float]
                   /\ EmptySReg \in [0 .. MacEngineLatency -> BOOLEAN]
<1>1. Zero \in Float
  BY FloatAssumption
<1>2. ZeroRow \in RowType /\ Zeros(8) \in [1 .. 8 -> Float]
      /\ Zeros(4) \in [1 .. 4 -> Float] /\ Zeros(2) \in [1 .. 2 -> Float]
  BY <1>1 DEF ZeroRow, RowType, Zeros, Lane
<1>3. QED
  BY <1>1, <1>2 DEF ZeroCoeffs, ZeroPixels, ZeroResults, EmptySReg

LEMMA ZeroInRange == 0 \in Row /\ 0 \in Cell /\ 0 \in Block
                     /\ 0 \in 0 .. ResultBufferSize - 1
                     /\ 0 \in 0 .. 8 * PixelBufferDepth - 1
  BY Sizes DEF Row, Cell, Block

\* The datapath at a clock edge.
LEMMA DatapathTypes ==
    ASSUME FpClosed, DatapathTypeOK, NEW en, NEW px \in RowType, NEW coeff \in RowType,
           NEW accumulatorReset \in BOOLEAN,
           DatapathClock(en, px, coeff, accumulatorReset)
    PROVE  DatapathTypeOK'
<1>1. Multiply(px, coeff) \in [1 .. 8 -> Float]
  BY DEF Multiply, Lane, RowType, FpClosed
<1>2. AddPairs(muladd) \in [1 .. 4 -> Float]
  <2>1. muladd \in [1 .. 8 -> Float] /\ Len(muladd) = 8
    BY DEF DatapathTypeOK
  <2>2. QED
    BY <2>1 DEF AddPairs, FpClosed
<1>3. AddPairs(addsum) \in [1 .. 2 -> Float]
  <2>1. addsum \in [1 .. 4 -> Float] /\ Len(addsum) = 4
    BY DEF DatapathTypeOK
  <2>2. QED
    BY <2>1 DEF AddPairs, FpClosed
<1>4. acc0_out \in Float
  <2>1. sumacc \in [1 .. 2 -> Float] /\ Len(sumacc) = 2
    BY DEF DatapathTypeOK
  <2>2. AddPairs(sumacc)[1] = FpAdd(sumacc[1], sumacc[2])
    BY <2>1 DEF AddPairs
  <2>3. QED
    BY <2>1, <2>2 DEF acc0_out, FpClosed
<1>5. res0_out \in Float
  BY DEF DatapathTypeOK, FpClosed, res0_out
<1>6. accres_out0' \in Float /\ accres_out1' \in Float
  BY <1>4, <1>5, ZeroTyped DEF DatapathTypeOK, DatapathClock, Accumulate, Flop
<1>7. muladd' \in [1 .. 8 -> Float] /\ addsum' \in [1 .. 4 -> Float]
      /\ sumacc' \in [1 .. 2 -> Float]
  BY <1>1, <1>2, <1>3 DEF DatapathTypeOK, DatapathClock, Flop
<1>8. QED
  BY <1>6, <1>7 DEF DatapathTypeOK

LEMMA TopTypes ==
    ASSUME FpClosed, TopTypeOK, NEW access, Typed(access), TopClock(access)
    PROVE  TopTypeOK'
<1> USE ZeroTyped, ZeroInRange
<1>1. DatapathTypeOK'
  <2>1. /\ DatapathTypeOK /\ macPx \in RowType /\ macCoeff \in RowType
        /\ accumReset \in BOOLEAN
    BY DEF TopTypeOK, accumReset, MacEngineLatency
  <2>2. QED
    BY <2>1, DatapathTypes DEF TopClock, mac
<1>2. /\ cmdReset' \in BOOLEAN
      /\ coeffBuffer' \in [Cell -> [Block -> RowType]]
  <2>1. cmdReset' \in BOOLEAN
    BY DEF TopClock, wrControl
  <2>2. coeffBuffer \in [Cell -> [Block -> RowType]]
    BY DEF TopTypeOK
  <2>3. CASE access.route = "coeff"
    <3> DEFINE cell == access.cell  block == access.block
               lane == access.lane  data == access.data
               next == [coeffBuffer EXCEPT ![cell][block][lane] = data]
    <3>1. cell \in Cell /\ block \in Block /\ lane \in Lane /\ data \in Float
      BY <2>3 DEF Typed
    <3>2. coeffBuffer[cell][block] \in [Lane -> Float]
      BY <2>2, <3>1 DEF RowType
    <3>3. [coeffBuffer[cell][block] EXCEPT ![lane] = data] \in RowType
      BY <3>1, <3>2 DEF RowType
    <3>4. [coeffBuffer[cell] EXCEPT ![block][lane] = data] \in [Block -> RowType]
      BY <2>2, <3>1, <3>3
    <3>5. next \in [Cell -> [Block -> RowType]]
      BY <2>2, <3>1, <3>4
    <3>6. coeffBuffer' = IF cmdReset THEN ZeroCoeffs ELSE next
      BY <2>3 DEF TopClock, wrCoeff
    <3> HIDE DEF next
    <3>7. QED
      BY <2>1, <3>5, <3>6
  <2>4. CASE access.route # "coeff"
    BY <2>1, <2>2, <2>4 DEF TopClock, wrCoeff
  <2>5. QED
    BY <2>3, <2>4
<1>3. pxBuffer' \in [Row -> RowType] /\ pxBfrWrCounter' \in 0 .. 8 * PixelBufferDepth - 1
  <2>1. /\ pxBuffer \in [Row -> RowType]
        /\ pxBfrWrCounter \in 0 .. 8 * PixelBufferDepth - 1
    BY DEF TopTypeOK
  <2>2. /\ (pxBfrWrCounter + 1) % (8 * PixelBufferDepth) \in 0 .. 8 * PixelBufferDepth - 1
        /\ WrOffset(pxBfrWrCounter) \in Row /\ WrSelect(pxBfrWrCounter) \in Lane
    BY <2>1, Sizes DEF WrOffset, WrSelect, Row, Lane
  <2>3. CASE ~cmdReset /\ access.route = "data"
    <3>1. pxBuffer[WrOffset(pxBfrWrCounter)] \in [Lane -> Float] /\ access.data \in Float
      BY <2>1, <2>2, <2>3 DEF Typed, RowType
    <3>2. [pxBuffer[WrOffset(pxBfrWrCounter)] EXCEPT
              ![WrSelect(pxBfrWrCounter)] = access.data] \in RowType
      BY <2>2, <3>1 DEF RowType
    <3>3. QED
      BY <2>1, <2>2, <2>3, <3>2 DEF TopClock, wrData
  <2>4. CASE cmdReset \/ access.route # "data"
    BY <2>1, <2>4 DEF TopClock, wrData
  <2>5. QED
    BY <2>3, <2>4
<1>4. pxBfrRdEn' \in BOOLEAN
  BY DEF TopTypeOK, TopClock, bfrWrStsFlags
<1>5. pxBfrRdOffset' \in Row /\ macPx' \in RowType /\ macCoeff' \in RowType
  <2>1. pxBfrRdOffset \in Row
    BY DEF TopTypeOK
  <2>2. NextRow(pxBfrRdOffset) \in Row
    BY <2>1, Sizes DEF NextRow, Row
  <2>3. QED
    BY <2>1, <2>2 DEF TopTypeOK, TopClock, rdMacInput
<1>6. /\ coeffRdBlockOffset' \in Block /\ coeffRdCellOffset' \in Cell
      /\ filterRowEnd' \in BOOLEAN
  <2>1. coeffRdBlockOffset \in Block /\ coeffRdCellOffset \in Cell
    BY DEF TopTypeOK
  <2>2. filterRowEnd' \in BOOLEAN
    BY DEF TopClock, rdLogic
  <2>3. coeffRdBlockOffset' \in Block /\ coeffRdCellOffset' \in Cell
    BY <2>1, Sizes DEF TopClock, rdLogic, Block, Cell
  <2>4. QED
    BY <2>2, <2>3
<1>7. /\ macState' \in {"s_Idle", "s_ReadInput", "s_WaitForCalc", "s_ReadResult"}
      /\ macRdEn' \in BOOLEAN
  BY DEF TopTypeOK, TopClock, sm
<1>8. /\ macWaitEnd' \in BOOLEAN /\ macWaitCounter' \in 0 .. MacEngineLatency - 1
  BY DEF TopTypeOK, TopClock, macWait, MacEngineLatency
<1>9. /\ macRdEnPipeSReg' \in [0 .. MacEngineLatency -> BOOLEAN]
      /\ rowEndPipeSReg' \in [0 .. MacEngineLatency -> BOOLEAN]
  BY DEF TopTypeOK, TopClock, macPipe, ShiftIn, MacEngineLatency
<1>10. dMacResult' \in Float
  BY DEF TopTypeOK, TopClock, flopMacResult, DatapathTypeOK, FpClosed, result, res0_out
<1>11. /\ resultBuffer' \in [0 .. ResultBufferSize - 1 -> Float]
       /\ resultWrOffset' \in 0 .. ResultBufferSize - 1
  BY Sizes DEF TopTypeOK, TopClock, wrMacResult
<1>12. rdData' \in Float
  BY DEF TopTypeOK, TopClock, resultRd, Typed
<1>13. QED
  BY <1>1, <1>2, <1>3, <1>4, <1>5, <1>6, <1>7, <1>8, <1>9, <1>10, <1>11, <1>12 DEF TopTypeOK
-----------------------------------------------------------------------------
(* The state machine and the ring.                                         *)

LEMMA MachineStep ==
    ASSUME TopTypeOK, MachineInv, sm, macWait
    PROVE  /\ MachineInv'
           /\ Due \in 1 .. 7 /\ Due' \in 1 .. 7
           /\ macRdEn <=> Due = 1
           /\ macRdEn' <=> ~cmdReset /\ Due = 2 /\ pxBfrRdEn
           /\ Due' = IF cmdReset THEN 2
                     ELSE IF Due = 1 THEN 7
                     ELSE IF Due = 2 THEN IF pxBfrRdEn THEN 1 ELSE 2
                     ELSE Due - 1
<1>1. /\ macState \in {"s_Idle", "s_ReadInput", "s_WaitForCalc", "s_ReadResult"}
      /\ macRdEn \in BOOLEAN /\ macWaitEnd \in BOOLEAN /\ pxBfrRdEn \in BOOLEAN
      /\ cmdReset \in BOOLEAN /\ macWaitCounter \in 0 .. 4
  BY DEF TopTypeOK, MacEngineLatency
<1>2. CASE cmdReset
  BY <1>1, <1>2 DEF sm, macWait, MachineInv, Due, MacEngineLatency
<1>3. CASE ~cmdReset /\ macState \in {"s_Idle", "s_ReadResult"}
  <2>1. macState' = (IF pxBfrRdEn THEN "s_ReadInput" ELSE "s_Idle") /\ macRdEn' = pxBfrRdEn
    BY <1>3 DEF sm
  <2>2. macWaitCounter = 0 /\ ~macRdEn
    BY <1>3 DEF MachineInv
  <2>3. macWaitCounter' = 0 /\ ~macWaitEnd'
    BY <1>1, <1>3, <2>2 DEF macWait
  <2>4. Due = 2
    BY <1>3 DEF Due
  <2>5. CASE pxBfrRdEn
    <3>1. macState' = "s_ReadInput" /\ macRdEn' = TRUE
      BY <2>1, <2>5
    <3>2. Due' = 1
      BY <3>1 DEF Due
    <3>3. QED
      BY <1>3, <2>2, <2>3, <2>4, <2>5, <3>1, <3>2 DEF MachineInv
  <2>6. CASE ~pxBfrRdEn
    <3>1. macState' = "s_Idle" /\ macRdEn' = FALSE
      BY <1>1, <2>1, <2>6
    <3>2. Due' = 2
      BY <3>1 DEF Due
    <3>3. QED
      BY <1>3, <2>2, <2>3, <2>4, <2>6, <3>1, <3>2 DEF MachineInv
  <2>7. QED
    BY <2>5, <2>6
<1>4. CASE ~cmdReset /\ macState = "s_ReadInput"
  BY <1>1, <1>4 DEF sm, macWait, MachineInv, Due, MacEngineLatency
<1>5. CASE ~cmdReset /\ macState = "s_WaitForCalc"
  <2>1. macState' = (IF macWaitEnd THEN "s_ReadResult" ELSE macState) /\ macRdEn' = FALSE
    BY <1>5 DEF sm
  <2>2. (macWaitEnd <=> macWaitCounter = 0) /\ ~macRdEn /\ Due = macWaitCounter + 3
    BY <1>5 DEF MachineInv, Due
  <2>3. CASE macWaitCounter = 0
    <3>1. macState' = "s_ReadResult" /\ macWaitCounter' = 0 /\ ~macWaitEnd'
      BY <1>1, <1>5, <2>1, <2>2, <2>3 DEF macWait
    <3>2. Due' = 2
      BY <3>1 DEF Due
    <3>3. QED
      BY <1>5, <2>1, <2>2, <2>3, <3>1, <3>2 DEF MachineInv
  <2>4. CASE macWaitCounter # 0
    <3>1. macState' = "s_WaitForCalc" /\ macWaitCounter' = macWaitCounter - 1
          /\ (macWaitEnd' <=> macWaitCounter = 1)
      <4>1. macWaitEnd = FALSE
        BY <1>1, <2>2, <2>4
      <4>2. macWaitEnd' = (macWaitCounter = 1)
        BY <1>1, <1>5 DEF macWait
      <4>3. macState' = "s_WaitForCalc"
        BY <1>5, <2>1, <4>1
      <4>4. macWaitCounter' = macWaitCounter - 1
        BY <1>1, <1>5, <2>4 DEF macWait
      <4>5. QED
        BY <4>2, <4>3, <4>4
    <3>2. Due' = macWaitCounter' + 3
      BY <3>1 DEF Due
    <3>3. QED
      BY <1>1, <1>5, <2>1, <2>2, <2>4, <3>1, <3>2 DEF MachineInv
  <2>5. QED
    BY <2>3, <2>4
<1>6. QED
  BY <1>1, <1>2, <1>3, <1>4, <1>5

\* The counts of the round at a clock edge.
LEMMA Counts ==
    ASSUME TypeOK, MachineInv, RingInv, NEW access, ClientStep(access)
    PROVE  /\ sent \in Nat /\ rowsRead \in Nat /\ sent' \in Nat /\ rowsRead' \in Nat
           /\ cmdReset' <=> stage' = "clearing"
           /\ cmdReset => ~cmdReset' /\ sent' = 0 /\ rowsRead' = 0 /\ Due' = 2
           /\ ~cmdReset => /\ sent' = IF access.route = "data" THEN sent + 1 ELSE sent
                           /\ rowsRead' = IF Due = 1 THEN rowsRead + 1 ELSE rowsRead
           /\ Waiting' \in {0, 1}
           /\ Waiting' = 1 => (sent' % 8) + Due' <= 8
           /\ macRdEn' => Waiting' = 1
           /\ sent' \in 0 .. Len(Pixels)
<1>1. /\ sent \in Nat /\ rowsRead \in Nat /\ sent <= Len(Pixels) /\ Len(Pixels) \in Nat
      /\ TopTypeOK
  BY ClientAssumption DEF TypeOK
<1>2. TopClock(access) /\ sm /\ macWait
  BY DEF ClientStep, Edge, TopClock
<1>3. cmdReset' <=> stage' = "clearing"
  BY <1>2 DEF TopClock, wrControl, ClientStep
<1>4. /\ macRdEn <=> Due = 1
      /\ Due \in 1 .. 7
      /\ macRdEn' <=> ~cmdReset /\ Due = 2 /\ pxBfrRdEn
      /\ Due' = IF cmdReset THEN 2
                ELSE IF Due = 1 THEN 7
                ELSE IF Due = 2 THEN IF pxBfrRdEn THEN 1 ELSE 2
                ELSE Due - 1
  BY <1>1, <1>2, MachineStep
<1>5. CASE cmdReset
  BY <1>1, <1>3, <1>4, <1>5 DEF RingInv, ClientStep, Edge, Waiting
<1>6. CASE ~cmdReset
  <2>1. /\ sent' = IF access.route = "data" THEN sent + 1 ELSE sent
        /\ rowsRead' = IF Due = 1 THEN rowsRead + 1 ELSE rowsRead
        /\ sent' <= Len(Pixels)
    BY <1>1, <1>4, <1>6 DEF RingInv, ClientStep, Edge
  <2>2. /\ Waiting \in {0, 1}
        /\ Due = 1 => Waiting = 1
        /\ pxBfrRdEn <=> Waiting = 1
        /\ Waiting = 1 => (sent % 8) + Due <= 8
    BY <1>4, <1>6 DEF RingInv
  <2>3. sent' = sent + 1 => /\ sent % 8 = 7 => /\ sent' % 8 = 0
                                               /\ sent' \div 8 = sent \div 8 + 1
                            /\ sent % 8 # 7 => /\ sent' % 8 = (sent % 8) + 1
                                               /\ sent' \div 8 = sent \div 8
    BY <1>1
  <2>4. sent % 8 \in 0 .. 7 /\ sent \div 8 \in Nat
    BY <1>1
  <2> DEFINE r == sent % 8  d == sent \div 8  r1 == sent' % 8  d1 == sent' \div 8
  <2>5. /\ Waiting' = d1 - rowsRead' /\ Waiting = d - rowsRead
        /\ r \in 0 .. 7 /\ d \in Nat
        /\ \/ r1 = r /\ d1 = d
           \/ r = 7 /\ r1 = 0 /\ d1 = d + 1
           \/ r < 7 /\ r1 = r + 1 /\ d1 = d
    BY <2>1, <2>3, <2>4 DEF Waiting
  <2>6. Waiting = 1 => r + Due <= 8
    BY <2>2
  <2> HIDE DEF r, d, r1, d1
  <2>7. Waiting' \in {0, 1} /\ (Waiting' = 1 => r1 + Due' <= 8)
    BY <1>1, <1>4, <1>6, <2>1, <2>2, <2>5, <2>6
  <2>8. macRdEn' => Waiting' = 1
    BY <1>1, <1>4, <1>6, <2>1, <2>2, <2>5, <2>6
  <2>9. QED
    BY <1>1, <1>3, <1>6, <2>1, <2>7, <2>8 DEF r1
<1>7. QED
  BY <1>5, <1>6

LEMMA WaitingNext ==
    ASSUME sent' \in Nat, rowsRead' \in Nat
    PROVE  sent' \div 8 \in Nat /\ sent' \div 8 = rowsRead' + Waiting'
<1>1. sent' \div 8 \in Nat
  BY Rows8
<1>2. sent' \div 8 = rowsRead' + Waiting'
  BY <1>1 DEF Waiting
<1>3. QED
  BY <1>1, <1>2

LEMMA RingStep ==
    ASSUME TypeOK, MachineInv, RingInv, NEW access, ClientStep(access)
    PROVE  RingInv'
<1>1. /\ sent \in Nat /\ rowsRead \in Nat /\ sent' \in Nat /\ rowsRead' \in Nat
      /\ cmdReset' <=> stage' = "clearing"
      /\ cmdReset => ~cmdReset' /\ sent' = 0 /\ rowsRead' = 0 /\ Due' = 2
      /\ ~cmdReset => /\ sent' = IF access.route = "data" THEN sent + 1 ELSE sent
                      /\ rowsRead' = IF Due = 1 THEN rowsRead + 1 ELSE rowsRead
      /\ Waiting' \in {0, 1}
      /\ Waiting' = 1 => (sent' % 8) + Due' <= 8
      /\ macRdEn' => Waiting' = 1
  BY Counts
<1>2. macRdEn <=> Due = 1
  BY MachineStep DEF TypeOK, ClientStep, Edge, TopClock
<1>3. stage' = "coeffs" => sent' = 0
  BY <1>1 DEF RingInv, ClientStep
<1>4. pxBfrWrCounter' = sent' % (8 * PixelBufferDepth)
  <2>1. CASE cmdReset
    BY <1>1, <2>1, Sizes DEF ClientStep, Edge, TopClock, wrData
  <2>2. CASE ~cmdReset /\ access.route = "data"
    BY <1>1, <2>2, RingOffsets DEF ClientStep, Edge, TopClock, wrData, RingInv
  <2>3. CASE ~cmdReset /\ access.route # "data"
    BY <1>1, <2>3 DEF ClientStep, Edge, TopClock, wrData, RingInv
  <2>4. QED
    BY <2>1, <2>2, <2>3
<1>5. pxBfrRdOffset' = rowsRead' % PixelBufferDepth
  <2>1. CASE cmdReset
    BY <1>1, <2>1, Sizes DEF ClientStep, Edge, TopClock, rdMacInput
  <2>2. CASE ~cmdReset /\ macRdEn
    BY <1>1, <1>2, <2>2, RingOffsets DEF ClientStep, Edge, TopClock, rdMacInput, RingInv
  <2>3. CASE ~cmdReset /\ ~macRdEn
    BY <1>1, <1>2, <2>3 DEF ClientStep, Edge, TopClock, rdMacInput, RingInv
  <2>4. QED
    BY <2>1, <2>2, <2>3
<1>6. pxBfrRdEn' <=> Waiting' = 1 /\ ~cmdReset'
  <2>1. sent' \div 8 \in Nat /\ sent' \div 8 = rowsRead' + Waiting'
    BY <1>1, WaitingNext
  <2>2. WrOffset(pxBfrWrCounter') = (sent' \div 8) % PixelBufferDepth
    BY <1>1, <1>4, RingOffsets
  <2>3. pxBfrRdEn' = IF cmdReset' \/ pxBfrRdOffset' = WrOffset(pxBfrWrCounter') THEN FALSE
                     ELSE IF NextRow(pxBfrRdOffset') = WrOffset(pxBfrWrCounter') THEN TRUE
                     ELSE pxBfrRdEn
    BY DEF ClientStep, Edge, TopClock, bfrWrStsFlags
  <2>4. CASE cmdReset'
    BY <2>3, <2>4
  <2>5. CASE ~cmdReset' /\ Waiting' = 0
    <3>1. pxBfrRdOffset' = WrOffset(pxBfrWrCounter')
      BY <1>1, <1>5, <2>1, <2>2, <2>5
    <3>2. QED
      BY <2>3, <2>5, <3>1
  <2>6. CASE ~cmdReset' /\ Waiting' = 1
    <3>1. WrOffset(pxBfrWrCounter') = (rowsRead' + 1) % PixelBufferDepth
      BY <1>1, <2>1, <2>2, <2>6
    <3>2. /\ NextRow(pxBfrRdOffset') = WrOffset(pxBfrWrCounter')
          /\ pxBfrRdOffset' # WrOffset(pxBfrWrCounter')
      BY <1>1, <1>5, <3>1, RingOffsets
    <3>3. QED
      BY <2>3, <2>6, <3>2
  <2>7. QED
    BY <1>1, <2>4, <2>5, <2>6
<1>7. QED
  BY <1>1, <1>3, <1>4, <1>5, <1>6 DEF RingInv

LEMMA ControlStep ==
    ASSUME FpClosed, ControlInv, NEW access, ClientStep(access)
    PROVE  ControlInv'
<1>1. TopTypeOK'
  BY TopTypes DEF ControlInv, TypeOK, ClientStep, Edge
<1>2. MachineInv' /\ RingInv'
  BY MachineStep, RingStep DEF ControlInv, TypeOK, ClientStep, Edge, TopClock
<1>3. rowsRead' \in 0 .. Len(Pixels) \div 8 /\ sent' \in 0 .. Len(Pixels)
  <2>1. sent' \in 0 .. Len(Pixels) /\ rowsRead' \in Nat /\ Waiting' \in {0, 1}
    BY Counts DEF ControlInv
  <2>2. Len(Pixels) \in Nat
    BY ClientAssumption
  <2>3. ASSUME NEW s \in Nat, NEW r \in Nat, NEW w \in {0, 1}, NEW len \in Nat,
               s <= len, s \div 8 = r + w
        PROVE  r \in 0 .. len \div 8
    <3>1. s \div 8 \in Nat /\ len \div 8 \in Nat /\ s \div 8 <= len \div 8
      BY <2>3, Rows8, Rows8Ordered
    <3>2. QED
      BY <2>3, <3>1
  <2>4. QED
    BY <2>1, <2>2, <2>3, WaitingNext
<1>4. stored' \in Nat
  BY DEF ControlInv, TypeOK, ClientStep, Edge
<1>5. carry' \in Float
  BY DEF ControlInv, TypeOK, TopTypeOK, DatapathTypeOK, ClientStep, Edge, result, res0_out,
         FpClosed
<1>6. QED
  BY <1>1, <1>2, <1>3, <1>4, <1>5 DEF ControlInv, TypeOK, ClientStep

\* The initial state and the state after a reset.
LEMMA ControlStart == ASSUME FpClosed, Init PROVE ControlInv
<1>1. TopTypeOK
  <2>1. DatapathTypeOK
    BY ZeroTyped DEF Init, TopInit, DatapathInit, DatapathTypeOK
  <2>2. 0 \in 0 .. MacEngineLatency - 1
    BY DEF MacEngineLatency
  <2>3. QED
    BY <2>1, <2>2, ZeroTyped, ZeroInRange DEF Init, TopInit, TopTypeOK
<1>2. TypeOK
  <2>1. Len(Pixels) \in Nat /\ MaxCommands \in Nat /\ NumCoeffs \in Nat
    BY ClientAssumption, Sizes DEF NumCoeffs
  <2>2. QED
    BY <1>1, <2>1, ZeroTyped DEF Init, TypeOK, FpClosed
<1>3. MachineInv
  BY DEF Init, TopInit, MachineInv
<1>4. RingInv
  <2>1. Waiting = 0
    BY DEF Init, Waiting
  <2>2. QED
    BY <2>1, Sizes DEF Init, TopInit, RingInv
<1>5. QED
  BY <1>2, <1>3, <1>4 DEF ControlInv

LEMMA ControlReset == ASSUME FpClosed, Reset PROVE ControlInv'
<1>1. TopTypeOK'
  <2>1. DatapathTypeOK'
    BY ZeroTyped DEF Reset, TopReset, DatapathReset, DatapathTypeOK
  <2>2. 0 \in 0 .. MacEngineLatency - 1
    BY DEF MacEngineLatency
  <2>3. QED
    BY <2>1, <2>2, ZeroTyped, ZeroInRange DEF Reset, TopReset, TopTypeOK
<1>2. TypeOK'
  <2>1. Len(Pixels) \in Nat /\ MaxCommands \in Nat /\ NumCoeffs \in Nat
    BY ClientAssumption, Sizes DEF NumCoeffs
  <2>2. QED
    BY <1>1, <2>1, ZeroTyped DEF Reset, TypeOK, FpClosed
<1>3. MachineInv'
  BY DEF Reset, TopReset, MachineInv
<1>4. RingInv'
  <2>1. Waiting' = 0
    BY DEF Reset, Waiting
  <2>2. QED
    BY <2>1, Sizes DEF Reset, TopReset, RingInv
<1>5. QED
  BY <1>2, <1>3, <1>4 DEF ControlInv

LEMMA ControlInvariant == ASSUME FpClosed PROVE Spec => []ControlInv
<1>1. Init => ControlInv
  BY ControlStart
<1>2. ControlInv /\ [Next]_vars => ControlInv'
  <2> SUFFICES ASSUME ControlInv, [Next]_vars PROVE ControlInv'
    OBVIOUS
  <2>1. CASE Next
    BY <2>1, ClientSteps, ControlStep, ControlReset DEF ControlInv
  <2>2. CASE UNCHANGED vars
    BY <2>2 DEF ControlInv, TypeOK, MachineInv, RingInv, Waiting, Due, vars, clientVars,
                historyVars, topVars, datapathVars, smVars, inputVars, resultVars,
                TopTypeOK, DatapathTypeOK
  <2>3. QED
    BY <2>1, <2>2
<1>3. QED
  BY <1>1, <1>2, PTL DEF Spec

\* No row is read before it is complete.
THEOREM RowsComplete == ASSUME FpClosed PROVE Spec => []ReadsCompleteRows
<1>1. ControlInv => ReadsCompleteRows
  <2> SUFFICES ASSUME ControlInv, macRdEn PROVE 8 * (rowsRead + 1) <= sent
    BY DEF ReadsCompleteRows
  <2>1. sent \in Nat /\ rowsRead \in Nat /\ Waiting = 1
    BY DEF ControlInv, TypeOK, RingInv
  <2>2. QED
    BY <2>1 DEF Waiting
<1>2. QED
  BY <1>1, ControlInvariant, PTL

\* The pixel ring never fills up, whatever its depth.
THEOREM RingNeverFull == ASSUME FpClosed PROVE Spec => []PixelRingNeverFull
<1>1. ControlInv => PixelRingNeverFull
  BY DEF ControlInv, RingInv, Waiting, PixelRingNeverFull
<1>2. QED
  BY <1>1, ControlInvariant, PTL
-----------------------------------------------------------------------------
(* The place of a row in its filter row.                                   *)

\* Row n is block b of cell c of filter row k.
IsPlace(n, k, c, b) == n = k * RowBlocks + c * BlockCount + b

LEMMA PlaceOf ==
    ASSUME NEW n \in Nat, NEW k \in Nat, NEW c \in Cell, NEW b \in Block,
           IsPlace(n, k, c, b)
    PROVE  /\ n \div RowBlocks = k /\ n % RowBlocks = c * BlockCount + b
           /\ (n \div BlockCount) % FilterRowSize = c /\ n % BlockCount = b
<1> DEFINE B == BlockCount  F == FilterRowSize
<1>1. /\ B \in Nat /\ B > 0 /\ F \in Nat /\ F > 0 /\ RowBlocks = F * B
      /\ c \in 0 .. F - 1 /\ b \in 0 .. B - 1 /\ n = k * (F * B) + c * B + b
      /\ RowBlocks \in Nat /\ RowBlocks > 0
  BY Sizes DEF Cell, Block, IsPlace
<1> HIDE DEF B, F
<1>2. c * B \in Nat /\ c * B <= (F - 1) * B /\ (F - 1) * B = F * B - B
  BY <1>1
<1>3. c * B + b \in 0 .. RowBlocks - 1
  BY <1>1, <1>2
<1>4. n \div RowBlocks = k /\ n % RowBlocks = c * B + b
  <2>1. n = k * RowBlocks + (c * B + b)
    BY <1>1, <1>2
  <2>2. QED
    BY <1>1, <1>3, <2>1, DivModOf
<1>5. n \div B = k * F + c /\ n % B = b
  <2>1. n = (k * F + c) * B + b /\ k * F + c \in Nat
    BY <1>1
  <2>2. QED
    BY <1>1, <2>1, DivModOf
<1>6. (k * F + c) % F = c
  BY <1>1, DivModOf
<1>7. QED
  BY <1>4, <1>5, <1>6 DEF B, F

LEMMA PlaceNext ==
    ASSUME NEW n \in Nat, NEW k \in Nat, NEW c \in Cell, NEW b \in Block,
           IsPlace(n, k, c, b)
    PROVE  /\ b # BlockCount - 1 => IsPlace(n + 1, k, c, b + 1)
           /\ b = BlockCount - 1 /\ c # FilterRowSize - 1 => IsPlace(n + 1, k, c + 1, 0)
           /\ b = BlockCount - 1 /\ c = FilterRowSize - 1 => IsPlace(n + 1, k + 1, 0, 0)
<1> DEFINE B == BlockCount  F == FilterRowSize
<1>1. /\ B \in Nat /\ B > 0 /\ F \in Nat /\ F > 0 /\ RowBlocks = F * B
      /\ c \in 0 .. F - 1 /\ b \in 0 .. B - 1 /\ n = k * (F * B) + c * B + b
  BY Sizes DEF Cell, Block, IsPlace
<1> HIDE DEF B, F
<1>2. c * B \in Nat /\ k * (F * B) \in Nat /\ F * B \in Nat
  BY <1>1
<1>3. n + 1 = k * (F * B) + c * B + (b + 1)
  BY <1>1, <1>2
<1>4. b = B - 1 => n + 1 = k * (F * B) + (c + 1) * B + 0
  <2>1. (c + 1) * B = c * B + B
    BY <1>1
  <2>2. QED
    BY <1>1, <1>2, <1>3, <2>1
<1>5. b = B - 1 /\ c = F - 1 => n + 1 = (k + 1) * (F * B) + 0 * B + 0
  <2>1. (k + 1) * (F * B) = k * (F * B) + F * B /\ 0 * B = 0
    BY <1>1, <1>2
  <2>2. c = F - 1 => (c + 1) * B = F * B
    BY <1>1
  <2>3. QED
    BY <1>1, <1>2, <1>4, <2>1, <2>2
<1>6. QED
  BY <1>1, <1>3, <1>4, <1>5 DEF IsPlace, B, F

\* What a clock edge does to the place of the next row.
LEMMA PlaceStep ==
    ASSUME ControlInv, PlaceInv, NEW access, ClientStep(access)
    PROVE  /\ PlaceInv'
           /\ RowsDone \in Nat
           /\ cmdReset => RowsDone' = 0 /\ ~filterRowEnd'
           /\ filterRowEnd' => macRdEn /\ ~cmdReset /\ rowsRead' > 0 /\ rowsRead' % RowBlocks = 0
           /\ ~cmdReset => /\ RowsDone' = RowsDone + Bit(filterRowEnd')
                           /\ macRdEn /\ rowsRead' % RowBlocks = 0 => filterRowEnd'
<1> DEFINE k == RowsDone  c == coeffRdCellOffset  b == coeffRdBlockOffset
<1>1. /\ rowsRead \in Nat /\ c \in Cell /\ b \in Block
      /\ cmdReset \in BOOLEAN /\ macRdEn \in BOOLEAN /\ filterRowEnd' \in BOOLEAN
  <2>1. filterRowEnd' \in BOOLEAN
    BY DEF ClientStep, Edge, TopClock, rdLogic
  <2>2. QED
    BY <2>1 DEF ControlInv, TypeOK, TopTypeOK
<1>2. k \in Nat /\ IsPlace(rowsRead, k, c, b)
  BY <1>1, Sizes, DivMod DEF PlaceInv, IsPlace, RowsDone
<1>3. rdLogic /\ rowsRead' = IF cmdReset THEN 0 ELSE IF macRdEn THEN rowsRead + 1 ELSE rowsRead
  BY DEF ClientStep, Edge, TopClock
<1> HIDE DEF k, c, b
<1>4. ASSUME NEW k1 \in Nat, c' \in Cell, b' \in Block, rowsRead' \in Nat,
             IsPlace(rowsRead', k1, c', b')
      PROVE  PlaceInv' /\ RowsDone' = k1
  <2>1. rowsRead' \div RowBlocks = k1
    BY <1>4, PlaceOf
  <2>2. QED
    BY <1>4, <2>1 DEF PlaceInv, RowsDone, IsPlace, c, b
<1>5. CASE cmdReset
  <2>1. c' = 0 /\ b' = 0 /\ rowsRead' = 0 /\ ~filterRowEnd'
    BY <1>3, <1>5 DEF rdLogic, c, b
  <2>2. IsPlace(rowsRead', 0, c', b')
    BY <2>1, Sizes DEF IsPlace
  <2>3. QED
    BY <1>2, <1>4, <1>5, <2>1, <2>2, ZeroInRange DEF k
<1>6. CASE ~cmdReset /\ ~macRdEn
  <2>1. c' = c /\ b' = b /\ rowsRead' = rowsRead /\ filterRowEnd' = FALSE
    BY <1>3, <1>6 DEF rdLogic, c, b
  <2>2. PlaceInv' /\ RowsDone' = k
    BY <1>1, <1>2, <1>4, <2>1
  <2>3. QED
    BY <1>2, <1>6, <2>1, <2>2 DEF k, Bit
<1>7. CASE ~cmdReset /\ macRdEn /\ b # BlockCount - 1
  <2>1. c' = c /\ b' = b + 1 /\ rowsRead' = rowsRead + 1 /\ filterRowEnd' = FALSE
    BY <1>3, <1>7 DEF rdLogic, c, b
  <2>2. b' \in Block
    BY <1>1, <1>7, <2>1, Sizes DEF Block
  <2>3. IsPlace(rowsRead', k, c', b')
    BY <1>1, <1>2, <1>7, <2>1, PlaceNext
  <2>4. PlaceInv' /\ RowsDone' = k
    BY <1>1, <1>2, <1>4, <2>1, <2>2, <2>3
  <2>5. rowsRead' % RowBlocks # 0
    <3>1. rowsRead' % RowBlocks = c' * BlockCount + b'
      BY <1>1, <1>2, <2>1, <2>2, <2>3, PlaceOf
    <3>2. c' * BlockCount \in Nat /\ b' > 0 /\ b' \in Nat
      BY <1>1, <2>1, Sizes DEF Cell, Block
    <3>3. QED
      BY <3>1, <3>2
  <2>6. QED
    BY <1>2, <1>7, <2>1, <2>4, <2>5 DEF k, Bit
<1>8. CASE ~cmdReset /\ macRdEn /\ b = BlockCount - 1 /\ c # FilterRowSize - 1
  <2>1. c' = c + 1 /\ b' = 0 /\ rowsRead' = rowsRead + 1 /\ filterRowEnd' = FALSE
    BY <1>1, <1>3, <1>8 DEF rdLogic, c, b
  <2>2. c' \in Cell
    BY <1>1, <1>8, <2>1, Sizes DEF Cell
  <2>3. IsPlace(rowsRead', k, c', b')
    BY <1>1, <1>2, <1>8, <2>1, PlaceNext
  <2>4. PlaceInv' /\ RowsDone' = k
    BY <1>1, <1>2, <1>4, <2>1, <2>2, <2>3, ZeroInRange
  <2>5. rowsRead' % RowBlocks # 0
    <3>1. rowsRead' % RowBlocks = c' * BlockCount + b'
      BY <1>1, <1>2, <2>1, <2>2, <2>3, PlaceOf, ZeroInRange
    <3>2. c' \in Nat /\ c' > 0
      BY <1>1, <2>1, Sizes DEF Cell
    <3>3. QED
      BY <2>1, <3>1, <3>2, Sizes
  <2>6. QED
    BY <1>2, <1>8, <2>1, <2>4, <2>5 DEF k, Bit
<1>9. CASE ~cmdReset /\ macRdEn /\ b = BlockCount - 1 /\ c = FilterRowSize - 1
  <2>1. c' = 0 /\ b' = 0 /\ rowsRead' = rowsRead + 1 /\ filterRowEnd' = TRUE
    BY <1>1, <1>3, <1>9 DEF rdLogic, c, b
  <2>2. IsPlace(rowsRead', k + 1, c', b')
    BY <1>1, <1>2, <1>9, <2>1, PlaceNext
  <2>3. PlaceInv' /\ RowsDone' = k + 1
    BY <1>1, <1>2, <1>4, <2>1, <2>2, ZeroInRange
  <2>4. rowsRead' % RowBlocks = 0
    <3>1. rowsRead' % RowBlocks = 0 * BlockCount + 0
      BY <1>1, <1>2, <2>1, <2>2, PlaceOf, ZeroInRange
    <3>2. QED
      BY <3>1, Sizes
  <2>5. QED
    BY <1>1, <1>2, <1>9, <2>1, <2>3, <2>4 DEF k, Bit
<1>10. QED
  BY <1>1, <1>5, <1>6, <1>7, <1>8, <1>9
-----------------------------------------------------------------------------
(* The words of the ring and the operands.                                 *)

\* No coefficient is written once a word has been sent, nor while a row waits.
LEMMA CoeffsKept ==
    ASSUME ControlInv, NEW access, ClientStep(access), ~cmdReset,
           sent > 0 \/ access.route = "data" \/ stage # "coeffs"
    PROVE  coeffBuffer' = coeffBuffer
<1>1. access.route # "coeff"
  BY DEF ControlInv, RingInv, ClientStep
<1>2. QED
  BY <1>1 DEF ClientStep, Edge, TopClock, wrCoeff

\* The row being written, as it is after the edge and before it counts as
\* complete.
LEMMA WrittenRow ==
    ASSUME ControlInv, DataInv, NEW access, ClientStep(access), ~cmdReset,
           NEW lane \in Lane, lane <= (sent % 8) + (sent' - sent)
    PROVE  pxBuffer'[(sent \div 8) % PixelBufferDepth][lane]
               = Pixels[8 * (sent \div 8) + lane]
<1> DEFINE row == (sent \div 8) % PixelBufferDepth
<1>1. /\ sent \in Nat /\ sent' = IF access.route = "data" THEN sent + 1 ELSE sent
      /\ pxBuffer \in [Row -> [Lane -> Float]]
  BY Counts DEF ControlInv, TypeOK, TopTypeOK, RowType
<1>2. /\ WrOffset(pxBfrWrCounter) = row /\ WrSelect(pxBfrWrCounter) = (sent % 8) + 1
      /\ row \in Row
  BY <1>1, RingOffsets, Rows8 DEF ControlInv, RingInv
<1>3. lane \in 1 .. sent % 8 => pxBuffer[row][lane] = Pixels[8 * (sent \div 8) + lane]
  BY <1>2 DEF DataInv
<1>4. sent = 8 * (sent \div 8) + (sent % 8) /\ sent % 8 \in 0 .. 7 /\ sent \div 8 \in Nat
  BY <1>1, Rows8
<1> HIDE DEF row
<1>5. CASE access.route = "data"
  <2>1. pxBuffer' = [pxBuffer EXCEPT ![row][(sent % 8) + 1] = Pixels[sent + 1]]
    BY <1>2, <1>5 DEF ClientStep, Edge, TopClock, wrData
  <2>2. lane \in 1 .. (sent % 8) + 1
    BY <1>1, <1>4, <1>5 DEF Lane
  <2>3. CASE lane = (sent % 8) + 1
    <3>1. pxBuffer'[row][lane] = Pixels[sent + 1]
      BY <1>1, <1>2, <2>1, <2>3
    <3>2. sent + 1 = 8 * (sent \div 8) + lane
      BY <1>4, <2>3
    <3>3. QED
      BY <3>1, <3>2 DEF row
  <2>4. CASE lane # (sent % 8) + 1
    <3>1. lane \in 1 .. sent % 8
      BY <1>4, <2>2, <2>4
    <3>2. pxBuffer'[row][lane] = pxBuffer[row][lane]
      BY <1>1, <1>2, <2>1, <2>4
    <3>3. QED
      BY <1>3, <3>1, <3>2 DEF row
  <2>5. QED
    BY <2>3, <2>4
<1>6. CASE access.route # "data"
  <2>1. pxBuffer' = pxBuffer
    BY <1>6 DEF ClientStep, Edge, TopClock, wrData
  <2>2. lane \in 1 .. sent % 8
    BY <1>1, <1>4, <1>6 DEF Lane
  <2>3. QED
    BY <1>3, <2>1, <2>2 DEF row
<1>7. QED
  BY <1>5, <1>6

\* The row that waits is not written.
LEMMA WaitingRowKept ==
    ASSUME ControlInv, NEW access, ClientStep(access), ~cmdReset, Waiting = 1,
           NEW lane \in Lane
    PROVE  pxBuffer'[pxBfrRdOffset][lane] = pxBuffer[pxBfrRdOffset][lane]
<1>1. /\ sent \in Nat /\ rowsRead \in Nat /\ sent \div 8 \in Nat
      /\ sent \div 8 = rowsRead + 1
      /\ pxBuffer \in [Row -> [Lane -> Float]]
  BY Rows8 DEF ControlInv, TypeOK, TopTypeOK, RowType, Waiting
<1>2. /\ WrOffset(pxBfrWrCounter) = (sent \div 8) % PixelBufferDepth
      /\ pxBfrRdOffset = rowsRead % PixelBufferDepth /\ pxBfrRdOffset \in Row
  BY <1>1, RingOffsets DEF ControlInv, RingInv
<1>3. WrOffset(pxBfrWrCounter) # pxBfrRdOffset
  BY <1>1, <1>2, RingOffsets
<1>4. QED
  BY <1>1, <1>2, <1>3 DEF ClientStep, Edge, TopClock, wrData

LEMMA OperandsRead ==
    ASSUME ControlInv, DataInv, PlaceInv, NEW access, ClientStep(access),
           ~cmdReset, macRdEn
    PROVE  macPx' = PixelRow(rowsRead)' /\ macCoeff' = CoeffRow(rowsRead)'
<1>1. /\ sent \in Nat /\ rowsRead \in Nat /\ Waiting = 1 /\ sent > 0
      /\ pxBuffer \in [Row -> [Lane -> Float]] /\ pxBfrRdOffset \in Row
      /\ coeffRdCellOffset \in Cell /\ coeffRdBlockOffset \in Block
  <2>1. sent \in Nat /\ rowsRead \in Nat /\ Waiting = 1
    BY DEF ControlInv, TypeOK, RingInv
  <2>2. sent \div 8 \in Nat
    BY <2>1, Rows8
  <2>3. sent > 0
    BY <2>1, <2>2 DEF Waiting
  <2>4. QED
    BY <2>1, <2>3 DEF ControlInv, TypeOK, TopTypeOK, RowType
<1>2. rowsRead' = rowsRead + 1
  BY DEF ClientStep, Edge
<1>3. macPx' = PixelRow(rowsRead)'
  <2>1. macPx' = pxBuffer[pxBfrRdOffset]
    BY DEF ClientStep, Edge, TopClock, rdMacInput
  <2>2. \A lane \in Lane : pxBuffer[pxBfrRdOffset][lane] = Pixels[8 * rowsRead + lane]
    BY <1>1 DEF DataInv
  <2>3. pxBuffer[pxBfrRdOffset] = [lane \in Lane |-> Pixels[8 * rowsRead + lane]]
    BY <1>1, <2>2
  <2>4. rowsRead' - 1 = rowsRead
    BY <1>1, <1>2
  <2>5. QED
    BY <2>1, <2>3, <2>4 DEF PixelRow
<1>4. macCoeff' = CoeffRow(rowsRead)'
  <2>1. /\ macCoeff' = coeffBuffer[coeffRdCellOffset][coeffRdBlockOffset]
        /\ coeffBuffer' = coeffBuffer
    BY <1>1, CoeffsKept DEF ClientStep, Edge, TopClock, rdMacInput
  <2>2. /\ (rowsRead \div BlockCount) % FilterRowSize = coeffRdCellOffset
        /\ rowsRead % BlockCount = coeffRdBlockOffset
    <3>1. RowsDone \in Nat
      BY <1>1, Sizes, DivMod DEF RowsDone
    <3>2. IsPlace(rowsRead, RowsDone, coeffRdCellOffset, coeffRdBlockOffset)
      BY DEF PlaceInv, IsPlace
    <3>3. QED
      BY <1>1, <3>1, <3>2, PlaceOf
  <2>3. rowsRead' - 1 = rowsRead
    BY <1>1, <1>2
  <2>4. QED
    BY <2>1, <2>2, <2>3 DEF CoeffRow
<1>5. QED
  BY <1>3, <1>4

\* Eight words more make a row more.
LEMMA RowCounts ==
    ASSUME NEW s \in Nat, NEW n \in Nat, NEW s1 \in {s, s + 1}, NEW n1 \in {n, n + 1},
           NEW w \in {0, 1}, NEW w1 \in {0, 1},
           s \div 8 = n + w, s1 \div 8 = n1 + w1
    PROVE  /\ w1 = 1 => \/ n1 = s \div 8 /\ (s % 8) + (s1 - s) = 8
                        \/ w = 1 /\ n1 = n
           /\ s1 % 8 = 0 \/ (s1 \div 8 = s \div 8 /\ s1 % 8 = (s % 8) + (s1 - s))
           /\ n > 0 => s > 0
<1> DEFINE d == s \div 8  r == s % 8  d1 == s1 \div 8  r1 == s1 % 8  k == s1 - s
<1>1. /\ d \in Nat /\ r \in 0 .. 7 /\ s = 8 * d + r
      /\ d1 \in Nat /\ r1 \in 0 .. 7 /\ s1 = 8 * d1 + r1
      /\ k \in {0, 1} /\ s1 = s + k
  BY Rows8
<1> HIDE DEF d, r, d1, r1, k
<1>2. \/ d1 = d /\ r1 = r + k
      \/ d1 = d + 1 /\ r1 = 0 /\ r + k = 8
  BY <1>1
<1>3. d = n + w /\ d1 = n1 + w1
  BY DEF d, d1
<1>4. w1 = 1 => \/ n1 = d /\ r + k = 8
                \/ w = 1 /\ n1 = n
  BY <1>1, <1>2, <1>3
<1>5. n > 0 => s > 0
  BY <1>1, <1>3
<1>6. r1 = 0 \/ (d1 = d /\ r1 = r + k)
  BY <1>2
<1>7. QED
  BY <1>4, <1>5, <1>6, Zenon DEF d, r, d1, r1, k

LEMMA DataStep ==
    ASSUME ControlInv, DataInv, PlaceInv, NEW access, ClientStep(access)
    PROVE  DataInv'
<1>1. /\ sent \in Nat /\ rowsRead \in Nat /\ sent' \in Nat /\ rowsRead' \in Nat
      /\ Waiting \in {0, 1} /\ Waiting' \in {0, 1}
  BY Counts DEF ControlInv, RingInv
<1>2. RingInv'
  BY RingStep DEF ControlInv
<1>3. CASE cmdReset
  <2>1. sent' = 0 /\ rowsRead' = 0 /\ Waiting' = 0
    <3>1. sent' = 0 /\ rowsRead' = 0
      BY <1>3, Counts DEF ControlInv
    <3>2. QED
      BY <3>1 DEF Waiting
  <2>2. 1 .. sent' % 8 = {}
    BY <2>1
  <2>3. QED
    BY <2>1, <2>2 DEF DataInv
<1>4. CASE ~cmdReset
  <2> DEFINE d == sent \div 8  r == sent % 8  d1 == sent' \div 8  r1 == sent' % 8
             wr == sent' - sent
  <2>1. sent' \in {sent, sent + 1} /\ rowsRead' \in {rowsRead, rowsRead + 1}
    BY <1>4, Counts DEF ControlInv
  <2>2. /\ Waiting' = 1 => \/ rowsRead' = d /\ r + wr = 8
                           \/ Waiting = 1 /\ rowsRead' = rowsRead
        /\ r1 = 0 \/ (d1 = d /\ r1 = r + wr)
        /\ rowsRead > 0 => sent > 0
    <3>1. sent \div 8 = rowsRead + Waiting
      <4>1. sent \div 8 \in Nat
        BY <1>1, Rows8
      <4>2. QED
        BY <1>1, <4>1 DEF Waiting
    <3>2. sent' \div 8 = rowsRead' + Waiting'
      BY <1>1, WaitingNext
    <3>3. PICK s1 \in Nat, n1 \in Nat : s1 = sent' /\ n1 = rowsRead'
      BY <1>1
    <3>4. PICK w1 \in {0, 1} : w1 = Waiting'
      BY <1>1
    <3>5. PICK s \in Nat, n \in Nat : s = sent /\ n = rowsRead
      BY <1>1
    <3>6. PICK w \in {0, 1} : w = Waiting
      BY <1>1
    <3>7. s1 \in {s, s + 1} /\ n1 \in {n, n + 1} /\ s \div 8 = n + w /\ s1 \div 8 = n1 + w1
      BY <2>1, <3>1, <3>2, <3>3, <3>4, <3>5, <3>6
    <3>8. /\ w1 = 1 => \/ n1 = s \div 8 /\ (s % 8) + (s1 - s) = 8
                       \/ w = 1 /\ n1 = n
          /\ s1 % 8 = 0 \/ (s1 \div 8 = s \div 8 /\ s1 % 8 = (s % 8) + (s1 - s))
          /\ n > 0 => s > 0
      BY <3>7, RowCounts
    <3>9. QED
      BY <3>3, <3>4, <3>5, <3>6, <3>8, Zenon
  <2>3. WrOffset(pxBfrWrCounter') = d1 % PixelBufferDepth
        /\ pxBfrRdOffset' = rowsRead' % PixelBufferDepth
    BY <1>1, <1>2, RingOffsets DEF RingInv
  <2>4. ASSUME NEW lane \in Lane, lane <= r + wr
        PROVE  pxBuffer'[d % PixelBufferDepth][lane] = Pixels[8 * d + lane]
    BY <1>4, <2>4, WrittenRow
  <2>5. r \in 0 .. 7 /\ r1 \in 0 .. 7
    BY <1>1, Rows8
  <2> HIDE DEF d, r, d1, r1, wr
  <2>6. ASSUME Waiting' = 1, NEW lane \in Lane
        PROVE  pxBuffer'[pxBfrRdOffset'][lane] = Pixels[8 * rowsRead' + lane]
    <3>1. CASE rowsRead' = d /\ r + wr = 8
      <4>1. lane <= r + wr
        BY <3>1 DEF Lane
      <4>2. QED
        BY <2>3, <2>4, <3>1, <4>1
    <3>2. CASE Waiting = 1 /\ rowsRead' = rowsRead
      <4>1. pxBfrRdOffset' = pxBfrRdOffset
        BY <2>3, <3>2 DEF ControlInv, RingInv
      <4>2. pxBuffer[pxBfrRdOffset][lane] = Pixels[8 * rowsRead + lane]
        BY <3>2 DEF DataInv
      <4>3. QED
        BY <1>4, <3>2, <4>1, <4>2, WaitingRowKept
    <3>3. QED
      BY <2>2, <2>6, <3>1, <3>2
  <2>7. ASSUME NEW lane \in 1 .. r1
        PROVE  pxBuffer'[WrOffset(pxBfrWrCounter')][lane] = Pixels[8 * d1 + lane]
    <3>1. d1 = d /\ lane \in Lane /\ lane <= r + wr
      BY <2>2, <2>5 DEF Lane
    <3>2. QED
      BY <2>3, <2>4, <3>1
  <2>8. ASSUME rowsRead' > 0
        PROVE  macPx' = PixelRow(rowsRead)' /\ macCoeff' = CoeffRow(rowsRead)'
    <3>1. CASE macRdEn
      BY <1>4, <3>1, OperandsRead
    <3>2. CASE ~macRdEn
      <4>1. rowsRead' = rowsRead /\ macPx' = macPx /\ macCoeff' = macCoeff
        BY <1>4, <3>2 DEF ClientStep, Edge, TopClock, rdMacInput
      <4>2. rowsRead > 0 /\ sent > 0
        BY <2>2, <2>8, <4>1
      <4>3. coeffBuffer' = coeffBuffer
        BY <1>4, <4>2, CoeffsKept
      <4>4. macPx = PixelRow(rowsRead) /\ macCoeff = CoeffRow(rowsRead)
        BY <4>2 DEF DataInv
      <4>5. CoeffRow(rowsRead)' = CoeffRow(rowsRead)
        BY <4>1, <4>3 DEF CoeffRow
      <4>6. QED
        BY <4>1, <4>4, <4>5
    <3>3. QED
      BY <3>1, <3>2
  <2>9. QED
    <3>1. Waiting' = 1 => \A lane \in Lane :
             pxBuffer'[pxBfrRdOffset'][lane] = Pixels[8 * rowsRead' + lane]
      BY <2>6
    <3>2. \A lane \in 1 .. r1 :
             pxBuffer'[WrOffset(pxBfrWrCounter')][lane] = Pixels[8 * d1 + lane]
      BY <2>7
    <3>3. QED
      BY <2>8, <3>1, <3>2, Zenon DEF DataInv, d1, r1
<1>5. QED
  BY <1>3, <1>4

FrontInv == ControlInv /\ DataInv /\ PlaceInv

LEMMA FrontStart == ASSUME FpClosed, Init PROVE FrontInv
<1>1. sent = 0 /\ rowsRead = 0 /\ Waiting = 0
  BY DEF Init, Waiting
<1>2. 1 .. sent % 8 = {}
  BY <1>1
<1>3. DataInv
  BY <1>1, <1>2 DEF DataInv
<1>4. PlaceInv
  <2>1. coeffRdCellOffset = 0 /\ coeffRdBlockOffset = 0
    BY DEF Init, TopInit
  <2>2. RowsDone = 0
    BY <1>1, Sizes DEF RowsDone
  <2>3. QED
    BY <1>1, <2>1, <2>2, Sizes DEF PlaceInv
<1>5. QED
  BY <1>3, <1>4, ControlStart DEF FrontInv

LEMMA FrontReset == ASSUME FpClosed, Reset PROVE FrontInv'
<1>1. sent' = 0 /\ rowsRead' = 0 /\ Waiting' = 0
  <2>1. sent' = 0 /\ rowsRead' = 0
    BY DEF Reset
  <2>2. QED
    BY <2>1 DEF Waiting
<1>2. 1 .. sent' % 8 = {}
  BY <1>1
<1>3. DataInv'
  BY <1>1, <1>2 DEF DataInv
<1>4. PlaceInv'
  <2>1. coeffRdCellOffset' = 0 /\ coeffRdBlockOffset' = 0
    BY DEF Reset, TopReset
  <2>2. RowsDone' = 0
    BY <1>1, Sizes DEF RowsDone
  <2>3. QED
    BY <1>1, <2>1, <2>2, Sizes DEF PlaceInv
<1>5. QED
  BY <1>3, <1>4, ControlReset DEF FrontInv

LEMMA FrontStep ==
    ASSUME FpClosed, FrontInv, NEW access, ClientStep(access)
    PROVE  FrontInv'
  BY ControlStep, DataStep, PlaceStep DEF FrontInv

LEMMA FrontUnchanged == ASSUME FrontInv, UNCHANGED vars PROVE FrontInv'
<1> USE DEF vars, clientVars, historyVars, topVars, datapathVars, smVars, inputVars,
            resultVars
<1>1. ControlInv'
  BY DEF FrontInv, ControlInv, TypeOK, MachineInv, RingInv, Waiting, Due, TopTypeOK,
         DatapathTypeOK
<1>2. DataInv'
  BY DEF FrontInv, DataInv, Waiting, CoeffRow
<1>3. PlaceInv'
  BY DEF FrontInv, PlaceInv, RowsDone
<1>4. QED
  BY <1>1, <1>2, <1>3 DEF FrontInv

LEMMA FrontInvariant == ASSUME FpClosed PROVE Spec => []FrontInv
<1>1. Init => FrontInv
  BY FrontStart
<1>2. FrontInv /\ [Next]_vars => FrontInv'
  <2> SUFFICES ASSUME FrontInv, [Next]_vars PROVE FrontInv'
    OBVIOUS
  <2>1. CASE Next
    BY <2>1, ClientSteps, FrontStep, FrontReset DEF FrontInv, ControlInv
  <2>2. CASE UNCHANGED vars
    BY <2>2, FrontUnchanged
  <2>3. QED
    BY <2>1, <2>2
<1>3. QED
  BY <1>1, <1>2, PTL DEF Spec

\* What the datapath is given is the row read last and the coefficients of its
\* place, and no offset leaves its ring.
THEOREM OperandsMatch == ASSUME FpClosed PROVE Spec => []OperandsInOrder
<1>1. FrontInv => OperandsInOrder
  BY DEF FrontInv, ControlInv, DataInv, OperandsInOrder
<1>2. QED
  BY <1>1, FrontInvariant, PTL
-----------------------------------------------------------------------------
(* The ends of filter rows on their way through the pipeline.              *)

LEMMA Shifts ==
    ASSUME TopTypeOK, macPipe
    PROVE  /\ rowEndPipeSReg \in [0 .. 5 -> BOOLEAN]
           /\ macRdEnPipeSReg \in [0 .. 5 -> BOOLEAN]
           /\ rowEndPipeSReg'[0] = filterRowEnd /\ macRdEnPipeSReg'[0] = macRdEn
           /\ \A n \in 1 .. 5 : /\ rowEndPipeSReg'[n] = rowEndPipeSReg[n - 1]
                                /\ macRdEnPipeSReg'[n] = macRdEnPipeSReg[n - 1]
<1>1. rowEndPipeSReg \in [0 .. 5 -> BOOLEAN] /\ macRdEnPipeSReg \in [0 .. 5 -> BOOLEAN]
  BY DEF TopTypeOK, MacEngineLatency
<1>2. /\ rowEndPipeSReg' = [n \in 0 .. 5 |-> IF n = 0 THEN filterRowEnd
                                                      ELSE rowEndPipeSReg[n - 1]]
      /\ macRdEnPipeSReg' = [n \in 0 .. 5 |-> IF n = 0 THEN macRdEn
                                                       ELSE macRdEnPipeSReg[n - 1]]
  BY DEF macPipe, ShiftIn, MacEngineLatency
<1>3. QED
  BY <1>1, <1>2

LEMMA QuietStep ==
    ASSUME ControlInv, QuietInv, NEW access, ClientStep(access)
    PROVE  QuietInv'
<1> SUFFICES ASSUME QuietCommands, stage' = "clearing"
             PROVE  /\ macState' = "s_Idle" /\ ~macRdEn' /\ ~filterRowEnd'
                    /\ \A n \in 0 .. MacEngineLatency :
                          ~macRdEnPipeSReg'[n] /\ ~rowEndPipeSReg'[n]
  BY DEF QuietInv
<1>1. Quiet /\ ~cmdReset
  BY DEF ClientStep, ControlInv, RingInv
<1>2. macState' = "s_Idle" /\ ~macRdEn'
  BY <1>1 DEF Quiet, ClientStep, Edge, TopClock, sm
<1>3. ~filterRowEnd'
  BY <1>1 DEF Quiet, ClientStep, Edge, TopClock, rdLogic
<1>4. ASSUME NEW n \in 0 .. 5
      PROVE  ~macRdEnPipeSReg'[n] /\ ~rowEndPipeSReg'[n]
  <2>1. TopTypeOK /\ macPipe
    BY DEF ControlInv, TypeOK, ClientStep, Edge, TopClock
  <2>2. /\ ~macRdEn /\ ~filterRowEnd
        /\ \A m \in 0 .. 5 : ~macRdEnPipeSReg[m] /\ ~rowEndPipeSReg[m]
    BY <1>1 DEF Quiet, MacEngineLatency
  <2>3. CASE n = 0
    BY <2>1, <2>2, <2>3, Shifts
  <2>4. CASE n \in 1 .. 5
    BY <2>1, <2>2, <2>4, Shifts
  <2>5. QED
    BY <2>3, <2>4
<1>5. QED
  BY <1>2, <1>3, <1>4 DEF MacEngineLatency

LEMMA PulseStep ==
    ASSUME FrontInv, Pulses, QuietInv, NEW access, ClientStep(access)
    PROVE  Pulses'
<1>1. /\ TopTypeOK /\ macPipe /\ sm /\ macWait /\ MachineInv /\ RingInv
      /\ cmdReset \in BOOLEAN /\ filterRowEnd \in BOOLEAN /\ macRdEn \in BOOLEAN
  BY DEF FrontInv, ControlInv, TypeOK, TopTypeOK, ClientStep, Edge, TopClock
<1>2. /\ macRdEn <=> Due = 1
      /\ Due \in 1 .. 7
      /\ Due' = IF cmdReset THEN 2
                ELSE IF Due = 1 THEN 7
                ELSE IF Due = 2 THEN IF pxBfrRdEn THEN 1 ELSE 2
                ELSE Due - 1
  BY <1>1, MachineStep
<1>3. /\ sent \in Nat /\ rowsRead \in Nat /\ sent' \in Nat /\ rowsRead' \in Nat
      /\ cmdReset => sent' = 0 /\ rowsRead' = 0
      /\ ~cmdReset => /\ sent' \in {sent, sent + 1}
                      /\ Due # 1 => rowsRead' = rowsRead
  BY Counts DEF FrontInv, ControlInv
<1>4. filterRowEnd' => macRdEn /\ ~cmdReset /\ rowsRead' > 0 /\ rowsRead' % RowBlocks = 0
  BY PlaceStep DEF FrontInv
<1>5. filterRowEnd' => Due' = 7 /\ rowsRead' > 0 /\ rowsRead' % RowBlocks = 0
  BY <1>2, <1>4
<1>6. Due = 1 => sent >= 8
  BY <1>1, <1>2, <1>3, Rows8 DEF RingInv, Waiting
<1>7. ASSUME NEW n \in 0 .. 4, rowEndPipeSReg'[n]
      PROVE  ~filterRowEnd' /\ \A m \in 0 .. 4 : rowEndPipeSReg'[m] => m = n
  <2>1. CASE n = 0
    <3>1. filterRowEnd /\ Due = 7
      BY <1>1, <1>7, <2>1, Shifts DEF Pulses
    <3>2. ASSUME NEW m \in 1 .. 4 PROVE ~rowEndPipeSReg'[m]
      BY <1>1, <3>1, Shifts DEF Pulses
    <3>3. QED
      BY <1>2, <1>4, <2>1, <3>1, <3>2
  <2>2. CASE n \in 1 .. 4
    <3>1. /\ rowEndPipeSReg[n - 1] /\ ~filterRowEnd
          /\ \A m \in 0 .. 4 : rowEndPipeSReg[m] => m = n - 1
          /\ sent <= n - 1 \/ Due = 6 - (n - 1)
      BY <1>1, <1>7, <2>2, Shifts DEF Pulses
    <3>2. ~rowEndPipeSReg'[0]
      BY <1>1, <3>1, Shifts
    <3>3. ASSUME NEW m \in 1 .. 4, rowEndPipeSReg'[m] PROVE m = n
      <4>1. rowEndPipeSReg[m - 1]
        BY <1>1, <3>3, Shifts
      <4>2. m - 1 \in 0 .. 4
        OBVIOUS
      <4>3. m - 1 = n - 1
        BY <3>1, <4>1, <4>2
      <4>4. QED
        BY <4>3
    <3>4. Due # 1
      BY <1>3, <1>6, <2>2, <3>1
    <3>5. QED
      BY <1>2, <1>4, <3>2, <3>3, <3>4
  <2>3. QED
    BY <2>1, <2>2
<1>8. ASSUME NEW n \in 0 .. 4, rowEndPipeSReg'[n]
      PROVE  \/ ~QuietCommands /\ rowsRead' = 0 /\ sent' <= n
             \/ rowsRead' > 0 /\ rowsRead' % RowBlocks = 0 /\ Due' = 6 - n
  <2>1. CASE cmdReset
    <3>1. ~QuietCommands
      <4>1. stage = "clearing"
        BY <1>1, <2>1 DEF RingInv
      <4>2. QuietCommands => ~filterRowEnd /\ \A m \in 0 .. 5 : ~rowEndPipeSReg[m]
        BY <4>1 DEF QuietInv, MacEngineLatency
      <4>3. filterRowEnd \/ \E m \in 0 .. 5 : rowEndPipeSReg[m]
        <5>1. CASE n = 0
          BY <1>1, <1>8, <5>1, Shifts
        <5>2. CASE n \in 1 .. 4
          BY <1>1, <1>8, <5>2, Shifts
        <5>3. QED
          BY <5>1, <5>2
      <4>4. QED
        BY <4>2, <4>3
    <3>2. QED
      BY <1>3, <2>1, <3>1
  <2>2. CASE ~cmdReset /\ n = 0
    <3>1. filterRowEnd
      BY <1>1, <1>8, <2>2, Shifts
    <3>2. QED
      BY <1>2, <1>3, <2>2, <3>1 DEF Pulses
  <2>3. CASE ~cmdReset /\ n \in 1 .. 4
    <3>1. n - 1 \in 0 .. 4 /\ rowEndPipeSReg[n - 1]
      BY <1>1, <1>8, <2>3, Shifts
    <3>2. \/ ~QuietCommands /\ rowsRead = 0 /\ sent <= n - 1
          \/ rowsRead > 0 /\ rowsRead % RowBlocks = 0 /\ Due = 6 - (n - 1)
      BY <3>1 DEF Pulses
    <3>3. CASE ~QuietCommands /\ rowsRead = 0 /\ sent <= n - 1
      BY <1>3, <1>6, <2>3, <3>3
    <3>4. CASE rowsRead > 0 /\ rowsRead % RowBlocks = 0 /\ Due = 6 - (n - 1)
      BY <1>2, <1>3, <2>3, <3>4
    <3>5. QED
      BY <3>2, <3>3, <3>4
  <2>4. QED
    BY <2>1, <2>2, <2>3
<1>9. QED
  <2>1. \A n \in 0 .. 4 : rowEndPipeSReg'[n] =>
           /\ ~filterRowEnd'
           /\ \A m \in 0 .. 4 : rowEndPipeSReg'[m] => m = n
           /\ \/ ~QuietCommands /\ rowsRead' = 0 /\ sent' <= n
              \/ rowsRead' > 0 /\ rowsRead' % RowBlocks = 0 /\ Due' = 6 - n
    BY <1>7, <1>8
  <2>2. QED
    BY <1>5, <2>1 DEF Pulses

LEMMA StoredStep ==
    ASSUME FrontInv, Pulses, Stored, QuietInv, NEW access, ClientStep(access)
    PROVE  Stored'
<1>1. /\ TopTypeOK /\ macPipe /\ RingInv /\ stored \in Nat
      /\ cmdReset \in BOOLEAN /\ filterRowEnd \in BOOLEAN
  BY DEF FrontInv, ControlInv, TypeOK, TopTypeOK, ClientStep, Edge, TopClock
<1>2. /\ RowsDone \in Nat
      /\ cmdReset => RowsDone' = 0 /\ ~filterRowEnd'
      /\ ~cmdReset => RowsDone' = RowsDone + Bit(filterRowEnd')
  BY PlaceStep DEF FrontInv
<1> DEFINE b0 == Bit(filterRowEnd)
           b1 == Bit(rowEndPipeSReg[0])  b2 == Bit(rowEndPipeSReg[1])
           b3 == Bit(rowEndPipeSReg[2])  b4 == Bit(rowEndPipeSReg[3])
           b5 == Bit(rowEndPipeSReg[4])  new == Bit(filterRowEnd')
<1>3. /\ b0 \in {0, 1} /\ b1 \in {0, 1} /\ b2 \in {0, 1} /\ b3 \in {0, 1}
      /\ b4 \in {0, 1} /\ b5 \in {0, 1} /\ new \in {0, 1}
  BY DEF Bit
<1>4. InFlight = b0 + b1 + b2 + b3 + b4 + b5
  BY DEF InFlight
<1>5. InFlight' = new + b0 + b1 + b2 + b3 + b4
  <2>1. /\ rowEndPipeSReg'[0] = filterRowEnd /\ rowEndPipeSReg'[1] = rowEndPipeSReg[0]
        /\ rowEndPipeSReg'[2] = rowEndPipeSReg[1] /\ rowEndPipeSReg'[3] = rowEndPipeSReg[2]
        /\ rowEndPipeSReg'[4] = rowEndPipeSReg[3]
    BY <1>1, Shifts
  <2>2. InFlight' = Bit(filterRowEnd') + Bit(rowEndPipeSReg'[0]) + Bit(rowEndPipeSReg'[1])
                    + Bit(rowEndPipeSReg'[2]) + Bit(rowEndPipeSReg'[3])
                    + Bit(rowEndPipeSReg'[4])
    BY DEF InFlight
  <2>3. QED
    BY <2>1, <2>2
<1>6. CASE ~cmdReset
  <2>1. stored' = stored + b5
    BY <1>1, <1>6 DEF ClientStep, Edge, resultWrEn, MacEngineLatency, Bit
  <2>2. PICK stale \in {0, 1} : /\ stored + InFlight = RowsDone + stale
                                /\ QuietCommands => stale = 0
    BY DEF Stored
  <2> HIDE DEF b0, b1, b2, b3, b4, b5, new
  <2>3. stored' + InFlight' = RowsDone + new + stale
    BY <1>1, <1>2, <1>3, <1>4, <1>5, <2>1, <2>2
  <2>4. stored' + InFlight' = RowsDone' + stale
    BY <1>2, <1>6, <2>3 DEF new
  <2>5. QED
    BY <2>2, <2>4 DEF Stored
<1>7. CASE cmdReset
  <2>1. stored' = 0 /\ RowsDone' = 0 /\ new = 0
    BY <1>2, <1>7 DEF ClientStep, Edge, Bit
  <2>2. b0 + b1 + b2 + b3 + b4 \in {0, 1}
    <3>1. \A m, n \in 0 .. 4 : rowEndPipeSReg[m] /\ rowEndPipeSReg[n] => m = n
      BY DEF Pulses
    <3>2. \A n \in 0 .. 4 : rowEndPipeSReg[n] => ~filterRowEnd
      BY DEF Pulses
    <3>3. QED
      BY <3>1, <3>2 DEF Bit
  <2>3. QuietCommands => b0 + b1 + b2 + b3 + b4 = 0
    <3>1. stage = "clearing"
      BY <1>1, <1>7 DEF RingInv
    <3>2. QuietCommands => ~filterRowEnd /\ \A n \in 0 .. 5 : ~rowEndPipeSReg[n]
      BY <3>1 DEF QuietInv, MacEngineLatency
    <3>3. QED
      BY <3>2 DEF Bit
  <2> DEFINE stale == b0 + b1 + b2 + b3 + b4
  <2> HIDE DEF b0, b1, b2, b3, b4, b5, new
  <2>4. stored' + InFlight' = RowsDone' + stale
    BY <1>3, <1>5, <2>1
  <2>5. stale \in {0, 1} /\ (QuietCommands => stale = 0)
    BY <2>2, <2>3
  <2> HIDE DEF stale
  <2>6. QED
    BY <2>4, <2>5 DEF Stored
<1>8. QED
  BY <1>1, <1>6, <1>7
-----------------------------------------------------------------------------
PipeInv == FrontInv /\ QuietInv /\ Pulses /\ Stored

LEMMA PipeStart == ASSUME FpClosed, Init PROVE PipeInv
<1>1. /\ ~filterRowEnd /\ \A n \in 0 .. 5 : ~rowEndPipeSReg[n]
      /\ stage = "coeffs" /\ stored = 0 /\ rowsRead = 0
  BY DEF Init, TopInit, EmptySReg, MacEngineLatency
<1>2. QuietInv /\ Pulses
  BY <1>1 DEF QuietInv, Pulses
<1>3. InFlight = 0 /\ RowsDone = 0
  BY <1>1, Sizes DEF InFlight, Bit, RowsDone
<1>4. Stored
  BY <1>1, <1>3 DEF Stored
<1>5. QED
  BY <1>2, <1>4, FrontStart DEF PipeInv

LEMMA PipeReset == ASSUME FpClosed, Reset PROVE PipeInv'
<1>1. /\ ~filterRowEnd' /\ \A n \in 0 .. 5 : ~rowEndPipeSReg'[n]
      /\ stage' = "coeffs" /\ stored' = 0 /\ rowsRead' = 0
  BY DEF Reset, TopReset, EmptySReg, MacEngineLatency
<1>2. QuietInv' /\ Pulses'
  BY <1>1 DEF QuietInv, Pulses
<1>3. InFlight' = 0 /\ RowsDone' = 0
  BY <1>1, Sizes DEF InFlight, Bit, RowsDone
<1>4. Stored'
  BY <1>1, <1>3 DEF Stored
<1>5. QED
  BY <1>2, <1>4, FrontReset DEF PipeInv

LEMMA PipeStep ==
    ASSUME FpClosed, PipeInv, NEW access, ClientStep(access)
    PROVE  PipeInv'
  BY FrontStep, QuietStep, PulseStep, StoredStep DEF PipeInv, FrontInv

LEMMA PipeUnchanged == ASSUME PipeInv, UNCHANGED vars PROVE PipeInv'
<1> USE DEF vars, clientVars, historyVars, topVars, datapathVars, smVars, inputVars,
            resultVars
<1>1. QuietInv'
  BY DEF PipeInv, QuietInv
<1>2. Pulses' /\ Stored'
  BY DEF PipeInv, Pulses, Stored, InFlight, RowsDone, Due
<1>3. QED
  BY <1>1, <1>2, FrontUnchanged DEF PipeInv

LEMMA PipeInvariant == ASSUME FpClosed PROVE Spec => []PipeInv
<1>1. Init => PipeInv
  BY PipeStart
<1>2. PipeInv /\ [Next]_vars => PipeInv'
  <2> SUFFICES ASSUME PipeInv, [Next]_vars PROVE PipeInv'
    OBVIOUS
  <2>1. CASE Next
    BY <2>1, ClientSteps, PipeStep, PipeReset DEF PipeInv, FrontInv, ControlInv
  <2>2. CASE UNCHANGED vars
    BY <2>2, PipeUnchanged
  <2>3. QED
    BY <2>1, <2>2
<1>3. QED
  BY <1>1, <1>2, PTL DEF Spec

LEMMA InFlightNat == InFlight \in Nat
  BY DEF InFlight, Bit

\* At most one result is left over from before a reset command.
THEOREM OneStaleResult == ASSUME FpClosed PROVE Spec => []AtMostOneStaleResult
<1>1. ASSUME PipeInv PROVE AtMostOneStaleResult
  <2>1. PICK stale \in {0, 1} : stored + InFlight = RowsDone + stale
    BY <1>1 DEF PipeInv, Stored
  <2>2. RowsDone \in Nat /\ stored \in Nat
    BY <1>1, Sizes, DivMod DEF PipeInv, FrontInv, ControlInv, TypeOK, RowsDone
  <2>3. stored <= RowsDone + 1
    BY <2>1, <2>2, InFlightNat
  <2>4. QED
    BY <2>3 DEF AtMostOneStaleResult, RowsDone
<1>2. QED
  BY <1>1, PipeInvariant, PTL

\* With a client that waits before a command, an accelerator at rest has read
\* and stored everything.
THEOREM NothingLost ==
    ASSUME FpClosed, QuietCommands PROVE Spec => []NothingLostWhenQuiet
<1>1. ASSUME PipeInv PROVE NothingLostWhenQuiet
  <2> SUFFICES ASSUME Quiet, stage = "pixels"
               PROVE  rowsRead = sent \div 8 /\ stored = RowsDone
    BY DEF NothingLostWhenQuiet, RowsDone
  <2>1. /\ sent \in Nat /\ rowsRead \in Nat /\ sent \div 8 \in Nat /\ RingInv
        /\ stored \in Nat /\ RowsDone \in Nat
    BY <1>1, Rows8, Sizes, DivMod DEF PipeInv, FrontInv, ControlInv, TypeOK, RowsDone
  <2>2. Waiting = 0
    BY <2>1 DEF RingInv, Quiet
  <2>3. rowsRead = sent \div 8
    BY <2>1, <2>2 DEF Waiting
  <2>4. InFlight = 0
    BY DEF Quiet, InFlight, Bit, MacEngineLatency
  <2>5. stored + InFlight = RowsDone
    BY <1>1, <2>1 DEF PipeInv, Stored
  <2>6. QED
    BY <2>1, <2>3, <2>4, <2>5
<1>2. QED
  BY <1>1, PipeInvariant, PTL
-----------------------------------------------------------------------------
(* The running sum.                                                        *)

\* f is the function of the sums up to row n.
IsSum(f, n) == f = [i \in 0 .. n |-> IF i = 0 THEN carry
    ELSE FpAdd(BlockSum(i), IF i > 1 /\ (i - 1) % RowBlocks = 0
                            THEN FpAdd(BlockSum(i - 1), Zero) ELSE f[i - 1])]

LEMMA SumExists == ASSUME NEW n \in Nat PROVE \E f : IsSum(f, n)
<1> DEFINE S == {m \in Nat : \E f : IsSum(f, m)}
<1>1. 0 \in S
  <2>1. IsSum([i \in 0 .. 0 |-> carry], 0)
    BY DEF IsSum
  <2>2. QED
    BY <2>1
<1>2. ASSUME NEW m \in Nat, NEW f, IsSum(f, m)
      PROVE  \E g : IsSum(g, m + 1)
  <2> DEFINE addend == IF m + 1 > 1 /\ m % RowBlocks = 0 THEN FpAdd(BlockSum(m), Zero)
                                                        ELSE f[m]
             g == [i \in 0 .. m + 1 |-> IF i = m + 1 THEN FpAdd(BlockSum(m + 1), addend)
                                                     ELSE f[i]]
             value(h, i) == IF i = 0 THEN carry
                ELSE FpAdd(BlockSum(i), IF i > 1 /\ (i - 1) % RowBlocks = 0
                                        THEN FpAdd(BlockSum(i - 1), Zero) ELSE h[i - 1])
  <2>1. \A i \in 0 .. m : f[i] = value(f, i)
    BY <1>2 DEF IsSum
  <2>2. ASSUME NEW i \in 0 .. m + 1 PROVE g[i] = value(g, i)
    <3>1. CASE i = m + 1
      <4>1. g[i] = FpAdd(BlockSum(m + 1), addend) /\ i - 1 = m /\ g[i - 1] = f[m]
        BY <3>1
      <4>2. QED
        BY <3>1, <4>1
    <3>2. CASE i # m + 1
      <4>1. i \in 0 .. m /\ g[i] = f[i] /\ (i > 0 => g[i - 1] = f[i - 1])
        BY <3>2
      <4>2. QED
        BY <2>1, <4>1
    <3>3. QED
      BY <3>1, <3>2
  <2>3. g = [i \in 0 .. m + 1 |-> value(g, i)]
    BY <2>2
  <2>4. IsSum(g, m + 1)
    BY <2>3 DEF IsSum
  <2>5. QED
    BY <2>4
<1>3. \A m \in Nat : m \in S => m + 1 \in S
  BY <1>2
<1> HIDE DEF S
<1>4. Nat \subseteq S
  BY <1>1, <1>3, NatSetInduction
<1>5. QED
  BY <1>4 DEF S

\* The sums up to m and up to n agree where both are defined.
LEMMA SumUnique ==
    ASSUME NEW m \in Nat, NEW n \in Nat, NEW f, NEW g, IsSum(f, m), IsSum(g, n),
           NEW i \in Nat, i <= m, i <= n
    PROVE  f[i] = g[i]
<1> DEFINE S == {j \in Nat : j <= m /\ j <= n => f[j] = g[j]}
<1>1. 0 \in S
  BY DEF IsSum
<1>2. ASSUME NEW j \in Nat, j \in S PROVE j + 1 \in S
  <2> SUFFICES ASSUME j + 1 <= m, j + 1 <= n PROVE f[j + 1] = g[j + 1]
    OBVIOUS
  <2>1. f[j] = g[j]
    BY <1>2
  <2> DEFINE value(h) == FpAdd(BlockSum(j + 1), IF j + 1 > 1 /\ j % RowBlocks = 0
                                   THEN FpAdd(BlockSum(j), Zero) ELSE h[j])
  <2>2. (j + 1) - 1 = j /\ j + 1 \in 0 .. m /\ j + 1 \in 0 .. n /\ j + 1 # 0
    OBVIOUS
  <2>3. f[j + 1] = value(f)
    BY <2>2 DEF IsSum
  <2>4. g[j + 1] = value(g)
    BY <2>2 DEF IsSum
  <2>5. QED
    BY <2>1, <2>3, <2>4
<1> HIDE DEF S
<1>3. Nat \subseteq S
  BY <1>1, <1>2, NatSetInduction
<1>4. QED
  BY <1>3 DEF S

\* What the recursive definition computes, one row at a time.
SumEquations ==
    /\ RunningSum(0) = carry
    /\ \A n \in Nat : RunningSum(n + 1) = FpAdd(BlockSum(n + 1), Addend(n + 1))

LEMMA RunningSums == SumEquations
<1>1. ASSUME NEW n \in Nat
      PROVE  \E f : IsSum(f, n) /\ RunningSum(n) = f[n]
  <2> DEFINE f == CHOOSE f : IsSum(f, n)
  <2>1. IsSum(f, n)
    BY SumExists
  <2>2. RunningSum(n) = f[n]
    BY Zenon DEF RunningSum, IsSum
  <2>3. QED
    BY <2>1, <2>2
<1>2. RunningSum(0) = carry
  <2>1. PICK f : IsSum(f, 0) /\ RunningSum(0) = f[0]
    BY <1>1
  <2>2. QED
    BY <2>1 DEF IsSum
<1>3. ASSUME NEW n \in Nat
      PROVE  RunningSum(n + 1) = FpAdd(BlockSum(n + 1), Addend(n + 1))
  <2>1. PICK f : IsSum(f, n) /\ RunningSum(n) = f[n]
    BY <1>1
  <2>2. PICK g : IsSum(g, n + 1) /\ RunningSum(n + 1) = g[n + 1]
    BY <1>1
  <2>3. g[n] = f[n]
    BY <2>1, <2>2, SumUnique
  <2>4. (n + 1) - 1 = n /\ n + 1 \in 0 .. n + 1 /\ n + 1 # 0
    OBVIOUS
  <2>5. g[n + 1] = FpAdd(BlockSum(n + 1), IF n + 1 > 1 /\ n % RowBlocks = 0
                                          THEN FpAdd(BlockSum(n), Zero) ELSE g[n])
    BY <2>2, <2>4 DEF IsSum
  <2>6. QED
    BY <2>1, <2>2, <2>3, <2>4, <2>5 DEF Addend
<1>4. QED
  BY <1>2, <1>3 DEF SumEquations

\* No step of a round changes a sum.
LEMMA SumKept ==
    ASSUME coeffBuffer' = coeffBuffer, carry' = carry, NEW n \in Nat
    PROVE  /\ BlockSum(n)' = BlockSum(n) /\ RunningSum(n)' = RunningSum(n)
           /\ Addend(n + 1)' = Addend(n + 1)
<1>1. ASSUME NEW i PROVE BlockSum(i)' = BlockSum(i)
  BY DEF BlockSum, CoeffRow
<1>2. SumEquations /\ SumEquations'
  <2>1. SumEquations
    BY RunningSums
  <2>2. SumEquations'
    BY RunningSums, PTL
  <2>3. QED
    BY <2>1, <2>2
<1>3. ASSUME NEW m \in Nat, RunningSum(m)' = RunningSum(m)
      PROVE  Addend(m + 1)' = Addend(m + 1)
  <2>1. (m + 1) - 1 = m
    OBVIOUS
  <2>2. BlockSum(m)' = BlockSum(m)
    BY <1>1
  <2>3. QED
    BY <1>3, <2>1, <2>2 DEF Addend
<1> DEFINE S == {m \in Nat : RunningSum(m)' = RunningSum(m)}
<1>4. 0 \in S
  BY <1>2 DEF SumEquations
<1>5. ASSUME NEW m \in Nat, m \in S PROVE m + 1 \in S
  <2>1. RunningSum(m)' = RunningSum(m)
    BY <1>5
  <2>2. Addend(m + 1)' = Addend(m + 1) /\ BlockSum(m + 1)' = BlockSum(m + 1)
    BY <1>1, <1>3, <2>1
  <2>3. RunningSum(m + 1)' = RunningSum(m + 1)
    BY <1>2, <2>2 DEF SumEquations
  <2>4. QED
    BY <2>3
<1> HIDE DEF S
<1>6. Nat \subseteq S
  BY <1>4, <1>5, NatSetInduction
<1>7. RunningSum(n)' = RunningSum(n)
  BY <1>6 DEF S
<1>8. QED
  BY <1>1, <1>3, <1>7
-----------------------------------------------------------------------------
(* The results, with a client that waits before a command.                 *)

\* What every step below needs to know.
LEMMA StepFacts ==
    ASSUME PipeInv, NEW access, ClientStep(access)
    PROVE  /\ TopTypeOK /\ macPipe /\ mac /\ flopMacResult /\ wrMacResult
           /\ stored \in Nat /\ sent \in Nat /\ rowsRead \in Nat /\ rowsRead' \in Nat
           /\ cmdReset \in BOOLEAN /\ macRdEn \in BOOLEAN /\ filterRowEnd \in BOOLEAN
           /\ Due \in 1 .. 7 /\ (macRdEn <=> Due = 1)
           /\ Due' = IF cmdReset THEN 2
                     ELSE IF Due = 1 THEN 7
                     ELSE IF Due = 2 THEN IF pxBfrRdEn THEN 1 ELSE 2
                     ELSE Due - 1
           /\ cmdReset => rowsRead' = 0
           /\ ~cmdReset => rowsRead' = IF Due = 1 THEN rowsRead + 1 ELSE rowsRead
           /\ cmdReset /\ QuietCommands =>
                 /\ Due = 2 /\ ~macRdEn /\ ~filterRowEnd
                 /\ \A k \in 0 .. 5 : ~macRdEnPipeSReg[k] /\ ~rowEndPipeSReg[k]
<1>1. /\ TopTypeOK /\ macPipe /\ mac /\ flopMacResult /\ wrMacResult /\ sm /\ macWait
      /\ MachineInv /\ RingInv /\ TypeOK /\ ControlInv /\ QuietInv
  BY DEF PipeInv, FrontInv, ControlInv, TypeOK, ClientStep, Edge, TopClock
<1>2. /\ stored \in Nat /\ cmdReset \in BOOLEAN /\ macRdEn \in BOOLEAN
      /\ filterRowEnd \in BOOLEAN
  BY <1>1 DEF TypeOK, TopTypeOK
<1>3. /\ macRdEn <=> Due = 1
      /\ Due \in 1 .. 7
      /\ Due' = IF cmdReset THEN 2
                ELSE IF Due = 1 THEN 7
                ELSE IF Due = 2 THEN IF pxBfrRdEn THEN 1 ELSE 2
                ELSE Due - 1
  BY <1>1, MachineStep
<1>4. /\ sent \in Nat /\ rowsRead \in Nat /\ rowsRead' \in Nat
      /\ cmdReset => rowsRead' = 0
      /\ ~cmdReset => rowsRead' = IF Due = 1 THEN rowsRead + 1 ELSE rowsRead
  BY <1>1, Counts
<1>5. cmdReset /\ QuietCommands =>
          /\ macState = "s_Idle" /\ ~macRdEn /\ ~filterRowEnd
          /\ \A k \in 0 .. 5 : ~macRdEnPipeSReg[k] /\ ~rowEndPipeSReg[k]
  BY <1>1 DEF RingInv, QuietInv, MacEngineLatency
<1>6. macState = "s_Idle" => Due = 2
  BY DEF Due
<1>7. QED
  BY <1>1, <1>2, <1>3, <1>4, <1>5, <1>6

\* The pulses move with the state machine.
LEMMA StageStep ==
    ASSUME QuietCommands, PipeInv, StageInv, NEW access, ClientStep(access)
    PROVE  StageInv'
<1>1. /\ rowsRead \in Nat /\ rowsRead' \in Nat
      /\ cmdReset \in BOOLEAN /\ macRdEn \in BOOLEAN /\ filterRowEnd \in BOOLEAN
      /\ Due \in 1 .. 7 /\ (macRdEn <=> Due = 1)
      /\ Due' = IF cmdReset THEN 2
                ELSE IF Due = 1 THEN 7
                ELSE IF Due = 2 THEN IF pxBfrRdEn THEN 1 ELSE 2
                ELSE Due - 1
      /\ cmdReset => rowsRead' = 0
      /\ ~cmdReset => rowsRead' = IF Due = 1 THEN rowsRead + 1 ELSE rowsRead
      /\ cmdReset => /\ Due = 2 /\ ~macRdEn /\ ~filterRowEnd
                     /\ \A k \in 0 .. 5 : ~macRdEnPipeSReg[k] /\ ~rowEndPipeSReg[k]
  BY StepFacts
<1>2. /\ rowEndPipeSReg \in [0 .. 5 -> BOOLEAN] /\ macRdEnPipeSReg \in [0 .. 5 -> BOOLEAN]
      /\ rowEndPipeSReg'[0] = filterRowEnd /\ macRdEnPipeSReg'[0] = macRdEn
      /\ \A k \in 1 .. 5 : /\ rowEndPipeSReg'[k] = rowEndPipeSReg[k - 1]
                           /\ macRdEnPipeSReg'[k] = macRdEnPipeSReg[k - 1]
  BY StepFacts, Shifts
<1>3. /\ Pulses
      /\ ~cmdReset /\ macRdEn /\ rowsRead' % RowBlocks = 0 => filterRowEnd'
  BY PlaceStep DEF PipeInv, FrontInv
<1>4. CASE cmdReset
  <2>1. rowsRead' = 0 /\ ~macRdEnPipeSReg'[0] /\ ~rowEndPipeSReg'[5]
    BY <1>1, <1>2, <1>4
  <2>2. \A k \in 1 .. 3 : ~macRdEnPipeSReg'[k]
    BY <1>1, <1>2, <1>4
  <2>3. QED
    BY <2>1, <2>2 DEF StageInv
<1>5. CASE ~cmdReset
  <2>1. ASSUME NEW k \in 0 .. 3
        PROVE  macRdEnPipeSReg'[k] <=> rowsRead' > 0 /\ Due' = 7 - k
    <3>1. CASE k = 0
      BY <1>1, <1>2, <1>5, <3>1
    <3>2. CASE k \in 1 .. 3
      <4>1. macRdEnPipeSReg'[k] = macRdEnPipeSReg[k - 1] /\ k - 1 \in 0 .. 3
        BY <1>2, <3>2
      <4>2. macRdEnPipeSReg[k - 1] <=> rowsRead > 0 /\ Due = 7 - (k - 1)
        BY <4>1 DEF StageInv
      <4>3. rowsRead > 0 /\ Due = 7 - (k - 1) <=> rowsRead' > 0 /\ Due' = 7 - k
        BY <1>1, <1>5, <3>2
      <4>4. QED
        BY <4>1, <4>2, <4>3
    <3>3. QED
      BY <3>1, <3>2
  <2>2. ASSUME rowsRead' > 0, rowsRead' % RowBlocks = 0, Due' = 7
        PROVE  filterRowEnd'
    BY <1>1, <1>3, <1>5, <2>2
  <2>3. ASSUME rowsRead' > 0, rowsRead' % RowBlocks = 0, NEW k \in 0 .. 3, Due' = 6 - k
        PROVE  rowEndPipeSReg'[k]
    <3>1. Due = 7 - k /\ rowsRead' = rowsRead
      BY <1>1, <1>5, <2>3
    <3>2. CASE k = 0
      BY <1>2, <2>3, <3>1, <3>2 DEF StageInv
    <3>3. CASE k \in 1 .. 3
      <4>1. k - 1 \in 0 .. 3 /\ Due = 6 - (k - 1)
        BY <3>1, <3>3
      <4>2. rowEndPipeSReg[k - 1]
        BY <2>3, <3>1, <4>1 DEF StageInv
      <4>3. QED
        BY <1>2, <3>3, <4>2
    <3>4. QED
      BY <3>2, <3>3
  <2>4. ASSUME rowEndPipeSReg'[5]
        PROVE  /\ rowsRead' > 0 /\ rowsRead' % RowBlocks = 0 /\ Due' <= 2
               /\ ~rowEndPipeSReg'[4]
    <3>1. rowEndPipeSReg[4]
      BY <1>2, <2>4
    <3>2. rowsRead > 0 /\ rowsRead % RowBlocks = 0 /\ Due = 2 /\ ~rowEndPipeSReg[3]
      BY <1>3, <3>1 DEF Pulses
    <3>3. QED
      BY <1>1, <1>2, <1>5, <3>2
  <2>5. QED
    BY <2>1, <2>2, <2>3, <2>4 DEF StageInv
<1>6. QED
  BY <1>1, <1>4, <1>5

\* The tree of adders over the products of a row.
LEMMA TreeSum ==
    ASSUME NEW n \in Nat,
           sumacc = AddPairs(AddPairs(Multiply(PixelRow(n), CoeffRow(n))))
    PROVE  acc0_out = BlockSum(n)
<1> DEFINE p == Multiply(PixelRow(n), CoeffRow(n))
<1>1. p = [i \in 1 .. 8 |-> p[i]] /\ Len(p) = 8
  BY DEF Multiply, Lane
<1> HIDE DEF p
<1>2. AddPairs(p) = [i \in 1 .. 4 |-> FpAdd(p[2 * i - 1], p[2 * i])]
  BY <1>1 DEF AddPairs
<1> DEFINE q == AddPairs(p)
<1>3. /\ Len(q) = 4
      /\ q[1] = FpAdd(p[1], p[2]) /\ q[2] = FpAdd(p[3], p[4])
      /\ q[3] = FpAdd(p[5], p[6]) /\ q[4] = FpAdd(p[7], p[8])
  BY <1>2
<1> HIDE DEF q
<1>4. AddPairs(q) = [i \in 1 .. 2 |-> FpAdd(q[2 * i - 1], q[2 * i])]
  BY <1>3 DEF AddPairs
<1> DEFINE r == AddPairs(q)
<1>5. Len(r) = 2 /\ r[1] = FpAdd(q[1], q[2]) /\ r[2] = FpAdd(q[3], q[4])
  BY <1>4
<1> HIDE DEF r
<1>6. AddPairs(r) = [i \in 1 .. 1 |-> FpAdd(r[2 * i - 1], r[2 * i])]
  BY <1>5 DEF AddPairs
<1>7. AddPairs(r)[1] = FpAdd(r[1], r[2])
  BY <1>6
<1>8. sumacc = r
  BY DEF p, q, r
<1>9. QED
  BY <1>3, <1>5, <1>7, <1>8 DEF acc0_out, BlockSum, p

\* Which register of the datapath an edge loads, and with what.
LEMMA DatapathStep ==
    ASSUME QuietCommands, PipeInv, StageInv, NEW access, ClientStep(access), ~cmdReset
    PROVE  /\ rowsRead > 0 /\ Due = 7 => muladd' = Products
           /\ rowsRead > 0 /\ Due = 6 => addsum' = AddPairs(muladd)
           /\ rowsRead > 0 => sumacc' = IF Due = 5 THEN AddPairs(addsum) ELSE sumacc
           /\ rowEndPipeSReg[5] => result' = FpAdd(acc0_out, Zero)
           /\ ~rowEndPipeSReg[5] =>
                 result' = IF rowsRead > 0 /\ Due = 4 THEN FpAdd(acc0_out, result)
                                                      ELSE result
           /\ dMacResult' = result
<1>1. /\ TopTypeOK /\ mac /\ flopMacResult /\ rowsRead \in Nat /\ Due \in 1 .. 7
  BY StepFacts
<1>2. macRdEnPipeSReg \in [0 .. 5 -> BOOLEAN] /\ rowEndPipeSReg \in [0 .. 5 -> BOOLEAN]
  BY <1>1 DEF TopTypeOK, MacEngineLatency
<1>3. /\ muladd' = Flop(macRdEnPipeSReg[0], Multiply(macPx, macCoeff), muladd)
      /\ addsum' = Flop(macRdEnPipeSReg[1], AddPairs(muladd), addsum)
      /\ sumacc' = Flop(macRdEnPipeSReg[2], AddPairs(addsum), sumacc)
      /\ Accumulate(macRdEnPipeSReg[3], rowEndPipeSReg[5])
  <2> DEFINE en == [k \in 1 .. 4 |-> macRdEnPipeSReg[k - 1]]
  <2>1. /\ en[1] = macRdEnPipeSReg[0] /\ en[2] = macRdEnPipeSReg[1]
        /\ en[3] = macRdEnPipeSReg[2] /\ en[4] = macRdEnPipeSReg[3]
    OBVIOUS
  <2>2. DatapathClock(en, macPx, macCoeff, rowEndPipeSReg[5])
    BY <1>1 DEF mac, accumReset, MacEngineLatency
  <2> HIDE DEF en
  <2>3. QED
    BY <2>1, <2>2 DEF DatapathClock
<1>4. /\ macRdEnPipeSReg[0] <=> rowsRead > 0 /\ Due = 7 - 0
      /\ macRdEnPipeSReg[1] <=> rowsRead > 0 /\ Due = 7 - 1
      /\ macRdEnPipeSReg[2] <=> rowsRead > 0 /\ Due = 7 - 2
      /\ macRdEnPipeSReg[3] <=> rowsRead > 0 /\ Due = 7 - 3
  BY DEF StageInv
<1>5. /\ macRdEnPipeSReg[0] <=> rowsRead > 0 /\ Due = 7
      /\ macRdEnPipeSReg[1] <=> rowsRead > 0 /\ Due = 6
      /\ macRdEnPipeSReg[2] <=> rowsRead > 0 /\ Due = 5
      /\ macRdEnPipeSReg[3] <=> rowsRead > 0 /\ Due = 4
  BY <1>4
<1>6. rowsRead > 0 => macPx = PixelRow(rowsRead) /\ macCoeff = CoeffRow(rowsRead)
  BY DEF PipeInv, FrontInv, DataInv
<1>7. rowsRead > 0 /\ Due = 7 => muladd' = Products
  BY <1>3, <1>5, <1>6 DEF Flop, Products
<1>8. rowsRead > 0 /\ Due = 6 => addsum' = AddPairs(muladd)
  BY <1>3, <1>5 DEF Flop
<1>9. rowsRead > 0 => sumacc' = IF Due = 5 THEN AddPairs(addsum) ELSE sumacc
  BY <1>2, <1>3, <1>5 DEF Flop
<1>10. rowEndPipeSReg[5] => result' = FpAdd(acc0_out, Zero)
  BY <1>3 DEF Accumulate, result, res0_out
<1>11. ~rowEndPipeSReg[5] =>
           /\ accres_out0' = IF rowsRead > 0 /\ Due = 4 THEN acc0_out ELSE accres_out0
           /\ accres_out1' = IF rowsRead > 0 /\ Due = 4 THEN result ELSE accres_out1
  BY <1>2, <1>3, <1>5 DEF Accumulate, Flop, result
<1>12. dMacResult' = result
  BY <1>1 DEF flopMacResult
<1>13. QED
  BY <1>7, <1>8, <1>9, <1>10, <1>11, <1>12 DEF result, res0_out

\* A command that waited finds a datapath at rest.
LEMMA SumAtCommand ==
    ASSUME QuietCommands, PipeInv, NEW access, ClientStep(access), cmdReset
    PROVE  SumInv'
<1>1. /\ mac /\ macPipe /\ TopTypeOK /\ rowsRead' = 0
      /\ \A k \in 0 .. 5 : ~macRdEnPipeSReg[k] /\ ~rowEndPipeSReg[k]
  BY StepFacts
<1>2. accres_out0' = accres_out0 /\ accres_out1' = accres_out1
  <2> DEFINE en == [k \in 1 .. 4 |-> macRdEnPipeSReg[k - 1]]
  <2>1. ~en[4]
    BY <1>1
  <2>2. DatapathClock(en, macPx, macCoeff, rowEndPipeSReg[5])
    BY <1>1 DEF mac, accumReset, MacEngineLatency
  <2> HIDE DEF en
  <2>3. Accumulate(en[4], rowEndPipeSReg[5])
    BY <2>2 DEF DatapathClock
  <2>4. QED
    BY <1>1, <2>1, <2>3 DEF Accumulate, Flop
<1>3. result' = carry'
  BY <1>2 DEF ClientStep, Edge, result, res0_out
<1>4. ~rowEndPipeSReg'[4]
  BY <1>1, Shifts
<1>5. QED
  BY <1>1, <1>3, <1>4 DEF SumInv

LEMMA SumAtRead ==
    ASSUME QuietCommands, PipeInv, StageInv, SumInv, NEW access, ClientStep(access),
           ~cmdReset, Due = 1
    PROVE  SumInv'
<1>1. /\ macPipe /\ TopTypeOK /\ rowsRead \in Nat /\ macRdEn
      /\ rowsRead' = rowsRead + 1 /\ Due' = 7
  BY StepFacts
<1>2. ~rowEndPipeSReg[4] /\ ~rowEndPipeSReg'[4]
  <2>1. Pulses
    BY DEF PipeInv
  <2>2. ~rowEndPipeSReg[4]
    BY <1>1, <2>1 DEF Pulses
  <2>3. ~rowEndPipeSReg[3]
    BY <1>1, <2>1 DEF Pulses
  <2>4. QED
    BY <1>1, <2>2, <2>3, Shifts
<1>3. coeffBuffer' = coeffBuffer /\ carry' = carry
  <2>1. /\ ControlInv /\ Waiting = 1 /\ sent \in Nat
    BY <1>1, StepFacts DEF PipeInv, FrontInv, ControlInv, RingInv
  <2>2. sent > 0
    BY <1>1, <2>1, Rows8 DEF Waiting
  <2>3. QED
    BY <2>1, <2>2, CoeffsKept DEF ClientStep, Edge
<1> PICK n \in Nat : n = rowsRead
  BY <1>1
<1>4. Addend(n + 1)' = Addend(n + 1)
  BY <1>3, SumKept
<1>5. result' = Addend(n + 1)
  <2>1. (rowsRead + 1) - 1 = rowsRead
    BY <1>1
  <2>2. CASE rowsRead = 0
    <3>1. ~rowEndPipeSReg[5] /\ result = carry
      BY <2>2 DEF StageInv, SumInv
    <3>2. result' = carry
      BY <2>2, <3>1, DatapathStep
    <3>3. RunningSum(0) = carry
      BY RunningSums DEF SumEquations
    <3>4. QED
      BY <2>1, <2>2, <3>2, <3>3 DEF Addend
  <2>3. CASE rowsRead > 0
    <3>1. acc0_out = BlockSum(rowsRead)
      BY <1>1, <2>3, TreeSum DEF SumInv, Products
    <3>2. result = IF Cleared THEN FpAdd(BlockSum(rowsRead), Zero)
                              ELSE RunningSum(rowsRead)
      BY <2>3 DEF SumInv
    <3>3. rowEndPipeSReg[5] \in BOOLEAN
      BY <1>1 DEF TopTypeOK, MacEngineLatency
    <3>4. CASE rowEndPipeSReg[5]
      <4>1. rowsRead % RowBlocks = 0
        BY <3>4 DEF StageInv
      <4>2. result' = FpAdd(BlockSum(rowsRead), Zero)
        BY <3>1, <3>4, DatapathStep
      <4>3. QED
        BY <1>1, <2>1, <2>3, <4>1, <4>2 DEF Addend
    <3>5. CASE ~rowEndPipeSReg[5]
      <4>1. result' = result
        BY <3>5, DatapathStep
      <4>2. Cleared <=> rowsRead % RowBlocks = 0
        BY <1>2, <3>5 DEF Cleared
      <4>3. QED
        BY <1>1, <2>1, <2>3, <3>2, <4>1, <4>2 DEF Addend
    <3>6. QED
      BY <3>3, <3>4, <3>5
  <2>4. QED
    BY <1>1, <2>2, <2>3
<1>6. Addend(rowsRead)' = Addend(n + 1)'
  BY <1>1 DEF Addend, RunningSum, BlockSum, CoeffRow
<1>7. result' = Addend(rowsRead)'
  BY <1>4, <1>5, <1>6
<1>8. QED
  BY <1>1, <1>2, <1>7 DEF SumInv

LEMMA SumBetween ==
    ASSUME QuietCommands, PipeInv, StageInv, SumInv, NEW access, ClientStep(access),
           ~cmdReset, Due # 1
    PROVE  SumInv'
<1>1. /\ macPipe /\ TopTypeOK /\ rowsRead \in Nat /\ sent \in Nat
      /\ rowsRead' = rowsRead /\ Due \in 2 .. 7
      /\ Due' = IF Due = 2 THEN IF pxBfrRdEn THEN 1 ELSE 2 ELSE Due - 1
  BY StepFacts
<1>2. /\ rowEndPipeSReg \in [0 .. 5 -> BOOLEAN]
      /\ rowEndPipeSReg'[4] = rowEndPipeSReg[3] /\ rowEndPipeSReg'[5] = rowEndPipeSReg[4]
  BY <1>1, Shifts
<1>3. /\ rowEndPipeSReg[4] => rowsRead > 0 /\ Due = 2 /\ ~rowEndPipeSReg[3]
      /\ rowEndPipeSReg[3] => rowsRead > 0 /\ Due = 3
  <2>1. Pulses
    BY DEF PipeInv
  <2>2. QED
    BY <2>1 DEF Pulses
<1>4. rowEndPipeSReg[5] => /\ rowsRead > 0 /\ rowsRead % RowBlocks = 0 /\ Due = 2
                           /\ ~rowEndPipeSReg[4]
  BY <1>1 DEF StageInv
<1>5. CASE rowsRead = 0
  <2>1. ~rowEndPipeSReg[5] /\ result = carry
    BY <1>4, <1>5 DEF SumInv
  <2>2. result' = carry /\ carry' = carry
    BY <1>5, <2>1, DatapathStep DEF ClientStep, Edge
  <2>3. ~rowEndPipeSReg'[4]
    BY <1>2, <1>3, <1>5
  <2>4. QED
    BY <1>1, <1>5, <2>2, <2>3 DEF SumInv
<1>6. CASE rowsRead > 0
  <2>1. coeffBuffer' = coeffBuffer /\ carry' = carry
    <3>1. ControlInv /\ Waiting \in {0, 1}
      BY DEF PipeInv, FrontInv, ControlInv, RingInv
    <3>2. sent > 0
      BY <1>1, <1>6, <3>1, Rows8 DEF Waiting
    <3>3. QED
      BY <3>1, <3>2, CoeffsKept DEF ClientStep, Edge
  <2> PICK n \in Nat : n = rowsRead
    BY <1>1
  <2>2. Products' = Products
    BY <1>1, <2>1 DEF Products, CoeffRow
  <2>3. /\ BlockSum(n)' = BlockSum(n) /\ RunningSum(n)' = RunningSum(n)
        /\ Addend(n)' = Addend(n)
    <3>1. PICK m \in Nat : n = m + 1
      BY <1>6
    <3>2. QED
      BY <2>1, <3>1, SumKept
  <2>4. RunningSum(n) = FpAdd(BlockSum(n), Addend(n))
    <3>1. PICK m \in Nat : n = m + 1
      BY <1>6
    <3>2. QED
      BY <3>1, RunningSums DEF SumEquations
  <2>5. /\ Due = 6 => muladd = Products
        /\ Due = 5 => addsum = AddPairs(Products)
        /\ Due <= 4 => sumacc = AddPairs(AddPairs(Products))
        /\ result = IF Due >= 4 THEN Addend(n)
                    ELSE IF Cleared THEN FpAdd(BlockSum(n), Zero)
                    ELSE RunningSum(n)
    BY <1>6 DEF SumInv
  <2>6. /\ Due' = 6 => muladd' = Products
        /\ Due' = 5 => addsum' = AddPairs(Products)
        /\ Due' <= 4 => sumacc' = AddPairs(AddPairs(Products))
    <3>1. /\ Due' = 6 => Due = 7
          /\ Due' = 5 => Due = 6
          /\ Due' <= 4 => Due = 5 \/ (Due # 5 /\ Due <= 4)
      BY <1>1
    <3>2. Due = 7 => muladd' = Products
      BY <1>6, DatapathStep
    <3>3. Due = 6 => addsum' = AddPairs(Products)
      BY <1>6, <2>5, DatapathStep
    <3>4. Due = 5 => sumacc' = AddPairs(AddPairs(Products))
      BY <1>6, <2>5, DatapathStep
    <3>5. Due # 5 /\ Due <= 4 => sumacc' = AddPairs(AddPairs(Products))
      BY <1>6, <2>5, DatapathStep
    <3>6. QED
      BY <3>1, <3>2, <3>3, <3>4, <3>5
  <2>7. Due <= 4 => acc0_out = BlockSum(n)
    BY <2>5, TreeSum DEF Products
  <2>8. result' = IF Due' >= 4 THEN Addend(n)
                  ELSE IF Cleared' THEN FpAdd(BlockSum(n), Zero)
                  ELSE RunningSum(n)
    <3>1. Cleared' <=> /\ n % RowBlocks = 0 /\ Due' <= 2
                       /\ ~rowEndPipeSReg[3] /\ ~rowEndPipeSReg[4]
      BY <1>1, <1>2 DEF Cleared
    <3>2. CASE rowEndPipeSReg[5]
      <4>1. result' = FpAdd(BlockSum(n), Zero)
        BY <1>4, <2>7, <3>2, DatapathStep
      <4>2. Due' <= 2 /\ ~(Due' >= 4)
        BY <1>1, <1>4, <3>2
      <4>3. Cleared'
        BY <1>3, <1>4, <3>1, <3>2, <4>2
      <4>4. QED
        BY <4>1, <4>2, <4>3
    <3>3. CASE ~rowEndPipeSReg[5]
      <4>1. result' = IF Due = 4 THEN FpAdd(acc0_out, result) ELSE result
        BY <1>6, <3>3, DatapathStep
      <4>2. CASE Due >= 5
        <5>1. Due' >= 4 /\ result' = result /\ result = Addend(n)
          BY <1>1, <2>5, <4>1, <4>2
        <5>2. QED
          BY <5>1
      <4>3. CASE Due = 4
        <5>1. ~(Due' >= 4) /\ ~(Due' <= 2)
          BY <1>1, <4>3
        <5>2. result' = RunningSum(n)
          BY <2>4, <2>5, <2>7, <4>1, <4>3
        <5>3. QED
          BY <3>1, <5>1, <5>2
      <4>4. CASE Due = 3
        <5>1. ~(Due' >= 4)
          BY <1>1, <4>4
        <5>2. ~Cleared
          BY <4>4 DEF Cleared
        <5>3. result' = RunningSum(n)
          BY <2>5, <4>1, <4>4, <5>2
        <5>4. n % RowBlocks = 0 => rowEndPipeSReg[3]
          BY <1>6, <4>4 DEF StageInv
        <5>5. ~Cleared'
          BY <3>1, <5>4
        <5>6. QED
          BY <5>1, <5>3, <5>5
      <4>5. CASE Due = 2
        <5>1. Due' <= 2 /\ ~(Due' >= 4)
          BY <1>1, <4>5
        <5>2. ~rowEndPipeSReg[3]
          BY <1>3, <4>5
        <5>3. Cleared' <=> Cleared
          BY <3>1, <3>3, <4>5, <5>1, <5>2 DEF Cleared
        <5>4. QED
          BY <2>5, <4>1, <4>5, <5>1, <5>3
      <4>6. Due >= 5 \/ Due = 4 \/ Due = 3 \/ Due = 2
        BY <1>1
      <4>7. QED
        BY <4>2, <4>3, <4>4, <4>5, <4>6
    <3>4. QED
      BY <1>2, <3>2, <3>3
  <2>9. rowEndPipeSReg'[4] => dMacResult' = RunningSum(n)
    <3>1. SUFFICES ASSUME rowEndPipeSReg[3] PROVE dMacResult' = RunningSum(n)
      BY <1>2
    <3>2. Due = 3 /\ ~Cleared
      BY <1>3, <3>1 DEF Cleared
    <3>3. QED
      BY <2>5, <3>2, DatapathStep
  <2>10. QED
    <3>1. /\ Addend(rowsRead)' = Addend(n) /\ BlockSum(rowsRead)' = BlockSum(n)
          /\ RunningSum(rowsRead)' = RunningSum(n)
      <4>1. /\ Addend(rowsRead)' = Addend(n)' /\ BlockSum(rowsRead)' = BlockSum(n)'
            /\ RunningSum(rowsRead)' = RunningSum(n)'
        BY <1>1 DEF Addend, RunningSum, BlockSum, CoeffRow
      <4>2. QED
        BY <2>3, <4>1
    <3>2. rowsRead' > 0
      BY <1>1, <1>6
    <3>3. QED
      BY <2>2, <2>6, <2>8, <2>9, <3>1, <3>2 DEF SumInv
<1>7. QED
  BY <1>1, <1>5, <1>6

LEMMA SumStep ==
    ASSUME QuietCommands, PipeInv, StageInv, SumInv, NEW access, ClientStep(access)
    PROVE  SumInv'
<1>1. cmdReset \in BOOLEAN
  BY StepFacts
<1>2. QED
  BY <1>1, SumAtCommand, SumAtRead, SumBetween

\* Two cells of the ring of results that are less than a lap apart differ.
LEMMA OtherCell ==
    ASSUME NEW d \in Nat, d > 0, NEW m \in Nat, NEW n \in Nat, m < n, n < m + d
    PROVE  m % d # n % d
<1> SUFFICES ASSUME m % d = n % d PROVE FALSE
  OBVIOUS
<1> DEFINE q == m \div d  p == n \div d  r == m % d
<1>1. q \in Nat /\ p \in Nat /\ r \in Nat /\ m = q * d + r /\ n = p * d + r
  BY DivMod
<1> HIDE DEF q, p, r
<1>2. p > q
  <2>1. SUFFICES ASSUME p <= q PROVE FALSE
    BY <1>1
  <2>2. p * d <= q * d
    BY <1>1, <2>1
  <2>3. p * d \in Nat /\ q * d \in Nat
    BY <1>1
  <2>4. QED
    BY <1>1, <2>2, <2>3
<1>3. p * d >= (q + 1) * d
  BY <1>1, <1>2
<1>4. (q + 1) * d = q * d + d /\ p * d \in Nat /\ q * d \in Nat
  BY <1>1
<1>5. QED
  BY <1>1, <1>3, <1>4

LEMMA StoreStep ==
    ASSUME QuietCommands, PipeInv, StageInv, SumInv, StoreInv,
           NEW access, ClientStep(access)
    PROVE  StoreInv'
<1>1. /\ TopTypeOK /\ wrMacResult /\ stored \in Nat /\ sent \in Nat /\ rowsRead \in Nat
      /\ cmdReset \in BOOLEAN /\ RowsDone \in Nat
      /\ ResultBufferSize \in Nat /\ ResultBufferSize > 0
      /\ RowBlocks \in Nat /\ RowBlocks > 0
  BY StepFacts, Sizes, DivMod DEF RowsDone
<1>2. /\ resultBuffer \in [0 .. ResultBufferSize - 1 -> Float]
      /\ rowEndPipeSReg \in [0 .. 5 -> BOOLEAN]
  BY <1>1 DEF TopTypeOK, MacEngineLatency
<1>3. CASE cmdReset
  <2>1. stored' = 0 /\ resultWrOffset' = 0
    BY <1>1, <1>3 DEF ClientStep, Edge, wrMacResult
  <2>2. ResultsAsAccumulated'
    BY <2>1 DEF ResultsAsAccumulated
  <2>3. QED
    BY <1>1, <2>1, <2>2 DEF StoreInv
<1>4. CASE ~cmdReset
  <2> PICK s \in Nat : s = stored
    BY <1>1
  <2>1. /\ resultWrOffset = s % ResultBufferSize
        /\ s % ResultBufferSize \in 0 .. ResultBufferSize - 1
        /\ \A k \in 1 .. s : k + ResultBufferSize > s =>
              resultBuffer[(k - 1) % ResultBufferSize] = RunningSum(k * RowBlocks)
    BY <1>1 DEF StoreInv, ResultsAsAccumulated
  <2>2. ASSUME s > 0 \/ rowEndPipeSReg[4], NEW n \in Nat
        PROVE  RunningSum(n)' = RunningSum(n)
    <3>1. s + InFlight = RowsDone
      BY <1>1, InFlightNat DEF PipeInv, Stored
    <3>2. rowEndPipeSReg[4] => rowsRead > 0
      BY DEF PipeInv, Pulses
    <3>3. rowsRead = 0 => RowsDone = 0
      BY <1>1 DEF RowsDone
    <3>4. rowsRead > 0
      BY <1>1, <2>2, <3>1, <3>2, <3>3, InFlightNat
    <3>5. ControlInv /\ Waiting \in {0, 1}
      BY DEF PipeInv, FrontInv, ControlInv, RingInv
    <3>6. sent > 0
      BY <1>1, <3>4, <3>5, Rows8 DEF Waiting
    <3>7. coeffBuffer' = coeffBuffer /\ carry' = carry
      BY <1>4, <3>5, <3>6, CoeffsKept DEF ClientStep, Edge
    <3>8. QED
      BY <3>7, SumKept
  <2>3. CASE ~rowEndPipeSReg[4]
    <3>1. stored' = s /\ resultBuffer' = resultBuffer /\ resultWrOffset' = resultWrOffset
      BY <1>4, <2>3 DEF ClientStep, Edge, TopClock, wrMacResult, resultWrEn,
                        MacEngineLatency
    <3>2. ASSUME NEW k \in 1 .. s, k + ResultBufferSize > s
          PROVE  resultBuffer'[(k - 1) % ResultBufferSize] = RunningSum(k * RowBlocks)'
      <4>1. k * RowBlocks \in Nat /\ s > 0
        BY <1>1
      <4>2. RunningSum(k * RowBlocks)' = RunningSum(k * RowBlocks)
        BY <2>2, <4>1
      <4>3. QED
        BY <2>1, <3>1, <3>2, <4>2
    <3>3. ResultsAsAccumulated'
      BY <3>1, <3>2 DEF ResultsAsAccumulated
    <3>4. QED
      BY <2>1, <3>1, <3>3 DEF StoreInv
  <2>4. CASE rowEndPipeSReg[4]
    <3>1. /\ stored' = s + 1
          /\ resultBuffer' = [resultBuffer EXCEPT ![s % ResultBufferSize] = dMacResult]
          /\ resultWrOffset' = IF resultWrOffset = ResultBufferSize - 1
                               THEN 0 ELSE resultWrOffset + 1
      BY <1>4, <2>1, <2>4 DEF ClientStep, Edge, TopClock, wrMacResult, resultWrEn,
                              MacEngineLatency
    <3>2. resultWrOffset' = (s + 1) % ResultBufferSize
      BY <1>1, <2>1, <3>1, DivModNext
    <3>3. dMacResult = RunningSum((s + 1) * RowBlocks)
      <4>1. Pulses /\ filterRowEnd \in BOOLEAN
        BY StepFacts DEF PipeInv
      <4>2. /\ ~filterRowEnd /\ ~rowEndPipeSReg[0] /\ ~rowEndPipeSReg[1]
            /\ ~rowEndPipeSReg[2] /\ ~rowEndPipeSReg[3]
            /\ rowsRead % RowBlocks = 0
        BY <2>4, <4>1 DEF Pulses
      <4>3. InFlight = 1
        BY <2>4, <4>2 DEF InFlight, Bit
      <4>4. s + 1 = RowsDone
        BY <1>1, <4>3 DEF PipeInv, Stored
      <4>5. rowsRead = RowsDone * RowBlocks
        <5>1. rowsRead = RowsDone * RowBlocks + (rowsRead % RowBlocks)
          BY <1>1, DivMod DEF RowsDone
        <5>2. RowsDone * RowBlocks \in Nat
          BY <1>1
        <5>3. QED
          BY <4>2, <5>1, <5>2
      <4>6. dMacResult = RunningSum(rowsRead)
        BY <2>4 DEF SumInv
      <4>7. QED
        BY <4>4, <4>5, <4>6
    <3>4. ASSUME NEW k \in 1 .. s + 1, k + ResultBufferSize > s + 1
          PROVE  resultBuffer'[(k - 1) % ResultBufferSize] = RunningSum(k * RowBlocks)'
      <4>1. k \in Nat /\ k - 1 \in Nat /\ k * RowBlocks \in Nat
        BY <1>1
      <4>2. RunningSum(k * RowBlocks)' = RunningSum(k * RowBlocks)
        BY <2>2, <2>4, <4>1
      <4>3. CASE k = s + 1
        <5>1. k - 1 = s
          BY <4>3
        <5>2. resultBuffer'[s % ResultBufferSize] = dMacResult
          BY <1>2, <2>1, <3>1
        <5>3. QED
          BY <3>3, <4>2, <4>3, <5>1, <5>2
      <4>4. CASE k # s + 1
        <5>1. k \in 1 .. s /\ k + ResultBufferSize > s /\ k - 1 < s
              /\ s < (k - 1) + ResultBufferSize
          BY <1>1, <3>4, <4>4
        <5>2. (k - 1) % ResultBufferSize # s % ResultBufferSize
          BY <1>1, <4>1, <5>1, OtherCell
        <5>3. (k - 1) % ResultBufferSize \in 0 .. ResultBufferSize - 1
          BY <1>1, <4>1
        <5>4. resultBuffer'[(k - 1) % ResultBufferSize]
                  = resultBuffer[(k - 1) % ResultBufferSize]
          BY <1>2, <3>1, <5>2, <5>3
        <5>5. QED
          BY <2>1, <4>2, <5>1, <5>4
      <4>5. QED
        BY <4>3, <4>4
    <3>5. ResultsAsAccumulated'
      BY <3>1, <3>4 DEF ResultsAsAccumulated
    <3>6. QED
      BY <3>1, <3>2, <3>5 DEF StoreInv
  <2>5. QED
    BY <1>2, <2>3, <2>4
<1>5. QED
  BY <1>1, <1>3, <1>4

ResultInv == PipeInv /\ StageInv /\ SumInv /\ StoreInv

\* The running sum at the end of a filter row is the sum of that row's blocks on
\* top of the carry, or of the block before them.
LEMMA RunningSumOfRow ==
    ASSUME NEW k \in Nat, k > 0
    PROVE  \E start \in Starts(k) : RunningSum(k * RowBlocks) = RowSum(k, start)
<1> DEFINE R == RowBlocks
           before == (k - 1) * RowBlocks
           start == IF k = 1 THEN carry ELSE FpAdd(BlockSum(before), Zero)
           Sums(f) == f = [i \in 0 .. R |-> IF i = 0 THEN start
                                            ELSE FpAdd(BlockSum(before + i), f[i - 1])]
           closed == [i \in 0 .. R |-> IF i = 0 THEN start ELSE RunningSum(before + i)]
<1>1. /\ R \in Nat /\ R > 0 /\ before \in Nat /\ k * R = before + R
      /\ (k = 1 => before = 0) /\ (k # 1 => before >= 1)
      /\ \A i \in 0 .. R - 1 : (before + i) % R = i
  <2>1. R \in Nat /\ R > 0
    BY Sizes
  <2> PICK q \in Nat : q = k - 1
    OBVIOUS
  <2> HIDE DEF R
  <2>2. q * R \in Nat /\ (q + 1) * R = q * R + R /\ (q > 0 => q * R >= 1)
    BY <2>1
  <2>3. \A i \in 0 .. R - 1 : (q * R + i) % R = i
    BY <2>1, DivModOf
  <2>4. before = q * R /\ k * R = (q + 1) * R
    BY DEF R
  <2>5. QED
    BY <2>1, <2>2, <2>3, <2>4
<1>2. start \in Starts(k)
  <2>1. CASE k = 1
    BY <2>1 DEF Starts
  <2>2. CASE k # 1
    <3>1. before \in 1 .. (k - 1) * RowBlocks
      BY <1>1, <2>2
    <3>2. QED
      BY <2>2, <3>1 DEF Starts
  <2>3. QED
    BY <2>1, <2>2
<1>3. ASSUME NEW i \in 1 .. R
      PROVE  RunningSum(before + i) = FpAdd(BlockSum(before + i), closed[i - 1])
  <2> PICK m \in 0 .. R - 1 : m = i - 1
    BY <1>1
  <2> PICK n \in Nat : n = before + m
    BY <1>1
  <2>1. n + 1 = before + i /\ n % R = m /\ (n + 1) - 1 = n
    BY <1>1
  <2>2. RunningSum(n + 1) = FpAdd(BlockSum(n + 1), Addend(n + 1))
    BY RunningSums DEF SumEquations
  <2>3. Addend(n + 1) = IF n > 0 /\ m = 0 THEN FpAdd(BlockSum(n), Zero) ELSE RunningSum(n)
    BY <2>1 DEF Addend
  <2>4. CASE m = 0
    <3>1. n = before /\ closed[i - 1] = start
      BY <1>1, <2>4
    <3>2. CASE k = 1
      <4>1. n = 0 /\ RunningSum(0) = carry
        BY <1>1, <3>1, <3>2, RunningSums DEF SumEquations
      <4>2. closed[i - 1] = carry /\ RunningSum(n) = carry
        BY <3>1, <3>2, <4>1
      <4>3. Addend(n + 1) = carry
        BY <2>3, <4>1, <4>2
      <4> HIDE DEF closed, before
      <4>4. QED
        BY <2>1, <2>2, <4>2, <4>3
    <3>3. CASE k # 1
      BY <1>1, <2>1, <2>2, <2>3, <2>4, <3>1, <3>3
    <3>4. QED
      BY <3>2, <3>3
  <2>5. CASE m # 0
    <3>1. closed[i - 1] = RunningSum(n)
      BY <1>1, <2>5
    <3>2. QED
      BY <2>1, <2>2, <2>3, <2>5, <3>1
  <2>6. QED
    BY <2>4, <2>5
<1>4. Sums(closed)
  <2> SUFFICES ASSUME NEW i \in 0 .. R
               PROVE  closed[i] = IF i = 0 THEN start
                                  ELSE FpAdd(BlockSum(before + i), closed[i - 1])
    OBVIOUS
  <2>1. CASE i = 0
    BY <2>1
  <2>2. CASE i # 0
    <3>1. i \in 1 .. R /\ closed[i] = RunningSum(before + i)
      BY <1>1, <2>2
    <3> HIDE DEF closed, start, before, R
    <3>2. QED
      BY <1>3, <2>2, <3>1
  <2>3. QED
    BY <2>1, <2>2
<1>5. ASSUME NEW f, Sums(f) PROVE f[R] = closed[R]
  <2> DEFINE S == {i \in Nat : i <= R => f[i] = closed[i]}
  <2>1. 0 \in S
    BY <1>1, <1>5
  <2>2. ASSUME NEW i \in Nat, i \in S PROVE i + 1 \in S
    <3> SUFFICES ASSUME i + 1 <= R PROVE f[i + 1] = closed[i + 1]
      OBVIOUS
    <3> PICK m \in 1 .. R : m = i + 1 /\ m - 1 = i /\ m # 0 /\ m \in 0 .. R
      BY <1>1
    <3>1. f[i] = closed[i]
      BY <1>1, <2>2
    <3> HIDE DEF closed, start, before, R
    <3>2. f[m] = FpAdd(BlockSum(before + m), f[i])
      BY <1>5
    <3>3. closed[m] = FpAdd(BlockSum(before + m), closed[i])
      BY <1>4
    <3>4. QED
      BY <3>1, <3>2, <3>3
  <2>3. R \in S
    <3> HIDE DEF S, R
    <3>1. QED
      BY <1>1, <2>1, <2>2, NatSetInduction
  <2>4. QED
    BY <1>1, <2>3
<1>6. RowSum(k, start) = (CHOOSE f : Sums(f))[R]
  BY Zenon DEF RowSum
<1>7. Sums(CHOOSE f : Sums(f))
  <2> HIDE DEF Sums
  <2>1. QED
    BY <1>4
<1>8. (CHOOSE f : Sums(f))[R] = closed[R]
  <2> HIDE DEF Sums
  <2>1. QED
    BY <1>5, <1>7
<1>9. closed[R] = RunningSum(k * R)
  BY <1>1
<1>10. QED
  BY <1>2, <1>6, <1>8, <1>9

\* Every stored result adds up the blocks of its own filter row, all of them in
\* their order and none of a later row, on top of at most one block read before.
THEOREM ResultsAreOwnRows ==
    ASSUME FpClosed, QuietCommands PROVE Spec => []ResultsOfOwnRows
<1>1. Init => ResultInv
  <2> SUFFICES ASSUME Init PROVE ResultInv
    OBVIOUS
  <2>1. /\ rowsRead = 0 /\ stored = 0 /\ resultWrOffset = 0
        /\ \A k \in 0 .. 5 : ~macRdEnPipeSReg[k] /\ ~rowEndPipeSReg[k]
        /\ result = carry
    BY DEF Init, TopInit, DatapathInit, EmptySReg, MacEngineLatency, result, res0_out
  <2>2. StageInv
    BY <2>1 DEF StageInv
  <2>3. SumInv
    BY <2>1 DEF SumInv
  <2>4. StoreInv
    BY <2>1, Sizes DEF StoreInv, ResultsAsAccumulated
  <2>5. QED
    BY <2>2, <2>3, <2>4, PipeStart DEF ResultInv
<1>2. ResultInv /\ [Next]_vars => ResultInv'
  <2> SUFFICES ASSUME ResultInv, [Next]_vars PROVE ResultInv'
    OBVIOUS
  <2>1. CASE Reset
    <3>1. /\ rowsRead' = 0 /\ stored' = 0 /\ resultWrOffset' = 0
          /\ \A k \in 0 .. 5 : ~macRdEnPipeSReg'[k] /\ ~rowEndPipeSReg'[k]
          /\ result' = carry'
      BY <2>1 DEF Reset, TopReset, DatapathReset, EmptySReg, MacEngineLatency, result,
                  res0_out
    <3>2. StageInv'
      BY <3>1 DEF StageInv
    <3>3. SumInv'
      BY <3>1 DEF SumInv
    <3>4. StoreInv'
      BY <3>1, Sizes DEF StoreInv, ResultsAsAccumulated
    <3>5. QED
      BY <2>1, <3>2, <3>3, <3>4, PipeReset DEF ResultInv
  <2>2. ASSUME NEW access, ClientStep(access) PROVE ResultInv'
    BY <2>2, PipeStep, StageStep, SumStep, StoreStep DEF ResultInv
  <2>3. CASE UNCHANGED vars
    <3> USE <2>3 DEF vars, clientVars, historyVars, topVars, datapathVars, smVars,
                     inputVars, resultVars
    <3>1. PipeInv'
      BY PipeUnchanged DEF ResultInv
    <3>2. StageInv'
      BY DEF ResultInv, StageInv, Due
    <3>3. \A n : RunningSum(n)' = RunningSum(n) /\ BlockSum(n)' = BlockSum(n)
      BY DEF RunningSum, BlockSum, CoeffRow
    <3>4. SumInv'
      <4>1. /\ rowsRead' = rowsRead /\ Due' = Due /\ Cleared' = Cleared
            /\ result' = result /\ Products' = Products
        BY DEF Due, Cleared, result, res0_out, Products, CoeffRow
      <4>2. RunningSum(rowsRead)' = RunningSum(rowsRead)
            /\ BlockSum(rowsRead)' = BlockSum(rowsRead)
            /\ Addend(rowsRead)' = Addend(rowsRead)
        BY DEF Addend, RunningSum, BlockSum, CoeffRow
      <4>3. QED
        BY <4>1, <4>2 DEF ResultInv, SumInv
    <3>5. StoreInv'
      BY <3>3 DEF ResultInv, StoreInv, ResultsAsAccumulated
    <3>6. QED
      BY <3>1, <3>2, <3>4, <3>5 DEF ResultInv
  <2>4. CASE Next
    <3>1. TypeOK
      BY DEF ResultInv, PipeInv, FrontInv, ControlInv
    <3>2. QED
      BY <2>1, <2>2, <2>4, <3>1, ClientSteps
  <2>5. QED
    BY <2>3, <2>4
<1>3. ResultInv => ResultsOfOwnRows
  <2> SUFFICES ASSUME ResultInv, NEW k \in 1 .. stored, k + ResultBufferSize > stored
               PROVE  \E start \in Starts(k) :
                         resultBuffer[(k - 1) % ResultBufferSize] = RowSum(k, start)
    BY DEF ResultsOfOwnRows
  <2>1. stored \in Nat
    BY DEF ResultInv, PipeInv, FrontInv, ControlInv, TypeOK
  <2>2. k \in Nat /\ k > 0
    BY <2>1
  <2>3. resultBuffer[(k - 1) % ResultBufferSize] = RunningSum(k * RowBlocks)
    BY DEF ResultInv, StoreInv, ResultsAsAccumulated
  <2>4. QED
    BY <2>2, <2>3, RunningSumOfRow
<1>4. QED
  BY <1>1, <1>2, <1>3, PTL DEF Spec
=============================================================================
