-------------------------- MODULE AcceleratorTopMod --------------------------
(***************************************************************************)
(* AcceleratorTopMod.sv, the eight-lane accelerator: a pixel ring buffer   *)
(* of rows of eight words, a coefficient buffer, the state machine that    *)
(* feeds one pixel row and one coefficient block at a time to the          *)
(* datapath, and the result ring.  One step is one clock edge.             *)
(*                                                                         *)
(* Left out are the registers nothing reads: controlReg, pxBfrWrOvf,       *)
(* pxBfrDelOffset, macInputValid, macWrEn, filterCellEnd, cellEndPipeSReg. *)
(***************************************************************************)
EXTENDS Datapath

CONSTANTS PixelBufferDepth, BlockCount, FilterRowSize, ResultBufferSize

\* Ring offsets of pixel rows are as wide as the depth needs and wrap by
\* width: the depth is a power of two.
ASSUME PackageAssumption == /\ PixelBufferDepth \in {2, 4, 8, 16, 32}
                            /\ BlockCount \in Nat /\ BlockCount > 0
                            /\ FilterRowSize \in Nat /\ FilterRowSize > 0
                            /\ ResultBufferSize \in Nat /\ ResultBufferSize > 0

VARIABLES cmdReset,             \* the command in the control register
          coeffBuffer,          \* [cell][block][lane]
          pxBuffer,             \* [row][lane]
          pxBfrWrCounter,       \* pixel words written: row and lane
          pxBfrRdEn,            \* latch: a complete row can be read
          pxBfrRdOffset,        \* next row to read
          macPx, macCoeff,      \* macInputs, even and odd
          coeffRdBlockOffset, coeffRdCellOffset,
          filterRowEnd,         \* the row read last ends a filter row
          macState, macRdEn, macWaitCounter, macWaitEnd,
          macRdEnPipeSReg, rowEndPipeSReg,
          dMacResult, resultBuffer, resultWrOffset,
          rdData

smVars == <<macState, macRdEn, macWaitCounter, macWaitEnd, macRdEnPipeSReg,
            rowEndPipeSReg>>
inputVars == <<cmdReset, coeffBuffer, pxBuffer, pxBfrWrCounter, pxBfrRdEn,
               pxBfrRdOffset, macPx, macCoeff, coeffRdBlockOffset,
               coeffRdCellOffset, filterRowEnd>>
resultVars == <<dMacResult, resultBuffer, resultWrOffset, rdData>>
topVars == <<datapathVars, smVars, inputVars, resultVars>>

MacEngineLatency == 5

Row == 0 .. PixelBufferDepth - 1
Cell == 0 .. FilterRowSize - 1
Block == 0 .. BlockCount - 1

ZeroRow == Zeros(8)
ZeroCoeffs == [cell \in Cell |-> [block \in Block |-> ZeroRow]]
ZeroPixels == [row \in Row |-> ZeroRow]
ZeroResults == [offset \in 0 .. ResultBufferSize - 1 |-> Zero]
EmptySReg == [n \in 0 .. MacEngineLatency |-> FALSE]

(***************************************************************************)
(* What the bus can ask for at a clock edge, by the top two address bits.  *)
(***************************************************************************)
NoAccess == [route |-> "none"]
ControlWrite == [route |-> "control"]     \* address 0
CoeffWrite(cell, block, lane, data) ==
    [route |-> "coeff", cell |-> cell, block |-> block, lane |-> lane,
     data |-> data]
DataWrite(data) == [route |-> "data", data |-> data]
ResultAccess(offset) == [route |-> "result", offset |-> offset]
-----------------------------------------------------------------------------
NextRow(row) == (row + 1) % PixelBufferDepth
WrOffset(counter) == counter \div 8
WrSelect(counter) == (counter % 8) + 1

\* Mutants of resultWrEn and accumReset: the result is stored one stage too
\* early; the sum is cleared while its last block is added.
resultWrEnEarly == rowEndPipeSReg[MacEngineLatency - 2]
accumResetEarly == rowEndPipeSReg[MacEngineLatency - 3]

resultWrEn == rowEndPipeSReg[MacEngineLatency - 1]
accumReset == rowEndPipeSReg[MacEngineLatency]

wrCoeff(access) ==
    coeffBuffer' = IF cmdReset THEN ZeroCoeffs
                   ELSE IF access.route = "coeff"
                   THEN [coeffBuffer EXCEPT
                            ![access.cell][access.block][access.lane] =
                                access.data]
                   ELSE coeffBuffer

wrControl(access) == cmdReset' = (access.route = "control")

wrData(access) ==
    \/ /\ cmdReset
       /\ pxBuffer' = ZeroPixels
       /\ pxBfrWrCounter' = 0
    \/ /\ ~cmdReset /\ access.route = "data"
       /\ pxBuffer' = [pxBuffer EXCEPT
                          ![WrOffset(pxBfrWrCounter)][WrSelect(pxBfrWrCounter)] =
                              access.data]
       /\ pxBfrWrCounter' = (pxBfrWrCounter + 1) % (8 * PixelBufferDepth)
    \/ /\ ~cmdReset /\ access.route # "data"
       /\ UNCHANGED <<pxBuffer, pxBfrWrCounter>>

rdMacInput ==
    \/ /\ cmdReset
       /\ pxBfrRdOffset' = 0
       /\ macPx' = ZeroRow
       /\ macCoeff' = ZeroRow
    \/ /\ ~cmdReset /\ macRdEn
       /\ pxBfrRdOffset' = NextRow(pxBfrRdOffset)
       /\ macPx' = pxBuffer[pxBfrRdOffset]
       /\ macCoeff' = coeffBuffer[coeffRdCellOffset][coeffRdBlockOffset]
    \/ /\ ~cmdReset /\ ~macRdEn
       /\ UNCHANGED <<pxBfrRdOffset, macPx, macCoeff>>

\* Mutant of rdLogic: the cell advances without waiting for its last block.
rdLogicEveryBlock ==
    /\ coeffRdBlockOffset' = IF cmdReset THEN 0
                             ELSE IF macRdEn THEN (coeffRdBlockOffset + 1) % BlockCount
                             ELSE coeffRdBlockOffset
    /\ coeffRdCellOffset' = IF cmdReset THEN 0
                            ELSE IF macRdEn THEN (coeffRdCellOffset + 1) % FilterRowSize
                            ELSE coeffRdCellOffset
    /\ filterRowEnd' = (/\ macRdEn /\ ~cmdReset
                        /\ coeffRdBlockOffset = BlockCount - 1
                        /\ coeffRdCellOffset = FilterRowSize - 1)

\* Mutant of rdLogic: filterRowEnd stays up until the next read.
rdLogicHold ==
    LET lastBlock == coeffRdBlockOffset = BlockCount - 1
        lastCell == coeffRdCellOffset = FilterRowSize - 1
    IN  /\ filterRowEnd' = IF cmdReset THEN FALSE
                           ELSE IF macRdEn THEN lastBlock /\ lastCell
                           ELSE filterRowEnd
        /\ coeffRdBlockOffset' = IF cmdReset THEN 0
                                 ELSE IF macRdEn THEN (coeffRdBlockOffset + 1) % BlockCount
                                 ELSE coeffRdBlockOffset
        /\ coeffRdCellOffset' = IF cmdReset THEN 0
                                ELSE IF macRdEn /\ lastBlock
                                THEN (coeffRdCellOffset + 1) % FilterRowSize
                                ELSE coeffRdCellOffset

rdLogic ==
    LET lastBlock == coeffRdBlockOffset = BlockCount - 1
        lastCell == coeffRdCellOffset = FilterRowSize - 1
    IN  \/ /\ cmdReset
           /\ filterRowEnd' = FALSE
           /\ coeffRdBlockOffset' = 0
           /\ coeffRdCellOffset' = 0
        \/ /\ ~cmdReset /\ macRdEn /\ lastBlock
           /\ filterRowEnd' = lastCell
           /\ coeffRdBlockOffset' = 0
           /\ coeffRdCellOffset' = IF lastCell THEN 0 ELSE coeffRdCellOffset + 1
        \/ /\ ~cmdReset /\ macRdEn /\ ~lastBlock
           /\ filterRowEnd' = FALSE
           /\ coeffRdBlockOffset' = coeffRdBlockOffset + 1
           /\ UNCHANGED coeffRdCellOffset
        \/ /\ ~cmdReset /\ ~macRdEn
           /\ filterRowEnd' = FALSE
           /\ UNCHANGED <<coeffRdBlockOffset, coeffRdCellOffset>>

sm ==
    \/ /\ cmdReset
       /\ macState' = "s_Idle"
       /\ macRdEn' = FALSE
    \/ /\ ~cmdReset /\ macState \in {"s_Idle", "s_ReadResult"}
       /\ macState' = IF pxBfrRdEn THEN "s_ReadInput" ELSE "s_Idle"
       /\ macRdEn' = pxBfrRdEn
    \/ /\ ~cmdReset /\ macState = "s_ReadInput"
       /\ macState' = "s_WaitForCalc"
       /\ macRdEn' = FALSE
    \/ /\ ~cmdReset /\ macState = "s_WaitForCalc"
       /\ macState' = IF macWaitEnd THEN "s_ReadResult" ELSE macState
       /\ macRdEn' = FALSE

\* Mutants of macWait: two edges longer; an end that is never reached.
macWaitSlow ==
    /\ macWaitEnd' = (~cmdReset /\ macWaitCounter = 1)
    /\ macWaitCounter' = IF cmdReset THEN 0
                         ELSE IF macWaitCounter > 0 THEN macWaitCounter - 1
                         ELSE IF macRdEn THEN MacEngineLatency + 1 ELSE 0
macWaitNoEnd ==
    /\ macWaitEnd' = (~cmdReset /\ macWaitCounter = MacEngineLatency)
    /\ macWaitCounter' = IF cmdReset THEN 0
                         ELSE IF macWaitCounter > 0 THEN macWaitCounter - 1
                         ELSE IF macRdEn THEN MacEngineLatency - 1 ELSE 0

macWait ==
    /\ macWaitEnd' = (~cmdReset /\ macWaitCounter = 1)
    /\ macWaitCounter' = IF cmdReset THEN 0
                         ELSE IF macWaitCounter > 0 THEN macWaitCounter - 1
                         ELSE IF macRdEn THEN MacEngineLatency - 1 ELSE 0

\* Not cleared by cmdReset: what is on its way when the command arrives ends.
ShiftIn(sreg, bit) == [n \in 0 .. MacEngineLatency |->
                          IF n = 0 THEN bit ELSE sreg[n - 1]]
macPipe == /\ macRdEnPipeSReg' = ShiftIn(macRdEnPipeSReg, macRdEn)
           /\ rowEndPipeSReg' = ShiftIn(rowEndPipeSReg, filterRowEnd)

\* Mutant of mac: every stage is enabled one edge late.
macLate == DatapathClock([n \in 1 .. 4 |-> macRdEnPipeSReg[n]],
                         macPx, macCoeff, accumReset)

mac == DatapathClock([n \in 1 .. 4 |-> macRdEnPipeSReg[n - 1]],
                     macPx, macCoeff, accumReset)

flopMacResult == dMacResult' = IF cmdReset THEN Zero ELSE result

wrMacResult ==
    \/ /\ cmdReset
       /\ resultBuffer' = ZeroResults
       /\ resultWrOffset' = 0
    \/ /\ ~cmdReset /\ resultWrEn
       /\ resultBuffer' = [resultBuffer EXCEPT ![resultWrOffset] = dMacResult]
       /\ resultWrOffset' = IF resultWrOffset = ResultBufferSize - 1
                            THEN 0 ELSE resultWrOffset + 1
    \/ /\ ~cmdReset /\ ~resultWrEn
       /\ UNCHANGED <<resultBuffer, resultWrOffset>>

resultRd(access) ==
    rdData' = IF ~cmdReset /\ access.route = "result"
              THEN resultBuffer[access.offset] ELSE Zero

\* Mutant of bfrWrStsFlags: it is not lowered when the last row was read.
bfrWrStsFlagsSticky ==
    pxBfrRdEn' = IF cmdReset' THEN FALSE
                 ELSE \/ NextRow(pxBfrRdOffset') = WrOffset(pxBfrWrCounter')
                      \/ pxBfrRdEn

\* The latch follows the offsets as they are after the edge; with two or more
\* complete rows neither condition holds and it keeps its value.
bfrWrStsFlags ==
    pxBfrRdEn' =
        IF cmdReset' \/ pxBfrRdOffset' = WrOffset(pxBfrWrCounter') THEN FALSE
        ELSE IF NextRow(pxBfrRdOffset') = WrOffset(pxBfrWrCounter') THEN TRUE
        ELSE pxBfrRdEn

\* A clock edge with reset = 0.
TopClock(access) == /\ wrCoeff(access) /\ wrControl(access) /\ wrData(access)
                    /\ rdMacInput /\ rdLogic
                    /\ sm /\ macWait /\ macPipe /\ mac
                    /\ flopMacResult /\ wrMacResult /\ resultRd(access)
                    /\ bfrWrStsFlags
-----------------------------------------------------------------------------
TopInit == /\ DatapathInit
           /\ cmdReset = FALSE
           /\ coeffBuffer = ZeroCoeffs
           /\ pxBuffer = ZeroPixels /\ pxBfrWrCounter = 0
           /\ pxBfrRdEn = FALSE
           /\ pxBfrRdOffset = 0 /\ macPx = ZeroRow /\ macCoeff = ZeroRow
           /\ coeffRdBlockOffset = 0 /\ coeffRdCellOffset = 0
           /\ filterRowEnd = FALSE
           /\ macState = "s_Idle" /\ macRdEn = FALSE
           /\ macWaitCounter = 0 /\ macWaitEnd = FALSE
           /\ macRdEnPipeSReg = EmptySReg /\ rowEndPipeSReg = EmptySReg
           /\ dMacResult = Zero
           /\ resultBuffer = ZeroResults /\ resultWrOffset = 0
           /\ rdData = Zero

\* A clock edge with reset = 1.
TopReset == /\ DatapathReset
            /\ cmdReset' = FALSE
            /\ coeffBuffer' = ZeroCoeffs
            /\ pxBuffer' = ZeroPixels /\ pxBfrWrCounter' = 0
            /\ pxBfrRdEn' = FALSE
            /\ pxBfrRdOffset' = 0 /\ macPx' = ZeroRow /\ macCoeff' = ZeroRow
            /\ coeffRdBlockOffset' = 0 /\ coeffRdCellOffset' = 0
            /\ filterRowEnd' = FALSE
            /\ macState' = "s_Idle" /\ macRdEn' = FALSE
            /\ macWaitCounter' = 0 /\ macWaitEnd' = FALSE
            /\ macRdEnPipeSReg' = EmptySReg /\ rowEndPipeSReg' = EmptySReg
            /\ dMacResult' = Zero
            /\ resultBuffer' = ZeroResults /\ resultWrOffset' = 0
            /\ rdData' = Zero
-----------------------------------------------------------------------------
RowType == [Lane -> Float]

TopTypeOK ==
    /\ DatapathTypeOK
    /\ cmdReset \in BOOLEAN
    /\ coeffBuffer \in [Cell -> [Block -> RowType]]
    /\ pxBuffer \in [Row -> RowType]
    /\ pxBfrWrCounter \in 0 .. 8 * PixelBufferDepth - 1
    /\ pxBfrRdEn \in BOOLEAN
    /\ pxBfrRdOffset \in Row
    /\ macPx \in RowType /\ macCoeff \in RowType
    /\ coeffRdBlockOffset \in Block /\ coeffRdCellOffset \in Cell
    /\ filterRowEnd \in BOOLEAN
    /\ macState \in {"s_Idle", "s_ReadInput", "s_WaitForCalc", "s_ReadResult"}
    /\ macRdEn \in BOOLEAN /\ macWaitEnd \in BOOLEAN
    /\ macWaitCounter \in 0 .. MacEngineLatency - 1
    /\ macRdEnPipeSReg \in [0 .. MacEngineLatency -> BOOLEAN]
    /\ rowEndPipeSReg \in [0 .. MacEngineLatency -> BOOLEAN]
    /\ dMacResult \in Float
    /\ resultBuffer \in [0 .. ResultBufferSize - 1 -> Float]
    /\ resultWrOffset \in 0 .. ResultBufferSize - 1
    /\ rdData \in Float
=============================================================================
