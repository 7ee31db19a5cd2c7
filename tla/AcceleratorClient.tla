-------------------------- MODULE AcceleratorClient --------------------------
(***************************************************************************)
(* The eight-lane accelerator under the traffic of its test program        *)
(* (tbAccl.sv:110-159) and its driver (MacAcceleratorDriver.h): rounds of  *)
(* coefficients, pixels and result reads, separated by the reset command.  *)
(* Unlike the test program, the client may pause at any edge, read a       *)
(* result at any time, leave out the coefficients after a reset command    *)
(* (getMACFromAcceleratorDma does), and end a round inside a filter row.   *)
(***************************************************************************)
EXTENDS AcceleratorTopMod

CONSTANTS Pixels,         \* the pixel words of a round, sent in this order
          Coeff(_, _, _), \* the coefficient of a cell, block and lane
          MaxCommands,    \* bound on the number of reset commands
          QuietCommands   \* whether a command waits for an idle accelerator

ASSUME ClientAssumption == /\ Pixels \in Seq(Float)
                           /\ \A cell \in Cell, block \in Block, lane \in Lane :
                                 Coeff(cell, block, lane) \in Float
                           /\ MaxCommands \in Nat
                           /\ QuietCommands \in BOOLEAN

VARIABLES stage,       \* what the client is doing
          nextCoeff,   \* coefficients sent in this round
          sent,        \* pixel words sent in this round
          commands,    \* reset commands so far
          rowsRead,    \* history: pixel rows read in this round
          stored,      \* history: results stored in this round
          carry        \* history: the accumulator's sum when it began

clientVars == <<stage, nextCoeff, sent, commands>>
historyVars == <<rowsRead, stored, carry>>
vars == <<topVars, clientVars, historyVars>>

RowBlocks == FilterRowSize * BlockCount   \* pixel rows of one result
NumCoeffs == 8 * RowBlocks

\* Nothing is being read, computed or stored.
Quiet == /\ macState = "s_Idle" /\ ~pxBfrRdEn /\ ~macRdEn /\ ~filterRowEnd
         /\ \A n \in 0 .. MacEngineLatency :
               ~macRdEnPipeSReg[n] /\ ~rowEndPipeSReg[n]

\* A clock edge and what the history keeps of it.
Edge(access) ==
    /\ TopClock(access)
    /\ rowsRead' = IF cmdReset THEN 0
                   ELSE IF macRdEn THEN rowsRead + 1 ELSE rowsRead
    /\ stored' = IF cmdReset THEN 0
                 ELSE IF resultWrEn THEN stored + 1 ELSE stored
    /\ carry' = IF cmdReset THEN result ELSE carry

Init == /\ TopInit
        /\ stage = "coeffs" /\ nextCoeff = 0 /\ sent = 0 /\ commands = 0
        /\ rowsRead = 0 /\ stored = 0 /\ carry = FpAdd(Zero, Zero)

Reset == /\ TopReset
         /\ stage' = "coeffs" /\ nextCoeff' = 0 /\ sent' = 0 /\ commands' = 0
         /\ rowsRead' = 0 /\ stored' = 0 /\ carry' = FpAdd(Zero, Zero)

\* writeData(AddrOffsetCoeff + ...)
SendCoeff ==
    /\ stage = "coeffs" /\ nextCoeff < NumCoeffs
    /\ LET lane == (nextCoeff % 8) + 1
           block == (nextCoeff \div 8) % BlockCount
           cell == nextCoeff \div (8 * BlockCount)
       IN  Edge(CoeffWrite(cell, block, lane, Coeff(cell, block, lane)))
    /\ nextCoeff' = nextCoeff + 1
    /\ stage' = IF nextCoeff + 1 = NumCoeffs THEN "pixels" ELSE stage
    /\ UNCHANGED <<sent, commands>>

\* writeData(AddrOffsetData, ...)
SendPixel ==
    /\ stage = "coeffs" => nextCoeff = 0
    /\ stage # "clearing"
    /\ sent < Len(Pixels)
    /\ Edge(DataWrite(Pixels[sent + 1]))
    /\ stage' = "pixels"
    /\ sent' = sent + 1
    /\ UNCHANGED <<nextCoeff, commands>>

\* readData(AddrOffsetResult + i)
ReadResult ==
    /\ stage = "pixels"
    /\ \E offset \in 0 .. ResultBufferSize - 1 : Edge(ResultAccess(offset))
    /\ UNCHANGED clientVars

\* writeData(AddrOffsetControl, 0), followed by busIdle
SendCommand ==
    /\ stage = "pixels"
    /\ commands < MaxCommands
    /\ QuietCommands => Quiet
    /\ Edge(ControlWrite)
    /\ commands' = commands + 1
    /\ stage' = "clearing"
    /\ UNCHANGED <<nextCoeff, sent>>

BusIdle ==
    /\ stage = "clearing"
    /\ Edge(NoAccess)
    /\ stage' = "coeffs"
    /\ nextCoeff' = 0
    /\ sent' = 0
    /\ UNCHANGED commands

Pause == /\ stage \in {"coeffs", "pixels"}
         /\ Edge(NoAccess)
         /\ UNCHANGED clientVars

Next == \/ Reset
        \/ SendCoeff
        \/ SendPixel
        \/ ReadResult
        \/ SendCommand
        \/ BusIdle
        \/ Pause

Spec == Init /\ [][Next]_vars

\* The clock does not stop while the client has nothing to write.  It need not
\* write, nor reset anything, ever again.
FairSpec == Spec /\ WF_vars(ReadResult \/ Pause)
-----------------------------------------------------------------------------
\* The type invariant, a part of OperandsInOrder.
TypeOK == /\ TopTypeOK
          /\ stage \in {"coeffs", "pixels", "clearing"}
          /\ nextCoeff \in 0 .. NumCoeffs
          /\ sent \in 0 .. Len(Pixels)
          /\ commands \in 0 .. MaxCommands
          /\ rowsRead \in 0 .. Len(Pixels) \div 8
          /\ stored \in Nat
          /\ carry \in Float

\* Row n of the round, and the coefficients it meets.
PixelRow(n) == [lane \in Lane |-> Pixels[8 * (n - 1) + lane]]
CoeffRow(n) == coeffBuffer[((n - 1) \div BlockCount) % FilterRowSize]
                          [(n - 1) % BlockCount]

\* The tree of adders over the eight products of a row.
BlockSum(n) ==
    LET p == Multiply(PixelRow(n), CoeffRow(n))
    IN  FpAdd(FpAdd(FpAdd(p[1], p[2]), FpAdd(p[3], p[4])),
              FpAdd(FpAdd(p[5], p[6]), FpAdd(p[7], p[8])))

\* The blocks of filter row k, each once and in their order, on top of start.
RowSum(k, start) ==
    LET sum[i \in 0 .. RowBlocks] ==
            IF i = 0 THEN start
            ELSE FpAdd(BlockSum((k - 1) * RowBlocks + i), sum[i - 1])
    IN  sum[RowBlocks]

\* What a filter row may be added to: for the first one what the accumulator
\* held when the round began, for the others nothing, or one block read before.
Starts(k) == {FpAdd(Zero, Zero)}
             \cup (IF k = 1 THEN {carry}
                   ELSE {FpAdd(BlockSum(n), Zero) : n \in 1 .. (k - 1) * RowBlocks})
-----------------------------------------------------------------------------
\* A row is read after its eighth word was written, under any pauses and
\* commands: the latch of AcceleratorTopMod.sv:133-149 is never up one row too
\* long, although the read enable is a register behind it.
ReadsCompleteRows == macRdEn => 8 * (rowsRead + 1) <= sent

\* The ring of rows never fills up, even with a word at every edge and with
\* nobody reading the overflow flag (AcceleratorTopMod.sv:138-142): a row is
\* consumed in seven edges and takes eight to write, so at most one is waiting.
PixelRingNeverFull == (sent \div 8) - rowsRead \in {0, 1}

\* What is in macInputs is the row read last and the coefficients of its
\* place in the filter row, over any number of laps of the ring
\* (AcceleratorTopMod.sv:151-198); no offset leaves its ring.
OperandsInOrder ==
    /\ TypeOK
    /\ rowsRead > 0 => /\ macPx = PixelRow(rowsRead)
                       /\ macCoeff = CoeffRow(rowsRead)

\* A reset command does not stop the pipeline (AcceleratorTopMod.sv:276-286):
\* a filter row that has been read when it arrives still stores a result in
\* the next round, but never more than one.
AtMostOneStaleResult == stored <= (rowsRead \div RowBlocks) + 1

\* The result of a filter row is stored in the next cell and adds up all blocks
\* of that row, each once and in order, and no block of a later row; of the rows
\* before it holds one block at most.  The sum goes through three stages, two
\* registers and a clear whose edges are counted by hand in two shift registers
\* (AcceleratorTopMod.sv:276-352, pipeline_registers.sv:107-124): one edge off,
\* and the result lacks its last block, or keeps the sum of the row before.
ResultsOfOwnRows ==
    \A k \in 1 .. stored :
        k + ResultBufferSize > stored =>
            \E start \in Starts(k) :
                resultBuffer[(k - 1) % ResultBufferSize] = RowSum(k, start)

\* When nothing moves, every complete row has been read and every complete
\* filter row stored: no pulse of the state machine was lost.
NothingLostWhenQuiet ==
    Quiet /\ stage = "pixels" => /\ rowsRead = sent \div 8
                                 /\ stored = rowsRead \div RowBlocks

\* A complete filter row is stored although no further word comes, unless a
\* reset comes first.
EveryRowIsStored ==
    \A k \in 1 .. Len(Pixels) \div (8 * RowBlocks) :
        (stage = "pixels" /\ sent >= 8 * RowBlocks * k)
            ~> (stored >= k \/ stage # "pixels")
=============================================================================
