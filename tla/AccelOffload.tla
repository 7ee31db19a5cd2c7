---------------------------- MODULE AccelOffload ----------------------------
(***************************************************************************)
(* The deployed path of a dot product: kautodiff.c moves a row of weights  *)
(* (weight_buffer_write) and then rows of image words (image_buffer_write) *)
(* to the accelerator by DMA, polls the BUSY bit and reads the result.     *)
(* The DMA engine drives at most one bus access per clock edge and may     *)
(* pause between two words; the CPU and the DMA never use the slave at the *)
(* same time, because the CPU polls the DMA's own registers meanwhile.     *)
(***************************************************************************)
EXTENDS NnAccNonBurst, Sequences

CONSTANTS Weights,        \* the rows of weights, each a tuple of words
          Images,         \* the rows of image words
          DmaWords,       \* words of one transfer: the length register / 4
          SettleCycles    \* clock edges between the last word of a transfer
                          \* and the read of the result, at least

\* The transfers are exactly as long as the weight buffer: 0x180 bytes and
\* WEIGHT_BUFFER_SIZE 96 in the CNN system.  BUSY falls when the last word has
\* been written; the status load, the branch and the result load then take
\* more clock edges than the two the accelerator needs.
ASSUME TransferAssumption == /\ DmaWords = WEIGHT_BUFFER_SIZE
                             /\ SettleCycles \in Nat /\ SettleCycles >= 2
ASSUME RowAssumption ==
    /\ DOMAIN Weights # {} /\ DOMAIN Images # {}
    /\ \A row \in DOMAIN Weights : Weights[row] \in [1 .. DmaWords -> Float]
    /\ \A row \in DOMAIN Images : Images[row] \in [1 .. DmaWords -> Float]

VARIABLES phase,      \* what the software and the DMA engine are doing
          weightRow,  \* the row of weights sent last
          imageRow,   \* the row of image words sent last
          sent,       \* words of the current transfer already written
          settled     \* clock edges since its last word, up to SettleCycles

softVars == <<phase, weightRow, imageRow, sent, settled>>
vars == <<accVars, softVars>>

\* The word addresses behind NN_ACC_*_BUFFER_OFFSET 0x4, 0x184 and 0x304.
WeightAddress == 1
ImageAddress  == 97
ResultAddress == 193

Phase == {"start",     \* before the first row of weights
          "weights",   \* weight_buffer_write: transfer in progress
          "loop",      \* between two calls
          "image",     \* image_buffer_write: transfer in progress
          "settle",    \* image_buffer_write: polled BUSY, not yet reading
          "read"}      \* image_buffer_write: the two edges of the bus read

Init == /\ AccInit
        /\ phase = "start"
        /\ weightRow \in DOMAIN Weights
        /\ imageRow \in DOMAIN Images
        /\ sent = 0
        /\ settled = 0
-----------------------------------------------------------------------------
(***************************************************************************)
(* weight_buffer_write and image_buffer_write set up and start a transfer: *)
(* control, read and write address, length, GO.  A row of weights may be   *)
(* followed by any number of image rows, also none: conv2d_loop2 leaves    *)
(* its row loop at once when the kernel row starts in the padding.         *)
(***************************************************************************)
StartWeights == /\ phase \in {"start", "loop"}
                /\ IdleClock
                /\ phase' = "weights"
                /\ weightRow' \in DOMAIN Weights
                /\ sent' = 0
                /\ UNCHANGED <<imageRow, settled>>

StartImage == /\ phase = "loop"
              /\ IdleClock
              /\ phase' = "image"
              /\ imageRow' \in DOMAIN Images
              /\ sent' = 0
              /\ UNCHANGED <<weightRow, settled>>

\* The DMA engine writes the next word to a constant address (WCON); after
\* the last one its BUSY bit is 0.
DmaWrite(address, row, next) ==
    /\ Clock(FALSE, TRUE, address, row[sent + 1])
    /\ sent' = sent + 1
    /\ phase' = IF sent + 1 = DmaWords THEN next ELSE phase
    /\ settled' = 0
    /\ UNCHANGED <<weightRow, imageRow>>

SendWeight == /\ phase = "weights"
              /\ DmaWrite(WeightAddress, Weights[weightRow], "loop")

SendImage == /\ phase = "image"
             /\ DmaWrite(ImageAddress, Images[imageRow], "settle")

\* A clock edge at which nobody uses the slave: the source memory makes the
\* DMA wait, or the CPU is busy between two calls.
Pause == /\ phase \in {"start", "weights", "loop", "image"}
         /\ IdleClock
         /\ UNCHANGED softVars

\* The CPU leaves the polling loop and issues the load.
Settle == /\ phase = "settle"
          /\ IdleClock
          /\ settled' = IF settled < SettleCycles THEN settled + 1 ELSE settled
          /\ UNCHANGED <<phase, weightRow, imageRow, sent>>

\* The slave translator holds read for two edges (one wait cycle) and takes
\* readdata at the second: the first edge loads it ...
ReadResult == /\ phase = "settle"
              /\ settled = SettleCycles
              /\ Clock(TRUE, FALSE, ResultAddress, Zero)
              /\ phase' = "read"
              /\ UNCHANGED <<weightRow, imageRow, sent, settled>>

\* ... and image_buffer_write returns it at the second.
ReturnResult == /\ phase = "read"
                /\ Clock(TRUE, FALSE, ResultAddress, Zero)
                /\ phase' = "loop"
                /\ UNCHANGED <<weightRow, imageRow, sent, settled>>

Next == \/ StartWeights
        \/ StartImage
        \/ SendWeight
        \/ SendImage
        \/ Pause
        \/ Settle
        \/ ReadResult
        \/ ReturnResult

Spec == Init /\ [][Next]_vars
-----------------------------------------------------------------------------
TypeOK == /\ AccTypeOK
          /\ phase \in Phase
          /\ weightRow \in DOMAIN Weights
          /\ imageRow \in DOMAIN Images
          /\ sent \in 0 .. DmaWords
          /\ settled \in 0 .. SettleCycles

\* The sum the adder holds after n products of a row, in the order and with
\* the roundings of the hardware: it starts from 0 + 0 and the adder's
\* operands are the sum so far and the latest product.
PartialSum(weights, image, n) ==
    LET sum[i \in 0 .. n] ==
            IF i = 0 THEN FpAdd(Zero, Zero)
                     ELSE FpAdd(sum[i - 1], FpMul(weights[i], image[i]))
    IN  sum[n]

DotProduct(weights, image) == PartialSum(weights, image, DmaWords)

\* What image_buffer_write returns is the dot product of the row it sent and
\* the row of weights sent last: not a stale result, not a row shifted by a
\* word, not the sum of two rows (nn_acc_single_non_burst.sv:45-120 under
\* kautodiff.c:26-46).
ReturnsDotProduct ==
    phase = "read" =>
        readdata = DotProduct(Weights[weightRow], Images[imageRow])

\* Nothing checks that the weight ring and the word counter agree: the ring's
\* flags are unused and it is read W words per image row, written W words per
\* weight row.  Between two calls both pointers are back at cell 0, the
\* counter is 0 and no image word is left, so the next row starts aligned
\* (nn_acc_single_non_burst.sv:64-77, :83, :86).
AlignedBetweenCalls ==
    phase = "loop" => /\ weight_write_ptr.index = 0
                      /\ weight_read_ptr.index = 0
                      /\ calccount = 0
                      /\ IMAGE_BUFFER!buffer_empty

\* The image buffer's flags cannot hold the DMA back (there is no
\* waitrequest); it is drained as fast as it is filled, so the smallest buffer
\* is enough for rows of any length (deployed: 8 cells for rows of 96).
ImageNeverOverruns == IMAGE_BUFFER!Occupancy \in {0, 1}

\* In the middle of a row, the adder holds the sum of exactly the products
\* counted by calccount, of the right row (nn_acc_single_non_burst.sv:45-77).
SumMatchesCount ==
    phase \in {"image", "settle"} /\ calccount > 0 =>
        adder_output =
            PartialSum(Weights[weightRow], Images[imageRow], calccount)

\* For the program, image_buffer_write asks and returns the answer: the words,
\* the pointers and the edges in between do not show.
Service == INSTANCE DotService
             WITH Weights <- {Weights[row] : row \in DOMAIN Weights},
                  Images  <- {Images[row] : row \in DOMAIN Images},
                  Dot     <- DotProduct,
                  weights <- IF phase = "start" THEN <<>>
                                                ELSE <<Weights[weightRow]>>,
                  answer  <- IF phase = "read" THEN <<readdata>> ELSE <<>>

\* The offload implements the service: every answer is the dot product of the
\* row asked for and the row of weights in force, and the row in force changes
\* by weight_buffer_write only (kautodiff.c:26-46 over
\* nn_acc_single_non_burst.sv).
ImplementsService == Service!Spec
=============================================================================
