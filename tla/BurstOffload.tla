---------------------------- MODULE BurstOffload ----------------------------
(***************************************************************************)
(* nn_acc_single.sv under a bus master that follows its handshake: it      *)
(* writes a row of weights, writes image rows, reads the queued results,   *)
(* each as one burst or word by word, and waits while waitrequest is up.   *)
(* A burst of image words may cover several rows; the slave then stops it  *)
(* at every row.  The master leaves one idle edge between two transfers    *)
(* and no gap inside a burst, and never asks for more results than the     *)
(* complete rows it sent owe it nor lets the slave owe more than it can    *)
(* queue: the slave checks none of this.                                   *)
(***************************************************************************)
EXTENDS NnAccSingle, Sequences

CONSTANTS Weights, Images,  \* the rows, each a tuple of words
          MaxRows           \* bound on the image rows of one transfer

ASSUME RowAssumption ==
    /\ \A row \in DOMAIN Weights :
          Weights[row] \in [1 .. WEIGHT_BUFFER_SIZE -> Float]
    /\ \A row \in DOMAIN Images :
          Images[row] \in [1 .. WEIGHT_BUFFER_SIZE -> Float]
    /\ MaxRows \in Nat /\ MaxRows > 0

\* burstcount is 11 bits wide.
ASSUME BurstAssumption == /\ MaxRows * WEIGHT_BUFFER_SIZE <= 2047
                          /\ RESULT_BUFFER_SIZE <= 2047

VARIABLES transfer,   \* what the master is doing
          step,       \* how far the transfer is
          burst,      \* whether it is a burst
          left,       \* its words still to be transferred
          weightRow,  \* the row of weights sent last
          imageRow,   \* the image row being sent
          owed        \* the results of the complete rows not read yet

masterVars == <<transfer, step, burst, left, weightRow, imageRow, owed>>
vars == <<accVars, masterVars>>

W == WEIGHT_BUFFER_SIZE

\* The first address of each window.
Address == [weights |-> 1, image |-> 97, result |-> 193]

NoAccess == [begin |-> FALSE, burstcount |-> 0, address |-> 0,
             read |-> FALSE, write |-> FALSE, writedata |-> Zero]

\* The place in its row of the word to be written next.
Place == W - ((left - 1) % W)

WordToWrite == IF transfer = "weights" THEN Weights[weightRow][Place]
                                       ELSE Images[imageRow][Place]

Access(begin) ==
    [begin |-> begin,
     burstcount |-> IF begin THEN left ELSE 0,
     address |-> Address[transfer],
     read |-> transfer = "result",
     write |-> transfer # "result",
     writedata |-> IF transfer = "result" THEN Zero ELSE WordToWrite]

\* As in AccelOffload: the order and the roundings of the hardware.
DotProduct(weights, image) ==
    LET sum[i \in 0 .. W] ==
            IF i = 0 THEN FpAdd(Zero, Zero)
                     ELSE FpAdd(sum[i - 1], FpMul(weights[i], image[i]))
    IN  sum[W]

Idle == /\ transfer' = "none" /\ step' = "none" /\ burst' = FALSE
        /\ left' = 0

Init == /\ AccInit
        /\ transfer = "none" /\ step = "none" /\ burst = FALSE /\ left = 0
        /\ weightRow = 0
        /\ imageRow \in DOMAIN Images
        /\ owed = <<>>
-----------------------------------------------------------------------------
Start(what, words) ==
    /\ transfer = "none"
    /\ Clock(NoAccess)
    /\ transfer' = what
    /\ burst' \in BOOLEAN
    /\ step' = IF burst' THEN "begin" ELSE "request"
    /\ left' = words

StartWeights == /\ Start("weights", W)
                /\ weightRow' \in DOMAIN Weights
                /\ UNCHANGED <<imageRow, owed>>

StartImage == /\ weightRow # 0
              /\ \E rows \in 1 .. MaxRows :
                    /\ Len(owed) + rows <= RESULT_BUFFER_SIZE
                    /\ Start("image", rows * W)
              /\ imageRow' \in DOMAIN Images
              /\ UNCHANGED <<weightRow, owed>>

StartResult == /\ \E words \in 1 .. Len(owed) : Start("result", words)
               /\ UNCHANGED <<weightRow, imageRow, owed>>

\* beginbursttransfer is up for the first edge of the burst; the slave makes
\* the master wait at that edge.
BeginBurst == /\ step = "begin"
              /\ Clock(Access(TRUE))
              /\ step' = "request"
              /\ UNCHANGED <<transfer, burst, left, weightRow, imageRow, owed>>

\* One word is transferred; after the last the master is idle again.
CountWord == IF left = 1 THEN Idle
                         ELSE left' = left - 1 /\ UNCHANGED <<transfer, burst>>

WriteWord ==
    /\ step = "request" /\ transfer # "result"
    /\ ~waitrequest(Access(FALSE))
    /\ Clock(Access(FALSE))
    /\ CountWord
    /\ left > 1 => UNCHANGED step
    /\ IF transfer = "image" /\ Place = W
       THEN /\ owed' = Append(owed,
                              DotProduct(Weights[weightRow], Images[imageRow]))
            /\ imageRow' \in DOMAIN Images
       ELSE UNCHANGED <<owed, imageRow>>
    /\ UNCHANGED weightRow

\* readdatavalid is up at the edge that accepts the request, and after it at
\* every edge without waitrequest until the burst is complete.
ReadRequest ==
    /\ step = "request" /\ transfer = "result"
    /\ ~waitrequest(Access(FALSE))
    /\ Clock(Access(FALSE))
    /\ owed' = Tail(owed)
    /\ CountWord
    /\ left > 1 => step' = IF burst THEN "data" ELSE step
    /\ UNCHANGED <<weightRow, imageRow>>

ReadData ==
    /\ step = "data"
    /\ Clock(NoAccess)
    /\ IF result_read_enable(NoAccess)
       THEN /\ owed' = Tail(owed)
            /\ CountWord
            /\ left > 1 => UNCHANGED step
       ELSE UNCHANGED <<transfer, step, burst, left, owed>>
    /\ UNCHANGED <<weightRow, imageRow>>

\* The slave makes the master hold its request.
Wait == /\ step = "request"
        /\ waitrequest(Access(FALSE))
        /\ Clock(Access(FALSE))
        /\ UNCHANGED masterVars

\* Between two transfers, and between the words of one that is no burst.
Pause == /\ ~burst
         /\ Clock(NoAccess)
         /\ UNCHANGED masterVars

Reset == /\ AccReset
         /\ Idle
         /\ weightRow' = 0
         /\ owed' = <<>>
         /\ UNCHANGED imageRow

Transfer == BeginBurst \/ WriteWord \/ ReadRequest \/ ReadData \/ Wait

Next == \/ StartWeights \/ StartImage \/ StartResult
        \/ Transfer
        \/ Pause
        \/ Reset

Spec == Init /\ [][Next]_vars

\* The clock does not stop, and a master in the middle of a transfer drives
\* its next access some time.
FairSpec == Spec /\ WF_vars(Transfer)
-----------------------------------------------------------------------------
\* The slave delivers a result at the next edge.
Delivering == \/ /\ step = "request" /\ transfer = "result"
                 /\ ~waitrequest(Access(FALSE))
              \/ step = "data" /\ result_read_enable(NoAccess)

\* The result buffer holds the results of the oldest rows that owe one, in
\* their order, and only they are delivered: none is lost, read twice, read
\* early, or computed from words of two rows or from weights sent later
\* (nn_acc_single.sv:121-148).
ResultsInOrder ==
    /\ Delivering => RESULT_BUFFER!Occupancy > 0
    /\ RESULT_BUFFER!Occupancy \in 0 .. Len(owed)
    /\ \A n \in 1 .. RESULT_BUFFER!Occupancy :
          RESULT_BUFFER!Contents[n] = owed[n]

\* When the slave has nothing left to compute, every complete row has its
\* result in the buffer and no image word is left over.
EveryRowHasItsResult ==
    transfer = "none" /\ ~calcinprogress /\ calccount = 0 =>
        /\ RESULT_BUFFER!Occupancy = Len(owed)
        /\ image_buffer_empty

\* The slave and the master count the words of a burst alike, although only
\* waitrequest and readdatavalid couple them: the slave never ends a burst
\* with words missing nor takes the next transfer for a part of it
\* (nn_acc_single.sv:75-96, :127-139).
CountsAgree ==
    /\ burst /\ step # "begin" => /\ current_burstcount = left
                                  /\ ifbursttransfer
                                  /\ burstread = (transfer = "result")
    /\ ~burst => current_burstcount = 0
    /\ step = "request" /\ ~burst => ~ifbursttransfer

\* Every transfer ends: the slave always takes waitrequest down again, also
\* for a burst longer than its buffer and for a result that is still being
\* computed when it is asked for.
TransferEnds == transfer # "none" ~> transfer = "none"
=============================================================================
