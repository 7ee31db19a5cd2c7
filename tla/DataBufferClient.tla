-------------------------- MODULE DataBufferClient --------------------------
(***************************************************************************)
(* data_buffer.sv driven the way its flags invite: nothing is written when *)
(* buffer_full is up, unless a word leaves at the same edge, and nothing   *)
(* is read when buffer_empty is up.  Under that discipline the pointers    *)
(* implement BoundedFifo; without it a whole lap of words can disappear.   *)
(***************************************************************************)
EXTENDS DataBuffer, Sequences

Disciplined(read_enable, write_enable) ==
    /\ read_enable => ~buffer_empty
    /\ write_enable => (~buffer_full \/ read_enable)

ClientClock == \E read_enable, write_enable \in BOOLEAN, write_data \in Word :
                  /\ Disciplined(read_enable, write_enable)
                  /\ Clock(read_enable, write_enable, write_data)

ClientNext == Reset \/ ClientClock

ClientSpec == Init /\ [][ClientNext]_vars
-----------------------------------------------------------------------------
\* The pointers never pass each other, in either direction, whatever the
\* number of laps: the distance between them is a number of stored words.
\* This is what data_buffer.sv:50-53 leaves to its clients.
NoOverrun == Occupancy \in 0 .. BufferSize

\* The cell of the word that has n older words before it.
Cell(n) == IF read_ptr.index + n < BufferSize
           THEN read_ptr.index + n
           ELSE read_ptr.index + n - BufferSize

\* The stored words, oldest first.
Contents == [n \in 1 .. Occupancy |-> data_buffer_array[Cell(n - 1)]]

Fifo == INSTANCE BoundedFifo WITH
            Capacity <- BufferSize,
            queue    <- Contents,
            full     <- buffer_full,
            empty    <- buffer_empty,
            front    <- read_data

\* A disciplined client sees a bounded FIFO queue: no word is lost,
\* duplicated or reordered over any number of laps, read_data is the oldest
\* word, and the flags are exact (data_buffer.sv:24-55).
ImplementsFifo == Fifo!Spec
=============================================================================
