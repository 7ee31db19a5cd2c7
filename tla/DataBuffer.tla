----------------------------- MODULE DataBuffer -----------------------------
(***************************************************************************)
(* The parameterised ring buffer Custom-Hardware-Blocks/data_buffer.sv.    *)
(* One step is one clock edge.  The module has no flow control of its own: *)
(* a write enable is obeyed when the buffer is full, a read enable when it *)
(* is empty.  Pointers carry one bit more than an index; that bit is       *)
(* `wrap' here.                                                            *)
(***************************************************************************)
EXTENDS Integers

CONSTANTS BufferSize,     \* parameter BUFFER_SIZE
          Word,           \* the 32-bit words the buffer is used with
          Zero            \* the word every cell holds after a reset

ASSUME BufferSizeAssumption == BufferSize \in Nat /\ BufferSize > 1
ASSUME ZeroAssumption == Zero \in Word

VARIABLES write_ptr,          \* next cell to write
          read_ptr,           \* next cell to read
          data_buffer_array   \* the cells

vars == <<write_ptr, read_ptr, data_buffer_array>>

Index == 0 .. BufferSize - 1
Pointer == [wrap : {0, 1}, index : Index]

(***************************************************************************)
(* The combinational outputs.                                              *)
(***************************************************************************)
buffer_full  == /\ read_ptr.index = write_ptr.index
                /\ write_ptr.wrap # read_ptr.wrap
buffer_empty == read_ptr = write_ptr
read_data    == data_buffer_array[read_ptr.index]

\* Mutant of NextState: no flip of the wrap bit.
NextStateNoFlip(ptr) == IF ptr.index = BufferSize - 1
                        THEN [wrap |-> ptr.wrap, index |-> 0]
                        ELSE [wrap |-> ptr.wrap, index |-> ptr.index + 1]

\* nextstate_read_ptr and nextstate_write_ptr: the index wraps at BufferSize
\* (not at a power of two) and the wrap bit flips.
NextState(ptr) == IF ptr.index = BufferSize - 1
                  THEN [wrap |-> 1 - ptr.wrap, index |-> 0]
                  ELSE [wrap |-> ptr.wrap, index |-> ptr.index + 1]

ResetState == [wrap |-> 0, index |-> 0]

Init == /\ write_ptr = ResetState
        /\ read_ptr = ResetState
        /\ data_buffer_array = [i \in Index |-> Zero]

\* reset = 1
Reset == /\ write_ptr' = ResetState
         /\ read_ptr' = ResetState
         /\ data_buffer_array' = [i \in Index |-> Zero]

\* Mutant of Write: the pointer advances before the cell is written.
WriteAfterAdvance(write_enable, write_data) ==
    IF write_enable
    THEN /\ data_buffer_array' =
              [data_buffer_array EXCEPT ![NextState(write_ptr).index] = write_data]
         /\ write_ptr' = NextState(write_ptr)
    ELSE UNCHANGED <<data_buffer_array, write_ptr>>

\* The two always_ff blocks on a clock edge with reset = 0.
Write(write_enable, write_data) ==
    IF write_enable
    THEN /\ data_buffer_array' =
              [data_buffer_array EXCEPT ![write_ptr.index] = write_data]
         /\ write_ptr' = NextState(write_ptr)
    ELSE UNCHANGED <<data_buffer_array, write_ptr>>

Read(read_enable) ==
    read_ptr' = IF read_enable THEN NextState(read_ptr) ELSE read_ptr

Clock(read_enable, write_enable, write_data) ==
    /\ Write(write_enable, write_data)
    /\ Read(read_enable)

Next == \/ Reset
        \/ \E read_enable, write_enable \in BOOLEAN, write_data \in Word :
              Clock(read_enable, write_enable, write_data)

Spec == Init /\ [][Next]_vars
-----------------------------------------------------------------------------
\* Every pointer stays inside the buffer and every cell holds a word.
TypeOK == /\ write_ptr \in Pointer
          /\ read_ptr \in Pointer
          /\ data_buffer_array \in [Index -> Word]

\* How far the write pointer is ahead of the read pointer, on the circle of
\* 2 * BufferSize pointer values cut where the clients of the buffer stay:
\* negative or above BufferSize once a client reads past empty or writes past
\* full.
Occupancy == IF write_ptr.wrap = read_ptr.wrap
             THEN write_ptr.index - read_ptr.index
             ELSE BufferSize + write_ptr.index - read_ptr.index
=============================================================================
