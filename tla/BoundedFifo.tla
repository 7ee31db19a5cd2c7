---------------------------- MODULE BoundedFifo ----------------------------
(***************************************************************************)
(* What a client of the ring buffer relies on: a first-in first-out queue  *)
(* of bounded capacity whose flags are exact and whose output is the       *)
(* oldest word.  A put into a full queue is allowed only together with a   *)
(* get.                                                                    *)
(***************************************************************************)
EXTENDS Integers, Sequences

CONSTANTS Capacity, Word

VARIABLES queue,     \* the words put and not yet got, oldest first
          full,      \* the flag a producer looks at
          empty,     \* the flag a consumer looks at
          front      \* the word on the output

vars == <<queue, full, empty, front>>

\* What the outputs show of a queue q: on an empty queue the output is
\* whatever the storage holds.
Shows(q, isFull, isEmpty, word) ==
    /\ isFull = (Len(q) = Capacity)
    /\ isEmpty = (Len(q) = 0)
    /\ Len(q) > 0 => word = Head(q)

Init == queue = <<>> /\ Shows(queue, full, empty, front)

Put(w) == Len(queue) < Capacity /\ queue' = Append(queue, w)
Get == Len(queue) > 0 /\ queue' = Tail(queue)
PutGet(w) == Len(queue) > 0 /\ queue' = Append(Tail(queue), w)
Flush == queue' = <<>>

Next == /\ \/ Flush
           \/ Get
           \/ \E w \in Word : Put(w) \/ PutGet(w)
        /\ Shows(queue', full', empty', front')

Spec == Init /\ [][Next]_vars
=============================================================================
