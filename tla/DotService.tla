----------------------------- MODULE DotService -----------------------------
(***************************************************************************)
(* What a program expects of the accelerator, whichever way the words get  *)
(* there: it sends a row of weights, then any number of rows of image      *)
(* words, and is answered the dot product of each with the row of weights  *)
(* sent last.                                                              *)
(***************************************************************************)
CONSTANTS Weights,    \* the set of rows of weights
          Images,     \* the set of rows of image words
          Dot(_, _)   \* the dot product, in the order of the hardware

VARIABLES weights,    \* <<>>, or the row in force
          answer      \* <<>>, or the answer that is being taken

serviceVars == <<weights, answer>>

Init == weights = <<>> /\ answer = <<>>

SendWeights == /\ \E row \in Weights : weights' = <<row>>
               /\ answer' = <<>>

Ask == /\ weights # <<>>
       /\ \E row \in Images : answer' = <<Dot(weights[1], row)>>
       /\ UNCHANGED weights

Take == answer' = <<>> /\ UNCHANGED weights

Next == SendWeights \/ Ask \/ Take

Spec == Init /\ [][Next]_serviceVars
=============================================================================
