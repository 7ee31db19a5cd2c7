---------------------------- MODULE MCMlpOffload ----------------------------
(* Matrices smaller than a tile, as large as tiles, and over by some; rows  *)
(* of the length that is offloaded, and of another.                         *)
EXTENDS MlpOffload

MCShapes == {<<m, n, OffloadLen>> : m \in 1 .. 3, n \in 1 .. 5} \cup {<<3, 2, 2>>, <<5, 3, 2>>}
MCProductShapes == {<<1, 1, OffloadLen>>, <<2, 2, OffloadLen>>, <<2, 3, 2>>}
=============================================================================
