----------------------------- MODULE MlpOffload -----------------------------
(***************************************************************************)
(* kad_sgemm_simple of the MLP program: C += A * B^T in tiles, the inner   *)
(* products computed by the accelerator when the rows have OffloadLen      *)
(* words.  A transfer of the DMA engine is one step here.  Its length and   *)
(* the size of the ring are independent, as they are in the repository: a  *)
(* row of 784 words goes around a ring of 96 cells eight times and leaves  *)
(* its pointers 16 cells further, with 16 products in the adder.           *)
(***************************************************************************)
EXTENDS Naturals, Sequences

CONSTANTS
  Shapes,             \* the <<M, N, K>> that are called for
  Tile,               \* x: 16 in the code
  OffloadLen,         \* 784 in the code, the length of its transfers too
  WEIGHT_BUFFER_SIZE  \* cells of the weight ring, products of one result

ASSUME MlpAssumption ==
  /\ \A s \in Shapes : Len(s) = 3 /\ \A n \in 1 .. 3 : s[n] \in Nat \ {0}
  /\ Tile \in Nat \ {0} /\ OffloadLen \in Nat /\ WEIGHT_BUFFER_SIZE \in Nat \ {0}
  /\ OffloadLen >= 2 * WEIGHT_BUFFER_SIZE - 1

VARIABLES
  shape,                \* M, N and K
  C,                    \* for each element the sums added to it, each a sequence of products
  i, j, ii, jj,         \* the loop variables; the offsets jj stands for are in B and cii
  pc,                   \* "row", "element", "read", "done"
  cells, write_ptr, read_ptr,   \* the weight ring
  sum, result           \* products since the last result; the result register

program == <<shape, C, i, j, ii, jj, pc>>
slave == <<cells, write_ptr, read_ptr, sum, result>>
vars == <<program, slave>>

M == shape[1]
N == shape[2]
K == shape[3]
A(row) == [k \in 1 .. K |-> <<"A", row, k>>]
B(row) == [k \in 1 .. K |-> <<"B", row, k>>]
Dot(a, b) == [k \in 1 .. Len(b) |-> <<a[k], b[k]>>]

-----------------------------------------------------------------------------
(* The words of a transfer go to the ring, or are multiplied with the ring. *)
WriteWord(ring, word) ==
  [cells |-> [ring.cells EXCEPT ![ring.write_ptr] = word],
   write_ptr |-> (ring.write_ptr + 1) % WEIGHT_BUFFER_SIZE]

RingAfter(row) ==
  LET ring[n \in 0 .. Len(row)] == IF n = 0 THEN [cells |-> cells, write_ptr |-> write_ptr]
                                           ELSE WriteWord(ring[n - 1], row[n])
  IN  ring[Len(row)]

TransferWeights(row) ==
  LET after == RingAfter(row)
  IN  /\ cells' = after.cells /\ write_ptr' = after.write_ptr
      /\ UNCHANGED <<read_ptr, sum, result>>

MultiplyWord(s, word) ==
  LET longer == Append(s.sum, <<cells[s.read_ptr], word>>)   complete == Len(longer) = WEIGHT_BUFFER_SIZE
  IN  [read_ptr |-> (s.read_ptr + 1) % WEIGHT_BUFFER_SIZE,
       sum      |-> IF complete THEN <<>> ELSE longer,
       result   |-> IF complete THEN longer ELSE s.result]

ProductAfter(row) ==
  LET product[n \in 0 .. Len(row)] ==
        IF n = 0 THEN [read_ptr |-> read_ptr, sum |-> sum, result |-> result]
                 ELSE MultiplyWord(product[n - 1], row[n])
  IN  product[Len(row)]

TransferImage(row) ==
  LET after == ProductAfter(row)
  IN  /\ read_ptr' = after.read_ptr /\ sum' = after.sum /\ result' = after.result
      /\ UNCHANGED <<cells, write_ptr>>

-----------------------------------------------------------------------------
TileEnd(n, from) == IF n < from + Tile THEN n ELSE from + Tile

Offloaded == K = OffloadLen

\* Mutant of Advance: the weights are sent once for a tile.
AdvanceSameWeights ==
  IF jj + 1 < TileEnd(N, j) THEN jj' = jj + 1 /\ pc' = "element" /\ UNCHANGED <<i, j, ii>>
  ELSE IF ii + 1 < TileEnd(M, i) THEN ii' = ii + 1 /\ jj' = j /\ pc' = "element" /\ UNCHANGED <<i, j>>
  ELSE IF j + Tile < N THEN j' = j + Tile /\ jj' = j + Tile /\ ii' = i /\ pc' = "row" /\ UNCHANGED i
  ELSE IF i + Tile < M THEN /\ i' = i + Tile /\ ii' = i + Tile /\ j' = 0 /\ jj' = 0 /\ pc' = "row"
  ELSE pc' = "done" /\ UNCHANGED <<i, j, ii, jj>>

(* The four loops: the element after this one, or the row, or the tile.     *)
Advance ==
  IF jj + 1 < TileEnd(N, j) THEN jj' = jj + 1 /\ pc' = "element" /\ UNCHANGED <<i, j, ii>>
  ELSE IF ii + 1 < TileEnd(M, i) THEN ii' = ii + 1 /\ jj' = j /\ pc' = "row" /\ UNCHANGED <<i, j>>
  ELSE IF j + Tile < N THEN j' = j + Tile /\ jj' = j + Tile /\ ii' = i /\ pc' = "row" /\ UNCHANGED i
  ELSE IF i + Tile < M THEN /\ i' = i + Tile /\ ii' = i + Tile /\ j' = 0 /\ jj' = 0 /\ pc' = "row"
  ELSE pc' = "done" /\ UNCHANGED <<i, j, ii, jj>>

AddToElement(s) == C' = [C EXCEPT ![<<ii, jj>>] = Append(@, s)]

(* weight_buffer_write(aii), once for each row of a tile.                   *)
WeightBufferWrite ==
  /\ pc = "row" /\ Offloaded
  /\ TransferWeights(A(ii))
  /\ pc' = "element"
  /\ UNCHANGED <<shape, C, i, j, ii, jj>>

(* image_buffer_write(bjj): the transfer, then the load of the result.      *)
ImageBufferWrite ==
  /\ pc = "element" /\ Offloaded
  /\ TransferImage(B(jj))
  /\ pc' = "read"
  /\ UNCHANGED <<shape, C, i, j, ii, jj>>

ReadResult ==
  /\ pc = "read"
  /\ AddToElement(result)
  /\ Advance
  /\ UNCHANGED <<shape, slave>>

(* Rows of another length stay with the processor: kad_sdot.                *)
DotInSoftware ==
  /\ pc \in {"row", "element"} /\ ~Offloaded
  /\ AddToElement(Dot(A(ii), B(jj)))
  /\ Advance
  /\ UNCHANGED <<shape, slave>>

(* The next call finds the accelerator as this one left it.                 *)
Elements(s) == (0 .. s[1] - 1) \X (0 .. s[2] - 1)

Call(s) ==
  /\ pc = "done"
  /\ shape' = s /\ C' = [e \in Elements(s) |-> <<>>]
  /\ i' = 0 /\ j' = 0 /\ ii' = 0 /\ jj' = 0 /\ pc' = "row"
  /\ UNCHANGED slave

Init ==
  /\ shape \in Shapes /\ C = [e \in Elements(shape) |-> <<>>]
  /\ i = 0 /\ j = 0 /\ ii = 0 /\ jj = 0 /\ pc = "row"
  /\ cells = [c \in 0 .. WEIGHT_BUFFER_SIZE - 1 |-> <<"zero">>]
  /\ write_ptr = 0 /\ read_ptr = 0 /\ sum = <<>> /\ result = <<>>

Next == WeightBufferWrite \/ ImageBufferWrite \/ ReadResult \/ DotInSoftware
        \/ \E s \in Shapes : Call(s)

Spec == Init /\ [][Next]_vars

-----------------------------------------------------------------------------
(* The loop variables stay inside the matrix and inside their tile: the type *)
(* invariant, a part of EachElementOnce.                                    *)
TypeOK ==
  /\ ii \in i .. TileEnd(M, i) - 1 /\ jj \in j .. TileEnd(N, j) - 1
  /\ ii < M /\ jj < N /\ DOMAIN C = Elements(shape)

(* A sum of the processor is the product of the two rows of its element.  A  *)
(* sum of the accelerator has as many products as the ring has cells, each  *)
(* of a word of the one row and a word of the other.                        *)
OwnProducts(e) == {A(e[1])[k] : k \in 1 .. K} \X {B(e[2])[k] : k \in 1 .. K}

OwnSum(s, e) == IF Offloaded THEN s \in [1 .. WEIGHT_BUFFER_SIZE -> OwnProducts(e)]
                             ELSE s = Dot(A(e[1]), B(e[2]))

(* When a call returns, each element has been given one sum, and no word of *)
(* another row is in it, whatever the tiles cut off and whatever the ring,  *)
(* its pointers and the adder hold of earlier rows and calls                *)
(* (kad_sgemm_simple).                                                      *)
EachElementOnce ==
  /\ TypeOK
  /\ pc = "done" => \A e \in Elements(shape) : Len(C[e]) = 1 /\ OwnSum(C[e][1], e)

(* What kad_op_cmul expects, "Y = X * trans(W)" (kautodiff.c:1176 of the    *)
(* MLP program): each element is the product of its own two rows.  It is    *)
(* not so when the rows are longer than the ring.                           *)
ProductOfRows ==
  pc = "done" => \A e \in Elements(shape) : C[e] = <<Dot(A(e[1]), B(e[2]))>>
=============================================================================
