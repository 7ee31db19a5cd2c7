-------------------------- MODULE MlpOffloadProofs --------------------------
(***************************************************************************)
(* Proofs about the tiled product of the MLP program, for all shapes, every *)
(* size of the tiles, of the ring and of the rows that are sent, as long as *)
(* a row goes around the ring almost twice.                                 *)
(***************************************************************************)
EXTENDS MlpOffload, NaturalLemmas, TLAPS

USE MlpAssumption

W == WEIGHT_BUFFER_SIZE
Cells == 0 .. W - 1

\* s is a sequence of n terms.
HasTerms(s, n) == s = [k \in 1 .. n |-> s[k]]

LEMMA Appended ==
    ASSUME NEW n \in Nat, NEW s, HasTerms(s, n), NEW x
    PROVE  /\ Len(s) = n /\ Len(Append(s, x)) = n + 1 /\ HasTerms(Append(s, x), n + 1)
           /\ \A k \in 1 .. n : Append(s, x)[k] = s[k]
           /\ Append(s, x)[n + 1] = x
<1> DEFINE T == {s[k] : k \in 1 .. n} \cup {x}
           t == [k \in 1 .. n |-> s[k]]
<1>1. t \in Seq(T) /\ Len(t) = n /\ x \in T
  OBVIOUS
<1>2. s = t
  BY DEF HasTerms
<1>3. s \in Seq(T) /\ Len(s) = n
  BY <1>1, <1>2
<1> HIDE DEF T, t
<1>4. /\ Append(s, x) \in Seq(T) /\ Len(Append(s, x)) = n + 1
      /\ \A k \in 1 .. n : Append(s, x)[k] = s[k]
      /\ Append(s, x)[n + 1] = x
  BY <1>1, <1>3
<1>5. HasTerms(Append(s, x), n + 1)
  BY <1>4 DEF HasTerms
<1>6. QED
  BY <1>3, <1>4, <1>5
-----------------------------------------------------------------------------
(* What the ring holds after a transfer of weights: it has gone around the  *)
(* ring, so no cell keeps an older word.                                    *)

RingState(T) == [cells : [Cells -> T], write_ptr : Cells]

\* The cells behind the pointer, from where it began.
Ahead(c) == IF c >= write_ptr THEN c - write_ptr ELSE c - write_ptr + W

\* The ring r after n words of T were written.
RingHolds(r, n, T) ==
    /\ r.write_ptr \in Cells
    /\ r.cells = [c \in Cells |-> r.cells[c]]
    /\ n < W => r.write_ptr = IF write_ptr + n < W THEN write_ptr + n ELSE write_ptr + n - W
    /\ \A c \in Cells : Ahead(c) < n => r.cells[c] \in T

LEMMA NextCell ==
    ASSUME NEW c \in Cells
    PROVE  /\ (c + 1) % W = IF c + 1 < W THEN c + 1 ELSE 0
           /\ (c + 1) % W \in Cells
  BY DEF W, Cells

LEMMA WordWritten ==
    ASSUME write_ptr \in Cells, NEW n \in Nat, NEW T, NEW r, RingHolds(r, n, T),
           NEW word \in T
    PROVE  RingHolds(WriteWord(r, word), n + 1, T)
<1> DEFINE next == WriteWord(r, word)
<1>1. W \in Nat /\ W > 0 /\ write_ptr \in 0 .. W - 1 /\ r.write_ptr \in 0 .. W - 1
  BY DEF W, Cells, RingHolds
<1>2. /\ next.write_ptr = IF r.write_ptr + 1 < W THEN r.write_ptr + 1 ELSE 0
      /\ next.write_ptr \in Cells
  BY NextCell DEF WriteWord, RingHolds, W
<1>3. /\ next.cells = [c \in Cells |-> next.cells[c]]
      /\ \A c \in Cells : next.cells[c] = IF c = r.write_ptr THEN word ELSE r.cells[c]
  BY DEF WriteWord, RingHolds
<1>4. ASSUME n + 1 < W
      PROVE  next.write_ptr = IF write_ptr + (n + 1) < W THEN write_ptr + (n + 1)
                                                         ELSE write_ptr + (n + 1) - W
  <2>1. r.write_ptr = IF write_ptr + n < W THEN write_ptr + n ELSE write_ptr + n - W
    BY <1>1, <1>4 DEF RingHolds
  <2> HIDE DEF next
  <2>2. QED
    BY <1>1, <1>2, <1>4, <2>1
<1>5. ASSUME NEW c \in Cells, Ahead(c) < n + 1 PROVE next.cells[c] \in T
  <2>1. CASE c = r.write_ptr
    BY <1>3, <2>1
  <2>2. CASE c # r.write_ptr
    <3>1. Ahead(c) < n
      <4>1. c \in 0 .. W - 1 /\ Ahead(c) \in 0 .. W - 1
        BY <1>1 DEF Cells, Ahead
      <4>2. CASE n >= W
        BY <1>1, <4>1, <4>2
      <4>3. CASE n < W
        <5>1. r.write_ptr = IF write_ptr + n < W THEN write_ptr + n ELSE write_ptr + n - W
          BY <4>3 DEF RingHolds
        <5>2. Ahead(c) # n
          BY <1>1, <2>2, <4>1, <4>3, <5>1 DEF Ahead
        <5>3. QED
          BY <1>5, <4>1, <5>2
      <4>4. QED
        BY <1>1, <4>2, <4>3
    <3>2. QED
      BY <1>3, <2>2, <3>1 DEF RingHolds
  <2>3. QED
    BY <2>1, <2>2
<1> HIDE DEF next
<1>6. RingHolds(next, n + 1, T)
  BY <1>2, <1>3, <1>4, <1>5 DEF RingHolds
<1>7. QED
  BY <1>6 DEF next

LEMMA RowWritten ==
    ASSUME write_ptr \in Cells, cells = [c \in Cells |-> cells[c]], NEW T, NEW row,
           Len(row) \in Nat, Len(row) >= W, \A n \in 1 .. Len(row) : row[n] \in T
    PROVE  /\ RingAfter(row).write_ptr \in Cells
           /\ RingAfter(row).cells = [c \in Cells |-> RingAfter(row).cells[c]]
           /\ \A c \in Cells : RingAfter(row).cells[c] \in T
<1> DEFINE L == Len(row)
           start == [cells |-> cells, write_ptr |-> write_ptr]
           Rings(f) == f = [n \in 0 .. L |->
                              IF n = 0 THEN start ELSE WriteWord(f[n - 1], row[n])]
<1>1. W \in Nat /\ W > 0 /\ L \in Nat
  BY DEF W
<1>2. \E f : Rings(f)
  <2> DEFINE U == T \cup {cells[c] : c \in Cells}
             State == RingState(U)
             step == [p \in State \X (1 .. L) |-> WriteWord(p[1], row[p[2]])]
  <2>1. start \in State
    BY DEF RingState
  <2>2. step \in [State \X (1 .. L) -> State]
    <3> SUFFICES ASSUME NEW r \in State, NEW n \in 1 .. L
                 PROVE  WriteWord(r, row[n]) \in State
      OBVIOUS
    <3>1. row[n] \in U /\ r.write_ptr \in Cells /\ r.cells \in [Cells -> U]
      BY DEF RingState
    <3>2. [r.cells EXCEPT ![r.write_ptr] = row[n]] \in [Cells -> U]
      BY <3>1
    <3>3. (r.write_ptr + 1) % W \in Cells
      BY <3>1, NextCell
    <3>4. QED
      BY <3>2, <3>3 DEF WriteWord, RingState, W
  <2>3. \A r \in State, n \in 1 .. L : step[<<r, n>>] = WriteWord(r, row[n])
    <3> HIDE DEF State
    <3>1. QED
      OBVIOUS
  <2> HIDE DEF State, step, start
  <2>4. PICK f \in [0 .. L -> State] : Iterates(f, start, step, L)
    BY <1>1, <2>1, <2>2, RecursionExists
  <2>5. \A n \in 1 .. L : f[n] = WriteWord(f[n - 1], row[n])
    <3> SUFFICES ASSUME NEW n \in 1 .. L PROVE f[n] = WriteWord(f[n - 1], row[n])
      OBVIOUS
    <3>1. n - 1 \in 0 .. L /\ f[n - 1] \in State
      BY <1>1
    <3>2. f[n] = step[<<f[n - 1], n>>]
      BY <2>4 DEF Iterates
    <3>3. step[<<f[n - 1], n>>] = WriteWord(f[n - 1], row[n])
      BY <3>1, <2>3
    <3>4. QED
      BY <3>2, <3>3
  <2>6. f[0] = start
    BY <2>4 DEF Iterates
  <2>7. \A n \in 0 .. L : f[n] = IF n = 0 THEN start ELSE WriteWord(f[n - 1], row[n])
    BY <1>1, <2>5, <2>6
  <2>8. Rings(f)
    BY <2>4, <2>7
  <2>9. QED
    BY <2>8
<1>3. ASSUME NEW f, Rings(f) PROVE RingHolds(f[L], L, T)
  <2> DEFINE S == {n \in Nat : n <= L => RingHolds(f[n], n, T)}
  <2>1. 0 \in S
    <3>1. f[0] = start
      BY <1>1, <1>3
    <3>2. \A c \in Cells : ~(Ahead(c) < 0)
      BY <1>1 DEF Ahead, Cells
    <3>3. write_ptr + 0 < W /\ write_ptr + 0 = write_ptr
      BY <1>1 DEF Cells
    <3>4. start.cells = [c \in Cells |-> start.cells[c]] /\ start.write_ptr = write_ptr
      OBVIOUS
    <3> HIDE DEF start
    <3>5. RingHolds(start, 0, T)
      BY <3>2, <3>3, <3>4 DEF RingHolds
    <3>6. QED
      BY <3>1, <3>5
  <2>2. ASSUME NEW n \in Nat, n \in S PROVE n + 1 \in S
    <3> SUFFICES ASSUME n + 1 <= L PROVE RingHolds(f[n + 1], n + 1, T)
      OBVIOUS
    <3> PICK m \in 1 .. L : m = n + 1 /\ m - 1 = n /\ m # 0 /\ m \in 0 .. L
      BY <1>1
    <3>1. RingHolds(f[n], n, T)
      BY <1>1, <2>2
    <3>2. row[m] \in T
      OBVIOUS
    <3> HIDE DEF L, start
    <3>3. f[m] = WriteWord(f[n], row[m])
      BY <1>3
    <3>4. QED
      BY <3>1, <3>2, <3>3, WordWritten
  <2>3. L \in S
    <3> HIDE DEF S, L
    <3>1. QED
      BY <1>1, <2>1, <2>2, NatSetInduction
  <2>4. QED
    BY <1>1, <2>3
<1>4. RingAfter(row) = (CHOOSE f : Rings(f))[L]
  BY DEF RingAfter
<1>5. RingHolds(RingAfter(row), L, T)
  <2> HIDE DEF Rings, L
  <2>1. QED
    BY <1>2, <1>3, <1>4
<1>6. \A c \in Cells : Ahead(c) < L
  BY <1>1 DEF Ahead, Cells
<1>7. QED
  BY <1>5, <1>6 DEF RingHolds
-----------------------------------------------------------------------------
(* What an image row leaves: a result of that row alone, although the adder *)
(* may still hold products of the row before when it begins.                *)

\* The slave p after n products of T.
SlaveHolds(p, n, T) ==
    /\ p.read_ptr \in Cells
    /\ Len(p.sum) \in 0 .. W - 1
    /\ HasTerms(p.sum, Len(p.sum))
    /\ \A k \in 1 .. Len(p.sum) : k > Len(p.sum) - n => p.sum[k] \in T
    /\ n >= Len(p.sum) + W => p.result \in [1 .. W -> T]

LEMMA WordMultiplied ==
    ASSUME NEW n \in Nat, NEW T, NEW p, SlaveHolds(p, n, T), NEW word,
           \A c \in Cells : <<cells[c], word>> \in T
    PROVE  SlaveHolds(MultiplyWord(p, word), n + 1, T)
<1> DEFINE l == Len(p.sum)
           longer == Append(p.sum, <<cells[p.read_ptr], word>>)
           next == MultiplyWord(p, word)
<1>1. W \in Nat /\ W > 0 /\ l \in 0 .. W - 1 /\ p.read_ptr \in Cells
  BY DEF W, SlaveHolds
<1>2. /\ Len(longer) = l + 1 /\ HasTerms(longer, l + 1)
      /\ \A k \in 1 .. l : longer[k] = p.sum[k]
      /\ longer[l + 1] = <<cells[p.read_ptr], word>>
  BY <1>1, Appended DEF SlaveHolds
<1>3. ASSUME NEW k \in 1 .. l + 1, k > l - n PROVE longer[k] \in T
  <2>1. CASE k = l + 1
    BY <1>1, <1>2, <2>1
  <2>2. CASE k # l + 1
    <3>1. k \in 1 .. l
      BY <1>1, <2>2
    <3>2. QED
      BY <1>2, <1>3, <3>1 DEF SlaveHolds
  <2>3. QED
    BY <2>1, <2>2
<1>4. /\ next.read_ptr = (p.read_ptr + 1) % W
      /\ next.sum = IF l + 1 = W THEN <<>> ELSE longer
      /\ next.result = IF l + 1 = W THEN longer ELSE p.result
  <2> HIDE DEF longer
  <2>1. MultiplyWord(p, word) =
          [read_ptr |-> (p.read_ptr + 1) % W,
           sum      |-> IF Len(longer) = W THEN <<>> ELSE longer,
           result   |-> IF Len(longer) = W THEN longer ELSE p.result]
    BY DEF MultiplyWord, W, longer
  <2>2. QED
    BY <1>2, <2>1
<1>5. next.read_ptr \in Cells
  BY <1>1, <1>4, NextCell
<1> HIDE DEF next, longer
<1>6. CASE l + 1 = W
  <2>1. next.sum = <<>> /\ Len(next.sum) = 0 /\ HasTerms(next.sum, 0)
    BY <1>4, <1>6 DEF HasTerms
  <2>2. ASSUME n + 1 >= 0 + W PROVE next.result \in [1 .. W -> T]
    <3>1. \A k \in 1 .. W : longer[k] \in T
      BY <1>1, <1>3, <1>6, <2>2
    <3>2. next.result = [k \in 1 .. W |-> longer[k]]
      BY <1>2, <1>4, <1>6 DEF HasTerms
    <3>3. QED
      BY <3>1, <3>2
  <2>3. SlaveHolds(next, n + 1, T)
    BY <1>1, <1>5, <2>1, <2>2 DEF SlaveHolds
  <2>4. QED
    BY <2>3 DEF next
<1>7. CASE l + 1 # W
  <2>1. next.sum = longer /\ Len(next.sum) = l + 1 /\ l + 1 \in 0 .. W - 1
    BY <1>1, <1>2, <1>4, <1>7
  <2>2. \A k \in 1 .. l + 1 : k > (l + 1) - (n + 1) => next.sum[k] \in T
    BY <1>1, <1>3, <2>1
  <2>3. ASSUME n + 1 >= (l + 1) + W PROVE next.result \in [1 .. W -> T]
    <3>1. n >= l + W
      BY <1>1, <2>3
    <3>2. QED
      BY <1>4, <1>7, <3>1 DEF SlaveHolds
  <2>4. SlaveHolds(next, n + 1, T)
    BY <1>2, <1>5, <2>1, <2>2, <2>3 DEF SlaveHolds
  <2>5. QED
    BY <2>4 DEF next
<1>8. QED
  BY <1>6, <1>7

LEMMA RowMultiplied ==
    ASSUME read_ptr \in Cells, Len(sum) \in 0 .. W - 1, HasTerms(sum, Len(sum)),
           NEW T, NEW row, Len(row) \in Nat, Len(row) >= 2 * W - 1,
           \A c \in Cells, n \in 1 .. Len(row) : <<cells[c], row[n]>> \in T
    PROVE  LET after == ProductAfter(row)
           IN  /\ after.read_ptr \in Cells
               /\ Len(after.sum) \in 0 .. W - 1 /\ HasTerms(after.sum, Len(after.sum))
               /\ after.result \in [1 .. W -> T]
<1> DEFINE L == Len(row)
           start == [read_ptr |-> read_ptr, sum |-> sum, result |-> result]
           Runs(f) == f = [n \in 0 .. L |->
                             IF n = 0 THEN start ELSE MultiplyWord(f[n - 1], row[n])]
<1>1. W \in Nat /\ W > 0 /\ L \in Nat
  BY DEF W
<1>2. \E f : Runs(f)
  <2> DEFINE U == {sum[k] : k \in 1 .. Len(sum)}
                   \cup {cells[c] : c \in Cells} \X {row[n] : n \in 1 .. L}
             State == [read_ptr : Cells, sum : Seq(U), result : Seq(U) \cup {result}]
             step == [q \in State \X (1 .. L) |-> MultiplyWord(q[1], row[q[2]])]
  <2>1. start \in State
    <3>1. [k \in 1 .. Len(sum) |-> sum[k]] \in Seq(U)
      OBVIOUS
    <3>2. sum \in Seq(U)
      BY <3>1 DEF HasTerms
    <3>3. QED
      BY <3>2
  <2>2. ASSUME NEW r \in State, NEW n \in 1 .. L
        PROVE  MultiplyWord(r, row[n]) \in State
    <3>1. r.read_ptr \in Cells /\ r.sum \in Seq(U) /\ r.result \in Seq(U) \cup {result}
      <4> HIDE DEF U
      <4>1. QED
        OBVIOUS
    <3>2. <<cells[r.read_ptr], row[n]>> \in U
      <4> HIDE DEF State
      <4>1. cells[r.read_ptr] \in {cells[c] : c \in Cells} /\ row[n] \in {row[k] : k \in 1 .. L}
        BY <3>1
      <4>2. QED
        BY <4>1
    <3> HIDE DEF U
    <3>3. Append(r.sum, <<cells[r.read_ptr], row[n]>>) \in Seq(U) /\ <<>> \in Seq(U)
      BY <3>1, <3>2
    <3>4. (r.read_ptr + 1) % W \in Cells
      BY <3>1, NextCell
    <3>5. QED
      BY <3>1, <3>3, <3>4 DEF MultiplyWord, W
  <2> HIDE DEF State
  <2>3. step \in [State \X (1 .. L) -> State]
    BY <2>2
  <2>4. \A r \in State, n \in 1 .. L : step[<<r, n>>] = MultiplyWord(r, row[n])
    OBVIOUS
  <2> HIDE DEF step, start
  <2>5. PICK f \in [0 .. L -> State] : Iterates(f, start, step, L)
    BY <1>1, <2>1, <2>3, RecursionExists
  <2>6. \A n \in 1 .. L : f[n] = MultiplyWord(f[n - 1], row[n])
    <3> SUFFICES ASSUME NEW n \in 1 .. L PROVE f[n] = MultiplyWord(f[n - 1], row[n])
      OBVIOUS
    <3>1. n - 1 \in 0 .. L /\ f[n - 1] \in State
      BY <1>1
    <3>2. f[n] = step[<<f[n - 1], n>>]
      BY <2>5 DEF Iterates
    <3>3. step[<<f[n - 1], n>>] = MultiplyWord(f[n - 1], row[n])
      BY <3>1, <2>4
    <3>4. QED
      BY <3>2, <3>3
  <2>7. f[0] = start
    BY <2>5 DEF Iterates
  <2>8. \A n \in 0 .. L : f[n] = IF n = 0 THEN start ELSE MultiplyWord(f[n - 1], row[n])
    BY <1>1, <2>6, <2>7
  <2>9. Runs(f)
    BY <2>5, <2>8
  <2>10. QED
    BY <2>9
<1>3. ASSUME NEW f, Runs(f) PROVE SlaveHolds(f[L], L, T)
  <2> DEFINE S == {n \in Nat : n <= L => SlaveHolds(f[n], n, T)}
  <2>1. 0 \in S
    <3>1. f[0] = start
      BY <1>1, <1>3
    <3>2. start.read_ptr = read_ptr /\ start.sum = sum
      OBVIOUS
    <3> HIDE DEF start
    <3>3. ~(0 >= Len(sum) + W) /\ \A k \in 1 .. Len(sum) : ~(k > Len(sum) - 0)
      BY <1>1
    <3>4. SlaveHolds(start, 0, T)
      BY <3>2, <3>3 DEF SlaveHolds
    <3>5. QED
      BY <3>1, <3>4
  <2>2. ASSUME NEW n \in Nat, n \in S PROVE n + 1 \in S
    <3> SUFFICES ASSUME n + 1 <= L PROVE SlaveHolds(f[n + 1], n + 1, T)
      OBVIOUS
    <3> PICK m \in 1 .. L : m = n + 1 /\ m - 1 = n /\ m # 0 /\ m \in 0 .. L
      BY <1>1
    <3>1. SlaveHolds(f[n], n, T)
      BY <1>1, <2>2
    <3>2. \A c \in Cells : <<cells[c], row[m]>> \in T
      OBVIOUS
    <3> HIDE DEF L, start
    <3>3. f[m] = MultiplyWord(f[n], row[m])
      BY <1>3
    <3>4. QED
      BY <3>1, <3>2, <3>3, WordMultiplied
  <2>3. L \in S
    <3> HIDE DEF S, L
    <3>1. QED
      BY <1>1, <2>1, <2>2, NatSetInduction
  <2>4. QED
    BY <1>1, <2>3
<1>4. ProductAfter(row) = (CHOOSE f : Runs(f))[L]
  BY DEF ProductAfter
<1> DEFINE after == ProductAfter(row)
<1>5. SlaveHolds(after, L, T)
  <2> HIDE DEF Runs, L
  <2>1. QED
    BY <1>2, <1>3, <1>4
<1> HIDE DEF after
<1>6. L >= Len(after.sum) + W
  BY <1>1, <1>5 DEF SlaveHolds
<1>7. QED
  BY <1>5, <1>6 DEF SlaveHolds, after
-----------------------------------------------------------------------------
(***************************************************************************)
(* The inductive invariant.                                                *)
(***************************************************************************)
\* The loops have been at an element: its tile row or tile is finished, or it is
\* before the current element in the current tile.
Done(r, c) ==
  \/ pc = "done"
  \/ r < i
  \/ /\ r < TileEnd(M, i)
     /\ \/ c < j
        \/ c < TileEnd(N, j) /\ (r < ii \/ (r = ii /\ c < jj))

LoopInv ==
  /\ shape \in Shapes
  /\ pc \in {"row", "element", "read", "done"}
  /\ i \in Nat /\ j \in Nat /\ ii \in Nat /\ jj \in Nat
  /\ TypeOK
  /\ pc = "read" => Offloaded

\* An element has its sum if the loops have been at it, and nothing before.
ElementInv ==
  /\ C = [e \in Elements(shape) |-> C[e]]
  /\ \A r \in 0 .. M - 1, c \in 0 .. N - 1 :
       IF Done(r, c) THEN \E s : C[<<r, c>>] = <<s>> /\ OwnSum(s, <<r, c>>)
                     ELSE C[<<r, c>>] = <<>>

\* The words of a row.
Words(row) == {row[k] : k \in 1 .. K}

\* Wherever the pointers are and whatever the adder holds of the row before: within
\* a row of A every cell holds a word of that row, and a result is of the two rows
\* of its element.
SlaveInv ==
  /\ write_ptr \in Cells /\ read_ptr \in Cells
  /\ cells = [c \in Cells |-> cells[c]]
  /\ Len(sum) \in 0 .. W - 1 /\ HasTerms(sum, Len(sum))
  /\ pc \in {"element", "read"} /\ Offloaded => \A c \in Cells : cells[c] \in Words(A(ii))
  /\ pc = "read" => result \in [1 .. W -> OwnProducts(<<ii, jj>>)]

MlpInv == LoopInv /\ ElementInv /\ SlaveInv

\* M, N and K of a call.
LEMMA Dimensions ==
    ASSUME shape \in Shapes
    PROVE  M \in Nat \ {0} /\ N \in Nat \ {0} /\ K \in Nat \ {0}
  BY DEF M, N, K

\* The end of a tile that begins inside the matrix.
LEMMA EndOfTile ==
    ASSUME NEW n \in Nat, NEW from \in Nat
    PROVE  /\ TileEnd(n, from) \in Nat /\ TileEnd(n, from) <= n
           /\ from < n => from < TileEnd(n, from)
           /\ from + Tile < n => TileEnd(n, from) = from + Tile
           /\ from + Tile >= n => TileEnd(n, from) = n
  BY DEF TileEnd

\* Where the loops are, as they go: one more element is done.
Passes == \A r \in 0 .. M - 1, c \in 0 .. N - 1 :
            Done(r, c)' <=> Done(r, c) \/ (r = ii /\ c = jj)

LEMMA ElementsShape ==
    ASSUME UNCHANGED shape
    PROVE  M' = M /\ N' = N /\ K' = K
  BY DEF M, N, K

\* After an element of which nothing was known, Advance goes to one that is not
\* done, or ends the call with all of them done.
LEMMA AdvanceStep ==
    ASSUME LoopInv, pc # "done", Advance, UNCHANGED shape, DOMAIN C' = DOMAIN C
    PROVE  /\ LoopInv' /\ Passes /\ ~Done(ii, jj)
           /\ pc' # "read" /\ (pc' = "element" => ii' = ii)
<1> DEFINE m == M
           n == N
           mi == TileEnd(M, i)
           nj == TileEnd(N, j)
<1>1. m \in Nat /\ m > 0 /\ n \in Nat /\ n > 0 /\ Tile \in Nat /\ Tile > 0
  BY Dimensions DEF LoopInv
<1>2. /\ i \in Nat /\ j \in Nat /\ ii \in Nat /\ jj \in Nat
      /\ i <= ii /\ ii < mi /\ j <= jj /\ jj < nj /\ mi <= m /\ nj <= n
      /\ mi \in Nat /\ nj \in Nat
  <2>1. mi <= m /\ nj <= n /\ mi \in Nat /\ nj \in Nat
    BY <1>1, EndOfTile DEF LoopInv
  <2> HIDE DEF m, n, mi, nj
  <2>2. ii \in i .. mi - 1 /\ jj \in j .. nj - 1
    BY DEF LoopInv, TypeOK, m, n, mi, nj
  <2>3. i \in Nat /\ j \in Nat /\ ii \in Nat /\ jj \in Nat
    BY DEF LoopInv
  <2>4. QED
    BY <2>1, <2>2, <2>3
<1>3. M' = m /\ N' = n /\ Elements(shape)' = Elements(shape)
  BY ElementsShape
<1>4. ~Done(ii, jj)
  BY <1>2 DEF Done
<1> SUFFICES /\ i' \in Nat /\ j' \in Nat /\ ii' \in Nat /\ jj' \in Nat
             /\ i' <= ii' /\ ii' < TileEnd(m, i') /\ j' <= jj' /\ jj' < TileEnd(n, j')
             /\ pc' \in {"row", "element", "done"}
             /\ pc' = "element" => ii' = ii
             /\ Passes
  <2>1. TileEnd(m, i') <= m /\ TileEnd(n, j') <= n /\ TileEnd(m, i') \in Nat /\ TileEnd(n, j') \in Nat
    BY <1>1, EndOfTile
  <2>2. TypeOK'
    BY <1>1, <1>3, <2>1 DEF TypeOK, LoopInv
  <2>3. QED
    BY <1>3, <1>4, <2>2 DEF LoopInv
<1>5. CASE jj + 1 < nj
  <2>1. jj' = jj + 1 /\ pc' = "element" /\ i' = i /\ j' = j /\ ii' = ii
    BY <1>5 DEF Advance
  <2>2. Passes
    BY <1>1, <1>2, <1>3, <1>5, <2>1 DEF Passes, Done
  <2>3. QED
    BY <1>1, <1>2, <1>5, <2>1, <2>2
<1>6. CASE ~(jj + 1 < nj) /\ ii + 1 < mi
  <2>1. ii' = ii + 1 /\ jj' = j /\ pc' = "row" /\ i' = i /\ j' = j
    BY <1>6 DEF Advance
  <2>2. Passes
    BY <1>1, <1>2, <1>3, <1>6, <2>1 DEF Passes, Done
  <2>3. QED
    BY <1>1, <1>2, <1>6, <2>1, <2>2
<1>7. CASE ~(jj + 1 < nj) /\ ~(ii + 1 < mi) /\ j + Tile < n
  <2>1. j' = j + Tile /\ jj' = j + Tile /\ ii' = i /\ pc' = "row" /\ i' = i
    BY <1>7 DEF Advance
  <2>2. nj = j + Tile /\ j' \in Nat /\ j' < TileEnd(n, j') /\ i < mi /\ TileEnd(n, j') \in Nat
    BY <1>1, <1>2, <1>7, <2>1, EndOfTile
  <2>3. Passes
    <3> HIDE DEF mi, nj, m, n
    <3>1. \A r, c : Done(r, c)' <=> \/ r < i
                                    \/ r < mi /\ (c < j' \/ (c < TileEnd(n, j') /\ (r < i \/ (r = i /\ c < j'))))
      BY <1>3, <2>1 DEF Done, m, n, mi
    <3>2. \A r, c : Done(r, c) <=> \/ r < i
                                   \/ r < mi /\ (c < j \/ (c < nj /\ (r < ii \/ (r = ii /\ c < jj))))
      BY DEF Done, m, n, mi, nj
    <3>3. QED
      BY <1>1, <1>2, <1>7, <2>1, <2>2, <3>1, <3>2 DEF Passes, m, n
  <2>4. QED
    BY <1>1, <1>2, <1>7, <2>1, <2>2, <2>3
<1>8. CASE ~(jj + 1 < nj) /\ ~(ii + 1 < mi) /\ ~(j + Tile < n) /\ i + Tile < m
  <2>1. i' = i + Tile /\ ii' = i + Tile /\ j' = 0 /\ jj' = 0 /\ pc' = "row"
    BY <1>8 DEF Advance
  <2>2. /\ mi = i + Tile /\ nj = n /\ i' \in Nat /\ i' < TileEnd(m, i')
        /\ 0 < TileEnd(n, 0) /\ TileEnd(m, i') \in Nat /\ TileEnd(n, 0) \in Nat
    BY <1>1, <1>2, <1>8, <2>1, EndOfTile
  <2>3. Passes
    <3> HIDE DEF mi, nj, m, n
    <3>1. \A r \in Nat, c \in Nat : Done(r, c)' <=> r < i'
      <4> HIDE DEF m, n
      <4>1. \A r, c : Done(r, c)' <=>
              \/ r < i'
              \/ r < TileEnd(m, i') /\ (c < 0 \/ (c < TileEnd(n, 0) /\ (r < i' \/ (r = i' /\ c < 0))))
        BY <1>3, <2>1 DEF Done
      <4>2. QED
        BY <2>2, <4>1
    <3>2. \A r, c : Done(r, c) <=> \/ r < i
                                   \/ r < mi /\ (c < j \/ (c < nj /\ (r < ii \/ (r = ii /\ c < jj))))
      BY DEF Done, m, n, mi, nj
    <3>3. QED
      BY <1>1, <1>2, <1>8, <2>1, <2>2, <3>1, <3>2 DEF Passes, m, n
  <2>4. QED
    BY <1>1, <1>2, <1>8, <2>1, <2>2, <2>3
<1>9. CASE ~(jj + 1 < nj) /\ ~(ii + 1 < mi) /\ ~(j + Tile < n) /\ ~(i + Tile < m)
  <2>1. pc' = "done" /\ i' = i /\ j' = j /\ ii' = ii /\ jj' = jj
    BY <1>9 DEF Advance
  <2>2. mi = m /\ nj = n
    BY <1>1, <1>2, <1>9, EndOfTile
  <2>3. Passes
    BY <1>1, <1>2, <1>3, <1>9, <2>1, <2>2 DEF Passes, Done
  <2>4. QED
    BY <1>1, <1>2, <2>1, <2>3
<1>10. QED
  BY <1>5, <1>6, <1>7, <1>8, <1>9

\* A transfer has at least 2 W - 1 words.
LEMMA TransferLength ==
    ASSUME LoopInv, Offloaded, NEW row
    PROVE  /\ W \in Nat /\ W > 0 /\ K = OffloadLen /\ K \in Nat /\ K >= W /\ K >= 2 * W - 1
           /\ Len(A(row)) = K /\ Len(B(row)) = K
  BY DEF Offloaded, W, A, B

\* What a sum is made of depends on the shape only.
LEMMA SameSums ==
    ASSUME UNCHANGED shape
    PROVE  \A s, e : (OwnSum(s, e))' <=> OwnSum(s, e)
  BY DEF OwnProducts, OwnSum, Offloaded, A, B, K

LEMMA MlpInit == ASSUME Init PROVE MlpInv
<1>1. M \in Nat \ {0} /\ N \in Nat \ {0}
  BY Dimensions DEF Init
<1>2. TileEnd(M, 0) \in 1 .. M /\ TileEnd(N, 0) \in 1 .. N
  <2>1. \A n \in Nat \ {0} : TileEnd(n, 0) \in 1 .. n
    BY DEF TileEnd
  <2>2. QED
    BY <1>1, <2>1
<1>3. LoopInv
  BY <1>1, <1>2 DEF Init, LoopInv, TypeOK
<1>4. ElementInv
  <2>1. \A r \in 0 .. M - 1, c \in 0 .. N - 1 : ~Done(r, c) /\ <<r, c>> \in Elements(shape)
    BY <1>1, <1>2 DEF Init, Done, Elements, M, N
  <2>2. QED
    BY <2>1 DEF Init, ElementInv
<1>5. SlaveInv
  <2>1. W \in Nat /\ W > 0 /\ 0 \in Cells
    BY DEF W, Cells
  <2>2. sum = <<>> /\ Len(sum) = 0 /\ HasTerms(sum, 0)
    BY DEF Init, HasTerms
  <2>3. cells = [c \in Cells |-> cells[c]]
    BY DEF Init, Cells, W
  <2>4. QED
    BY <2>1, <2>2, <2>3 DEF Init, SlaveInv
<1>6. QED
  BY <1>3, <1>4, <1>5 DEF MlpInv

\* What a step that is not at the end of an element leaves alone.
LEMMA SameElements ==
    ASSUME LoopInv, ElementInv, UNCHANGED <<shape, C, i, j, ii, jj>>,
           pc # "done", pc' \in {"element", "read"}, pc' = "read" => Offloaded
    PROVE  LoopInv' /\ ElementInv'
<1>1. M' = M /\ N' = N /\ K' = K /\ Elements(shape)' = Elements(shape)
  BY ElementsShape
<1>2. LoopInv'
  BY <1>1 DEF LoopInv, TypeOK, Offloaded, TileEnd
<1>3. \A r, c : Done(r, c)' <=> Done(r, c)
  BY <1>1 DEF Done, TileEnd
<1>4. ElementInv'
  <2> HIDE DEF Done
  <2>1. QED
    BY <1>1, <1>3, SameSums DEF ElementInv
<1>5. QED
  BY <1>2, <1>4

LEMMA WeightBufferWriteInv ==
    ASSUME MlpInv, WeightBufferWrite
    PROVE  MlpInv'
<1>1. LoopInv /\ SlaveInv /\ ElementInv /\ Offloaded
  BY DEF MlpInv, WeightBufferWrite
<1>2. Len(A(ii)) \in Nat /\ Len(A(ii)) >= W /\ \A n \in 1 .. Len(A(ii)) : A(ii)[n] \in Words(A(ii))
  BY <1>1, TransferLength DEF Words
<1> DEFINE after == RingAfter(A(ii))
<1>3. /\ after.write_ptr \in Cells /\ after.cells = [c \in Cells |-> after.cells[c]]
      /\ \A c \in Cells : after.cells[c] \in Words(A(ii))
  BY <1>1, <1>2, RowWritten DEF SlaveInv
<1>4. /\ cells' = after.cells /\ write_ptr' = after.write_ptr
      /\ read_ptr' = read_ptr /\ sum' = sum /\ result' = result
      /\ pc' = "element" /\ ii' = ii /\ shape' = shape
  BY DEF WeightBufferWrite, TransferWeights
<1>5. LoopInv' /\ ElementInv'
  BY <1>1, SameElements DEF WeightBufferWrite
<1>6. Words(A(ii))' = Words(A(ii))
  BY <1>4 DEF Words, A, K
<1> HIDE DEF after
<1>7. SlaveInv'
  <2>1. \A c \in Cells : cells'[c] \in Words(A(ii))'
    BY <1>3, <1>4, <1>6
  <2>2. QED
    BY <1>1, <1>3, <1>4, <2>1 DEF SlaveInv, HasTerms
<1>8. QED
  BY <1>5, <1>7 DEF MlpInv

LEMMA ImageBufferWriteInv ==
    ASSUME MlpInv, ImageBufferWrite
    PROVE  MlpInv'
<1>1. LoopInv /\ SlaveInv /\ ElementInv /\ Offloaded /\ pc = "element"
  BY DEF MlpInv, ImageBufferWrite
<1> DEFINE T == OwnProducts(<<ii, jj>>)
           after == ProductAfter(B(jj))
<1>2. Len(B(jj)) = K /\ K \in Nat /\ K >= 2 * W - 1
  BY <1>1, TransferLength
<1>3. T = Words(A(ii)) \X Words(B(jj))
  BY DEF OwnProducts, Words
<1>4. \A c \in Cells, n \in 1 .. Len(B(jj)) : <<cells[c], B(jj)[n]>> \in T
  <2>1. \A n \in 1 .. K : B(jj)[n] \in Words(B(jj))
    BY DEF Words
  <2>2. \A c \in Cells : cells[c] \in Words(A(ii))
    BY <1>1 DEF SlaveInv
  <2> HIDE DEF T
  <2>3. QED
    BY <1>2, <1>3, <2>1, <2>2
<1>5. /\ after.read_ptr \in Cells
      /\ Len(after.sum) \in 0 .. W - 1 /\ HasTerms(after.sum, Len(after.sum))
      /\ after.result \in [1 .. W -> T]
  <2> HIDE DEF T
  <2>1. read_ptr \in Cells /\ Len(sum) \in 0 .. W - 1 /\ HasTerms(sum, Len(sum))
    BY <1>1 DEF SlaveInv
  <2>2. QED
    BY <1>2, <1>4, <2>1, RowMultiplied
<1>6. /\ read_ptr' = after.read_ptr /\ sum' = after.sum /\ result' = after.result
      /\ cells' = cells /\ write_ptr' = write_ptr
      /\ pc' = "read" /\ ii' = ii /\ jj' = jj /\ shape' = shape
  BY DEF ImageBufferWrite, TransferImage
<1>7. LoopInv' /\ ElementInv'
  BY <1>1, SameElements DEF ImageBufferWrite
<1>8. OwnProducts(<<ii, jj>>)' = T /\ Words(A(ii))' = Words(A(ii))
  BY <1>6 DEF OwnProducts, Words, A, B, K
<1> HIDE DEF after, T
<1>9. SlaveInv'
  <2>1. \A c \in Cells : cells'[c] \in Words(A(ii))'
    BY <1>1, <1>6, <1>8 DEF SlaveInv
  <2>2. result' \in [1 .. W -> OwnProducts(<<ii, jj>>)']
    BY <1>5, <1>6, <1>8
  <2>3. write_ptr' \in Cells /\ cells' = [c \in Cells |-> cells'[c]]
    BY <1>1, <1>6 DEF SlaveInv
  <2>4. read_ptr' \in Cells /\ Len(sum') \in 0 .. W - 1 /\ HasTerms(sum', Len(sum'))
    BY <1>5, <1>6
  <2>5. QED
    BY <2>1, <2>2, <2>3, <2>4 DEF SlaveInv, HasTerms
<1>10. QED
  BY <1>7, <1>9 DEF MlpInv

\* The end of an element that is given a sum of its own, by whoever computes it.
LEMMA ElementStep ==
    ASSUME MlpInv, pc # "done", NEW s, OwnSum(s, <<ii, jj>>), AddToElement(s), Advance,
           UNCHANGED <<shape, slave>>, pc = "read" \/ ~Offloaded
    PROVE  MlpInv'
<1>1. LoopInv /\ ElementInv /\ SlaveInv /\ M \in Nat \ {0} /\ N \in Nat \ {0}
  BY Dimensions DEF MlpInv, LoopInv
<1>2. /\ ii \in 0 .. M - 1 /\ jj \in 0 .. N - 1
      /\ \A r \in 0 .. M - 1, c \in 0 .. N - 1 : <<r, c>> \in DOMAIN C
  BY <1>1 DEF LoopInv, TypeOK, Elements, M, N
<1>3. /\ DOMAIN C' = DOMAIN C /\ C' = [e \in Elements(shape) |-> C'[e]]
      /\ \A r \in 0 .. M - 1, c \in 0 .. N - 1 :
           C'[<<r, c>>] = IF r = ii /\ c = jj THEN Append(C[<<r, c>>], s) ELSE C[<<r, c>>]
  BY <1>1, <1>2 DEF AddToElement, ElementInv, LoopInv, TypeOK
<1>4. LoopInv' /\ Passes /\ ~Done(ii, jj) /\ pc' # "read" /\ (pc' = "element" => ii' = ii)
  BY <1>1, <1>3, AdvanceStep
<1>5. M' = M /\ N' = N /\ K' = K /\ Elements(shape)' = Elements(shape)
  BY ElementsShape
<1>6. ElementInv'
  <2> SUFFICES ASSUME NEW r \in 0 .. M - 1, NEW c \in 0 .. N - 1
               PROVE  IF Done(r, c)' THEN \E t : C'[<<r, c>>] = <<t>> /\ OwnSum(t, <<r, c>>)
                                     ELSE C'[<<r, c>>] = <<>>
    BY <1>3, <1>5, SameSums DEF ElementInv
  <2>1. Done(r, c)' <=> Done(r, c) \/ (r = ii /\ c = jj)
    BY <1>4 DEF Passes
  <2>2. IF Done(r, c) THEN \E t : C[<<r, c>>] = <<t>> /\ OwnSum(t, <<r, c>>)
                      ELSE C[<<r, c>>] = <<>>
    BY <1>1 DEF ElementInv
  <2> HIDE DEF Done
  <2>3. CASE r = ii /\ c = jj
    <3>1. C'[<<r, c>>] = Append(<<>>, s)
      BY <1>3, <1>4, <2>2, <2>3
    <3>2. C'[<<r, c>>] = <<s>> /\ OwnSum(s, <<r, c>>)
      BY <2>3, <3>1
    <3>3. QED
      BY <2>1, <2>3, <3>2
  <2>4. CASE ~(r = ii /\ c = jj)
    BY <1>3, <2>1, <2>2, <2>4
  <2>5. QED
    BY <2>3, <2>4
<1>7. SlaveInv'
  <2>1. pc' \in {"element", "read"} /\ Offloaded' => pc = "read" /\ Offloaded /\ ii' = ii
    BY <1>1, <1>4, <1>5 DEF LoopInv, Offloaded
  <2>2. pc' \in {"element", "read"} /\ Offloaded' => \A c \in Cells : cells'[c] \in Words(A(ii))'
    <3> SUFFICES ASSUME pc' \in {"element", "read"}, Offloaded'
                 PROVE  \A c \in Cells : cells'[c] \in Words(A(ii))'
      OBVIOUS
    <3>1. Words(A(ii))' = Words(A(ii))
      BY <1>5, <2>1 DEF Words, A
    <3>2. \A c \in Cells : cells[c] \in Words(A(ii))
      BY <1>1, <2>1 DEF SlaveInv
    <3>3. QED
      BY <3>1, <3>2 DEF slave
  <2>3. QED
    BY <1>1, <1>4, <2>2 DEF SlaveInv, slave, HasTerms
<1>8. QED
  BY <1>4, <1>6, <1>7 DEF MlpInv

LEMMA CallInv ==
    ASSUME MlpInv, NEW s \in Shapes, Call(s)
    PROVE  MlpInv'
<1>1. M' \in Nat \ {0} /\ N' \in Nat \ {0}
  BY DEF Call, M, N
<1>2. TileEnd(M', 0) \in 1 .. M' /\ TileEnd(N', 0) \in 1 .. N'
  <2>1. \A n \in Nat \ {0} : TileEnd(n, 0) \in 1 .. n
    BY DEF TileEnd
  <2>2. QED
    BY <1>1, <2>1
<1>3. Elements(shape)' = Elements(s) /\ TileEnd(M, i)' = TileEnd(M', 0)
      /\ TileEnd(N, j)' = TileEnd(N', 0)
  BY DEF Call, TileEnd
<1>4. LoopInv'
  BY <1>1, <1>2, <1>3 DEF Call, LoopInv, TypeOK
<1>5. ElementInv'
  <2>1. \A r \in 0 .. M' - 1, c \in 0 .. N' - 1 : ~Done(r, c)' /\ <<r, c>> \in Elements(s)
    <3>1. M' = s[1] /\ N' = s[2]
      BY DEF Call, M, N
    <3>2. \A r \in 0 .. M' - 1, c \in 0 .. N' - 1 : ~Done(r, c)'
      BY <1>1, <1>2, <1>3 DEF Call, Done
    <3>3. QED
      BY <3>1, <3>2 DEF Elements
  <2>2. C' = [e \in Elements(s) |-> <<>>] /\ C' = [e \in Elements(s) |-> C'[e]]
    BY DEF Call
  <2> HIDE DEF Done
  <2>3. QED
    BY <1>3, <2>1, <2>2 DEF ElementInv
<1>6. SlaveInv'
  BY DEF MlpInv, SlaveInv, Call, slave, HasTerms
<1>7. QED
  BY <1>4, <1>5, <1>6 DEF MlpInv

LEMMA MlpStep ==
    ASSUME MlpInv, [Next]_vars
    PROVE  MlpInv'
<1>1. CASE WeightBufferWrite
  BY <1>1, WeightBufferWriteInv
<1>2. CASE ImageBufferWrite
  BY <1>2, ImageBufferWriteInv
<1>3. CASE ReadResult
  <2>1. OwnSum(result, <<ii, jj>>)
    BY <1>3 DEF ReadResult, MlpInv, SlaveInv, LoopInv, OwnSum, W
  <2>2. QED
    BY <1>3, <2>1, ElementStep DEF ReadResult
<1>4. CASE DotInSoftware
  <2>1. OwnSum(Dot(A(ii), B(jj)), <<ii, jj>>)
    BY <1>4 DEF DotInSoftware, OwnSum
  <2>2. QED
    BY <1>4, <2>1, ElementStep DEF DotInSoftware
<1>5. ASSUME NEW s \in Shapes, Call(s) PROVE MlpInv'
  BY <1>5, CallInv
<1>6. CASE UNCHANGED vars
  <2>1. M' = M /\ N' = N /\ K' = K /\ Elements(shape)' = Elements(shape) /\ pc' = pc
    BY <1>6, ElementsShape DEF vars, program
  <2>2. LoopInv'
    BY <1>6, <2>1 DEF MlpInv, LoopInv, TypeOK, Offloaded, TileEnd, vars, program
  <2>3. ElementInv'
    <3>1. \A r, c : Done(r, c)' <=> Done(r, c)
      BY <1>6, <2>1 DEF Done, TileEnd, vars, program
    <3>2. C' = C /\ ElementInv /\ UNCHANGED shape
      BY <1>6 DEF MlpInv, vars, program
    <3> HIDE DEF Done
    <3>3. QED
      BY <2>1, <3>1, <3>2, SameSums DEF ElementInv
  <2>4. SlaveInv'
    <3>1. /\ Offloaded' = Offloaded /\ Words(A(ii))' = Words(A(ii))
          /\ OwnProducts(<<ii, jj>>)' = OwnProducts(<<ii, jj>>)
      BY <1>6, <2>1 DEF Offloaded, Words, OwnProducts, A, B, vars, program
    <3>2. UNCHANGED slave /\ pc' = pc /\ SlaveInv
      BY <1>6 DEF MlpInv, vars, program
    <3>3. QED
      BY <3>1, <3>2 DEF SlaveInv, slave, HasTerms
  <2>5. QED
    BY <2>2, <2>3, <2>4 DEF MlpInv
<1>7. QED
  BY <1>1, <1>2, <1>3, <1>4, <1>5, <1>6 DEF Next

LEMMA MlpInvariant == Spec => []MlpInv
<1>1. Init => MlpInv
  BY MlpInit
<1>2. MlpInv /\ [Next]_vars => MlpInv'
  BY MlpStep
<1>3. QED
  BY <1>1, <1>2, PTL DEF Spec
-----------------------------------------------------------------------------
\* When a call returns, each element has been given one sum, of words of its own
\* two rows only, although ring, adder and result register are where the rows and
\* calls before left them (kautodiff.c:936-974 of the MLP program).
THEOREM ElementsOnce == Spec => []EachElementOnce
<1>1. ASSUME MlpInv PROVE EachElementOnce
  <2>1. TypeOK
    BY <1>1 DEF MlpInv, LoopInv
  <2>2. ASSUME pc = "done", NEW e \in Elements(shape)
        PROVE  Len(C[e]) = 1 /\ OwnSum(C[e][1], e)
    <3>1. e[1] \in 0 .. M - 1 /\ e[2] \in 0 .. N - 1 /\ e = <<e[1], e[2]>>
      BY DEF Elements, M, N
    <3>2. Done(e[1], e[2])
      BY <2>2 DEF Done
    <3> HIDE DEF Done
    <3>3. PICK s : C[<<e[1], e[2]>>] = <<s>> /\ OwnSum(s, <<e[1], e[2]>>)
      BY <1>1, <3>1, <3>2 DEF MlpInv, ElementInv
    <3>4. C[e] = <<s>> /\ OwnSum(s, e)
      BY <3>1, <3>3
    <3> HIDE DEF OwnSum
    <3>5. QED
      BY <3>4
  <2>3. QED
    BY <2>1, <2>2 DEF EachElementOnce
<1>2. QED
  BY <1>1, MlpInvariant, PTL
=============================================================================
