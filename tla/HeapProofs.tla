------------------------------ MODULE HeapProofs -----------------------------
(***************************************************************************)
(* The kernel heap keeps its blocks apart and leaks no bit, for every size *)
(* of the bitmap, every set of sizes and whatever lies behind the bitmap.  *)
(***************************************************************************)
EXTENDS Heap, TLAPS

\* The rounding in Alloc gives every block a bit, and none more than the
\* largest block.
LEMMA BitsBound ==
  ASSUME NEW n \in 0..MaxSize
  PROVE  BitsFor(n) \in 1..BitsFor(MaxSize)
BY HeapAssumption DEF BitsFor

\* The cells of the largest block are numbers, and so are all cells.
LEMMA CellFacts ==
  /\ BitsFor(MaxSize) \in Nat
  /\ Cell \subseteq Nat
  /\ \A c : c \in Cell <=> c \in Int /\ 0 <= c /\ c <= NBits + BitsFor(MaxSize)
<1>1. BitsFor(MaxSize) \in Nat
  BY HeapAssumption DEF BitsFor
<1>2. QED
  BY <1>1, HeapAssumption DEF Cell

\* The cells of a live block are cells, between the two zeros around them.
LEMMA BlockFacts ==
  ASSUME TypeOK, RunsAreBlocks, NEW b \in blocks
  PROVE  /\ b.start \in Nat /\ b.start >= 1
         /\ BitsFor(b.size) \in Nat /\ BitsFor(b.size) >= 1
         /\ b.start + BitsFor(b.size) \in Cell
         /\ b.start - 1 \in Cell
         /\ Cells(b) \subseteq Cell
<1>1. b.start \in Cell /\ b.size \in Sizes
  BY DEF TypeOK, Block
<1>2. BitsFor(b.size) \in 1..BitsFor(MaxSize)
  BY <1>1, BitsBound, HeapAssumption
<1>3. b.start >= 1 /\ b.start + BitsFor(b.size) \in Cell
  BY DEF RunsAreBlocks
<1> DEFINE n == BitsFor(b.size)
           m == BitsFor(MaxSize)
<1>4. Cells(b) = b.start..(b.start + n - 1)
  BY DEF Cells
<1>5. /\ m \in Nat /\ n \in 1..m /\ b.start \in Nat
      /\ \A c : c \in Cell <=> c \in Int /\ 0 <= c /\ c <= NBits + m
  BY <1>1, <1>2, CellFacts
<1> HIDE DEF n, m
<1>6. b.start - 1 \in Cell /\ Cells(b) \subseteq Cell
  <2>1. b.start >= 1 /\ b.start + n \in Cell
    BY <1>3 DEF n
  <2>2. b.start + n <= NBits + m
    BY <2>1, <1>5
  <2>3. b.start - 1 \in Int /\ 0 <= b.start - 1 /\ b.start - 1 <= NBits + m
    BY <1>5, <2>1, <2>2, HeapAssumption
  <2>4. ASSUME NEW c \in Cells(b)
        PROVE  c \in Int /\ 0 <= c /\ c <= NBits + m
    BY <1>4, <1>5, <2>2, HeapAssumption
  <2>5. QED
    BY <1>5, <2>3, <2>4
<1>7. QED
  BY <1>3, <1>5, <1>6 DEF n

\* The loop of DeAlloc, started at a live block, clears that block and no
\* other bit.
LEMMA RunIsBlock ==
  ASSUME TypeOK, RunsAreBlocks, NEW b \in blocks
  PROVE  RunFrom(b.start) = Cells(b)
<1> DEFINE n == BitsFor(b.size)
<1>1. /\ b.start \in Nat /\ n \in Nat /\ n >= 1
      /\ b.start + n \in Cell /\ Cells(b) \subseteq Cell
  BY BlockFacts
<1>2. bit[b.start + n] = 0 /\ \A c \in Cells(b) : bit[c] = 1
  BY DEF RunsAreBlocks
<1>3. Cells(b) = b.start..(b.start + n - 1)
  BY DEF Cells
<1> HIDE DEF n
<1>4. ASSUME NEW c \in RunFrom(b.start) PROVE c \in Cells(b)
  <2>1. c \in Nat /\ c >= b.start /\ \A d \in b.start..c : bit[d] = 1
    BY CellFacts DEF RunFrom
  <2>2. ~ (c >= b.start + n)
    BY <1>1, <1>2, <2>1
  <2>3. QED
    BY <1>1, <1>3, <2>1, <2>2
<1>5. ASSUME NEW c \in Cells(b) PROVE c \in RunFrom(b.start)
  <2>1. c \in Cell /\ c >= b.start
    BY <1>1, <1>3
  <2>2. \A d \in b.start..c : d \in Cells(b)
    BY <1>1, <1>3
  <2>3. QED
    BY <1>2, <2>1, <2>2 DEF RunFrom
<1>6. QED
  BY <1>4, <1>5

-----------------------------------------------------------------------------
(* The steps.                                                              *)

\* Starting a search, and every round of it that finds no room, leaves the
\* bitmap and the blocks alone.
LEMMA SearchStep ==
  ASSUME IInv,
         (\E n \in Sizes : Alloc(n)) \/ SkipUsed \/ SkipGap \/ SkipShort
  PROVE  IInv'
<1>1. UNCHANGED <<bit, blocks>>
  BY DEF Alloc, SkipUsed, SkipGap, SkipShort, MoveTo
<1>2. (RunsAreBlocks /\ BlocksDisjoint /\ NoLeak)'
  BY <1>1 DEF IInv, RunsAreBlocks, BlocksDisjoint, NoLeak, Cells, BitsFor
<1>3. TypeOK'
  <2>1. CASE \E n \in Sizes : Alloc(n)
    BY <2>1, HeapAssumption DEF Alloc, IInv, TypeOK
  <2>2. ASSUME NEW k \in Nat, mode = "scan", MoveTo(k) PROVE TypeOK'
    BY <2>2, HeapAssumption DEF MoveTo, IInv, TypeOK
  <2>3. CASE SkipUsed
    <3>1. i + 1 \in Nat
      BY DEF IInv, TypeOK
    <3>2. QED
      BY <2>2, <2>3, <3>1 DEF SkipUsed
  <2>4. CASE SkipGap
    <3>1. i + 1 \in Nat
      BY DEF IInv, TypeOK
    <3>2. QED
      BY <2>2, <2>4, <3>1 DEF SkipGap
  <2>5. CASE SkipShort
    <3>1. i \in Nat /\ size \in 0..MaxSize
      BY DEF IInv, TypeOK
    <3>2. Bits \in 1..BitsFor(MaxSize)
      BY <3>1, BitsBound DEF Bits
    <3>3. i + Bits \in Nat
      BY <3>1, <3>2, CellFacts
    <3>4. QED
      BY <2>2, <2>5, <3>3 DEF SkipShort
  <2>6. QED
    BY <2>1, <2>3, <2>4, <2>5
<1>4. QED
  BY <1>2, <1>3 DEF IInv

\* Alloc hands out free bits only, with a free bit before and behind them.
LEMMA TakeStep ==
  ASSUME IInv, Take
  PROVE  IInv'
<1> DEFINE n == BitsFor(size)
           m == BitsFor(MaxSize)
           new == [start |-> i + 1, size |-> size]
<1>1. /\ i \in Nat /\ i + 1 <= NBits /\ size \in Sizes /\ size \in 0..MaxSize
  BY HeapAssumption DEF IInv, TypeOK, Take
<1>2. n \in 1..m /\ m \in Nat /\ Bits = n
  BY <1>1, BitsBound, CellFacts DEF Bits
<1>3. /\ bit[i] = 0
      /\ \A j \in 0..n : bit[i + 1 + j] = 0
      /\ bit' = [c \in Cell |-> IF c \in (i + 1)..(i + n) THEN 1 ELSE bit[c]]
      /\ blocks' = blocks \cup {new}
      /\ mode' = "idle" /\ size' = size /\ i' = i
  BY <1>2 DEF Take, Fits
<1>4. \A c : c \in Cell <=> c \in Int /\ 0 <= c /\ c <= NBits + m
  BY CellFacts
<1>5. Cells(new) = (i + 1)..(i + 1 + n - 1) /\ new.start = i + 1 /\ new.size = size
  BY DEF Cells
<1>6. BitsFor(new.size) = n /\ new \in Block
  <2>1. i + 1 \in Cell
    BY <1>1, <1>2, <1>4, HeapAssumption
  <2>2. QED
    BY <1>1, <1>5, <2>1 DEF Block
<1> HIDE DEF n, m, new
<1>7. Cells(new) = (i + 1)..(i + n)
  BY <1>1, <1>2, <1>5
<1>8. \A c \in i..(i + 1 + n) : c \in Cell /\ bit[c] = 0
  <2> SUFFICES ASSUME NEW c \in i..(i + 1 + n) PROVE c \in Cell /\ bit[c] = 0
    OBVIOUS
  <2>1. c \in Cell
    BY <1>1, <1>2, <1>4, HeapAssumption
  <2>2. CASE c = i
    BY <1>3, <2>1, <2>2
  <2>3. CASE c # i
    <3>1. c - (i + 1) \in 0..n /\ i + 1 + (c - (i + 1)) = c
      BY <1>1, <1>2, <2>3
    <3>2. QED
      BY <1>3, <2>1, <3>1
  <2>4. QED
    BY <2>2, <2>3
<1>9. \A c \in Cell : bit'[c] = IF c \in Cells(new) THEN 1 ELSE bit[c]
  BY <1>3, <1>7
<1>10. ASSUME NEW b \in blocks
       PROVE  /\ Cells(b) \cap i..(i + 1 + n) = {}
              /\ b.start - 1 \notin Cells(new)
              /\ b.start + BitsFor(b.size) \notin Cells(new)
  <2> DEFINE q == BitsFor(b.size)
  <2>1. /\ b.start \in Nat /\ b.start >= 1 /\ q \in Nat /\ q >= 1
        /\ \A c \in Cells(b) : bit[c] = 1
    BY BlockFacts DEF IInv, RunsAreBlocks
  <2>2. Cells(b) = b.start..(b.start + q - 1)
    BY DEF Cells
  <2> HIDE DEF q
  <2>3. Cells(b) \cap i..(i + 1 + n) = {}
    BY <2>1, <1>8
  <2>4. b.start \in Cells(b) /\ b.start + q - 1 \in Cells(b)
    BY <2>1, <2>2
  <2>5. b.start \notin i..(i + 1 + n) /\ b.start + q - 1 \notin i..(i + 1 + n)
    BY <2>3, <2>4
  <2>6. b.start - 1 \notin Cells(new) /\ b.start + q \notin Cells(new)
    BY <1>1, <1>2, <1>7, <2>1, <2>5
  <2>7. QED
    BY <2>3, <2>6 DEF q
<1>11. TypeOK'
  BY <1>1, <1>3, <1>6 DEF IInv, TypeOK
<1>12. RunsAreBlocks'
  <2> SUFFICES ASSUME NEW b \in blocks'
               PROVE  /\ b.start >= 1
                      /\ b.start + BitsFor(b.size) \in Cell
                      /\ bit'[b.start - 1] = 0
                      /\ bit'[b.start + BitsFor(b.size)] = 0
                      /\ \A c \in Cells(b) : bit'[c] = 1
    BY DEF RunsAreBlocks, Cells, BitsFor
  <2>1. CASE b \in blocks
    <3>1. /\ b.start >= 1
          /\ b.start + BitsFor(b.size) \in Cell /\ b.start - 1 \in Cell
          /\ Cells(b) \subseteq Cell
      BY <2>1, BlockFacts DEF IInv
    <3>2. /\ bit[b.start - 1] = 0 /\ bit[b.start + BitsFor(b.size)] = 0
          /\ \A c \in Cells(b) : bit[c] = 1
      BY <2>1 DEF IInv, RunsAreBlocks
    <3>3. QED
      BY <1>9, <1>10, <2>1, <3>1, <3>2
  <2>2. CASE b = new
    <3>1. b.start = i + 1 /\ BitsFor(b.size) = n
      BY <1>5, <1>6, <2>2
    <3>2. /\ i \in Cell /\ i \notin Cells(new) /\ bit[i] = 0
          /\ i + 1 + n \in Cell /\ i + 1 + n \notin Cells(new) /\ bit[i + 1 + n] = 0
          /\ \A c \in Cells(new) : c \in Cell
      BY <1>1, <1>2, <1>7, <1>8
    <3>3. b.start - 1 = i /\ b.start >= 1
      BY <1>1, <3>1
    <3>4. QED
      BY <1>9, <2>2, <3>1, <3>2, <3>3
  <2>3. QED
    BY <1>3, <2>1, <2>2
<1>13. BlocksDisjoint'
  <2>1. \A b \in blocks : Cells(b) \cap Cells(new) = {}
    BY <1>1, <1>2, <1>7, <1>10
  <2>2. \A a, b \in blocks' : a # b => Cells(a) \cap Cells(b) = {}
    BY <1>3, <2>1 DEF IInv, BlocksDisjoint
  <2>3. QED
    BY <2>2 DEF BlocksDisjoint, Cells, BitsFor
<1>14. NoLeak'
  <2>1. \A c \in Cell : bit'[c] = 1 =>
          c \in Beyond \/ \E b \in blocks' : c \in Cells(b)
    BY <1>3, <1>9 DEF IInv, NoLeak
  <2>2. QED
    BY <2>1 DEF NoLeak, Cells, BitsFor
<1>15. QED
  BY <1>11, <1>12, <1>13, <1>14 DEF IInv

\* DeAlloc frees its block and nothing else.
LEMMA DeAllocStep ==
  ASSUME IInv, NEW b \in blocks, DeAlloc(b)
  PROVE  IInv'
<1>1. /\ bit' = [c \in Cell |-> IF c \in Cells(b) THEN 0 ELSE bit[c]]
      /\ blocks' = blocks \ {b}
      /\ UNCHANGED <<mode, size, i>>
  BY RunIsBlock DEF IInv, DeAlloc
<1>2. TypeOK'
  BY <1>1 DEF IInv, TypeOK
<1>3. RunsAreBlocks'
  <2> SUFFICES ASSUME NEW a \in blocks, a # b
               PROVE  /\ a.start >= 1
                      /\ a.start + BitsFor(a.size) \in Cell
                      /\ bit'[a.start - 1] = 0
                      /\ bit'[a.start + BitsFor(a.size)] = 0
                      /\ \A c \in Cells(a) : bit'[c] = 1
    BY <1>1 DEF RunsAreBlocks, Cells, BitsFor
  <2>1. /\ a.start >= 1
        /\ a.start + BitsFor(a.size) \in Cell /\ a.start - 1 \in Cell
        /\ Cells(a) \subseteq Cell
    BY BlockFacts DEF IInv
  <2>2. /\ bit[a.start - 1] = 0 /\ bit[a.start + BitsFor(a.size)] = 0
        /\ \A c \in Cells(a) : bit[c] = 1
    BY DEF IInv, RunsAreBlocks
  <2>3. Cells(a) \cap Cells(b) = {}
    BY DEF IInv, BlocksDisjoint
  <2>4. QED
    BY <1>1, <2>1, <2>2, <2>3
<1>4. BlocksDisjoint'
  <2>1. \A a, c \in blocks' : a # c => Cells(a) \cap Cells(c) = {}
    BY <1>1 DEF IInv, BlocksDisjoint
  <2>2. QED
    BY <2>1 DEF BlocksDisjoint, Cells, BitsFor
<1>5. NoLeak'
  <2>1. \A c \in Cell : bit'[c] = 1 =>
          c \in Beyond \/ \E a \in blocks' : c \in Cells(a)
    BY <1>1 DEF IInv, NoLeak
  <2>2. QED
    BY <2>1 DEF NoLeak, Cells, BitsFor
<1>6. QED
  BY <1>2, <1>3, <1>4, <1>5 DEF IInv

-----------------------------------------------------------------------------
(* The theorems.                                                           *)

\* The inductive invariant of the heap holds after every sequence of new and
\* delete.
THEOREM HeapInvariance == Spec => []IInv
<1>1. Init => IInv
  <2> SUFFICES ASSUME Init PROVE IInv
    OBVIOUS
  <2>1. TypeOK
    BY HeapAssumption DEF Init, TypeOK
  <2>2. RunsAreBlocks /\ BlocksDisjoint /\ NoLeak
    BY DEF Init, RunsAreBlocks, BlocksDisjoint, NoLeak
  <2>3. QED
    BY <2>1, <2>2 DEF IInv
<1>2. IInv /\ [Next]_vars => IInv'
  <2> SUFFICES ASSUME IInv, [Next]_vars PROVE IInv'
    OBVIOUS
  <2>1. CASE (\E n \in Sizes : Alloc(n)) \/ SkipUsed \/ SkipGap \/ SkipShort
    BY <2>1, SearchStep
  <2>2. CASE Take
    BY <2>2, TakeStep
  <2>3. CASE \E b \in blocks : DeAlloc(b)
    BY <2>3, DeAllocStep
  <2>4. CASE UNCHANGED vars
    BY <2>4 DEF vars, IInv, TypeOK, RunsAreBlocks, BlocksDisjoint, NoLeak, Cells, BitsFor
  <2>5. QED
    BY <2>1, <2>2, <2>3, <2>4 DEF Next, Scan, Halted
<1>3. QED
  BY <1>1, <1>2, PTL DEF Spec

\* Alloc never hands out a byte of a live block, whatever was freed before.
THEOREM HeapDisjoint == Spec => []BlocksDisjoint
<1>1. IInv => BlocksDisjoint
  BY DEF IInv
<1>2. QED
  BY <1>1, HeapInvariance, PTL

\* The bitmap is exact: each live block is a run of ones between two zeros,
\* which DeAlloc finds whole, and no other bit is set.
THEOREM HeapExact == Spec => [](RunsAreBlocks /\ NoLeak)
<1>1. IInv => RunsAreBlocks /\ NoLeak
  BY DEF IInv
<1>2. QED
  BY <1>1, HeapInvariance, PTL
=============================================================================
