--------------------------------- MODULE Heap --------------------------------
(***************************************************************************)
(* The kernel heap of kernel/memory/Heap.h, behind new and delete: a       *)
(* bitmap with one bit per 8 bytes, in which a block is a run of ones      *)
(* between two zeros, and nothing else records its length.                 *)
(*                                                                         *)
(* Alloc is not interrupted; each round of its search loop is a step here  *)
(* (mode = "scan"), so that its termination can be stated.                 *)
(*                                                                         *)
(* The search tests its index against the size of the bitmap, and then     *)
(* reads up to a block further.  Beyond are the ones it finds in the       *)
(* memory behind the bitmap.                                               *)
(***************************************************************************)
EXTENDS Integers

CONSTANTS
  NBits,    \* KERNEL_HEAP_BIT_MAP_SIZE * 64
  Sizes,    \* the sizes in bytes that the kernel asks for
  MaxSize,  \* the largest of them
  Beyond

\* Alloc: the bits a block of this many bytes takes.
BitsFor(size) == (size + 8) \div 8

Cell == 0..(NBits + BitsFor(MaxSize))

ASSUME HeapAssumption ==
  /\ NBits \in Nat
  /\ MaxSize \in Nat
  /\ Sizes \subseteq 0..MaxSize
  /\ Beyond \subseteq {c \in Cell : c >= NBits}

VARIABLES
  bit,      \* bit_map_, and the memory behind it
  blocks,   \* history: the blocks handed out and not yet freed
  mode,     \* "idle", "scan" or "panic"
  size,     \* the argument of Alloc
  i         \* its loop variable

vars == <<bit, blocks, mode, size, i>>

Block == [start : Cell, size : Sizes]
Cells(b) == b.start..(b.start + BitsFor(b.size) - 1)

Bits == BitsFor(size)

\* Mutant of Fits: the bit after the block is not looked at.
FitsTight(k) == \A j \in 0..(Bits - 1) : bit[k + j] = 0

\* The block and one bit behind it are free.
Fits(k) == \A j \in 0..Bits : bit[k + j] = 0

\* The ones from s on: what the loop of DeAlloc clears.
RunFrom(s) == {c \in Cell : c >= s /\ \A d \in s..c : bit[d] = 1}

-----------------------------------------------------------------------------
Alloc(n) ==
  /\ mode = "idle"
  /\ mode' = "scan"
  /\ size' = n
  /\ i' = 0
  /\ UNCHANGED <<bit, blocks>>

\* i becomes k, which Check() tests.
MoveTo(k) ==
  /\ i' = k
  /\ mode' = IF k > NBits THEN "panic" ELSE "scan"
  /\ UNCHANGED <<bit, blocks, size>>

SkipUsed ==
  /\ mode = "scan"
  /\ bit[i] # 0
  /\ MoveTo(i + 1)

\* A free bit in front of a bit that is used, or of the end.
SkipGap ==
  /\ mode = "scan"
  /\ bit[i] = 0
  /\ i + 1 > NBits \/ bit[i + 1] # 0
  /\ MoveTo(i + 1)

\* Mutant of SkipShort: the index is not moved past the free bit.
SkipShortBack ==
  /\ mode = "scan"
  /\ bit[i] = 0
  /\ i + 1 <= NBits /\ bit[i + 1] = 0
  /\ ~Fits(i + 1)
  /\ MoveTo(i + Bits - 1)

\* Two free bits in a row, but the block does not fit there.
SkipShort ==
  /\ mode = "scan"
  /\ bit[i] = 0
  /\ i + 1 <= NBits /\ bit[i + 1] = 0
  /\ ~Fits(i + 1)
  /\ MoveTo(i + Bits)

Take ==
  /\ mode = "scan"
  /\ bit[i] = 0
  /\ i + 1 <= NBits
  /\ Fits(i + 1)
  /\ bit' = [c \in Cell |-> IF c \in (i + 1)..(i + Bits) THEN 1 ELSE bit[c]]
  /\ blocks' = blocks \cup {[start |-> i + 1, size |-> size]}
  /\ mode' = "idle"
  /\ UNCHANGED <<size, i>>

\* Mutant of DeAlloc: the last bit stays set.
DeAllocShort(b) ==
  /\ mode = "idle"
  /\ bit' = [c \in Cell |-> IF c \in RunFrom(b.start) /\ c + 1 \in RunFrom(b.start)
                            THEN 0 ELSE bit[c]]
  /\ blocks' = blocks \ {b}
  /\ UNCHANGED <<mode, size, i>>

DeAlloc(b) ==
  /\ mode = "idle"
  /\ bit' = [c \in Cell |-> IF c \in RunFrom(b.start) THEN 0 ELSE bit[c]]
  /\ blocks' = blocks \ {b}
  /\ UNCHANGED <<mode, size, i>>

\* panic("kernel heap no space").
Halted == mode = "panic" /\ UNCHANGED vars

Init ==
  /\ bit = [c \in Cell |-> IF c \in Beyond THEN 1 ELSE 0]
  /\ blocks = {}
  /\ mode = "idle"
  /\ size = 0
  /\ i = 0

Scan == SkipUsed \/ SkipGap \/ SkipShort \/ Take

Next ==
  \/ \E n \in Sizes : Alloc(n)
  \/ Scan
  \/ \E b \in blocks : DeAlloc(b)
  \/ Halted

Spec == Init /\ [][Next]_vars

\* The search loop runs to its end.
FairSpec == Spec /\ WF_vars(Scan)

-----------------------------------------------------------------------------
(* Properties.                                                             *)

TypeOK ==
  /\ bit \in [Cell -> {0, 1}]
  /\ blocks \subseteq Block
  /\ mode \in {"idle", "scan", "panic"}
  /\ size \in 0..MaxSize
  /\ i \in Nat
  /\ mode = "scan" => i <= NBits /\ size \in Sizes

\* A live block is a whole run of ones, with a zero on each side: all that
\* DeAlloc has to find its end.
RunsAreBlocks ==
  \A b \in blocks :
    /\ b.start >= 1
    /\ b.start + BitsFor(b.size) \in Cell
    /\ bit[b.start - 1] = 0
    /\ bit[b.start + BitsFor(b.size)] = 0
    /\ \A c \in Cells(b) : bit[c] = 1

\* Two live blocks share no byte, whatever has been allocated and freed in
\* between: DeAlloc of one never reaches into another, and Alloc never gives
\* out a byte twice.
BlocksDisjoint ==
  \A a, b \in blocks : a # b => Cells(a) \cap Cells(b) = {}

\* No bit leaks: a bit is set only for a live block.
NoLeak ==
  \A c \in Cell : bit[c] = 1 => c \in Beyond \/ \E b \in blocks : c \in Cells(b)

\* The inductive invariant: DeAlloc clears no more than its block because the
\* block is a whole run, and no less because nothing else lies in that run.
IInv == TypeOK /\ RunsAreBlocks /\ BlocksDisjoint /\ NoLeak

\* The search for a block ends, in a block or in the panic.
AllocEnds == mode = "scan" ~> mode # "scan"
=============================================================================
