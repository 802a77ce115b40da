------------------------------ MODULE DynAlloc ------------------------------
(***************************************************************************)
(* The dynamic allocator of ggml-alloc.c, with which the graph allocator   *)
(* plans where the tensors of a graph go.  It hands out no memory, only    *)
(* offsets: its whole state is a list of the free blocks and the largest   *)
(* offset ever needed.  The array of the code is sorted by offset and its  *)
(* blocks do not touch, so it is modelled as a set of blocks.              *)
(*                                                                         *)
(* Standing alone, tensors come and go in any order; GraphAlloc uses the   *)
(* same operations in the order in which it walks a graph.                 *)
(***************************************************************************)
EXTENDS Naturals, FiniteSets

CONSTANTS
    Alignment,      \* sizes are rounded up to a multiple of it
    Limit,          \* SIZE_MAX / 2, the size of the one block there is at first
    MaxFreeBlocks,  \* MAX_FREE_BLOCKS
    Sizes           \* the sizes asked for, none of them 0

ASSUME AllocAssumption ==
    /\ Alignment \in Nat \ {0}
    /\ Limit \in Nat \ {0}
    /\ MaxFreeBlocks \in Nat \ {0}
    /\ Sizes \subseteq Nat \ {0}

VARIABLES
    free_blocks,    \* the free blocks
    max_size,       \* where the highest block handed out ended
    live            \* the blocks handed out and not yet returned (history)

heapvars == <<free_blocks, max_size, live>>

Block == [offset : Nat, size : Nat \ {0}]

BlockAt(offset, size) == [offset |-> offset, size |-> size]

End(b) == b.offset + b.size

HeapTypeOK ==
    /\ free_blocks \subseteq Block
    /\ live \subseteq Block
    /\ max_size \in Nat

\* aligned_offset(NULL, size, alignment)
Padded(size) == size + ((Alignment - (size % Alignment)) % Alignment)

HeapInit ==
    /\ free_blocks = {BlockAt(0, Limit)}
    /\ max_size = 0
    /\ live = {}

\* ggml_dyn_tallocr_reset
HeapReset ==
    /\ free_blocks' = {BlockAt(0, Limit)}
    /\ max_size' = 0
    /\ live' = {}

-----------------------------------------------------------------------------
\* The last block, the only one that may grow the buffer.
LastBlock == CHOOSE b \in free_blocks : \A c \in free_blocks : c.offset <= b.offset

Fitting(size) == {b \in free_blocks \ {LastBlock} : b.size >= size}

\* The smallest of the others that is large enough, and of those the one with
\* the highest offset; failing that the last block.
BestFit(size) ==
    IF Fitting(size) = {} THEN LastBlock
    ELSE CHOOSE b \in Fitting(size) : \A c \in Fitting(size) :
            b.size < c.size \/ (b.size = c.size /\ c.offset <= b.offset)

\* Where a tensor of this size will go.
Place(size) == BestFit(Padded(size)).offset

\* What is left of block b once its first size bytes are taken.
Rest(b, size) == IF b.size = size THEN {} ELSE {BlockAt(b.offset + size, b.size - size)}

Take(size, b) ==
    /\ b.size >= size
    /\ free_blocks' = (free_blocks \ {b}) \cup Rest(b, size)
    /\ live' = live \cup {BlockAt(b.offset, size)}
    /\ max_size' = IF b.offset + size > max_size THEN b.offset + size ELSE max_size

\* ggml_dyn_tallocr_alloc; without a block that fits it aborts.
Alloc(size) ==
    /\ free_blocks # {}
    /\ Take(Padded(size), BestFit(Padded(size)))

\* Mutant of After: the block behind is not looked for.
NoneAfter(offset, size) == {}

Before(offset)      == {b \in free_blocks : End(b) = offset}
After(offset, size) == {b \in free_blocks : b.offset = offset + size}

\* Mutant of Merged: the block in front has grown, the next one is not added.
MergedInFront(offset, size) ==
    LET start == IF Before(offset) = {} THEN offset
                 ELSE (CHOOSE b \in Before(offset) : TRUE).offset
    IN  BlockAt(start, offset + size - start)

\* The free block that a returned one becomes, merged with its neighbours.
Merged(offset, size) ==
    LET start == IF Before(offset) = {} THEN offset
                 ELSE (CHOOSE b \in Before(offset) : TRUE).offset
        end   == IF After(offset, size) = {} THEN offset + size
                 ELSE End(CHOOSE b \in After(offset, size) : TRUE)
    IN  BlockAt(start, end - start)

Release(offset, size) ==
    /\ Before(offset) \cup After(offset, size) = {} => Cardinality(free_blocks) < MaxFreeBlocks
    /\ free_blocks' = (free_blocks \ (Before(offset) \cup After(offset, size)))
                        \cup {Merged(offset, size)}
    /\ live' = live \ {BlockAt(offset, size)}
    /\ UNCHANGED max_size

\* ggml_dyn_tallocr_free_tensor
FreeTensor(offset, size) == Release(offset, Padded(size))

HeapNext ==
    \/ \E size \in Sizes : Alloc(size)
    \/ \E size \in Sizes, b \in live : b.size = Padded(size) /\ FreeTensor(b.offset, size)
    \/ HeapReset

HeapSpec == HeapInit /\ [][HeapNext]_heapvars

-----------------------------------------------------------------------------
Apart(a, b) == End(a) <= b.offset \/ End(b) <= a.offset

\* No two blocks overlap, be they free or handed out.
HeapDisjoint ==
    /\ free_blocks \cap live = {}
    /\ \A a, b \in free_blocks \cup live : a = b \/ Apart(a, b)

\* Every byte is in a block: nothing leaks, however often blocks come back.
HeapComplete ==
    \A p \in 0 .. Limit - 1 :
        \E b \in free_blocks \cup live : b.offset <= p /\ p < End(b)

\* No two free blocks touch, so the array holds no more blocks than it must.
HeapMerged == \A a, b \in free_blocks : End(a) # b.offset

\* A buffer of max_size holds everything that has been handed out.
HeapFits == \A b \in live : End(b) <= max_size

(***************************************************************************)
(* The free list and the tensors alive tile the address space at every     *)
(* moment: best fit, splitting and the merging with either neighbour or    *)
(* both never let two tensors overlap, lose a byte, leave two free blocks  *)
(* side by side or outgrow the size reported for the buffer.               *)
(***************************************************************************)
HeapTiled == HeapTypeOK /\ HeapDisjoint /\ HeapComplete /\ HeapMerged /\ HeapFits

(***************************************************************************)
(* "out of free blocks" never ends the process while there are no more     *)
(* tensors alive than the array has room for blocks: a block that touches  *)
(* no free one, and so needs a place of its own, finds one.  It is the     *)
(* merging of neighbours that keeps the array short, release after release.*)
(***************************************************************************)
BlocksSuffice ==
    Cardinality(live) <= MaxFreeBlocks =>
        \A b \in live : Before(b.offset) \cup After(b.offset, b.size) = {} =>
            Cardinality(free_blocks) < MaxFreeBlocks
=============================================================================
