---------------------------- MODULE AllocProofs ----------------------------
(***************************************************************************)
(* ggml-alloc.c.  The free list of the dynamic allocator and the blocks    *)
(* handed out tile the address space, for every alignment, limit and set   *)
(* of sizes, and whatever the order in which blocks are taken and          *)
(* returned.  The graph allocator on top of it shares memory between       *)
(* tensors without harm, for every graph its operations can build and      *)
(* every number of tokens.                                                 *)
(***************************************************************************)
EXTENDS GraphAllocProps, FiniteSetTheorems, TLAPS

\* A set of natural numbers has a least element.
LEMMA LeastNat ==
    ASSUME NEW S \in SUBSET Nat, S # {}
    PROVE  \E m \in S : \A x \in S : m <= x
<1>1. PICK m \in S : \A x \in S : ~ (<<x, m>> \in OpToRel(<, Nat))
    BY WFMin, NatLessThanWellFounded
<1>2. \A x \in S : ~ (x < m)
    BY <1>1 DEF OpToRel
<1> QED  BY <1>2

-----------------------------------------------------------------------------
(* The strengthening: no block ends beyond the limit, without which there  *)
(* might be no last one, and the blocks handed out can be counted.         *)

HeapBounded == IsFiniteSet(live) /\ \A b \in free_blocks \cup live : End(b) <= Limit

HeapInv == HeapTiled /\ HeapBounded

LEMMA EndInNat == ASSUME NEW b \in Block PROVE End(b) \in Nat /\ b.offset < End(b)
    BY DEF Block, End

LEMMA BlockAtFacts ==
    ASSUME NEW o \in Nat, NEW s \in Nat \ {0}
    PROVE  /\ BlockAt(o, s) \in Block
           /\ BlockAt(o, s).offset = o
           /\ BlockAt(o, s).size = s
           /\ End(BlockAt(o, s)) = o + s
    BY DEF Block, BlockAt, End

\* A block is its offset and its size.
LEMMA BlockIsItsFields ==
    ASSUME NEW b \in Block
    PROVE  b = BlockAt(b.offset, b.size)
    BY DEF Block, BlockAt

\* Padding adds less than it would take to the next multiple.
LEMMA PaddedMore ==
    ASSUME NEW size \in Nat \ {0}
    PROVE  Padded(size) \in Nat \ {0} /\ size <= Padded(size)
<1>1. Alignment \in Nat \ {0}
    BY AllocAssumption
<1>2. size % Alignment \in 0 .. Alignment - 1
    BY <1>1
<1>3. Alignment - (size % Alignment) \in Nat
    BY <1>1, <1>2
<1>4. (Alignment - (size % Alignment)) % Alignment \in Nat
    BY <1>1, <1>3
<1> QED  BY <1>4 DEF Padded

\* Among blocks below the limit one has the highest offset.
LEMMA HighestBlock ==
    ASSUME NEW S \in SUBSET Block, S # {}, \A b \in S : End(b) <= Limit
    PROVE  \E b \in S : \A c \in S : c.offset <= b.offset
<1> DEFINE T == {Limit - b.offset : b \in S}
<1>1. \A b \in S : b.offset \in Nat /\ b.offset <= Limit /\ Limit \in Nat
    BY AllocAssumption, EndInNat DEF End, Block
<1>2. T \in SUBSET Nat /\ T # {}
    BY <1>1
<1>3. PICK m \in T : \A x \in T : m <= x
    BY <1>2, LeastNat
<1>4. PICK b \in S : m = Limit - b.offset
    BY <1>3
<1>5. ASSUME NEW c \in S PROVE c.offset <= b.offset
  <2>1. m <= Limit - c.offset
    BY <1>3
  <2> QED  BY <2>1, <1>1, <1>4
<1> QED  BY <1>5

\* Among the smallest of them too.
LEMMA SmallestBlock ==
    ASSUME NEW S \in SUBSET Block, S # {}, \A b \in S : End(b) <= Limit
    PROVE  \E b \in S : \A c \in S : b.size < c.size \/ (b.size = c.size /\ c.offset <= b.offset)
<1> DEFINE T == {b.size : b \in S}
<1>1. \A b \in S : b.size \in Nat
    BY DEF Block
<1>2. T \in SUBSET Nat /\ T # {}
    BY <1>1
<1>3. PICK m \in T : \A x \in T : m <= x
    BY <1>2, LeastNat
<1> DEFINE U == {b \in S : b.size = m}
<1>4. U \in SUBSET Block /\ U # {} /\ \A b \in U : End(b) <= Limit
    BY <1>3
<1> HIDE DEF U
<1>5. PICK b \in U : \A c \in U : c.offset <= b.offset
    BY <1>4, HighestBlock
<1>6. ASSUME NEW c \in S PROVE b.size < c.size \/ (b.size = c.size /\ c.offset <= b.offset)
  <2>1. b \in S /\ b.size = m
    BY <1>5 DEF U
  <2>2. m <= c.size /\ m \in Nat /\ c.size \in Nat
    BY <1>1, <1>2, <1>3
  <2>3. CASE c.size = m
    BY <2>1, <2>3, <1>5 DEF U
  <2>4. CASE c.size # m
    BY <2>1, <2>2, <2>4
  <2> QED  BY <2>3, <2>4
<1>7. b \in S
    BY <1>5 DEF U
<1> QED  BY <1>6, <1>7

\* Best fit returns a free block.
LEMMA BestFitIsFree ==
    ASSUME HeapTypeOK, HeapBounded, free_blocks # {}, NEW size
    PROVE  BestFit(size) \in free_blocks
<1>1. free_blocks \in SUBSET Block /\ \A b \in free_blocks : End(b) <= Limit
    BY DEF HeapTypeOK, HeapBounded
<1>2. LastBlock \in free_blocks
    BY <1>1, HighestBlock DEF LastBlock
<1>3. Fitting(size) \subseteq free_blocks
    BY DEF Fitting
<1>4. CASE Fitting(size) = {}
    BY <1>2, <1>4 DEF BestFit
<1>5. CASE Fitting(size) # {}
  <2>1. \E b \in Fitting(size) : \A c \in Fitting(size) :
            b.size < c.size \/ (b.size = c.size /\ c.offset <= b.offset)
    BY <1>1, <1>3, <1>5, SmallestBlock
  <2>2. BestFit(size) \in Fitting(size)
    BY <1>5, <2>1 DEF BestFit
  <2> QED  BY <2>2, <1>3
<1> QED  BY <1>4, <1>5

-----------------------------------------------------------------------------
(* Taking a block.                                                         *)

LEMMA HeapInitInv == HeapInit => HeapInv
<1> SUFFICES ASSUME HeapInit PROVE HeapInv
    OBVIOUS
<1> DEFINE whole == BlockAt(0, Limit)
<1>1. whole \in Block /\ whole.offset = 0 /\ End(whole) = Limit /\ Limit \in Nat \ {0}
    BY AllocAssumption, BlockAtFacts
<1>2. free_blocks = {whole} /\ live = {} /\ max_size = 0
    BY DEF HeapInit
<1> HIDE DEF whole
<1>3. HeapTypeOK
    BY <1>1, <1>2 DEF HeapTypeOK
<1>4. HeapDisjoint
    BY <1>2 DEF HeapDisjoint
<1>5. HeapComplete
    BY <1>1, <1>2 DEF HeapComplete
<1>6. HeapMerged
    BY <1>1, <1>2 DEF HeapMerged
<1>7. HeapFits /\ HeapBounded
    BY <1>1, <1>2, FS_EmptySet DEF HeapFits, HeapBounded
<1> QED  BY <1>3, <1>4, <1>5, <1>6, <1>7 DEF HeapInv, HeapTiled

\* The two parts of a block that is split.
LEMMA Split ==
    ASSUME NEW b \in Block, NEW s \in Nat \ {0}, b.size > s
    PROVE  /\ Rest(b, s) = {BlockAt(b.offset + s, b.size - s)}
           /\ BlockAt(b.offset + s, b.size - s) \in Block
           /\ BlockAt(b.offset + s, b.size - s).offset = b.offset + s
           /\ End(BlockAt(b.offset + s, b.size - s)) = End(b)
<1>1. b.offset \in Nat /\ b.size \in Nat \ {0}
    BY DEF Block
<1>2. b.offset + s \in Nat /\ b.size - s \in Nat \ {0} /\ b.size # s
    BY <1>1
<1>3. b.offset + s + (b.size - s) = b.offset + b.size
    BY <1>1
<1> QED  BY <1>2, <1>3, BlockAtFacts DEF Rest, End

\* Taking the first s bytes of a free block preserves the invariant.
LEMMA TakeInv ==
    ASSUME HeapInv, NEW b \in free_blocks, NEW s \in Nat \ {0}, Take(s, b)
    PROVE  HeapInv'
<1> DEFINE x == BlockAt(b.offset, s)
<1> DEFINE r == Rest(b, s)
<1>1. /\ HeapTypeOK /\ HeapDisjoint /\ HeapComplete /\ HeapMerged /\ HeapFits /\ HeapBounded
    BY DEF HeapInv, HeapTiled
<1>2. b \in Block /\ b.offset \in Nat /\ b.size \in Nat \ {0} /\ End(b) = b.offset + b.size
    BY <1>1 DEF HeapTypeOK, Block, End
<1>3. x \in Block /\ x.offset = b.offset /\ x.size = s /\ End(x) = b.offset + s
    BY <1>2, BlockAtFacts
<1>4. s <= b.size
    BY <1>2 DEF Take
<1>5. \A y \in r : y \in Block /\ y.offset = b.offset + s /\ End(y) = End(b)
  <2>1. CASE b.size = s
    BY <2>1 DEF Rest
  <2>2. CASE b.size # s
    BY <2>2, <1>2, <1>4, Split
  <2> QED  BY <2>1, <2>2
<1>6. r = {} => End(x) = End(b)
    BY <1>2, <1>3 DEF Rest
<1>7. \A y, z \in r : y = z
    BY DEF Rest
<1>8. free_blocks' = (free_blocks \ {b}) \cup r /\ live' = live \cup {x}
    BY DEF Take
<1>9. max_size' = IF b.offset + s > max_size THEN b.offset + s ELSE max_size
    BY DEF Take
<1>10. \A c \in (free_blocks \cup live) \ {b} : c \in Block /\ Apart(c, b)
    BY <1>1, <1>2 DEF HeapTypeOK, HeapDisjoint, Apart
<1>11. \A c \in (free_blocks \cup live) \ {b} : Apart(c, x) /\ Apart(x, c) /\ c # x
  <2> SUFFICES ASSUME NEW c \in (free_blocks \cup live) \ {b}
               PROVE  Apart(c, x) /\ Apart(x, c) /\ c # x
    OBVIOUS
  <2>1. c \in Block /\ c.offset \in Nat /\ End(c) \in Nat /\ c.offset < End(c)
    BY <1>10, EndInNat DEF Block
  <2>2. End(c) <= b.offset \/ End(b) <= c.offset
    BY <1>10 DEF Apart
  <2>3. End(c) <= x.offset \/ End(x) <= c.offset
    BY <2>1, <2>2, <1>2, <1>3, <1>4
  <2> QED  BY <2>1, <2>3, <1>3 DEF Apart
<1>12. \A c \in (free_blocks \cup live) \ {b}, y \in r : Apart(c, y) /\ Apart(y, c) /\ c # y
  <2> SUFFICES ASSUME NEW c \in (free_blocks \cup live) \ {b}, NEW y \in r
               PROVE  Apart(c, y) /\ Apart(y, c) /\ c # y
    OBVIOUS
  <2>1. c \in Block /\ c.offset \in Nat /\ End(c) \in Nat /\ c.offset < End(c)
    BY <1>10, EndInNat DEF Block
  <2>2. End(c) <= b.offset \/ End(b) <= c.offset
    BY <1>10 DEF Apart
  <2>3. y.offset = b.offset + s /\ End(y) = End(b)
    BY <1>5
  <2>4. End(c) <= y.offset \/ End(y) <= c.offset
    BY <2>1, <2>2, <2>3, <1>2
  <2> QED  BY <2>1, <2>3, <2>4, <1>2, <1>4, <1>5, EndInNat DEF Apart
<1>13. \A y \in r : Apart(x, y) /\ Apart(y, x) /\ x # y
    BY <1>2, <1>3, <1>5 DEF Apart
<1> HIDE DEF x, r
<1>14. HeapTypeOK'
  <2>1. max_size \in Nat /\ b.offset + s \in Nat
    BY <1>1, <1>2 DEF HeapTypeOK
  <2>2. max_size' \in Nat
    BY <2>1, <1>9
  <2> QED  BY <2>2, <1>1, <1>3, <1>5, <1>8 DEF HeapTypeOK
<1>15. HeapDisjoint'
  <2>1. (free_blocks \cap live)' = {}
    BY <1>1, <1>8, <1>11, <1>12, <1>13 DEF HeapDisjoint
  <2>2. \A c, d \in (free_blocks \cup live)' : c = d \/ Apart(c, d)
    <3> SUFFICES ASSUME NEW c \in (free_blocks \cup live)', NEW d \in (free_blocks \cup live)'
                 PROVE  c = d \/ Apart(c, d)
        OBVIOUS
    <3> DEFINE old == (free_blocks \cup live) \ {b}
    <3>1. b \notin live
        BY <1>1 DEF HeapDisjoint
    <3>2. (free_blocks \cup live)' = old \cup {x} \cup r
        BY <1>8, <3>1
    <3>3. CASE c \in old /\ d \in old
        BY <3>3, <1>1 DEF HeapDisjoint
    <3>4. CASE c \in old /\ d \notin old
        BY <3>2, <3>4, <1>11, <1>12
    <3>5. CASE c \notin old /\ d \in old
        BY <3>2, <3>5, <1>11, <1>12
    <3>6. CASE c \notin old /\ d \notin old
        BY <3>2, <3>6, <1>7, <1>13
    <3> QED  BY <3>3, <3>4, <3>5, <3>6
  <2> QED  BY <2>1, <2>2 DEF HeapDisjoint, Apart, End
<1>16. HeapComplete'
  <2> SUFFICES ASSUME NEW p \in 0 .. Limit - 1
               PROVE  \E c \in (free_blocks \cup live)' : c.offset <= p /\ p < End(c)
    BY DEF HeapComplete, End
  <2>1. PICK c \in free_blocks \cup live : c.offset <= p /\ p < End(c)
    BY <1>1 DEF HeapComplete
  <2>2. CASE c # b
    BY <2>1, <2>2, <1>8
  <2>3. CASE c = b /\ p < b.offset + s
    BY <2>1, <2>3, <1>3, <1>8
  <2>4. CASE c = b /\ ~ (p < b.offset + s)
    <3>1. p \in Int /\ b.offset + s <= p /\ p < End(b)
        BY <2>1, <2>4, <1>2
    <3>2. r # {}
        BY <3>1, <1>2, <1>3, <1>6
    <3>3. PICK y \in r : TRUE
        BY <3>2
    <3> QED  BY <3>1, <3>3, <1>5, <1>8
  <2> QED  BY <2>2, <2>3, <2>4
<1>17. HeapMerged'
  <2> SUFFICES ASSUME NEW c \in free_blocks', NEW d \in free_blocks', End(c) = d.offset
               PROVE  FALSE
    BY DEF HeapMerged, End
  <2>1. CASE c \in free_blocks /\ d \in free_blocks
    BY <2>1, <1>1 DEF HeapMerged
  <2>2. CASE c \in r /\ d \in free_blocks
    BY <2>2, <1>1, <1>5 DEF HeapMerged
  <2>3. CASE d \in r /\ c \in free_blocks \ {b}
    <3>1. c \in Block /\ c.offset \in Nat /\ End(c) \in Nat /\ c.offset < End(c)
        BY <2>3, <1>10, EndInNat DEF Block
    <3>2. End(c) <= b.offset \/ End(b) <= c.offset
        BY <2>3, <1>10 DEF Apart
    <3>3. End(c) = b.offset + s
        BY <2>3, <1>5
    <3> QED  BY <3>1, <3>2, <3>3, <1>2, <1>4
  <2>4. CASE c \in r /\ d \in r
    <3>1. End(c) = End(b) /\ d.offset = b.offset + s /\ c = d
        BY <2>4, <1>5, <1>7
    <3>2. c \in Block
        BY <2>4, <1>5
    <3>3. c.offset \in Nat /\ End(c) \in Nat /\ c.offset < End(c)
        BY <3>2, EndInNat DEF Block
    <3>4. End(c) = c.offset
        BY <3>1
    <3> QED  BY <3>3, <3>4
  <2> QED  BY <2>1, <2>2, <2>3, <2>4, <1>8
<1>18. HeapFits'
  <2>1. max_size \in Nat /\ b.offset + s \in Nat
    BY <1>1, <1>2 DEF HeapTypeOK
  <2>2. max_size <= max_size' /\ End(x) <= max_size' /\ max_size' \in Nat
    BY <2>1, <1>3, <1>9
  <2> SUFFICES ASSUME NEW c \in live' PROVE End(c) <= max_size'
    BY DEF HeapFits, End
  <2>3. CASE c \in live
    <3>1. End(c) <= max_size /\ c \in Block
        BY <2>3, <1>1 DEF HeapFits, HeapTypeOK
    <3> QED  BY <3>1, <2>1, <2>2, EndInNat
  <2> QED  BY <2>2, <2>3, <1>8
<1>19. HeapBounded'
  <2>1. Limit \in Nat /\ End(b) <= Limit /\ End(x) <= Limit
    BY <1>1, <1>2, <1>3, <1>4, AllocAssumption DEF HeapBounded
  <2>2. \A c \in (free_blocks \cup live)' : End(c) <= Limit
    BY <2>1, <1>1, <1>5, <1>8 DEF HeapBounded
  <2>3. IsFiniteSet(live')
    BY <1>1, <1>8, FS_AddElement DEF HeapBounded
  <2> QED  BY <2>2, <2>3 DEF HeapBounded, End
<1> QED  BY <1>14, <1>15, <1>16, <1>17, <1>18, <1>19 DEF HeapInv, HeapTiled

-----------------------------------------------------------------------------
(* Returning a block.                                                      *)

\* The free neighbours of a live block, at most one on either side, and what
\* becomes of the three.
LEMMA MergedFacts ==
    ASSUME HeapInv, NEW x \in live
    PROVE  LET m == Merged(x.offset, x.size)
               gone == Before(x.offset) \cup After(x.offset, x.size)
           IN  /\ m \in Block
               /\ m.offset <= x.offset /\ End(x) <= End(m)
               /\ \A b \in gone : m.offset <= b.offset /\ End(b) <= End(m)
               /\ m.offset = x.offset \/ \E b \in gone : m.offset = b.offset
               /\ End(m) = End(x) \/ \E b \in gone : End(m) = End(b)
               /\ \A p \in Nat : m.offset <= p /\ p < End(m) =>
                    \E b \in gone \cup {x} : b.offset <= p /\ p < End(b)
<1> DEFINE B == Before(x.offset)
<1> DEFINE A == After(x.offset, x.size)
<1>1. HeapTypeOK /\ HeapDisjoint
    BY DEF HeapInv, HeapTiled
<1>2. /\ x \in Block /\ x.offset \in Nat /\ x.size \in Nat \ {0}
      /\ End(x) = x.offset + x.size /\ End(x) \in Nat
    BY <1>1 DEF HeapTypeOK, Block, End
<1>3. \A b \in free_blocks : /\ b \in Block /\ b.offset \in Nat /\ End(b) \in Nat
                            /\ b.offset < End(b)
    BY <1>1, EndInNat DEF HeapTypeOK, Block
<1>4. \A b \in B : b \in free_blocks /\ End(b) = x.offset
    BY DEF Before
<1>5. \A b \in A : b \in free_blocks /\ b.offset = End(x)
    BY <1>2 DEF After
<1>6. \A b, c \in B : b = c
    BY <1>1, <1>3, <1>4 DEF HeapDisjoint, Apart
<1>7. \A b, c \in A : b = c
    BY <1>1, <1>3, <1>5 DEF HeapDisjoint, Apart
<1> DEFINE start == IF B = {} THEN x.offset ELSE (CHOOSE b \in B : TRUE).offset
<1> DEFINE end == IF A = {} THEN x.offset + x.size ELSE End(CHOOSE b \in A : TRUE)
<1>8. /\ start \in Nat /\ start <= x.offset
      /\ start = x.offset \/ \E b \in B : start = b.offset
      /\ \A b \in B : start = b.offset
  <2>1. CASE B = {}
    BY <2>1, <1>2
  <2>2. CASE B # {}
    <3>1. PICK b \in B : b = (CHOOSE c \in B : TRUE)
        BY <2>2
    <3>2. start = b.offset
        BY <2>2, <3>1
    <3> HIDE DEF start
    <3>3. b.offset \in Nat /\ b.offset < x.offset
        BY <1>3, <1>4
    <3> QED  BY <3>2, <3>3, <1>2, <1>6
  <2> QED  BY <2>1, <2>2
<1>9. /\ end \in Nat /\ End(x) <= end
      /\ end = End(x) \/ \E b \in A : end = End(b)
      /\ \A b \in A : end = End(b)
  <2>1. CASE A = {}
    BY <2>1, <1>2
  <2>2. CASE A # {}
    <3>1. PICK b \in A : b = (CHOOSE c \in A : TRUE)
        BY <2>2
    <3>2. end = End(b)
        BY <2>2, <3>1
    <3> HIDE DEF end
    <3>3. End(b) \in Nat /\ End(x) < End(b)
        BY <1>3, <1>5
    <3> QED  BY <3>2, <3>3, <1>2, <1>7
  <2> QED  BY <2>1, <2>2
<1> DEFINE m == Merged(x.offset, x.size)
<1>10. m = BlockAt(start, end - start)
    BY DEF Merged
<1> HIDE DEF start, end, m
<1>11. start < end /\ end - start \in Nat \ {0} /\ start + (end - start) = end
    BY <1>2, <1>8, <1>9
<1>12. m \in Block /\ m.offset = start /\ End(m) = end
    BY <1>8, <1>10, <1>11, BlockAtFacts
<1>13. \A b \in B \cup A : m.offset <= b.offset /\ End(b) <= End(m)
    BY <1>2, <1>3, <1>4, <1>5, <1>8, <1>9, <1>12
<1>14. ASSUME NEW p \in Nat, m.offset <= p, p < End(m)
       PROVE  \E b \in B \cup A \cup {x} : b.offset <= p /\ p < End(b)
  <2>1. CASE x.offset <= p /\ p < End(x)
    BY <2>1
  <2>2. CASE p < x.offset
    <3>1. PICK b \in B : start = b.offset
        BY <2>2, <1>2, <1>8, <1>12, <1>14
    <3> QED  BY <3>1, <2>2, <1>4, <1>12, <1>14
  <2>3. CASE End(x) <= p
    <3>1. PICK b \in A : end = End(b)
        BY <2>3, <1>2, <1>9, <1>12, <1>14
    <3> QED  BY <3>1, <2>3, <1>5, <1>12, <1>14
  <2> QED  BY <2>1, <2>2, <2>3, <1>2
<1>15. m.offset = x.offset \/ \E b \in B \cup A : m.offset = b.offset
    BY <1>8, <1>12
<1>16. End(m) = End(x) \/ \E b \in B \cup A : End(m) = End(b)
    BY <1>9, <1>12
<1> QED  BY <1>8, <1>9, <1>12, <1>13, <1>14, <1>15, <1>16 DEF m

\* Blocks that are apart from the ones merged are apart from what they become,
\* and none is left that touches it.
LEMMA MergedApart ==
    ASSUME HeapInv, NEW x \in live,
           NEW c \in (free_blocks \cup live) \ ({x} \cup Before(x.offset) \cup After(x.offset, x.size))
    PROVE  LET m == Merged(x.offset, x.size)
           IN  /\ Apart(c, m) /\ Apart(m, c) /\ c # m
               /\ c \in free_blocks => End(c) # m.offset /\ End(m) # c.offset
<1> DEFINE m == Merged(x.offset, x.size)
<1> DEFINE gone == Before(x.offset) \cup After(x.offset, x.size)
<1>1. HeapTypeOK /\ HeapDisjoint /\ HeapMerged
    BY DEF HeapInv, HeapTiled
<1>2. /\ x \in Block /\ x.offset \in Nat /\ End(x) \in Nat /\ x.offset < End(x)
      /\ End(x) = x.offset + x.size
    BY <1>1, EndInNat DEF HeapTypeOK, Block, End
<1>3. c \in Block /\ c.offset \in Nat /\ End(c) \in Nat /\ c.offset < End(c)
    BY <1>1, EndInNat DEF HeapTypeOK, Block
<1>4. \A b \in gone : /\ b \in free_blocks /\ b.offset \in Nat /\ End(b) \in Nat
                     /\ b.offset < End(b) /\ b # c
    BY <1>1, EndInNat DEF HeapTypeOK, Block, Before, After
<1>5. /\ m \in Block
      /\ m.offset = x.offset \/ \E b \in gone : m.offset = b.offset
      /\ End(m) = End(x) \/ \E b \in gone : End(m) = End(b)
      /\ m.offset <= x.offset /\ End(x) <= End(m)
      /\ \A b \in gone : m.offset <= b.offset /\ End(b) <= End(m)
      /\ \A p \in Nat : m.offset <= p /\ p < End(m) =>
            \E b \in gone \cup {x} : b.offset <= p /\ p < End(b)
    BY MergedFacts
<1>6. m.offset \in Nat /\ End(m) \in Nat /\ m.offset < End(m)
    BY <1>5, EndInNat DEF Block
<1>7. \A b \in gone \cup {x} : End(b) <= c.offset \/ End(c) <= b.offset
    BY <1>1, <1>4 DEF HeapDisjoint, Apart
<1> HIDE DEF m, gone
\* A block that overlapped the merged one would overlap one of its parts, at
\* the larger of the two offsets.
<1>8. End(c) <= m.offset \/ End(m) <= c.offset
  <2> SUFFICES ASSUME m.offset < End(c), c.offset < End(m) PROVE FALSE
    BY <1>3, <1>6
  <2>1. CASE m.offset <= c.offset
    <3>1. PICK b \in gone \cup {x} : b.offset <= c.offset /\ c.offset < End(b)
        BY <2>1, <1>3, <1>5
    <3>2. b.offset \in Nat /\ End(b) \in Nat
        BY <1>2, <1>4
    <3> QED  BY <3>1, <3>2, <1>3, <1>7
  <2>2. CASE c.offset < m.offset
    <3>1. PICK b \in gone \cup {x} : b.offset <= m.offset /\ m.offset < End(b)
        BY <1>5, <1>6
    <3>2. b.offset \in Nat /\ End(b) \in Nat
        BY <1>2, <1>4
    <3>3. End(b) <= c.offset \/ End(c) <= b.offset
        BY <1>7
    <3> QED  BY <3>1, <3>2, <3>3, <2>2, <1>3, <1>6
  <2> QED  BY <2>1, <2>2, <1>3, <1>6
<1>9. c # m
    BY <1>3, <1>8
<1>10. ASSUME c \in free_blocks PROVE End(c) # m.offset /\ End(m) # c.offset
  <2>1. \A b \in free_blocks : End(c) # b.offset /\ End(b) # c.offset
    BY <1>1, <1>10 DEF HeapMerged
  <2>2. End(c) # x.offset
    BY <1>10 DEF Before
  <2>3. End(x) # c.offset
    BY <1>2, <1>10 DEF After
  <2> QED  BY <2>1, <2>2, <2>3, <1>4, <1>5
<1> QED  BY <1>8, <1>9, <1>10 DEF Apart, m

\* Returning a live block preserves the invariant.
LEMMA ReleaseInv ==
    ASSUME HeapInv, NEW x \in live, Release(x.offset, x.size)
    PROVE  HeapInv'
<1> DEFINE m == Merged(x.offset, x.size)
<1> DEFINE gone == Before(x.offset) \cup After(x.offset, x.size)
<1> DEFINE old == (free_blocks \cup live) \ ({x} \cup gone)
<1>1. /\ HeapTypeOK /\ HeapDisjoint /\ HeapComplete /\ HeapMerged /\ HeapFits /\ HeapBounded
    BY DEF HeapInv, HeapTiled
<1>2. x = BlockAt(x.offset, x.size)
    BY <1>1, BlockIsItsFields DEF HeapTypeOK
<1>3. free_blocks' = (free_blocks \ gone) \cup {m} /\ live' = live \ {x} /\ max_size' = max_size
    BY <1>2 DEF Release
<1>4. gone \subseteq free_blocks
    BY DEF Before, After
<1>5. (free_blocks \cup live)' = old \cup {m}
    BY <1>1, <1>3, <1>4 DEF HeapDisjoint
<1>6. /\ m \in Block
      /\ m.offset <= x.offset /\ End(x) <= End(m)
      /\ \A b \in gone : m.offset <= b.offset /\ End(b) <= End(m)
      /\ End(m) = End(x) \/ \E b \in gone : End(m) = End(b)
    BY MergedFacts
<1>7. \A c \in old : Apart(c, m) /\ Apart(m, c)
    BY MergedApart
<1>15. \A c \in old : c # m
    BY MergedApart
<1>16. \A c \in old : c \in free_blocks => End(c) # m.offset /\ End(m) # c.offset
    BY MergedApart
<1>8. m.offset \in Nat /\ End(m) \in Nat /\ m.offset < End(m)
    BY <1>6, EndInNat DEF Block
<1>17. old \subseteq free_blocks \cup live /\ (live \ {x}) \cup (free_blocks \ gone) \subseteq old
    BY <1>1, <1>4 DEF HeapDisjoint
<1>18. \A c \in (free_blocks \cup live) \ old : c \in gone \cup {x}
    OBVIOUS
<1> HIDE DEF m, gone, old
<1>9. HeapTypeOK'
    BY <1>1, <1>3, <1>6 DEF HeapTypeOK
<1>10. HeapDisjoint'
  <2>1. \A c \in live \ {x} : c \in old /\ c \notin free_blocks
    BY <1>1, <1>17 DEF HeapDisjoint
  <2>2. \A c \in live \ {x} : c # m
    BY <2>1, <1>15
  <2>3. (free_blocks \cap live)' = {}
    BY <2>1, <2>2, <1>3
  <2>4. ASSUME NEW c \in (free_blocks \cup live)', NEW d \in (free_blocks \cup live)'
        PROVE  c = d \/ Apart(c, d)
    <3>1. c \in old \/ c = m
        BY <1>5
    <3>2. d \in old \/ d = m
        BY <1>5
    <3>3. CASE c \in old /\ d \in old
        BY <3>3, <1>1, <1>17 DEF HeapDisjoint
    <3>4. CASE c = m \/ d = m
        BY <3>1, <3>2, <3>4, <1>7
    <3> QED  BY <3>1, <3>2, <3>3, <3>4
  <2> QED  BY <2>3, <2>4 DEF HeapDisjoint, Apart, End
<1>11. HeapComplete'
  <2> SUFFICES ASSUME NEW p \in 0 .. Limit - 1
               PROVE  \E c \in (free_blocks \cup live)' : c.offset <= p /\ p < End(c)
    BY DEF HeapComplete, End
  <2>1. PICK c \in free_blocks \cup live : c.offset <= p /\ p < End(c)
    BY <1>1 DEF HeapComplete
  <2>2. CASE c \in old
    BY <2>1, <2>2, <1>5
  <2>3. CASE c \notin old
    <3>1. c \in gone \cup {x}
        BY <2>3, <1>18
    <3>2. c.offset \in Nat /\ End(c) \in Nat /\ m.offset <= c.offset /\ End(c) <= End(m)
        BY <3>1, <1>1, <1>4, <1>6, EndInNat DEF HeapTypeOK, Block
    <3>3. p \in Int
        OBVIOUS
    <3>4. m.offset <= p /\ p < End(m)
        BY <2>1, <3>2, <3>3, <1>8
    <3> QED  BY <3>4, <1>5
  <2> QED  BY <2>2, <2>3
<1>12. HeapMerged'
  <2>1. \A c \in free_blocks' : c = m \/ (c \in old /\ c \in free_blocks)
    BY <1>1, <1>3, <1>17
  <2>2. ASSUME NEW c \in free_blocks', NEW d \in free_blocks'
        PROVE  End(c) # d.offset
    <3>1. CASE c = m /\ d = m
        BY <3>1, <1>8
    <3>2. CASE c = m /\ d # m
        BY <2>1, <3>2, <1>16
    <3>3. CASE c # m /\ d = m
        BY <2>1, <3>3, <1>16
    <3>4. CASE c # m /\ d # m
        BY <2>1, <3>4, <1>1 DEF HeapMerged
    <3> QED  BY <3>1, <3>2, <3>3, <3>4
  <2> QED  BY <2>2 DEF HeapMerged, End
<1>13. HeapFits'
    BY <1>1, <1>3 DEF HeapFits, End
<1>14. HeapBounded'
  <2>1. End(m) <= Limit
    BY <1>1, <1>4, <1>6 DEF HeapBounded
  <2>2. \A c \in (free_blocks \cup live)' : End(c) <= Limit
    BY <2>1, <1>1, <1>5, <1>17 DEF HeapBounded
  <2>3. IsFiniteSet(live')
    BY <1>1, <1>3, FS_Subset DEF HeapBounded
  <2> QED  BY <2>2, <2>3 DEF HeapBounded, End
<1> QED  BY <1>9, <1>10, <1>11, <1>12, <1>13, <1>14 DEF HeapInv, HeapTiled

-----------------------------------------------------------------------------
LEMMA HeapNextInv == HeapInv /\ [HeapNext]_heapvars => HeapInv'
<1> SUFFICES ASSUME HeapInv, [HeapNext]_heapvars PROVE HeapInv'
    OBVIOUS
<1>1. CASE \E size \in Sizes : Alloc(size)
  <2>1. PICK size \in Sizes : Alloc(size)
    BY <1>1
  <2>2. Padded(size) \in Nat \ {0}
    BY AllocAssumption, PaddedMore
  <2>3. BestFit(Padded(size)) \in free_blocks
    BY <2>1, BestFitIsFree DEF Alloc, HeapInv, HeapTiled
  <2> QED  BY <2>1, <2>2, <2>3, TakeInv DEF Alloc
<1>2. CASE \E size \in Sizes, b \in live : b.size = Padded(size) /\ FreeTensor(b.offset, size)
    BY <1>2, ReleaseInv DEF FreeTensor
<1>3. CASE HeapReset
  <2>1. HeapInit'
    BY <1>3 DEF HeapReset, HeapInit, BlockAt
  <2> QED  BY <2>1, HeapInitInv, PTL
<1>4. CASE UNCHANGED heapvars
    BY <1>4 DEF heapvars, HeapInv, HeapTiled, HeapBounded, HeapTypeOK, HeapDisjoint, HeapComplete,
                HeapMerged, HeapFits, Apart, End
<1> QED  BY <1>1, <1>2, <1>3, <1>4 DEF HeapNext

(***************************************************************************)
(* For every alignment and every set of sizes: at every moment the free    *)
(* blocks and the ones handed out are disjoint and fill the address space, *)
(* no two free blocks touch, and max_size bounds what was handed out.  So  *)
(* best fit, the splitting of a block and the merging of a returned one    *)
(* with its neighbours never let two tensors share a byte or lose one.     *)
(***************************************************************************)
THEOREM HeapIsTiled == HeapSpec => []HeapTiled
<1>1. HeapInit => HeapInv
    BY HeapInitInv
<1>2. HeapInv /\ [HeapNext]_heapvars => HeapInv'
    BY HeapNextInv
<1>3. HeapInv => HeapTiled
    BY DEF HeapInv
<1> QED  BY <1>1, <1>2, <1>3, PTL DEF HeapSpec

\* Next to a free block there is a live one: the one it ends at, and the one it
\* begins at.
LEMMA LiveBehind ==
    ASSUME HeapInv, NEW f \in free_blocks, End(f) < Limit
    PROVE  \E y \in live : y.offset = End(f)
<1>1. HeapTypeOK /\ HeapDisjoint /\ HeapComplete /\ HeapMerged
    BY DEF HeapInv, HeapTiled
<1>2. f \in Block /\ End(f) \in Nat /\ f.offset < End(f) /\ f.offset \in Nat /\ Limit \in Nat
    BY <1>1, EndInNat, AllocAssumption DEF HeapTypeOK, Block
<1>3. PICK y \in free_blocks \cup live : y.offset <= End(f) /\ End(f) < End(y)
  <2>1. End(f) \in 0 .. Limit - 1
    BY <1>2
  <2> QED  BY <2>1, <1>1 DEF HeapComplete
<1>4. y.offset \in Nat /\ End(y) \in Nat
    BY <1>1, EndInNat DEF HeapTypeOK, Block
<1>5. y # f
    BY <1>2, <1>3
<1>6. Apart(f, y)
    BY <1>1, <1>5 DEF HeapDisjoint
<1>7. y.offset = End(f)
    BY <1>2, <1>3, <1>4, <1>6 DEF Apart
<1> QED  BY <1>1, <1>3, <1>7 DEF HeapMerged

LEMMA LiveInFront ==
    ASSUME HeapInv, NEW f \in free_blocks, f.offset # 0
    PROVE  \E y \in live : End(y) = f.offset
<1>1. HeapTypeOK /\ HeapDisjoint /\ HeapComplete /\ HeapMerged /\ HeapBounded
    BY DEF HeapInv, HeapTiled
<1>2. f \in Block /\ End(f) \in Nat /\ f.offset < End(f) /\ f.offset \in Nat /\ Limit \in Nat
    BY <1>1, EndInNat, AllocAssumption DEF HeapTypeOK, Block
<1>3. PICK y \in free_blocks \cup live : y.offset <= f.offset - 1 /\ f.offset - 1 < End(y)
  <2>1. End(f) <= Limit
    BY <1>1 DEF HeapBounded
  <2>2. f.offset - 1 \in 0 .. Limit - 1
    BY <2>1, <1>2
  <2> QED  BY <2>2, <1>1 DEF HeapComplete
<1>4. y.offset \in Nat /\ End(y) \in Nat
    BY <1>1, EndInNat DEF HeapTypeOK, Block
<1>5. y # f
    BY <1>2, <1>3
<1>6. Apart(f, y)
    BY <1>1, <1>5 DEF HeapDisjoint
<1>7. End(y) = f.offset
    BY <1>2, <1>3, <1>4, <1>6 DEF Apart
<1> QED  BY <1>1, <1>3, <1>7 DEF HeapMerged

\* A live block that touches no free one has fewer free blocks around it than
\* there are live ones: those in front of it are told apart by the live block
\* each ends at, those behind it by the one each begins at.
LEMMA FewerFree ==
    ASSUME HeapInv, NEW b \in live, Before(b.offset) \cup After(b.offset, b.size) = {}
    PROVE  IsFiniteSet(free_blocks) /\ Cardinality(free_blocks) < Cardinality(live)
<1>1. HeapTypeOK /\ HeapDisjoint /\ HeapBounded
    BY DEF HeapInv, HeapTiled
<1>2. b \in Block /\ End(b) \in Nat /\ b.offset < End(b) /\ b.offset \in Nat /\ Limit \in Nat
      /\ End(b) <= Limit
    BY <1>1, EndInNat, AllocAssumption DEF HeapTypeOK, Block, HeapBounded
<1>3. \A f \in free_blocks : End(f) # b.offset /\ f.offset # End(b)
    BY DEF Before, After, End
<1>4. ASSUME NEW f \in free_blocks
      PROVE  /\ f.offset \in Nat /\ End(f) \in Nat /\ f.offset < End(f)
             /\ \/ End(f) < b.offset /\ f.offset < b.offset
                \/ End(b) < f.offset
  <2>1. f \in Block /\ f # b
    BY <1>1 DEF HeapTypeOK, HeapDisjoint
  <2>2. f.offset \in Nat /\ End(f) \in Nat /\ f.offset < End(f)
    BY <2>1, EndInNat DEF Block
  <2>3. Apart(f, b)
    BY <2>1, <1>1 DEF HeapDisjoint
  <2> QED  BY <2>2, <2>3, <1>2, <1>3 DEF Apart
<1> DEFINE Touches(f, y) == IF f.offset < b.offset THEN y.offset = End(f) ELSE End(y) = f.offset
           others == live \ {b}
           g == [f \in free_blocks |-> CHOOSE y \in others : Touches(f, y)]
<1>5. ASSUME NEW f \in free_blocks PROVE \E y \in others : Touches(f, y)
  <2>1. CASE f.offset < b.offset
    <3>1. End(f) < b.offset /\ End(f) < Limit
        BY <2>1, <1>2, <1>4
    <3>2. PICK y \in live : y.offset = End(f)
        BY <3>1, LiveBehind
    <3>3. y # b
        BY <3>2, <1>3
    <3> QED  BY <3>2, <3>3, <2>1
  <2>2. CASE ~ (f.offset < b.offset)
    <3>1. f.offset # 0
        BY <2>2, <1>2, <1>4
    <3>2. PICK y \in live : End(y) = f.offset
        BY <3>1, LiveInFront
    <3>3. y # b
        BY <3>2, <1>3
    <3> QED  BY <3>2, <3>3, <2>2
  <2> QED  BY <2>1, <2>2
<1>6. \A f \in free_blocks : g[f] \in others /\ Touches(f, g[f])
    BY <1>5
<1>7. ASSUME NEW f \in free_blocks, NEW h \in free_blocks, g[f] = g[h] PROVE f = h
  <2>1. PICK y \in others : y = g[f] /\ Touches(f, y) /\ Touches(h, y)
    BY <1>6, <1>7
  <2>2. y \in Block /\ y.offset \in Nat /\ End(y) \in Nat /\ y.offset < End(y) /\ Apart(y, b)
    BY <1>1, EndInNat DEF HeapTypeOK, HeapDisjoint, Block
  <2>3. f # h => Apart(f, h)
    BY <1>1 DEF HeapDisjoint
  <2>4. CASE f.offset < b.offset /\ h.offset < b.offset
    <3>1. End(f) = End(h)
        BY <2>1, <2>4
    <3> QED  BY <3>1, <2>3, <1>4 DEF Apart
  <2>5. CASE ~ (f.offset < b.offset) /\ ~ (h.offset < b.offset)
    <3>1. f.offset = h.offset
        BY <2>1, <2>5
    <3> QED  BY <3>1, <2>3, <1>4 DEF Apart
  <2>6. CASE f.offset < b.offset /\ ~ (h.offset < b.offset)
    <3>1. y.offset = End(f) /\ End(y) = h.offset
        BY <2>1, <2>6
    <3>2. End(f) < b.offset /\ End(b) < h.offset
        BY <2>6, <1>2, <1>4
    <3> QED  BY <3>1, <3>2, <2>2, <1>2, <1>4 DEF Apart
  <2>7. CASE ~ (f.offset < b.offset) /\ h.offset < b.offset
    <3>1. y.offset = End(h) /\ End(y) = f.offset
        BY <2>1, <2>7
    <3>2. End(h) < b.offset /\ End(b) < f.offset
        BY <2>7, <1>2, <1>4
    <3> QED  BY <3>1, <3>2, <2>2, <1>2, <1>4 DEF Apart
  <2> QED  BY <2>4, <2>5, <2>6, <2>7
<1>8. g \in Injection(free_blocks, others)
    BY <1>6, <1>7 DEF Injection, IsInjective
<1> HIDE DEF g
<1>9. IsFiniteSet(others) /\ Cardinality(others) = Cardinality(live) - 1 /\ Cardinality(live) \in Nat
  <2>1. IsFiniteSet(live)
    BY <1>1 DEF HeapBounded
  <2> QED  BY <2>1, FS_RemoveElement, FS_CardinalityType
<1>10. IsFiniteSet(free_blocks) /\ Cardinality(free_blocks) <= Cardinality(others)
    BY <1>8, <1>9, FS_Injection DEF ExistsInjection
<1>11. Cardinality(free_blocks) \in Nat
    BY <1>10, FS_CardinalityType
<1> QED  BY <1>9, <1>10, <1>11

LEMMA HeapHasRoom == HeapInv => BlocksSuffice
<1> SUFFICES ASSUME HeapInv, Cardinality(live) <= MaxFreeBlocks, NEW b \in live,
                    Before(b.offset) \cup After(b.offset, b.size) = {}
             PROVE  Cardinality(free_blocks) < MaxFreeBlocks
    BY DEF BlocksSuffice
<1>1. IsFiniteSet(free_blocks) /\ Cardinality(free_blocks) < Cardinality(live)
    BY FewerFree
<1>2. IsFiniteSet(live)
    BY DEF HeapInv, HeapBounded
<1>3. Cardinality(free_blocks) \in Nat /\ Cardinality(live) \in Nat /\ MaxFreeBlocks \in Nat
    BY <1>1, <1>2, FS_CardinalityType, AllocAssumption
<1> QED  BY <1>1, <1>3

-----------------------------------------------------------------------------
(* The graph allocator: what every graph built is like.                    *)

Tensor == [op : {"none", "map", "view", "mul_mat"}, src : Seq(Nat), view_src : Nat,
           shape : Shapes, output : BOOLEAN]

LeafOK(t) == graph[t].src = <<>> /\ graph[t].view_src = 0 /\ ~ graph[t].output /\ graph[t].op = "none"

\* What a node may read, and what a view of it is a view of.
NodeOK(t) ==
    /\ Len(graph[t].src) \in {1, 2} /\ graph[t].view_src < t
    /\ \A k \in DOMAIN graph[t].src :
        LET p == graph[t].src[k] IN
        /\ p \in 1 .. t - 1
        /\ CanInplace(t) => \A n \in TokenCounts : graph[t].shape[n] % graph[p].shape[n] = 0
    /\ IsView(t) => graph[t].view_src = Root(graph[t].src[1]) /\ ~ CanInplace(t)
                    /\ Len(graph[t].src) = 1

GraphOK ==
    /\ graph \in Seq(Tensor)
    /\ Len(Leafs) <= Len(graph) /\ Len(graph) <= NTensors
    /\ \A t \in Tensors \ Nodes : LeafOK(t)
    /\ \A t \in Nodes : NodeOK(t)
    /\ \A t \in Tensors : ~ IsView(Root(t))
    /\ Len(graph) = NTensors => Unread = {}
    /\ pc # "build" => Len(graph) = NTensors

Roots(u) == {Root(p) : p \in Srcs(u)}

-----------------------------------------------------------------------------
(* The walk.                                                               *)

Planning == pc \in {"leafs", "node", "parents"}

WalkOK ==
    /\ pc \in {"build", "alloc_graph", "leafs", "node", "parents", "failed", "init", "compute"}
    /\ n_tokens \in TokenCounts
    /\ pc = "leafs" => i \in 1 .. Len(Leafs) + 1
    /\ pc = "node" => i \in Len(Leafs) + 1 .. NTensors + 1
    /\ pc = "parents" => i \in Nodes /\ j \in DOMAIN graph[i].src
    /\ buffer_size \in Nat
    /\ Planning =>
        /\ n_children \in [Tensors -> Nat] /\ n_views \in [Tensors -> Nat]
        /\ allocated \in [Tensors -> BOOLEAN] /\ offset \in [Tensors -> Nat]

\* A tensor that has been given its memory, if it is to have any.
Visited(t) == IF pc = "parents" THEN t <= i ELSE t < i

\* The uses of a tensor that are still to come, and the views whose own uses
\* are, or which nobody uses.
Pending(t) == {w \in Uses(t) : w[1] > i \/ (w[1] = i /\ (pc = "parents" => w[2] >= j))}
LiveViews(r) == {v \in Views(r) : Uses(v) = {} \/ Pending(v) # {}}

Counts ==
    pc \in {"node", "parents"} =>
        \A t \in Tensors : /\ n_children[t] = Cardinality(Pending(t))
                           /\ n_views[t] = Cardinality(LiveViews(t))

\* The memory of r has been handed to node i, the last to read it.
Taken(r) == /\ ~ graph[r].output /\ n_views[r] = 0
            /\ \A w \in Pending(r) : w[1] = i

\* Whatever is still to be read, or is an output, has its memory.
Kept ==
    /\ pc = "leafs" => \A t \in Tensors : Visited(t) => allocated[t]
    /\ pc \in {"node", "parents"} =>
        \A r \in Tensors :
            Visited(r) /\ ~ IsView(r) /\ (graph[r].output \/ n_children[r] > 0 \/ n_views[r] > 0) =>
                allocated[r] \/ (pc = "parents" /\ Taken(r))

\* The blocks handed out are those of the owners, one each, and whatever has
\* been handed out is below max_size.
Owned ==
    Planning =>
        /\ \A t \in Owners : Visited(t) /\ ~ IsView(t) /\ BlockOf(t) \in live
        /\ \A b \in live : \E t \in Owners : BlockOf(t) = b
        /\ \A t, u \in Owners : BlockOf(t) = BlockOf(u) => t = u
        /\ \A t \in Tensors : Visited(t) /\ ~ IsView(t) => End(BlockOf(t)) <= max_size

-----------------------------------------------------------------------------
(* The plan.                                                               *)

\* Whatever has got its memory after r has it elsewhere, as long as r owns its.
OwnersAlone ==
    Planning =>
        \A r \in Owners, m \in Tensors :
            Visited(m) /\ ~ IsView(m) /\ m > r => Apart(BlockOf(m), BlockOf(r))

LeafsApart ==
    Planning =>
        \A r, m \in Tensors \ Nodes :
            Visited(r) /\ Visited(m) /\ m # r => Apart(BlockOf(m), BlockOf(r))

TakesOver(u, r) ==
    /\ CanInplace(u)
    /\ r \in Srcs(u)
    /\ \A p \in Srcs(u) : Root(p) = r => p = r

\* A node visited has found its sources where they were put.
SourcesKept ==
    Planning =>
        \A u \in Nodes : Visited(u) =>
            \A r \in Roots(u) : \A m \in WrittenAfter(r, u) :
                \/ Apart(BlockOf(m), BlockOf(r))
                \/ m = u /\ TakesOver(u, r) /\ BlockOf(u) = BlockOf(r) /\ SizeOf(u) = SizeOf(r)

\* The same of what is remembered, with the sizes for n tokens.
PlanBlock(t) == BlockAt(node_allocs[t].dst.offset, node_allocs[t].dst.size_max)

PlanFor(n) ==
    /\ \A t \in Tensors : node_allocs[t].dst \in [offset : Nat, size_max : Nat]
    /\ \A t \in Tensors : ~ IsView(t) => /\ node_allocs[t].dst.size_max = graph[t].shape[n]
                                         /\ buffer_size = 0 \/ End(PlanBlock(t)) <= buffer_size
    /\ \A t \in Nodes : \A k \in DOMAIN graph[t].src :
        node_allocs[t].src[k] = node_allocs[graph[t].src[k]].dst
    /\ \A u \in Nodes : \A r \in Roots(u) : \A m \in WrittenAfter(r, u) :
        \/ Apart(PlanBlock(m), PlanBlock(r))
        \/ m = u /\ TakesOver(u, r) /\ PlanBlock(u) = PlanBlock(r)
    /\ \A t \in Outputs : ~ ReadAway(t) =>
        \A m \in (t + 1) .. NTensors : ~ IsView(m) => Apart(PlanBlock(m), PlanBlock(Root(t)))

Fits(t) == StillFits(t, node_allocs[t].dst)

\* Of the plan of another graph nothing is known.
PlanOK ==
    SameTopology =>
        /\ node_allocs # <<>> => \E n \in TokenCounts : PlanFor(n)
        /\ pc = "build" => node_allocs = <<>>
        /\ pc \in {"init", "compute"} => node_allocs # <<>> /\ \A t \in Tensors : Fits(t)
        /\ pc = "failed" => \A t \in Tensors : ~ IsView(t) => End(PlanBlock(t)) <= max_size
        /\ pc = "compute" => addr = [t \in Tensors |-> node_allocs[Root(t)].dst.offset]

GraphInv ==
    /\ HeapInv
    /\ GraphOK
    /\ WalkOK
    /\ Counts
    /\ Kept
    /\ Owned
    /\ OwnersAlone
    /\ LeafsApart
    /\ SourcesKept
    /\ PlanOK

-----------------------------------------------------------------------------
(* Facts about graphs and sizes.                                           *)

\* What a tensor may be read by and viewed through.
LEMMA GraphTypes ==
    ASSUME GraphOK
    PROVE  /\ Len(graph) \in Nat /\ Tensors = 1 .. Len(graph) /\ Len(Leafs) \in Nat
           /\ NNodes \in Nat /\ NNodes > 0 /\ NTensors \in Nat
           /\ Nodes = {t \in Tensors : t > Len(Leafs)}
           /\ \A t \in Tensors :
                /\ graph[t] \in Tensor
                /\ DOMAIN graph[t].src = 1 .. Len(graph[t].src) /\ Len(graph[t].src) \in Nat
                /\ Root(t) \in Tensors /\ Root(t) <= t /\ ~ IsView(Root(t))
                /\ ~ IsView(t) => Root(t) = t
                /\ Srcs(t) \subseteq Tensors /\ \A p \in Srcs(t) : p < t /\ t \in Nodes
<1>1. /\ Len(graph) \in Nat /\ Tensors = 1 .. Len(graph) /\ graph \in Seq(Tensor)
    BY DEF GraphOK, Tensors
<1>2. Len(Leafs) \in Nat /\ NNodes \in Nat /\ NNodes > 0
  <2> DEFINE L == {Leaf(s) : s \in Shapes}
  <2>1. Leafs \in Seq(L) /\ NNodes \in Nat \ {0}
    BY GraphAssumption
  <2> HIDE DEF L
  <2> QED  BY <2>1
<1>3. \A t \in Tensors : graph[t] \in Tensor
    BY <1>1
<1>4. ASSUME NEW t \in Tensors
      PROVE  /\ DOMAIN graph[t].src = 1 .. Len(graph[t].src) /\ Len(graph[t].src) \in Nat
             /\ graph[t].view_src \in Nat
  <2>1. graph[t].src \in Seq(Nat) /\ graph[t].view_src \in Nat
    BY <1>3 DEF Tensor
  <2> QED  BY <2>1
<1>5. ASSUME NEW t \in Tensors \ Nodes PROVE Srcs(t) = {} /\ ~ IsView(t)
    BY <1>5 DEF GraphOK, LeafOK, Srcs, IsView
<1>6. ASSUME NEW t \in Nodes
      PROVE  graph[t].view_src < t /\ \A p \in Srcs(t) : p \in 1 .. t - 1
    BY <1>6 DEF GraphOK, NodeOK, Srcs
<1>7. \A t \in Nodes : t \in Tensors
    BY DEF Nodes
<1>8. ASSUME NEW t \in Tensors
      PROVE  Srcs(t) \subseteq Tensors /\ \A p \in Srcs(t) : p < t /\ t \in Nodes
  <2> SUFFICES ASSUME NEW p \in Srcs(t) PROVE p \in Tensors /\ p < t /\ t \in Nodes
    OBVIOUS
  <2>1. t \in Nodes
    BY <1>5
  <2>2. p \in 1 .. t - 1
    BY <1>6, <2>1
  <2> QED  BY <1>1, <2>1, <2>2
<1>9. ASSUME NEW t \in Tensors
      PROVE  Root(t) \in Tensors /\ Root(t) <= t /\ (~ IsView(t) => Root(t) = t)
  <2>1. CASE ~ IsView(t)
    BY <1>1, <2>1 DEF Root
  <2>2. CASE IsView(t)
    <3>1. t \in Nodes /\ Root(t) = graph[t].view_src /\ Root(t) # 0
        BY <1>5, <2>2 DEF Root, IsView
    <3> QED  BY <1>1, <1>4, <1>6, <2>2, <3>1
  <2> QED  BY <2>1, <2>2
<1>10. \A t \in Tensors : ~ IsView(Root(t))
    BY DEF GraphOK
<1> QED  BY <1>1, <1>2, <1>3, <1>4, <1>8, <1>9, <1>10 DEF NTensors, Nodes

\* A view is a view of what its source is a view of; nobody views a view.
LEMMA ViewFacts ==
    ASSUME GraphOK, NEW t \in Tensors
    PROVE  /\ IsView(t) => /\ t \in Nodes /\ graph[t].view_src = Root(t) /\ t \in Views(Root(t))
                           /\ graph[t].src[1] \in Srcs(t) /\ Root(graph[t].src[1]) = Root(t)
                           /\ Views(t) = {} /\ Root(t) < t
           /\ \A v \in Views(t) : v \in Tensors /\ IsView(v) /\ Root(v) = t
<1>1. ASSUME IsView(t)
      PROVE  /\ t \in Nodes /\ graph[t].view_src = Root(t) /\ t \in Views(Root(t))
             /\ graph[t].src[1] \in Srcs(t) /\ Root(graph[t].src[1]) = Root(t) /\ Root(t) < t
  <2>1. t \in Nodes
    BY <1>1 DEF GraphOK, LeafOK, IsView
  <2>2. graph[t].view_src = Root(t)
    BY <1>1 DEF Root
  <2>3. NodeOK(t) /\ 1 \in DOMAIN graph[t].src
    <3>1. NodeOK(t)
        BY <2>1 DEF GraphOK
    <3>2. Len(graph[t].src) \in {1, 2} /\ DOMAIN graph[t].src = 1 .. Len(graph[t].src)
        BY <3>1, GraphTypes DEF NodeOK
    <3>3. 1 \in 1 .. Len(graph[t].src)
        BY <3>2
    <3> QED  BY <3>1, <3>2, <3>3
  <2>4. graph[t].src[1] \in Srcs(t)
    BY <2>3 DEF Srcs
  <2> QED  BY <1>1, <2>1, <2>2, <2>3, <2>4 DEF Views, NodeOK
<1>2. \A v \in Views(t) : v \in Tensors /\ IsView(v) /\ Root(v) = t
  <2> SUFFICES ASSUME NEW v \in Views(t) PROVE v \in Tensors /\ IsView(v) /\ Root(v) = t
    OBVIOUS
  <2>1. v \in Nodes /\ v \in Tensors /\ graph[v].view_src = t
    BY DEF Views, Nodes
  <2>2. t # 0
    BY GraphTypes
  <2> QED  BY <2>1, <2>2 DEF IsView, Root
<1>3. IsView(t) => Views(t) = {}
  <2> SUFFICES ASSUME NEW v \in Views(t) PROVE ~ IsView(t)
    OBVIOUS
  <2> QED  BY <1>2, GraphTypes
<1> QED  BY <1>1, <1>2, <1>3

\* The graph is the same: so is all that is said of it alone.
LEMMA GraphSame ==
    ASSUME graph' = graph
    PROVE  /\ Tensors' = Tensors /\ Nodes' = Nodes
           /\ \A t : /\ IsView(t)' <=> IsView(t)
                     /\ Root(t)' = Root(t) /\ Srcs(t)' = Srcs(t) /\ Roots(t)' = Roots(t)
                     /\ Uses(t)' = Uses(t) /\ Views(t)' = Views(t)
                     /\ CanInplace(t)' <=> CanInplace(t)
                     /\ ReadAway(t)' <=> ReadAway(t)
           /\ Outputs' = Outputs
           /\ \A r, u : WrittenAfter(r, u)' = WrittenAfter(r, u) /\ (TakesOver(u, r)' <=> TakesOver(u, r))
<1>1. Tensors' = Tensors /\ Nodes' = Nodes
    BY DEF Tensors, Nodes
<1>2. \A t : (IsView(t)' <=> IsView(t)) /\ (CanInplace(t)' <=> CanInplace(t)) /\ Srcs(t)' = Srcs(t)
    BY DEF IsView, CanInplace, Srcs
<1>3. \A t : Root(t)' = Root(t)
    BY <1>2 DEF Root
<1>4. \A t : Roots(t)' = Roots(t)
    BY <1>2, <1>3 DEF Roots
<1>5. \A t : Uses(t)' = Uses(t) /\ Views(t)' = Views(t)
    BY <1>1 DEF Uses, Views
<1>6. \A r, u : WrittenAfter(r, u)' = WrittenAfter(r, u)
    BY <1>1, <1>2 DEF WrittenAfter
<1>7. \A r, u : TakesOver(u, r)' <=> TakesOver(u, r)
    BY <1>2, <1>3 DEF TakesOver
<1>8. Outputs' = Outputs /\ \A t : ReadAway(t)' <=> ReadAway(t)
    BY <1>1, <1>2, <1>3 DEF Outputs, ReadAway
<1> QED  BY <1>1, <1>2, <1>3, <1>4, <1>5, <1>6, <1>7, <1>8

LEMMA GraphStays ==
    ASSUME GraphOK, graph' = graph, pc # "build" \/ Len(graph) = NTensors \/ pc' = "build"
    PROVE  GraphOK'
<1>1. \A t : (NodeOK(t)' <=> NodeOK(t)) /\ (LeafOK(t)' <=> LeafOK(t))
    BY GraphSame DEF NodeOK, LeafOK
<1>2. Unread' = Unread
    BY GraphSame DEF Unread
<1> QED  BY <1>1, <1>2, GraphSame DEF GraphOK

-----------------------------------------------------------------------------
(* Sizes, blocks, uses.                                                    *)

LEMMA ShapeFacts ==
    ASSUME NEW s \in Shapes, NEW n \in TokenCounts
    PROVE  s[n] \in Sizes /\ s[n] \in Nat \ {0}
    BY GraphAssumption, AllocAssumption

LEMMA SizeFacts ==
    ASSUME GraphOK, n_tokens \in TokenCounts, NEW t \in Tensors
    PROVE  SizeOf(t) \in Nat \ {0} /\ SizeOf(t) \in Sizes
<1>1. graph[t].shape \in Shapes
    BY GraphTypes DEF Tensor
<1> QED  BY <1>1, ShapeFacts DEF SizeOf

LEMMA BlockFacts ==
    ASSUME GraphOK, n_tokens \in TokenCounts, offset \in [Tensors -> Nat], NEW t \in Tensors
    PROVE  /\ BlockOf(t) \in Block /\ BlockOf(t).offset = offset[t]
           /\ BlockOf(t).size = Padded(SizeOf(t))
           /\ End(BlockOf(t)) = offset[t] + Padded(SizeOf(t))
           /\ Padded(SizeOf(t)) \in Nat \ {0} /\ SizeOf(t) <= Padded(SizeOf(t))
<1>1. SizeOf(t) \in Nat \ {0}
    BY SizeFacts
<1>2. Padded(SizeOf(t)) \in Nat \ {0} /\ SizeOf(t) <= Padded(SizeOf(t))
    BY <1>1, PaddedMore
<1> QED  BY <1>2, BlockAtFacts DEF BlockOf

\* There are finitely many uses and views.
LEMMA UsesFinite ==
    ASSUME GraphOK, NEW t
    PROVE  /\ IsFiniteSet(Tensors) /\ IsFiniteSet(Uses(t)) /\ IsFiniteSet(Views(t))
           /\ IsFiniteSet(Pending(t)) /\ IsFiniteSet(LiveViews(t))
<1>1. IsFiniteSet(Tensors)
  <2>1. Tensors = 1 .. Len(graph) /\ Len(graph) \in Nat
    BY GraphTypes
  <2> QED  BY <2>1, FS_Interval
<1>2. IsFiniteSet(Nodes) /\ IsFiniteSet({1, 2})
  <2>1. Nodes \subseteq Tensors
    BY DEF Nodes
  <2>2. IsFiniteSet(Nodes)
    BY <1>1, <2>1, FS_Subset
  <2>3. {1, 2} = 1 .. 2
    OBVIOUS
  <2>4. IsFiniteSet(1 .. 2)
    <3>1. 1 \in Int /\ 2 \in Int
        OBVIOUS
    <3> QED  BY <3>1, FS_Interval
  <2> QED  BY <2>2, <2>3, <2>4
<1>3. IsFiniteSet(Nodes \X {1, 2})
    BY <1>2, FS_Product
<1>4. Uses(t) \subseteq Nodes \X {1, 2} /\ Views(t) \subseteq Nodes
    BY DEF Uses, Views
<1>5. IsFiniteSet(Uses(t)) /\ IsFiniteSet(Views(t))
    BY <1>2, <1>3, <1>4, FS_Subset
<1>6. Pending(t) \subseteq Uses(t) /\ LiveViews(t) \subseteq Views(t)
    BY DEF Pending, LiveViews
<1> QED  BY <1>1, <1>5, <1>6, FS_Subset

\* Each occurrence among the sources of a node is a use.
LEMMA SourceIsUse ==
    ASSUME GraphOK, NEW u \in Tensors, NEW p \in Srcs(u)
    PROVE  /\ u \in Nodes
           /\ \E k \in {1, 2} : k \in DOMAIN graph[u].src /\ graph[u].src[k] = p /\ <<u, k>> \in Uses(p)
<1>1. u \in Nodes
    BY GraphTypes
<1>2. PICK k \in DOMAIN graph[u].src : graph[u].src[k] = p
    BY DEF Srcs
<1>3. k \in {1, 2}
  <2>1. Len(graph[u].src) \in {1, 2} /\ DOMAIN graph[u].src = 1 .. Len(graph[u].src)
    BY <1>1, GraphTypes DEF GraphOK, NodeOK
  <2> QED  BY <1>2, <2>1
<1>4. <<u, k>> \in Uses(p)
    BY <1>1, <1>2, <1>3 DEF Uses
<1> QED  BY <1>1, <1>2, <1>3, <1>4

LEMMA UseFacts ==
    ASSUME GraphOK, NEW t \in Tensors, NEW w \in Uses(t)
    PROVE  /\ w = <<w[1], w[2]>> /\ w[1] \in Nodes /\ w[2] \in {1, 2}
           /\ w[2] \in DOMAIN graph[w[1]].src /\ graph[w[1]].src[w[2]] = t /\ t \in Srcs(w[1])
    BY DEF Uses, Srcs

\* A count above zero.
LEMMA CountPositive ==
    ASSUME NEW S, IsFiniteSet(S)
    PROVE  Cardinality(S) \in Nat /\ (S # {} <=> Cardinality(S) > 0)
    BY FS_CardinalityType, FS_EmptySet

\* With the graph and the number of tokens a block depends on its offset alone.
LEMMA SameSizes ==
    ASSUME graph' = graph, n_tokens' = n_tokens
    PROVE  \A t : /\ SizeOf(t)' = SizeOf(t)
                  /\ offset'[t] = offset[t] => BlockOf(t)' = BlockOf(t)
    BY DEF SizeOf, BlockOf, BlockAt, Padded

\* What the invariant says of the heap and its owners.
LEMMA OwnerFacts ==
    ASSUME GraphInv, Planning
    PROVE  /\ Owners = {t \in Tensors : allocated[t]}
           /\ \A t \in Owners : /\ t \in Tensors /\ Visited(t) /\ ~ IsView(t) /\ Root(t) = t
                                /\ BlockOf(t) \in live /\ allocated[t]
           /\ \A b \in live : \E t \in Owners : BlockOf(t) = b
           /\ \A t, u \in Owners : BlockOf(t) = BlockOf(u) => t = u
           /\ \A t, u \in Owners : t # u => Apart(BlockOf(t), BlockOf(u))
           /\ n_tokens \in TokenCounts
           /\ offset \in [Tensors -> Nat] /\ allocated \in [Tensors -> BOOLEAN]
           /\ n_children \in [Tensors -> Nat] /\ n_views \in [Tensors -> Nat]
           /\ max_size \in Nat
<1>1. /\ n_tokens \in TokenCounts
      /\ offset \in [Tensors -> Nat] /\ allocated \in [Tensors -> BOOLEAN]
      /\ n_children \in [Tensors -> Nat] /\ n_views \in [Tensors -> Nat]
    BY DEF GraphInv, WalkOK
<1>2. Owners = {t \in Tensors : allocated[t]}
    BY <1>1 DEF Owners
<1>3. /\ \A t \in Owners : Visited(t) /\ ~ IsView(t) /\ BlockOf(t) \in live
      /\ \A b \in live : \E t \in Owners : BlockOf(t) = b
      /\ \A t, u \in Owners : BlockOf(t) = BlockOf(u) => t = u
    BY DEF GraphInv, Owned
<1>4. \A a, b \in live : a = b \/ Apart(a, b)
    BY DEF GraphInv, HeapInv, HeapTiled, HeapDisjoint
<1>5. max_size \in Nat
    BY DEF GraphInv, HeapInv, HeapTiled, HeapTypeOK
<1>6. \A t \in Owners : Root(t) = t
    BY <1>3 DEF Root
<1> QED  BY <1>1, <1>2, <1>3, <1>4, <1>5, <1>6

\* Apart is symmetric, for blocks of any sort.
LEMMA ApartBothWays == ASSUME NEW a, NEW b PROVE Apart(a, b) <=> Apart(b, a)
    BY DEF Apart

\* A block taken from the heap is apart from all those handed out before.
LEMMA TakeApart ==
    ASSUME HeapInv, NEW b \in free_blocks, NEW s \in Nat \ {0}, b.size >= s, NEW x \in live
    PROVE  Apart(BlockAt(b.offset, s), x) /\ BlockAt(b.offset, s) # x
<1>1. /\ b \in Block /\ x \in Block /\ b # x /\ Apart(b, x)
    BY DEF HeapInv, HeapTiled, HeapTypeOK, HeapDisjoint
<1>2. /\ b.offset \in Nat /\ b.size \in Nat /\ x.offset \in Nat /\ x.size \in Nat /\ x.size > 0
      /\ End(b) = b.offset + b.size /\ End(x) = x.offset + x.size
    BY <1>1 DEF Block, End
<1>3. BlockAt(b.offset, s).offset = b.offset /\ End(BlockAt(b.offset, s)) = b.offset + s
    BY <1>2, BlockAtFacts
<1>4. End(x) <= b.offset \/ b.offset + b.size <= x.offset
    BY <1>1, <1>2 DEF Apart
<1>5. b.offset + s <= b.offset + b.size
    BY <1>2
<1>6. Apart(BlockAt(b.offset, s), x)
    BY <1>2, <1>3, <1>4, <1>5 DEF Apart
<1>7. BlockAt(b.offset, s) # x
    BY <1>2, <1>3, <1>4, <1>5
<1> QED  BY <1>6, <1>7

LEMMA HeapSame == ASSUME HeapInv, UNCHANGED heapvars PROVE HeapInv' /\ max_size' = max_size /\ live' = live
    BY DEF heapvars, HeapInv, HeapTiled, HeapBounded, HeapTypeOK, HeapDisjoint, HeapComplete,
           HeapMerged, HeapFits, Apart, End

-----------------------------------------------------------------------------
(* Giving a tensor its memory.                                             *)

\* The walk comes to tensor t, the first it has not visited.
Visits(t) ==
    /\ Planning /\ pc' \in {"leafs", "node", "parents"}
    /\ graph' = graph /\ n_tokens' = n_tokens
    /\ t \in Tensors /\ ~ Visited(t)
    /\ \A m \in Tensors : /\ Visited(m) => m < t
                          /\ Visited(m)' <=> Visited(m) \/ m = t

\* What is true afterwards, whatever memory it is given.
Given(t) ==
    /\ HeapInv'
    /\ offset' \in [Tensors -> Nat] /\ allocated' \in [Tensors -> BOOLEAN]
    /\ \A m \in Tensors \ {t} : BlockOf(m)' = BlockOf(m)
    /\ ~ IsView(t) => allocated'[t]
    /\ Owned'
    /\ OwnersAlone'

\* Views own nothing: a parent taken over is no view.
LEMMA FirstReusableFacts ==
    ASSUME GraphInv, Planning, NEW t \in Tensors, NEW p \in FirstReusable(t)
    PROVE  p \in Owners /\ p \in Srcs(t) /\ Reusable(t, p) /\ CanInplace(t) /\ Root(p) = p /\ p < t
<1>1. CanInplace(t) /\ p \in Srcs(t) /\ Reusable(t, p)
    BY DEF FirstReusable, Srcs
<1>2. p \in Tensors /\ p < t
    BY <1>1, GraphTypes DEF GraphInv
<1>3. p \in Owners
    BY <1>1, <1>2, OwnerFacts DEF Reusable
<1> QED  BY <1>1, <1>2, <1>3, OwnerFacts

\* Taken over from a parent that nobody else is to read.
LEMMA OverParent ==
    ASSUME GraphInv, NEW t, Visits(t), ~ IsView(t), NEW p \in FirstReusable(t),
           offset' = [offset EXCEPT ![t] = offset[p]],
           allocated' = [allocated EXCEPT ![t] = TRUE, ![p] = FALSE, ![Root(p)] = FALSE],
           UNCHANGED heapvars
    PROVE  /\ Given(t)
           /\ Owners' = (Owners \ {p}) \cup {t}
           /\ BlockOf(t)' = BlockOf(p) /\ SizeOf(t) = SizeOf(p)
<1>1. /\ Planning /\ t \in Tensors /\ ~ Visited(t) /\ GraphOK /\ Planning'
      /\ Tensors' = Tensors /\ \A m : IsView(m)' <=> IsView(m)
    BY GraphSame DEF Visits, Planning, GraphInv
<1>2. p \in Owners /\ Reusable(t, p) /\ Root(p) = p /\ p < t /\ p \in Tensors
    BY <1>1, FirstReusableFacts, OwnerFacts
<1>3. /\ offset \in [Tensors -> Nat] /\ allocated \in [Tensors -> BOOLEAN]
      /\ n_tokens \in TokenCounts /\ Owners = {m \in Tensors : allocated[m]}
    BY <1>1, OwnerFacts
<1>4. t \in Nat /\ p \in Nat
    BY <1>1, <1>2, GraphTypes
<1>5. /\ offset' \in [Tensors -> Nat] /\ allocated' \in [Tensors -> BOOLEAN]
      /\ offset'[t] = offset[p] /\ \A m \in Tensors \ {t} : offset'[m] = offset[m]
      /\ allocated' = [allocated EXCEPT ![t] = TRUE, ![p] = FALSE]
    BY <1>1, <1>2, <1>3
<1>6. SizeOf(t) = SizeOf(p)
    BY <1>2 DEF Reusable, SameLayout
<1>7. \A m \in Tensors \ {t} : BlockOf(m)' = BlockOf(m)
    BY <1>5, SameSizes DEF Visits
<1>8. BlockOf(t)' = BlockOf(p)
  <2>1. SizeOf(t)' = SizeOf(t)
    BY SameSizes DEF Visits
  <2>2. BlockOf(t)' = BlockAt(offset'[t], Padded(SizeOf(t)'))
    BY DEF BlockOf, BlockAt, Padded
  <2> QED  BY <2>1, <2>2, <1>5, <1>6 DEF BlockOf
<1>9. t # p /\ allocated'[t] /\ ~ allocated'[p] /\ \A m \in Tensors \ {t, p} : allocated'[m] = allocated[m]
  <2>1. t # p
    BY <1>2, <1>4
  <2> QED  BY <2>1, <1>1, <1>2, <1>3, <1>5
<1>10. Owners' = (Owners \ {p}) \cup {t}
  <2>1. Owners' = {m \in Tensors : allocated'[m]}
    BY <1>5 DEF Owners
  <2> QED  BY <2>1, <1>1, <1>3, <1>9
<1>11. HeapInv' /\ max_size' = max_size /\ live' = live
    BY HeapSame DEF GraphInv
<1>12. /\ \A m \in Owners : Visited(m) /\ ~ IsView(m) /\ BlockOf(m) \in live /\ m \in Tensors
       /\ \A b \in live : \E m \in Owners : BlockOf(m) = b
       /\ \A m, u \in Owners : BlockOf(m) = BlockOf(u) => m = u
       /\ \A m, u \in Owners : m # u => Apart(BlockOf(m), BlockOf(u))
    BY <1>1, OwnerFacts
<1>13. t \notin Owners
    BY <1>1, <1>12
<1>14. \A m \in Tensors : Visited(m)' <=> Visited(m) \/ m = t
    BY DEF Visits
<1>15. Owned'
  <2>1. \A m \in Owners' : Visited(m)' /\ ~ IsView(m)' /\ BlockOf(m)' \in live'
    BY <1>1, <1>2, <1>7, <1>8, <1>10, <1>11, <1>12, <1>13, <1>14
  <2>2. \A b \in live' : \E m \in Owners' : BlockOf(m)' = b
    <3> SUFFICES ASSUME NEW b \in live PROVE \E m \in Owners' : BlockOf(m)' = b
        BY <1>11
    <3>1. PICK m \in Owners : BlockOf(m) = b
        BY <1>12
    <3>2. CASE m = p
        BY <3>1, <3>2, <1>8, <1>10
    <3>3. CASE m # p
        BY <3>1, <3>3, <1>7, <1>10, <1>12, <1>13
    <3> QED  BY <3>2, <3>3
  <2>3. \A m, u \in Owners' : BlockOf(m)' = BlockOf(u)' => m = u
    BY <1>2, <1>7, <1>8, <1>10, <1>12, <1>13
  <2>4. \A m \in Tensors' : Visited(m)' /\ ~ IsView(m)' => End(BlockOf(m))' <= max_size'
    <3> SUFFICES ASSUME NEW m \in Tensors, Visited(m) \/ m = t, ~ IsView(m)
                 PROVE  End(BlockOf(m))' <= max_size
        BY <1>1, <1>11, <1>14
    <3>1. \A u \in Tensors : Visited(u) /\ ~ IsView(u) => End(BlockOf(u)) <= max_size
        BY <1>1 DEF GraphInv, Owned
    <3>2. CASE m = t
        BY <3>1, <3>2, <1>2, <1>8, <1>12 DEF End
    <3>3. CASE m # t
        BY <3>1, <3>3, <1>7 DEF End
    <3> QED  BY <3>2, <3>3
  <2> QED  BY <2>1, <2>2, <2>3, <2>4 DEF Owned
<1>16. OwnersAlone'
  <2> SUFFICES ASSUME NEW r \in Owners', NEW m \in Tensors, Visited(m)', ~ IsView(m), m > r
               PROVE  Apart(BlockOf(m), BlockOf(r))'
    BY <1>1 DEF OwnersAlone
  <2>1. r # t
    <3>1. Visited(m) \/ m = t
        BY <1>14
    <3>2. m \in Nat /\ (m < t \/ m = t)
        BY <3>1, <1>1, <1>4, GraphTypes DEF Visits
    <3> QED  BY <3>2, <1>4
  <2>2. r \in Owners /\ r # p /\ BlockOf(r)' = BlockOf(r)
    BY <2>1, <1>7, <1>10, <1>12
  <2>3. CASE m = t
    BY <2>2, <2>3, <1>2, <1>8, <1>12 DEF Apart, End
  <2>4. CASE m # t
    <3>1. Visited(m) /\ BlockOf(m)' = BlockOf(m)
        BY <2>4, <1>7, <1>14
    <3>2. Apart(BlockOf(m), BlockOf(r))
        BY <3>1, <2>2, <1>1 DEF GraphInv, OwnersAlone
    <3> QED  BY <3>1, <3>2, <2>2 DEF Apart, End
  <2> QED  BY <2>3, <2>4
<1> QED  BY <1>1, <1>5, <1>6, <1>7, <1>8, <1>9, <1>10, <1>11, <1>15, <1>16 DEF Given

\* Taken from the heap: nobody has it.
LEMMA FromHeap ==
    ASSUME GraphInv, NEW t, Visits(t), ~ IsView(t),
           offset' = [offset EXCEPT ![t] = Place(SizeOf(t))],
           allocated' = [allocated EXCEPT ![t] = TRUE],
           Alloc(SizeOf(t))
    PROVE  /\ Given(t)
           /\ Owners' = Owners \cup {t}
           /\ \A r \in Owners : Apart(BlockOf(t)', BlockOf(r))
<1> DEFINE s == Padded(SizeOf(t))
           b == BestFit(s)
<1>1. /\ Planning /\ t \in Tensors /\ ~ Visited(t) /\ GraphOK /\ Planning' /\ HeapInv
      /\ Tensors' = Tensors /\ \A m : IsView(m)' <=> IsView(m)
    BY GraphSame DEF Visits, Planning, GraphInv
<1>2. t \in Nat
    BY <1>1, GraphTypes
<1>3. /\ offset \in [Tensors -> Nat] /\ allocated \in [Tensors -> BOOLEAN]
      /\ n_tokens \in TokenCounts /\ Owners = {m \in Tensors : allocated[m]}
      /\ max_size \in Nat
    BY <1>1, OwnerFacts
<1>4. s \in Nat \ {0}
    BY <1>1, <1>3, BlockFacts
<1>5. b \in free_blocks /\ b \in Block /\ b.offset \in Nat
  <2>1. HeapTypeOK /\ HeapBounded /\ free_blocks # {}
    BY <1>1 DEF Alloc, HeapInv, HeapTiled
  <2>2. b \in free_blocks
    BY <2>1, BestFitIsFree
  <2> QED  BY <2>1, <2>2 DEF HeapTypeOK, Block
<1>6. Take(s, b)
    BY DEF Alloc
<1>7. Place(SizeOf(t)) = b.offset
    BY DEF Place
<1> HIDE DEF s, b
<1>8. /\ offset' \in [Tensors -> Nat] /\ allocated' \in [Tensors -> BOOLEAN]
      /\ offset'[t] = b.offset /\ \A m \in Tensors \ {t} : offset'[m] = offset[m]
      /\ allocated'[t] /\ \A m \in Tensors \ {t} : allocated'[m] = allocated[m]
    BY <1>1, <1>3, <1>5, <1>7
<1>9. \A m \in Tensors \ {t} : BlockOf(m)' = BlockOf(m)
    BY <1>8, SameSizes DEF Visits
<1>10. BlockOf(t)' = BlockAt(b.offset, s)
  <2>1. SizeOf(t)' = SizeOf(t)
    BY SameSizes DEF Visits
  <2>2. BlockOf(t)' = BlockAt(offset'[t], Padded(SizeOf(t)'))
    BY DEF BlockOf, BlockAt, Padded
  <2> QED  BY <2>1, <2>2, <1>8 DEF s
<1>11. Owners' = Owners \cup {t}
  <2>1. Owners' = {m \in Tensors : allocated'[m]}
    BY <1>8 DEF Owners
  <2> QED  BY <2>1, <1>1, <1>3, <1>8
<1>12. HeapInv'
    BY <1>1, <1>4, <1>5, <1>6, TakeInv
<1>13. b.size >= s /\ live' = live \cup {BlockOf(t)'}
    BY <1>6, <1>10 DEF Take
<1>14. max_size' \in Nat /\ max_size' >= max_size /\ b.offset + s <= max_size'
  <2>1. max_size' = IF b.offset + s > max_size THEN b.offset + s ELSE max_size
    BY <1>6 DEF Take
  <2> QED  BY <2>1, <1>3, <1>4, <1>5
<1>15. /\ \A m \in Owners : Visited(m) /\ ~ IsView(m) /\ BlockOf(m) \in live /\ m \in Tensors
       /\ \A x \in live : \E m \in Owners : BlockOf(m) = x
       /\ \A m, u \in Owners : BlockOf(m) = BlockOf(u) => m = u
    BY <1>1, OwnerFacts
<1>16. t \notin Owners
    BY <1>1, <1>15
<1>17. \A x \in live : Apart(BlockOf(t)', x) /\ BlockOf(t)' # x
    BY <1>1, <1>4, <1>5, <1>10, <1>13, TakeApart
<1>18. \A m \in Tensors : Visited(m)' <=> Visited(m) \/ m = t
    BY DEF Visits
<1>19. Owned'
  <2>1. \A m \in Owners' : Visited(m)' /\ ~ IsView(m)' /\ BlockOf(m)' \in live'
    BY <1>1, <1>9, <1>11, <1>13, <1>15, <1>16, <1>18
  <2>2. \A x \in live' : \E m \in Owners' : BlockOf(m)' = x
    BY <1>9, <1>11, <1>13, <1>15, <1>16
  <2>3. \A m, u \in Owners' : BlockOf(m)' = BlockOf(u)' => m = u
    BY <1>9, <1>11, <1>15, <1>16, <1>17
  <2>4. \A m \in Tensors' : Visited(m)' /\ ~ IsView(m)' => End(BlockOf(m))' <= max_size'
    <3> SUFFICES ASSUME NEW m \in Tensors, Visited(m) \/ m = t, ~ IsView(m)
                 PROVE  End(BlockOf(m)') <= max_size'
        BY <1>1, <1>18 DEF End
    <3>1. CASE m = t
        <4>1. End(BlockOf(t)') = b.offset + s
            BY <1>4, <1>5, <1>10, BlockAtFacts
        <4> QED  BY <3>1, <4>1, <1>14
    <3>2. CASE m # t
        <4>1. End(BlockOf(m)) <= max_size
            BY <1>1, <3>2 DEF GraphInv, Owned
        <4>2. End(BlockOf(m)) \in Nat /\ BlockOf(m)' = BlockOf(m)
            BY <3>2, <1>1, <1>3, <1>9, BlockFacts, EndInNat
        <4> QED  BY <4>1, <4>2, <1>3, <1>14
    <3> QED  BY <3>1, <3>2
  <2> QED  BY <2>1, <2>2, <2>3, <2>4 DEF Owned
<1>20. OwnersAlone'
  <2> SUFFICES ASSUME NEW r \in Owners', NEW m \in Tensors, Visited(m)', ~ IsView(m), m > r
               PROVE  Apart(BlockOf(m), BlockOf(r))'
    BY <1>1 DEF OwnersAlone
  <2>1. r # t
    <3>1. Visited(m) \/ m = t
        BY <1>18
    <3>2. m \in Nat /\ (m < t \/ m = t)
        BY <3>1, <1>1, <1>2, GraphTypes DEF Visits
    <3> QED  BY <3>2, <1>2
  <2>2. r \in Owners /\ BlockOf(r)' = BlockOf(r) /\ BlockOf(r) \in live
    BY <2>1, <1>9, <1>11, <1>15
  <2>3. CASE m = t
    BY <2>2, <2>3, <1>17 DEF Apart, End
  <2>4. CASE m # t
    <3>1. Visited(m) /\ BlockOf(m)' = BlockOf(m)
        BY <2>4, <1>9, <1>18
    <3>2. Apart(BlockOf(m), BlockOf(r))
        BY <3>1, <2>2, <1>1 DEF GraphInv, OwnersAlone
    <3> QED  BY <3>1, <3>2, <2>2 DEF Apart, End
  <2> QED  BY <2>3, <2>4
<1> QED  BY <1>1, <1>8, <1>9, <1>11, <1>12, <1>15, <1>17, <1>19, <1>20 DEF Given

\* A view gets none.
LEMMA NoMemory ==
    ASSUME GraphInv, NEW t, Visits(t), IsView(t), UNCHANGED <<allocated, offset, heapvars>>
    PROVE  Given(t) /\ Owners' = Owners
<1>1. /\ Planning /\ t \in Tensors /\ GraphOK /\ Planning'
      /\ Tensors' = Tensors /\ \A m : IsView(m)' <=> IsView(m)
    BY GraphSame DEF Visits, Planning, GraphInv
<1>2. \A m : BlockOf(m)' = BlockOf(m)
    BY SameSizes DEF Visits
<1>3. Owners' = Owners
    BY DEF Owners
<1>4. HeapInv' /\ max_size' = max_size /\ live' = live
    BY HeapSame DEF GraphInv
<1>5. /\ offset' \in [Tensors -> Nat] /\ allocated' \in [Tensors -> BOOLEAN]
      /\ \A m \in Owners : m \in Tensors
    BY <1>1, OwnerFacts
<1>6. \A m \in Tensors : Visited(m)' <=> Visited(m) \/ m = t
    BY DEF Visits
<1>7. Owned'
  <2>1. /\ \A m \in Owners : Visited(m) /\ ~ IsView(m) /\ BlockOf(m) \in live
        /\ \A b \in live : \E m \in Owners : BlockOf(m) = b
        /\ \A m, u \in Owners : BlockOf(m) = BlockOf(u) => m = u
        /\ \A m \in Tensors : Visited(m) /\ ~ IsView(m) => End(BlockOf(m)) <= max_size
    BY <1>1 DEF GraphInv, Owned
  <2>2. \A m \in Owners' : Visited(m)' /\ ~ IsView(m)' /\ BlockOf(m)' \in live'
    BY <2>1, <1>1, <1>2, <1>3, <1>4, <1>5, <1>6
  <2>3. \A b \in live' : \E m \in Owners' : BlockOf(m)' = b
    BY <2>1, <1>2, <1>3, <1>4
  <2>4. \A m, u \in Owners' : BlockOf(m)' = BlockOf(u)' => m = u
    BY <2>1, <1>2, <1>3
  <2>5. \A m \in Tensors' : Visited(m)' /\ ~ IsView(m)' => End(BlockOf(m))' <= max_size'
    BY <2>1, <1>1, <1>2, <1>4, <1>6 DEF End
  <2> QED  BY <2>2, <2>3, <2>4, <2>5 DEF Owned
<1>8. OwnersAlone'
  <2> SUFFICES ASSUME NEW r \in Owners, NEW m \in Tensors, Visited(m)', ~ IsView(m), m > r
               PROVE  Apart(BlockOf(m), BlockOf(r))'
    BY <1>1, <1>3 DEF OwnersAlone
  <2>1. Visited(m)
    BY <1>6
  <2>2. Apart(BlockOf(m), BlockOf(r))
    BY <2>1, <1>1 DEF GraphInv, OwnersAlone
  <2> QED  BY <2>2, <1>2 DEF Apart, End
<1> QED  BY <1>2, <1>3, <1>4, <1>5, <1>7, <1>8 DEF Given

\* Whatever becomes of it, one of these has happened.
LEMMA AllocateNodeCases ==
    ASSUME GraphInv, NEW t, Visits(t), AllocateNode(t)
    PROVE  /\ Given(t)
           /\ \/ IsView(t) /\ Owners' = Owners
              \/ /\ ~ IsView(t)
                 /\ Owners' = Owners \cup {t}
                 /\ \A r \in Owners : Apart(BlockOf(t)', BlockOf(r))
              \/ /\ ~ IsView(t)
                 /\ \E p \in FirstReusable(t) : /\ Owners' = (Owners \ {p}) \cup {t}
                                                /\ BlockOf(t)' = BlockOf(p)
                                                /\ SizeOf(t) = SizeOf(p)
<1>1. ~ allocated[t]
  <2>1. Planning /\ t \in Tensors /\ ~ Visited(t)
    BY DEF Visits
  <2> QED  BY <2>1, OwnerFacts
<1>2. CASE IsView(t)
  <2>1. UNCHANGED <<allocated, offset, heapvars>>
    BY <1>2 DEF AllocateNode
  <2> QED  BY <2>1, <1>2, NoMemory
<1>3. CASE ~ IsView(t) /\ FirstReusable(t) # {}
  <2>1. PICK p \in FirstReusable(t) :
            /\ offset' = [offset EXCEPT ![t] = offset[p]]
            /\ allocated' = [allocated EXCEPT ![t] = TRUE, ![p] = FALSE, ![Root(p)] = FALSE]
            /\ UNCHANGED heapvars
    BY <1>1, <1>3 DEF AllocateNode
  <2> QED  BY <2>1, <1>3, OverParent
<1>4. CASE ~ IsView(t) /\ FirstReusable(t) = {}
  <2>1. /\ offset' = [offset EXCEPT ![t] = Place(SizeOf(t))]
        /\ allocated' = [allocated EXCEPT ![t] = TRUE]
        /\ Alloc(SizeOf(t))
    BY <1>1, <1>4 DEF AllocateNode
  <2> QED  BY <2>1, <1>4, FromHeap
<1> QED  BY <1>2, <1>3, <1>4

-----------------------------------------------------------------------------
(* The plan remembered, by the steps that leave it.                        *)

LEMMA PlanSame ==
    ASSUME graph' = graph, UNCHANGED gallocr
    PROVE  /\ \A n : PlanFor(n)' <=> PlanFor(n)
           /\ node_allocs' = node_allocs /\ buffer_size' = buffer_size
<1>1. node_allocs' = node_allocs /\ buffer_size' = buffer_size
    BY DEF gallocr
<1>2. Tensors' = Tensors /\ Nodes' = Nodes
    BY GraphSame
<1>3. /\ \A t : /\ IsView(t)' <=> IsView(t)
                /\ Root(t)' = Root(t) /\ Roots(t)' = Roots(t)
                /\ PlanBlock(t)' = PlanBlock(t)
                /\ ReadAway(t)' <=> ReadAway(t)
      /\ Outputs' = Outputs
      /\ \A r, u : WrittenAfter(r, u)' = WrittenAfter(r, u) /\ (TakesOver(u, r)' <=> TakesOver(u, r))
    BY <1>1, GraphSame DEF PlanBlock, BlockAt
<1>4. \A n : PlanFor(n)' <=> PlanFor(n)
  <2> SUFFICES ASSUME NEW n PROVE PlanFor(n)' <=> PlanFor(n)
    OBVIOUS
  <2> QED  BY <1>1, <1>2, <1>3 DEF PlanFor, Apart, End
<1> QED  BY <1>1, <1>4

LEMMA PlanKept ==
    ASSUME GraphInv, graph' = graph, UNCHANGED gallocr,
           pc' \notin {"build", "failed", "init", "compute"}
    PROVE  PlanOK'
<1> SUFFICES ASSUME SameTopology PROVE PlanOK'
    BY DEF PlanOK
<1>1. node_allocs # <<>> => \E n \in TokenCounts : PlanFor(n)
    BY DEF GraphInv, PlanOK
<1>2. pc' # "build" /\ pc' # "failed" /\ pc' # "init" /\ pc' # "compute"
    OBVIOUS
<1>3. node_allocs' = node_allocs /\ \A n : PlanFor(n)' <=> PlanFor(n)
    BY PlanSame
<1>4. (node_allocs # <<>>)' => \E n \in TokenCounts : PlanFor(n)'
    BY <1>1, <1>3
<1> QED  BY <1>2, <1>4 DEF PlanOK

-----------------------------------------------------------------------------
(* The leafs.                                                              *)

LEMMA LeafFacts ==
    ASSUME GraphOK
    PROVE  /\ Tensors \ Nodes = 1 .. Len(Leafs)
           /\ \A t \in Tensors \ Nodes : ~ IsView(t) /\ ~ CanInplace(t)
<1>1. /\ Len(graph) \in Nat /\ Len(Leafs) \in Nat /\ Len(Leafs) <= Len(graph)
      /\ Tensors = 1 .. Len(graph) /\ Nodes = {t \in Tensors : t > Len(Leafs)}
    BY GraphTypes DEF GraphOK
<1>2. Tensors \ Nodes = 1 .. Len(Leafs)
    BY <1>1
<1>3. \A t \in Tensors \ Nodes : LeafOK(t)
    BY DEF GraphOK
<1> QED  BY <1>2, <1>3 DEF LeafOK, IsView, CanInplace

LEMMA AllocateLeafInv == ASSUME GraphInv, AllocateLeaf PROVE GraphInv'
<1>1. /\ pc = "leafs" /\ pc' = "leafs" /\ i' = i + 1 /\ i <= Len(Leafs)
      /\ graph' = graph /\ n_tokens' = n_tokens /\ UNCHANGED gallocr
      /\ n_children' = n_children /\ n_views' = n_views /\ AllocateNode(i)
    BY DEF AllocateLeaf
<1>2. /\ GraphOK /\ Planning /\ i \in 1 .. Len(Leafs) + 1 /\ Len(Leafs) \in Nat
      /\ \A t : Visited(t) <=> t < i
      /\ \A t : Visited(t)' <=> t < i'
    BY <1>1, GraphTypes DEF GraphInv, WalkOK, Planning, Visited
<1>3. /\ i \in Tensors \ Nodes /\ i \in Nat /\ ~ IsView(i) /\ ~ CanInplace(i)
      /\ Tensors \ Nodes = 1 .. Len(Leafs)
    BY <1>1, <1>2, LeafFacts
<1>4. Tensors \subseteq Nat /\ Nodes \subseteq Tensors /\ \A t \in Nodes : t > Len(Leafs)
    BY <1>2, GraphTypes DEF Nodes
<1> PICK t : t = i
    OBVIOUS
<1>5. Visits(t)
  <2>1. \A m \in Tensors : /\ Visited(m) => m < t
                           /\ Visited(m)' <=> Visited(m) \/ m = t
    <3> SUFFICES ASSUME NEW m \in Tensors
                 PROVE  (Visited(m) => m < t) /\ (Visited(m)' <=> Visited(m) \/ m = t)
        OBVIOUS
    <3>1. m \in Nat /\ t \in Nat /\ i' = t + 1
        BY <1>1, <1>3, <1>4
    <3>2. (Visited(m) <=> m < t) /\ (Visited(m)' <=> m < t + 1)
        BY <1>2, <3>1
    <3> QED  BY <3>1, <3>2
  <2>2. ~ Visited(t)
    BY <1>2, <1>3
  <2> QED  BY <2>1, <2>2, <1>1, <1>2, <1>3 DEF Visits
<1>6. FirstReusable(t) = {}
    BY <1>3 DEF FirstReusable
<1>7. /\ Given(t) /\ Owners' = Owners \cup {t}
      /\ \A r \in Owners : Apart(BlockOf(t)', BlockOf(r))
    BY <1>1, <1>3, <1>5, <1>6, AllocateNodeCases
<1>8. GraphOK'
    BY <1>1, <1>2, GraphStays
<1>9. Tensors' = Tensors /\ Nodes' = Nodes
    BY <1>1, GraphSame
<1>10. WalkOK'
  <2>1. /\ n_children \in [Tensors -> Nat] /\ n_views \in [Tensors -> Nat]
        /\ n_tokens \in TokenCounts /\ buffer_size \in Nat
    BY <1>2 DEF GraphInv, WalkOK
  <2>2. i' \in 1 .. Len(Leafs) + 1
    BY <1>1, <1>2
  <2>3. offset' \in [Tensors -> Nat] /\ allocated' \in [Tensors -> BOOLEAN]
    BY <1>7 DEF Given
  <2> QED  BY <2>1, <2>2, <2>3, <1>1, <1>9 DEF WalkOK, Planning, gallocr
<1>11. Counts'
    BY <1>1 DEF Counts
<1>12. \A m \in Tensors : Visited(m) => allocated[m]
    BY <1>1 DEF GraphInv, Kept
<1>13. \A m \in Tensors : Visited(m)' => allocated'[m] /\ (m = t \/ m \in Owners)
  <2>1. Owners' = {m \in Tensors : allocated'[m]}
    BY <1>7 DEF Given, Owners
  <2>2. Owners = {m \in Tensors : allocated[m]}
    BY <1>2, OwnerFacts
  <2> QED  BY <2>1, <2>2, <1>5, <1>7, <1>12 DEF Visits
<1>14. Kept'
    BY <1>1, <1>9, <1>13 DEF Kept
<1>15. LeafsApart'
  <2> SUFFICES ASSUME NEW r \in Tensors \ Nodes, NEW m \in Tensors \ Nodes,
                      Visited(r)', Visited(m)', m # r
               PROVE  Apart(BlockOf(m)', BlockOf(r)')
    BY <1>9 DEF LeafsApart, Apart, End
  <2>1. \A u \in Tensors \ {t} : BlockOf(u)' = BlockOf(u)
    BY <1>7 DEF Given
  <2>2. CASE m = t
    <3>1. r \in Owners /\ BlockOf(r)' = BlockOf(r)
        BY <2>1, <2>2, <1>13
    <3> QED  BY <3>1, <2>2, <1>7
  <2>3. CASE r = t
    <3>1. m \in Owners /\ BlockOf(m)' = BlockOf(m)
        BY <2>1, <2>3, <1>13
    <3> QED  BY <3>1, <2>3, <1>7, ApartBothWays
  <2>4. CASE m # t /\ r # t
    <3>1. m \in Owners /\ r \in Owners
        BY <2>4, <1>13
    <3> QED  BY <3>1, <2>1, <2>4, <1>2, OwnerFacts
  <2> QED  BY <2>2, <2>3, <2>4
<1>16. SourcesKept'
  <2>1. \A u \in Nodes : ~ Visited(u)'
    BY <1>1, <1>2, <1>4
  <2> QED  BY <2>1, <1>9 DEF SourcesKept
<1>17. PlanOK'
    BY <1>1, PlanKept
<1> QED  BY <1>7, <1>8, <1>10, <1>11, <1>14, <1>15, <1>16, <1>17 DEF GraphInv, Given

-----------------------------------------------------------------------------
(* The counts.                                                             *)

\* Steps that leave the heap, the owners and where they lie.
LEMMA OwnersSame ==
    ASSUME GraphInv, Planning, Planning', graph' = graph, n_tokens' = n_tokens,
           UNCHANGED <<allocated, offset, heapvars>>,
           \A t \in Tensors : Visited(t)' <=> Visited(t)
    PROVE  /\ HeapInv' /\ Owned' /\ OwnersAlone' /\ LeafsApart' /\ SourcesKept'
           /\ Owners' = Owners
<1>1. /\ Tensors' = Tensors /\ Nodes' = Nodes
      /\ \A t : /\ IsView(t)' <=> IsView(t)
                /\ Roots(t)' = Roots(t)
                /\ BlockOf(t)' = BlockOf(t) /\ SizeOf(t)' = SizeOf(t)
      /\ \A r, u : WrittenAfter(r, u)' = WrittenAfter(r, u) /\ (TakesOver(u, r)' <=> TakesOver(u, r))
    BY GraphSame, SameSizes
<1>2. HeapInv' /\ max_size' = max_size /\ live' = live
    BY HeapSame DEF GraphInv
<1>3. Owners' = Owners
    BY DEF Owners
<1>4. \A t \in Owners : t \in Tensors
    BY OwnerFacts
<1>5. Owned'
  <2>1. /\ \A m \in Owners : Visited(m) /\ ~ IsView(m) /\ BlockOf(m) \in live
        /\ \A b \in live : \E m \in Owners : BlockOf(m) = b
        /\ \A m, u \in Owners : BlockOf(m) = BlockOf(u) => m = u
        /\ \A m \in Tensors : Visited(m) /\ ~ IsView(m) => End(BlockOf(m)) <= max_size
    BY DEF GraphInv, Owned
  <2> QED  BY <2>1, <1>1, <1>2, <1>3, <1>4 DEF Owned, End
<1>6. OwnersAlone'
  <2>1. \A r \in Owners, m \in Tensors :
            Visited(m) /\ ~ IsView(m) /\ m > r => Apart(BlockOf(m), BlockOf(r))
    BY DEF GraphInv, OwnersAlone
  <2> QED  BY <2>1, <1>1, <1>3 DEF OwnersAlone, Apart, End
<1>7. LeafsApart'
  <2>1. \A r, m \in Tensors \ Nodes :
            Visited(r) /\ Visited(m) /\ m # r => Apart(BlockOf(m), BlockOf(r))
    BY DEF GraphInv, LeafsApart
  <2> QED  BY <2>1, <1>1 DEF LeafsApart, Apart, End
<1>8. SourcesKept'
  <2>1. \A u \in Nodes : Visited(u) =>
            \A r \in Roots(u) : \A m \in WrittenAfter(r, u) :
                \/ Apart(BlockOf(m), BlockOf(r))
                \/ m = u /\ TakesOver(u, r) /\ BlockOf(u) = BlockOf(r) /\ SizeOf(u) = SizeOf(r)
    BY DEF GraphInv, SourcesKept
  <2>2. \A u \in Nodes : u \in Tensors
    BY DEF Nodes
  <2> QED  BY <2>1, <2>2, <1>1 DEF SourcesKept, Apart, End
<1> QED  BY <1>2, <1>3, <1>5, <1>6, <1>7, <1>8

LEMMA CountChildrenInv == ASSUME GraphInv, CountChildren PROVE GraphInv'
<1>1. /\ pc = "leafs" /\ pc' = "node" /\ i' = i /\ i = Len(Leafs) + 1
      /\ graph' = graph /\ n_tokens' = n_tokens /\ UNCHANGED gallocr
      /\ n_children' = [t \in Tensors |-> Cardinality(Uses(t))]
      /\ n_views' = [t \in Tensors |-> Cardinality(Views(t))]
      /\ UNCHANGED <<allocated, offset, heapvars>>
    BY DEF CountChildren
<1>2. /\ GraphOK /\ Planning /\ Planning' /\ Len(Leafs) \in Nat /\ NNodes \in Nat
      /\ NTensors = Len(Leafs) + NNodes
      /\ \A t : Visited(t) <=> t < i
      /\ \A t : Visited(t)' <=> t < i
    BY <1>1, GraphTypes DEF GraphInv, Planning, Visited, NTensors
<1>3. /\ HeapInv' /\ Owned' /\ OwnersAlone' /\ LeafsApart' /\ SourcesKept'
      /\ Owners' = Owners
    BY <1>1, <1>2, OwnersSame
<1>4. GraphOK'
    BY <1>1, <1>2, GraphStays
<1>5. /\ Tensors' = Tensors /\ Nodes' = Nodes /\ \A t : Uses(t)' = Uses(t) /\ Views(t)' = Views(t)
      /\ \A t : IsView(t)' <=> IsView(t)
    BY <1>1, GraphSame
<1>6. \A t \in Tensors : /\ Cardinality(Uses(t)) \in Nat
                         /\ Cardinality(Views(t)) \in Nat
    BY <1>2, UsesFinite, FS_CardinalityType
<1>7. WalkOK'
  <2>1. /\ n_tokens \in TokenCounts /\ buffer_size \in Nat
        /\ offset \in [Tensors -> Nat] /\ allocated \in [Tensors -> BOOLEAN]
    BY <1>2 DEF GraphInv, WalkOK
  <2>2. i' \in Len(Leafs) + 1 .. NTensors + 1
    BY <1>1, <1>2
  <2>3. n_children' \in [Tensors -> Nat] /\ n_views' \in [Tensors -> Nat]
    BY <1>1, <1>6
  <2>4. buffer_size' = buffer_size /\ offset' = offset /\ allocated' = allocated
    BY <1>1 DEF gallocr
  <2> QED  BY <2>1, <2>2, <2>3, <2>4, <1>1, <1>5 DEF WalkOK, Planning
<1>8. Counts'
  <2> SUFFICES ASSUME NEW t \in Tensors
               PROVE  n_children'[t] = Cardinality(Pending(t)') /\ n_views'[t] = Cardinality(LiveViews(t)')
    BY <1>5 DEF Counts
  <2>1. \A v : Pending(v)' = {w \in Uses(v) : w[1] > i \/ w[1] = i}
    BY <1>1, <1>5 DEF Pending
  <2>2. ASSUME NEW v, NEW w \in Uses(v) PROVE w[1] > i \/ w[1] = i
    <3>1. w[1] \in Nodes
        BY DEF Uses
    <3>2. w[1] > Len(Leafs) /\ w[1] \in Nat
        BY <3>1, <1>2, GraphTypes DEF Nodes
    <3> QED  BY <3>2, <1>1, <1>2
  <2>3. \A v : Pending(v)' = Uses(v)
    BY <2>1, <2>2
  <2>4. LiveViews(t)' = Views(t)
    BY <2>3, <1>5 DEF LiveViews
  <2> QED  BY <2>3, <2>4, <1>1
<1>9. Kept'
  <2>1. \A t \in Tensors : Visited(t) => allocated[t]
    BY <1>1 DEF GraphInv, Kept
  <2> QED  BY <2>1, <1>1, <1>2, <1>5 DEF Kept
<1>10. PlanOK'
    BY <1>1, PlanKept
<1> QED  BY <1>3, <1>4, <1>7, <1>8, <1>9, <1>10 DEF GraphInv

-----------------------------------------------------------------------------
(* The nodes.                                                              *)

\* The source of a node not done with is counted, and through it what it is a
\* view of.
LEMMA SourceCounted ==
    ASSUME GraphInv, pc = "node", NEW u \in Tensors, u >= i, NEW p \in Srcs(u)
    PROVE  /\ \E k \in {1, 2} : <<u, k>> \in Pending(p)
           /\ n_children[p] > 0
           /\ IsView(p) => n_views[Root(p)] > 0
<1>1. GraphOK /\ p \in Tensors /\ i \in Nat /\ u \in Nat
  <2>1. GraphOK
    BY DEF GraphInv
  <2>2. i \in Len(Leafs) + 1 .. NTensors + 1 /\ Len(Leafs) \in Nat
    BY <2>1, GraphTypes DEF GraphInv, WalkOK
  <2>3. i \in Nat
    BY <2>2
  <2>4. Tensors \subseteq Nat /\ Srcs(u) \subseteq Tensors
    BY <2>1, GraphTypes
  <2> QED  BY <2>1, <2>3, <2>4
<1>2. PICK k \in {1, 2} : <<u, k>> \in Uses(p)
    BY <1>1, SourceIsUse
<1>3. <<u, k>> \in Pending(p)
  <2>1. u > i \/ u = i
    BY <1>1
  <2> QED  BY <1>2, <2>1 DEF Pending
<1>4. \A t \in Tensors : n_children[t] = Cardinality(Pending(t)) /\ n_views[t] = Cardinality(LiveViews(t))
    BY DEF GraphInv, Counts
<1>5. n_children[p] > 0
    BY <1>1, <1>3, <1>4, UsesFinite, CountPositive
<1>6. ASSUME IsView(p) PROVE n_views[Root(p)] > 0
  <2>1. Root(p) \in Tensors /\ p \in Views(Root(p))
    BY <1>1, <1>6, GraphTypes, ViewFacts
  <2>2. p \in LiveViews(Root(p))
    BY <1>3, <2>1 DEF LiveViews
  <2>3. IsFiniteSet(LiveViews(Root(p)))
    BY <1>1, UsesFinite
  <2> QED  BY <2>1, <2>2, <2>3, <1>4, CountPositive
<1> QED  BY <1>3, <1>5, <1>6

\* What it lies in has its memory, once it has been visited.
LEMMA SourceOwned ==
    ASSUME GraphInv, pc = "node", NEW u \in Tensors, u >= i, NEW p \in Srcs(u), Root(p) < i
    PROVE  Root(p) \in Owners
<1>1. GraphOK /\ Planning /\ p \in Tensors /\ Root(p) \in Tensors /\ ~ IsView(Root(p))
    BY GraphTypes DEF GraphInv, Planning
<1>2. n_children[p] > 0 /\ (IsView(p) => n_views[Root(p)] > 0)
    BY SourceCounted
<1>3. n_children[Root(p)] > 0 \/ n_views[Root(p)] > 0
    BY <1>2 DEF Root
<1>4. allocated[Root(p)]
    BY <1>1, <1>3 DEF GraphInv, Kept, Visited
<1> QED  BY <1>1, <1>4, OwnerFacts

\* The node comes when all its sources have their memory: the code's guess that
\* a parent may want allocating never comes true.
LEMMA NodeIsWanted ==
    ASSUME GraphInv, VisitNode
    PROVE  /\ AllocateNode(i) /\ pc = "node" /\ pc' = "parents" /\ j' = 1 /\ i' = i
           /\ i \in Nodes /\ Len(graph) = NTensors
           /\ graph' = graph /\ n_tokens' = n_tokens /\ UNCHANGED gallocr
           /\ n_children' = n_children /\ n_views' = n_views
           /\ \A t : Visited(t) <=> t < i
           /\ \A t : Visited(t)' <=> t <= i
<1>1. /\ pc = "node" /\ i <= NTensors /\ AllocateNode(Wanted) /\ i' = i
      /\ (Wanted = i => pc' = "parents" /\ j' = 1)
      /\ graph' = graph /\ n_tokens' = n_tokens /\ UNCHANGED gallocr
      /\ n_children' = n_children /\ n_views' = n_views
    BY DEF VisitNode
<1>2. GraphOK /\ i \in Len(Leafs) + 1 .. NTensors + 1 /\ Len(graph) = NTensors
    BY <1>1 DEF GraphInv, WalkOK, GraphOK
<1>3. i \in Nodes /\ i \in Tensors /\ i \in Nat
  <2>1. Len(Leafs) \in Nat /\ NTensors \in Nat /\ Tensors = 1 .. NTensors
    BY <1>2, GraphTypes
  <2>2. i \in Tensors /\ i > Len(Leafs) /\ i \in Nat
    BY <2>1, <1>1, <1>2
  <2> QED  BY <2>2 DEF Nodes
<1>4. Wanting = {}
  <2> SUFFICES ASSUME NEW p \in Srcs(i), ~ IsView(p) PROVE allocated[p]
    BY DEF Wanting
  <2>1. p \in Tensors /\ p < i /\ Root(p) = p
    BY <1>2, <1>3, GraphTypes
  <2>2. i >= i
    BY <1>3
  <2>3. p \in Owners
    BY <1>1, <1>3, <2>1, <2>2, SourceOwned
  <2> QED  BY <2>3 DEF Owners
<1>5. Wanted = i
    BY <1>4 DEF Wanted
<1>6. /\ \A t : Visited(t) <=> t < i
      /\ \A t : Visited(t)' <=> t <= i
    BY <1>1, <1>5 DEF Visited
<1> QED  BY <1>1, <1>2, <1>3, <1>5, <1>6

LEMMA VisitNodeInv == ASSUME GraphInv, VisitNode PROVE GraphInv'
<1> PICK t : t = i
    OBVIOUS
<1>1. /\ AllocateNode(t) /\ pc = "node" /\ pc' = "parents" /\ j' = 1 /\ i = t /\ i' = t
      /\ t \in Nodes /\ Len(graph) = NTensors
      /\ graph' = graph /\ n_tokens' = n_tokens /\ UNCHANGED gallocr
      /\ n_children' = n_children /\ n_views' = n_views
      /\ \A m : Visited(m) <=> m < t
      /\ \A m : Visited(m)' <=> m <= t
    BY NodeIsWanted
<1>2. /\ GraphOK /\ Planning /\ Planning'
      /\ Tensors \subseteq Nat /\ Nodes \subseteq Tensors /\ t \in Tensors /\ t \in Nat
    BY <1>1, GraphTypes DEF GraphInv, Planning, Nodes
<1>3. /\ Tensors' = Tensors /\ Nodes' = Nodes
      /\ \A m : /\ IsView(m)' <=> IsView(m)
                /\ Roots(m)' = Roots(m)
                /\ Uses(m)' = Uses(m) /\ Views(m)' = Views(m) /\ SizeOf(m)' = SizeOf(m)
      /\ \A r, u : WrittenAfter(r, u)' = WrittenAfter(r, u) /\ (TakesOver(u, r)' <=> TakesOver(u, r))
    BY <1>1, GraphSame, SameSizes
<1>4. Visits(t)
  <2>1. \A m \in Tensors : /\ Visited(m) => m < t
                           /\ Visited(m)' <=> Visited(m) \/ m = t
    BY <1>1, <1>2
  <2>2. ~ Visited(t)
    BY <1>1, <1>2
  <2> QED  BY <2>1, <2>2, <1>1, <1>2 DEF Visits
<1>5. /\ Given(t)
      /\ \/ IsView(t) /\ Owners' = Owners
         \/ /\ ~ IsView(t)
            /\ Owners' = Owners \cup {t}
            /\ \A r \in Owners : Apart(BlockOf(t)', BlockOf(r))
         \/ /\ ~ IsView(t)
            /\ \E p \in FirstReusable(t) : /\ Owners' = (Owners \ {p}) \cup {t}
                                           /\ BlockOf(t)' = BlockOf(p)
                                           /\ SizeOf(t) = SizeOf(p)
    BY <1>1, <1>4, AllocateNodeCases
<1>6. GraphOK'
    BY <1>1, <1>2, GraphStays
<1>7. \A v : Pending(v)' = Pending(v)
  <2> SUFFICES ASSUME NEW v, NEW w \in Uses(v)
               PROVE  (w[1] > t \/ (w[1] = t /\ w[2] >= 1)) <=> (w[1] > t \/ w[1] = t)
    BY <1>1, <1>3 DEF Pending
  <2>1. w[2] \in {1, 2}
    BY DEF Uses
  <2> QED  BY <2>1
<1>8. \A v : LiveViews(v)' = LiveViews(v)
    BY <1>3, <1>7 DEF LiveViews
<1>9. Counts'
  <2>1. \A v \in Tensors : n_children[v] = Cardinality(Pending(v)) /\ n_views[v] = Cardinality(LiveViews(v))
    BY <1>1 DEF GraphInv, Counts
  <2> QED  BY <2>1, <1>1, <1>3, <1>7, <1>8 DEF Counts
<1>10. WalkOK'
  <2>1. /\ n_children \in [Tensors -> Nat] /\ n_views \in [Tensors -> Nat]
        /\ n_tokens \in TokenCounts /\ buffer_size \in Nat
    BY <1>2 DEF GraphInv, WalkOK
  <2>2. offset' \in [Tensors -> Nat] /\ allocated' \in [Tensors -> BOOLEAN]
    BY <1>5 DEF Given
  <2>3. 1 \in DOMAIN graph[t].src
    <3>1. DOMAIN graph[t].src = 1 .. Len(graph[t].src)
        BY <1>2, GraphTypes
    <3>2. NodeOK(t)
        BY <1>1, <1>2 DEF GraphOK
    <3>3. Len(graph[t].src) \in {1, 2}
        BY <3>2 DEF NodeOK
    <3> QED  BY <3>1, <3>3
  <2>4. j' \in DOMAIN graph'[i'].src
    BY <2>3, <1>1
  <2>5. buffer_size' = buffer_size
    BY <1>1 DEF gallocr
  <2> QED  BY <2>1, <2>2, <2>4, <2>5, <1>1, <1>3 DEF WalkOK, Planning
\* What i reads is there before the step, and nobody else is to read what it
\* takes over.
<1>11. \A p \in Srcs(t) : Root(p) \in Tensors /\ Root(p) < t /\ Root(p) \in Owners
  <2> SUFFICES ASSUME NEW p \in Srcs(t) PROVE Root(p) \in Tensors /\ Root(p) < t /\ Root(p) \in Owners
    OBVIOUS
  <2>1. p \in Tensors /\ p < t /\ Root(p) \in Tensors /\ Root(p) <= p
    BY <1>2, GraphTypes
  <2>2. Root(p) \in Nat /\ p \in Nat
    BY <2>1, <1>2
  <2>3. Root(p) < t /\ t >= i
    BY <2>1, <2>2, <1>1, <1>2
  <2> QED  BY <2>1, <2>3, <1>1, <1>2, SourceOwned
<1>12. ASSUME NEW p \in FirstReusable(t)
       PROVE  /\ p \in Owners /\ TakesOver(t, p) /\ ~ graph[p].output /\ n_views[p] = 0
              /\ \A w \in Pending(p) : w[1] = t
  <2>1. /\ p \in Owners /\ p \in Srcs(t) /\ Reusable(t, p) /\ CanInplace(t) /\ Root(p) = p
        /\ p \in Tensors
    BY <1>2, FirstReusableFacts, OwnerFacts
  <2>2. ~ graph[p].output /\ n_views[p] = 0 /\ n_children[p] = 1
    BY <2>1 DEF Reusable
  <2>3. \A w \in Pending(p) : w[1] = t
    <3>1. PICK k \in {1, 2} : <<t, k>> \in Pending(p)
        BY <2>1, <1>1, <1>2, SourceCounted
    <3>2. Cardinality(Pending(p)) = 1 /\ IsFiniteSet(Pending(p))
        BY <2>1, <2>2, <1>1, <1>2, UsesFinite DEF GraphInv, Counts
    <3>3. PICK x : Pending(p) = {x}
        BY <3>2, FS_Singleton
    <3>4. Pending(p) = {<<t, k>>}
        BY <3>1, <3>3
    <3> QED  BY <3>4
  <2>4. ASSUME NEW q \in Srcs(t), Root(q) = p PROVE p = q
    <3>1. q \in Tensors /\ (~ IsView(q) => Root(q) = q)
        BY <1>2, GraphTypes
    <3>2. CASE IsView(q)
        <4>1. t >= i
            BY <1>1, <1>2
        <4>2. n_views[Root(q)] > 0
            BY <3>2, <4>1, <1>1, <1>2, SourceCounted
        <4> QED  BY <4>2, <2>2, <2>4
    <3> QED  BY <3>1, <3>2, <2>4
  <2> QED  BY <2>1, <2>2, <2>3, <2>4 DEF TakesOver
<1>13. Kept'
  <2> SUFFICES ASSUME NEW r \in Tensors, Visited(r)', ~ IsView(r),
                      graph[r].output \/ n_children[r] > 0 \/ n_views[r] > 0
               PROVE  allocated'[r] \/ Taken(r)'
    BY <1>1, <1>3 DEF Kept
  <2>1. CASE r = t
    BY <2>1, <1>5 DEF Given
  <2>2. CASE r # t
    <3>1. Visited(r)
        BY <2>2, <1>1, <1>2
    <3>2. r \in Owners
        BY <3>1, <1>1, <1>2, OwnerFacts DEF GraphInv, Kept
    <3>3. CASE r \in Owners'
        BY <3>3 DEF Owners
    <3>4. CASE r \notin Owners'
        <4>1. PICK p \in FirstReusable(t) : Owners' = (Owners \ {p}) \cup {t}
            BY <3>2, <3>4, <1>5
        <4>2. r = p
            BY <3>2, <3>4, <4>1
        <4>3. ~ graph[r].output /\ n_views[r] = 0 /\ \A w \in Pending(r) : w[1] = t
            BY <4>2, <1>12
        <4> QED  BY <4>3, <1>1, <1>7 DEF Taken
    <3> QED  BY <3>3, <3>4
  <2> QED  BY <2>1, <2>2
<1>14. LeafsApart'
  <2> SUFFICES ASSUME NEW r \in Tensors \ Nodes, NEW m \in Tensors \ Nodes,
                      Visited(r)', Visited(m)', m # r
               PROVE  Apart(BlockOf(m)', BlockOf(r)')
    BY <1>3 DEF LeafsApart, Apart, End
  <2>1. m # t /\ r # t
    BY <1>1
  <2>2. Visited(m) /\ Visited(r) /\ BlockOf(m)' = BlockOf(m) /\ BlockOf(r)' = BlockOf(r)
    BY <2>1, <1>1, <1>2, <1>5 DEF Given
  <2> QED  BY <2>2, <1>2 DEF GraphInv, LeafsApart
\* Of what was there before node t: it was put elsewhere.
<1>15. ASSUME NEW r \in Owners, NEW m \in WrittenAfter(r, t), m # t
       PROVE  Apart(BlockOf(m), BlockOf(r))
  <2>1. m \in 1 .. t /\ ~ IsView(m) /\ m # r /\ (m > r \/ r \notin Nodes)
    BY DEF WrittenAfter
  <2>2. m \in Tensors /\ m < t /\ Visited(m) /\ r \in Tensors /\ Visited(r)
    <3>1. Tensors = 1 .. Len(graph) /\ Len(graph) \in Nat
        BY <1>2, GraphTypes
    <3>2. m \in Tensors /\ m < t
        BY <2>1, <3>1, <1>1, <1>2, <1>15
    <3> QED  BY <3>2, <1>1, <1>2, OwnerFacts
  <2>3. CASE m > r
    BY <2>1, <2>2, <2>3, <1>2 DEF GraphInv, OwnersAlone
  <2>4. CASE ~ (m > r)
    <3>1. r \in Tensors \ Nodes
        BY <2>1, <2>2, <2>4
    <3>2. m \in Tensors \ Nodes
        <4>1. Tensors \ Nodes = 1 .. Len(Leafs) /\ Len(Leafs) \in Nat
            BY <1>2, GraphTypes, LeafFacts
        <4>2. r \in 1 .. Len(Leafs) /\ m \in Nat /\ m > 0 /\ m <= r
            <5>1. Tensors = 1 .. Len(graph) /\ Len(graph) \in Nat
                BY <1>2, GraphTypes
            <5> QED  BY <5>1, <4>1, <3>1, <2>2, <2>4
        <4>3. m \in 1 .. Len(Leafs)
            BY <4>1, <4>2
        <4> QED  BY <4>1, <4>3
    <3> QED  BY <3>1, <3>2, <2>1, <2>2, <1>2 DEF GraphInv, LeafsApart
  <2> QED  BY <2>3, <2>4
<1>16. SourcesKept'
  <2> SUFFICES ASSUME NEW u \in Nodes, Visited(u)', NEW r \in Roots(u), NEW m \in WrittenAfter(r, u)
               PROVE  \/ Apart(BlockOf(m)', BlockOf(r)')
                      \/ m = u /\ TakesOver(u, r) /\ BlockOf(u)' = BlockOf(r)' /\ SizeOf(u) = SizeOf(r)
    BY <1>3 DEF SourcesKept, Apart, End
  <2>1. \A x \in Tensors \ {t} : BlockOf(x)' = BlockOf(x)
    BY <1>5 DEF Given
  <2>2. m \in 1 .. u /\ u \in Nat /\ u \in Tensors
    BY <1>2 DEF WrittenAfter
  <2>3. PICK p \in Srcs(u) : r = Root(p)
    BY DEF Roots
  <2>4. p \in Tensors /\ p < u /\ r \in Tensors /\ r <= p
    BY <2>2, <2>3, <1>2, GraphTypes
  <2>5. CASE u < t
    <3>1. m \in Tensors /\ m # t /\ r # t
        <4>1. Tensors = 1 .. Len(graph) /\ Len(graph) \in Nat
            BY <1>2, GraphTypes
        <4> QED  BY <4>1, <2>2, <2>4, <2>5, <1>2
    <3>2. Visited(u)
        BY <2>5, <1>1
    <3>3. \/ Apart(BlockOf(m), BlockOf(r))
          \/ m = u /\ TakesOver(u, r) /\ BlockOf(u) = BlockOf(r) /\ SizeOf(u) = SizeOf(r)
        BY <3>2, <1>2 DEF GraphInv, SourcesKept
    <3> QED  BY <3>1, <3>3, <2>1, <2>4
  <2>6. CASE u = t
    <3>1. r \in Owners /\ r < t /\ BlockOf(r)' = BlockOf(r)
        BY <2>1, <2>3, <2>4, <2>6, <1>2, <1>11
    <3>2. CASE m # t
        <4>1. BlockOf(m)' = BlockOf(m)
            <5>1. Tensors = 1 .. Len(graph) /\ Len(graph) \in Nat
                BY <1>2, GraphTypes
            <5> QED  BY <5>1, <2>1, <2>2, <2>6, <3>2, <1>2
        <4> QED  BY <4>1, <3>1, <3>2, <2>6, <1>15
    <3>3. CASE m = t /\ \A x \in Owners : Apart(BlockOf(t)', BlockOf(x))
        BY <3>1, <3>3
    <3>4. CASE m = t /\ \E x \in FirstReusable(t) : BlockOf(t)' = BlockOf(x) /\ SizeOf(t) = SizeOf(x)
        <4>1. PICK x \in FirstReusable(t) : BlockOf(t)' = BlockOf(x) /\ SizeOf(t) = SizeOf(x)
            BY <3>4
        <4>2. x \in Owners /\ TakesOver(t, x)
            BY <1>12
        <4>3. CASE r = x
            BY <4>1, <4>2, <4>3, <3>1, <3>4, <2>6
        <4>4. CASE r # x
            <5>1. Apart(BlockOf(x), BlockOf(r))
                BY <4>2, <4>4, <3>1, <1>2, OwnerFacts
            <5> QED  BY <5>1, <4>1, <3>1, <3>4
        <4> QED  BY <4>3, <4>4
    <3>5. CASE m = t /\ IsView(t)
        BY <3>5 DEF WrittenAfter
    <3> QED  BY <3>2, <3>3, <3>4, <3>5, <1>5
  <2>7. u < t \/ u = t
    BY <1>1, <2>2, <1>2
  <2> QED  BY <2>5, <2>6, <2>7
<1>17. PlanOK'
    BY <1>1, PlanKept
<1> QED  BY <1>5, <1>6, <1>9, <1>10, <1>13, <1>14, <1>16, <1>17 DEF GraphInv, Given

-----------------------------------------------------------------------------
(* The parents.                                                            *)

\* An owner gives its block back; everybody stays where they are.
LEMMA OwnersFewer ==
    ASSUME GraphInv, Planning, Planning', graph' = graph, n_tokens' = n_tokens, offset' = offset,
           \A t \in Tensors : Visited(t)' <=> Visited(t),
           NEW x \in Owners, FreeTensor(offset[x], SizeOf(x)),
           allocated' = [allocated EXCEPT ![x] = FALSE]
    PROVE  /\ HeapInv' /\ Owned' /\ OwnersAlone' /\ LeafsApart' /\ SourcesKept'
           /\ Owners' = Owners \ {x} /\ allocated' \in [Tensors -> BOOLEAN]
<1>1. /\ Tensors' = Tensors /\ Nodes' = Nodes
      /\ \A t : /\ IsView(t)' <=> IsView(t)
                /\ Roots(t)' = Roots(t)
                /\ BlockOf(t)' = BlockOf(t) /\ SizeOf(t)' = SizeOf(t)
      /\ \A r, u : WrittenAfter(r, u)' = WrittenAfter(r, u) /\ (TakesOver(u, r)' <=> TakesOver(u, r))
    BY GraphSame, SameSizes
<1>2. /\ GraphOK /\ HeapInv /\ x \in Tensors /\ BlockOf(x) \in live
      /\ Owners = {t \in Tensors : allocated[t]}
      /\ allocated \in [Tensors -> BOOLEAN] /\ offset \in [Tensors -> Nat]
      /\ n_tokens \in TokenCounts
    BY OwnerFacts DEF GraphInv
<1>3. /\ BlockOf(x).offset = offset[x] /\ BlockOf(x).size = Padded(SizeOf(x))
      /\ BlockOf(x) = BlockAt(offset[x], Padded(SizeOf(x)))
    BY <1>2, BlockFacts DEF BlockOf
<1>4. HeapInv'
    BY <1>2, <1>3, ReleaseInv DEF FreeTensor
<1>5. live' = live \ {BlockOf(x)} /\ max_size' = max_size
    BY <1>3 DEF FreeTensor, Release
<1>6. /\ allocated' \in [Tensors -> BOOLEAN]
      /\ ~ allocated'[x] /\ \A t \in Tensors \ {x} : allocated'[t] = allocated[t]
    BY <1>2
<1>7. Owners' = Owners \ {x}
  <2>1. Owners' = {t \in Tensors : allocated'[t]}
    BY <1>6 DEF Owners
  <2> QED  BY <2>1, <1>2, <1>6
<1>8. Owned'
  <2>1. /\ \A m \in Owners : Visited(m) /\ ~ IsView(m) /\ BlockOf(m) \in live /\ m \in Tensors
        /\ \A b \in live : \E m \in Owners : BlockOf(m) = b
        /\ \A m, u \in Owners : BlockOf(m) = BlockOf(u) => m = u
        /\ \A m \in Tensors : Visited(m) /\ ~ IsView(m) => End(BlockOf(m)) <= max_size
    BY OwnerFacts DEF GraphInv, Owned
  <2>2. \A m \in Owners' : Visited(m)' /\ ~ IsView(m)' /\ BlockOf(m)' \in live'
    BY <2>1, <1>1, <1>5, <1>7
  <2>3. \A b \in live' : \E m \in Owners' : BlockOf(m)' = b
    BY <2>1, <1>1, <1>5, <1>7
  <2>4. \A m, u \in Owners' : BlockOf(m)' = BlockOf(u)' => m = u
    BY <2>1, <1>1, <1>7
  <2>5. \A m \in Tensors' : Visited(m)' /\ ~ IsView(m)' => End(BlockOf(m))' <= max_size'
    BY <2>1, <1>1, <1>5 DEF End
  <2> QED  BY <2>2, <2>3, <2>4, <2>5 DEF Owned
<1>9. OwnersAlone'
  <2>1. \A r \in Owners, m \in Tensors :
            Visited(m) /\ ~ IsView(m) /\ m > r => Apart(BlockOf(m), BlockOf(r))
    BY DEF GraphInv, OwnersAlone
  <2> QED  BY <2>1, <1>1, <1>7 DEF OwnersAlone, Apart, End
<1>10. LeafsApart'
  <2>1. \A r, m \in Tensors \ Nodes :
            Visited(r) /\ Visited(m) /\ m # r => Apart(BlockOf(m), BlockOf(r))
    BY DEF GraphInv, LeafsApart
  <2> QED  BY <2>1, <1>1 DEF LeafsApart, Apart, End
<1>11. SourcesKept'
  <2>1. \A u \in Nodes : Visited(u) =>
            \A r \in Roots(u) : \A m \in WrittenAfter(r, u) :
                \/ Apart(BlockOf(m), BlockOf(r))
                \/ m = u /\ TakesOver(u, r) /\ BlockOf(u) = BlockOf(r) /\ SizeOf(u) = SizeOf(r)
    BY DEF GraphInv, SourcesKept
  <2>2. \A u \in Nodes : u \in Tensors
    BY DEF Nodes
  <2> QED  BY <2>1, <2>2, <1>1 DEF SourcesKept, Apart, End
<1> QED  BY <1>4, <1>6, <1>7, <1>8, <1>9, <1>10, <1>11

\* The use of source p by node t at place k is over: no other is.
LEMMA UseOver ==
    ASSUME GraphInv, UpdateParent, NEW t, t = i, NEW k, k = j
    PROVE  /\ t \in Nodes /\ t \in Tensors /\ k \in {1, 2} /\ k \in DOMAIN graph[t].src
           /\ graph[t].src[k] \in Srcs(t)
           /\ <<t, k>> \in Pending(graph[t].src[k])
           /\ \A v : Pending(v)' = Pending(v) \ {<<t, k>>}
           /\ \/ pc' = "parents" /\ i' = t /\ j' \in DOMAIN graph[t].src
              \/ pc' = "node" /\ i' = t + 1
<1>1. /\ pc = "parents" /\ NextParent /\ graph' = graph
      /\ GraphOK /\ t \in Nodes /\ k \in DOMAIN graph[t].src
    BY DEF UpdateParent, GraphInv, WalkOK
<1>2. t \in Tensors /\ t \in Nat /\ DOMAIN graph[t].src = 1 .. Len(graph[t].src)
  <2>1. t \in Tensors
    BY <1>1 DEF Nodes
  <2> QED  BY <2>1, <1>1, GraphTypes
<1>3. Len(graph[t].src) \in {1, 2}
  <2>1. NodeOK(t)
    BY <1>1 DEF GraphOK
  <2> QED  BY <2>1 DEF NodeOK
<1>4. k \in {1, 2}
  <2>1. PICK n : n = Len(graph[t].src)
    OBVIOUS
  <2>2. k \in 1 .. n /\ n \in {1, 2}
    BY <1>1, <1>2, <1>3, <2>1
  <2> QED  BY <2>2
<1>5. graph[t].src[k] \in Srcs(t) /\ <<t, k>> \in Uses(graph[t].src[k])
    BY <1>1, <1>4 DEF Srcs, Uses
<1>6. <<t, k>> \in Pending(graph[t].src[k])
    BY <1>4, <1>5 DEF Pending
<1>7. ASSUME NEW v, NEW w \in Uses(v)
      PROVE  w = <<w[1], w[2]>> /\ w[1] \in Nat /\ w[2] \in {1, 2} /\ (w[1] = t => w[2] \in DOMAIN graph[t].src)
  <2>1. w \in Nodes \X {1, 2} /\ w[2] \in DOMAIN graph[w[1]].src
    BY DEF Uses
  <2>2. Nodes \subseteq Nat
    BY <1>1, GraphTypes DEF Nodes
  <2>3. w = <<w[1], w[2]>> /\ w[1] \in Nodes /\ w[2] \in {1, 2}
    BY DEF Uses
  <2>4. w[1] = t => w[2] \in DOMAIN graph[t].src
    BY <2>1
  <2> QED  BY <2>2, <2>3, <2>4
<1>8. \A v : Uses(v)' = Uses(v)
    BY <1>1, GraphSame
<1>9. \A v : Pending(v) = {w \in Uses(v) : w[1] > t \/ (w[1] = t /\ w[2] >= k)}
    BY <1>1 DEF Pending
<1>10. CASE k < Len(graph[t].src)
  <2>1. pc' = "parents" /\ i' = t /\ j' = k + 1
    BY <1>1, <1>10 DEF NextParent
  <2>2. j' \in DOMAIN graph[t].src
    BY <2>1, <1>2, <1>3, <1>4, <1>10
  <2>3. \A v : Pending(v)' = {w \in Uses(v) : w[1] > t \/ (w[1] = t /\ w[2] >= k + 1)}
    BY <2>1, <1>8 DEF Pending
  <2>4. ASSUME NEW v, NEW w \in Uses(v)
        PROVE  (w[1] > t \/ (w[1] = t /\ w[2] >= k + 1))
                <=> (w[1] > t \/ (w[1] = t /\ w[2] >= k)) /\ w # <<t, k>>
    <3>1. w[2] >= k + 1 <=> w[2] >= k /\ w[2] # k
        BY <1>4, <1>7
    <3>2. w = <<t, k>> <=> w[1] = t /\ w[2] = k
        BY <1>7
    <3>3. ~ (t > t)
        BY <1>2
    <3> QED  BY <3>1, <3>2, <3>3
  <2>5. \A v : Pending(v)' = Pending(v) \ {<<t, k>>}
    BY <2>3, <2>4, <1>9
  <2> QED  BY <2>1, <2>2, <2>5, <1>1, <1>2, <1>4, <1>5, <1>6
<1>11. CASE ~ (k < Len(graph[t].src))
  <2>1. pc' = "node" /\ i' = t + 1
    BY <1>1, <1>11 DEF NextParent
  <2>2. \A v : Pending(v)' = {w \in Uses(v) : w[1] > t + 1 \/ w[1] = t + 1}
    BY <2>1, <1>8 DEF Pending
  <2>3. ASSUME NEW v, NEW w \in Uses(v)
        PROVE  (w[1] > t + 1 \/ w[1] = t + 1)
                <=> (w[1] > t \/ (w[1] = t /\ w[2] >= k)) /\ w # <<t, k>>
    <3>1. (w[1] > t + 1 \/ w[1] = t + 1) <=> w[1] > t
        BY <1>2, <1>7
    <3>2. w = <<t, k>> <=> w[1] = t /\ w[2] = k
        BY <1>7
    <3>3. w[1] = t /\ w[2] >= k => w[2] = k
        BY <1>2, <1>3, <1>4, <1>7, <1>11
    <3>4. ~ (t > t)
        BY <1>2
    <3> QED  BY <3>1, <3>2, <3>3, <3>4
  <2>4. \A v : Pending(v)' = Pending(v) \ {<<t, k>>}
    BY <2>2, <2>3, <1>9
  <2> QED  BY <2>1, <2>4, <1>1, <1>2, <1>4, <1>5, <1>6
<1> QED  BY <1>10, <1>11

\* The counts go down with the uses and with the views that are no longer used.
LEMMA CountsGoDown ==
    ASSUME GraphInv, UpdateParent, NEW t, t = i, NEW k, k = j, NEW p, p = graph[t].src[k]
    PROVE  /\ Counts'
           /\ n_children' \in [Tensors -> Nat] /\ n_views' \in [Tensors -> Nat]
           /\ \A r \in Tensors : n_children'[r] <= n_children[r] /\ n_views'[r] <= n_views[r]
<1>1. /\ t \in Tensors /\ p \in Srcs(t) /\ <<t, k>> \in Pending(p)
      /\ \A v : Pending(v)' = Pending(v) \ {<<t, k>>}
    BY UseOver
<1>2. /\ GraphOK /\ pc = "parents" /\ graph' = graph /\ p \in Tensors
      /\ Root(p) \in Tensors
      /\ n_children \in [Tensors -> Nat] /\ n_views \in [Tensors -> Nat]
  <2>1. GraphOK /\ pc = "parents" /\ graph' = graph
    BY DEF UpdateParent, GraphInv
  <2>2. p \in Tensors
    BY <2>1, <1>1, GraphTypes
  <2> QED  BY <2>1, <2>2, GraphTypes DEF GraphInv, WalkOK, Planning
<1>3. /\ n_children' = [n_children EXCEPT ![p] = @ - 1]
      /\ n_views' = IF n_children[p] = 1 /\ n_views[p] = 0 /\ IsView(p)
                    THEN [n_views EXCEPT ![Root(p)] = @ - 1] ELSE n_views
    BY DEF UpdateParent
<1>4. \A v \in Tensors : n_children[v] = Cardinality(Pending(v)) /\ n_views[v] = Cardinality(LiveViews(v))
    BY <1>2 DEF GraphInv, Counts
<1>5. \A v : IsFiniteSet(Pending(v)) /\ IsFiniteSet(LiveViews(v))
    BY <1>2, UsesFinite
<1>6. /\ Tensors' = Tensors
      /\ \A v : Uses(v)' = Uses(v) /\ Views(v)' = Views(v)
    BY <1>2, GraphSame
\* The uses.
<1>7. ASSUME NEW v, v # p PROVE Pending(v)' = Pending(v)
  <2>1. <<t, k>> \notin Uses(v)
    BY <1>7 DEF Uses
  <2> QED  BY <2>1, <1>1 DEF Pending
<1>8. /\ Cardinality(Pending(p)') = n_children[p] - 1
      /\ Cardinality(Pending(p)') \in Nat
      /\ Pending(p)' = {} <=> n_children[p] = 1
  <2>1. Cardinality(Pending(p) \ {<<t, k>>}) = Cardinality(Pending(p)) - 1
        /\ IsFiniteSet(Pending(p) \ {<<t, k>>})
    BY <1>1, <1>5, FS_RemoveElement
  <2>2. Cardinality(Pending(p)') = n_children[p] - 1 /\ IsFiniteSet(Pending(p)')
    BY <2>1, <1>1, <1>2, <1>4
  <2>3. Cardinality(Pending(p)') \in Nat /\ (Cardinality(Pending(p)') = 0 <=> Pending(p)' = {})
    BY <2>2, FS_CardinalityType, FS_EmptySet
  <2>4. n_children[p] \in Nat
    BY <1>2
  <2> QED  BY <2>2, <2>3, <2>4
<1>9. \A v \in Tensors : n_children'[v] = Cardinality(Pending(v)')
    BY <1>2, <1>3, <1>4, <1>7, <1>8
\* The views.
<1>10. ASSUME NEW r PROVE LiveViews(r)' = IF n_children[p] = 1 THEN LiveViews(r) \ {p} ELSE LiveViews(r)
  <2>1. LiveViews(r)' = {v \in Views(r) : Uses(v) = {} \/ Pending(v)' # {}}
    BY <1>6 DEF LiveViews
  <2>2. Uses(p) # {} /\ Pending(p) # {}
    BY <1>1 DEF Pending
  <2>3. CASE n_children[p] = 1
    BY <2>1, <2>2, <2>3, <1>7, <1>8 DEF LiveViews
  <2>4. CASE n_children[p] # 1
    BY <2>1, <2>2, <2>4, <1>7, <1>8 DEF LiveViews
  <2> QED  BY <2>3, <2>4
<1>11. /\ n_views' \in [Tensors -> Nat]
       /\ \A v \in Tensors : n_views'[v] = Cardinality(LiveViews(v)') /\ n_views'[v] <= n_views[v]
  <2>1. CASE n_children[p] = 1 /\ IsView(p)
    <3>1. PICK r \in Tensors : r = Root(p)
        BY <1>2
    <3>2. p \in Views(r) /\ Views(p) = {}
        BY <2>1, <3>1, <1>2, ViewFacts
    <3>3. p \in LiveViews(r) /\ LiveViews(p) = {}
        BY <3>2, <1>1 DEF LiveViews
    <3>4. n_views[p] = 0
        BY <3>3, <1>2, <1>4, FS_EmptySet
    <3>5. n_views' = [n_views EXCEPT ![r] = @ - 1]
        BY <3>1, <3>4, <1>3, <2>1
    <3>6. LiveViews(r)' = LiveViews(r) \ {p}
        BY <1>10, <2>1
    <3>7. /\ Cardinality(LiveViews(r) \ {p}) = Cardinality(LiveViews(r)) - 1
          /\ IsFiniteSet(LiveViews(r) \ {p})
        BY <3>3, <1>5, FS_RemoveElement
    <3>8. Cardinality(LiveViews(r)') = n_views[r] - 1 /\ Cardinality(LiveViews(r)') \in Nat
        BY <3>6, <3>7, <1>4, FS_CardinalityType
    <3>9. n_views[r] - 1 \in Nat /\ n_views[r] \in Nat
        BY <3>8, <1>2
    <3>10. /\ n_views' \in [Tensors -> Nat] /\ n_views'[r] = n_views[r] - 1
           /\ \A v \in Tensors : v # r => n_views'[v] = n_views[v]
        BY <3>5, <3>9, <1>2
    <3>11. ASSUME NEW v \in Tensors, v # r PROVE LiveViews(v)' = LiveViews(v)
        <4>1. p \notin Views(v)
            BY <3>1, <3>11, <1>2, ViewFacts
        <4> QED  BY <4>1, <2>1, <1>10 DEF LiveViews
    <3>12. ASSUME NEW v \in Tensors
           PROVE  n_views'[v] = Cardinality(LiveViews(v)') /\ n_views'[v] <= n_views[v]
        <4>1. n_views[v] \in Nat
            BY <1>2
        <4>2. CASE v = r
            BY <4>1, <4>2, <3>8, <3>9, <3>10
        <4>3. CASE v # r
            BY <4>1, <4>3, <3>10, <3>11, <1>4
        <4> QED  BY <4>2, <4>3
    <3> QED  BY <3>10, <3>12
  <2>2. CASE ~ (n_children[p] = 1 /\ IsView(p))
    <3>1. n_views' = n_views
        BY <1>3, <2>2
    <3>2. ASSUME NEW v \in Tensors PROVE LiveViews(v)' = LiveViews(v)
        <4>1. CASE n_children[p] = 1
            <5>1. p \notin Views(v)
                BY <4>1, <2>2, <1>2, ViewFacts
            <5> QED  BY <5>1, <4>1, <1>10 DEF LiveViews
        <4> QED  BY <4>1, <1>10
    <3>3. \A v \in Tensors : n_views[v] \in Nat /\ n_views[v] <= n_views[v]
        BY <1>2
    <3> QED  BY <3>1, <3>2, <3>3, <1>2, <1>4
  <2> QED  BY <2>1, <2>2
<1>12. /\ n_children' \in [Tensors -> Nat]
       /\ \A v \in Tensors : n_children'[v] <= n_children[v]
  <2>1. n_children[p] - 1 \in Nat /\ n_children[p] \in Nat
    BY <1>2, <1>8
  <2>2. n_children' = [n_children EXCEPT ![p] = n_children[p] - 1]
    BY <1>2, <1>3
  <2> QED  BY <2>1, <2>2, <1>2
<1>13. Counts'
    BY <1>6, <1>9, <1>11 DEF Counts
<1> QED  BY <1>11, <1>12, <1>13

LEMMA UpdateParentInv == ASSUME GraphInv, UpdateParent PROVE GraphInv'
<1> PICK t : t = i
    OBVIOUS
<1> PICK k : k = j
    OBVIOUS
<1> PICK p : p = graph[t].src[k]
    OBVIOUS
<1> PICK x : x = Root(p)
    OBVIOUS
<1>1. /\ pc = "parents" /\ graph' = graph /\ n_tokens' = n_tokens /\ offset' = offset
      /\ UNCHANGED gallocr /\ UNCHANGED addr
    BY DEF UpdateParent
<1>2. /\ t \in Nodes /\ t \in Tensors /\ p \in Srcs(t)
      /\ \A v : Pending(v)' = Pending(v) \ {<<t, k>>}
      /\ \/ pc' = "parents" /\ i' = t /\ j' \in DOMAIN graph[t].src
         \/ pc' = "node" /\ i' = t + 1
    BY UseOver
<1>3. /\ Counts'
      /\ n_children' \in [Tensors -> Nat] /\ n_views' \in [Tensors -> Nat]
      /\ \A r \in Tensors : n_children'[r] <= n_children[r] /\ n_views'[r] <= n_views[r]
    BY CountsGoDown
<1>4. /\ GraphOK /\ Planning /\ Planning' /\ Tensors \subseteq Nat /\ t \in Nat
      /\ p \in Tensors /\ x \in Tensors
      /\ n_children \in [Tensors -> Nat] /\ n_views \in [Tensors -> Nat]
  <2>1. GraphOK /\ Planning /\ Planning'
    BY <1>1, <1>2 DEF GraphInv, Planning
  <2>2. Tensors \subseteq Nat /\ p \in Tensors
    BY <2>1, <1>2, GraphTypes
  <2> QED  BY <2>1, <2>2, <1>2, GraphTypes, OwnerFacts
<1>5. \A m \in Tensors : /\ Visited(m) <=> m <= t
                         /\ Visited(m)' <=> m <= t
  <2> SUFFICES ASSUME NEW m \in Tensors PROVE (Visited(m) <=> m <= t) /\ (Visited(m)' <=> m <= t)
    OBVIOUS
  <2>1. Visited(m) <=> m <= t
    BY <1>1 DEF Visited
  <2>2. Visited(m)' <=> m <= t
    <3>1. m < t + 1 <=> m <= t
        BY <1>4
    <3> QED  BY <3>1, <1>2 DEF Visited
  <2> QED  BY <2>1, <2>2
<1>6. /\ Tensors' = Tensors /\ Nodes' = Nodes
      /\ \A v : (IsView(v)' <=> IsView(v)) /\ Root(v)' = Root(v)
    BY <1>1, GraphSame
\* What becomes of the memory.
<1>7. \/ UNCHANGED <<allocated, heapvars>>
      \/ /\ x \in Owners /\ ~ graph[x].output /\ n_children'[x] = 0 /\ n_views'[x] = 0
         /\ FreeTensor(offset[x], SizeOf(x))
         /\ allocated' = [allocated EXCEPT ![x] = FALSE]
  <2>1. /\ IF n_children[p] = 1 /\ n_views[p] = 0 /\ n_views'[x] = 0 /\ n_children'[x] = 0 /\ allocated[x]
           THEN FreeNode(x)
           ELSE UNCHANGED <<allocated, heapvars>>
    BY DEF UpdateParent
  <2>2. allocated[x] => x \in Owners
    BY <1>4, OwnerFacts
  <2> QED  BY <2>1, <2>2 DEF FreeNode
<1>8. /\ HeapInv' /\ Owned' /\ OwnersAlone' /\ LeafsApart' /\ SourcesKept'
      /\ allocated' \in [Tensors -> BOOLEAN]
      /\ \A r \in Owners : r \in Owners' \/ (~ graph[r].output /\ n_children'[r] = 0 /\ n_views'[r] = 0)
  <2>1. CASE UNCHANGED <<allocated, heapvars>>
    <3>1. HeapInv' /\ Owned' /\ OwnersAlone' /\ LeafsApart' /\ SourcesKept' /\ Owners' = Owners
        BY <2>1, <1>1, <1>4, <1>5, OwnersSame
    <3> QED  BY <3>1, <2>1, <1>4, OwnerFacts
  <2>2. CASE /\ x \in Owners /\ ~ graph[x].output /\ n_children'[x] = 0 /\ n_views'[x] = 0
             /\ FreeTensor(offset[x], SizeOf(x))
             /\ allocated' = [allocated EXCEPT ![x] = FALSE]
    <3>1. /\ HeapInv' /\ Owned' /\ OwnersAlone' /\ LeafsApart' /\ SourcesKept'
          /\ Owners' = Owners \ {x} /\ allocated' \in [Tensors -> BOOLEAN]
        BY <2>2, <1>1, <1>4, <1>5, OwnersFewer
    <3> QED  BY <3>1, <2>2
  <2> QED  BY <2>1, <2>2, <1>7
<1>9. GraphOK'
    BY <1>1, <1>4, GraphStays
<1>10. WalkOK'
  <2>1. n_tokens \in TokenCounts /\ buffer_size \in Nat /\ offset \in [Tensors -> Nat]
    BY <1>4 DEF GraphInv, WalkOK
  <2>2. buffer_size' = buffer_size
    BY <1>1 DEF gallocr
  <2>3. pc' = "parents" => i' \in Nodes /\ j' \in DOMAIN graph[i'].src
    BY <1>2
  <2>4. pc' = "node" => i' \in Len(Leafs) + 1 .. NTensors + 1
    <3>1. /\ t \in 1 .. Len(graph) /\ t > Len(Leafs)
          /\ Len(Leafs) \in Nat /\ NTensors \in Nat /\ Len(graph) \in Nat
        BY <1>2, <1>4, GraphTypes
    <3>2. Len(graph) <= NTensors
        BY <1>4 DEF GraphOK
    <3>3. t + 1 \in Len(Leafs) + 1 .. NTensors + 1
        BY <3>1, <3>2
    <3> QED  BY <3>3, <1>2
  <2> QED  BY <2>1, <2>2, <2>3, <2>4, <1>1, <1>2, <1>3, <1>6, <1>8 DEF WalkOK, Planning
<1>11. Kept'
  <2> SUFFICES ASSUME NEW r \in Tensors, Visited(r)', ~ IsView(r),
                      graph[r].output \/ n_children'[r] > 0 \/ n_views'[r] > 0
               PROVE  allocated'[r] \/ (pc' = "parents" /\ Taken(r)')
    BY <1>1, <1>2, <1>6 DEF Kept
  <2>1. /\ n_children'[r] \in Nat /\ n_views'[r] \in Nat
        /\ n_children[r] \in Nat /\ n_views[r] \in Nat
        /\ n_children'[r] <= n_children[r] /\ n_views'[r] <= n_views[r]
    BY <1>3, <1>4
  <2>2. Visited(r) /\ (graph[r].output \/ n_children[r] > 0 \/ n_views[r] > 0)
    BY <2>1, <1>5
  <2>3. allocated[r] \/ Taken(r)
    BY <2>2, <1>1 DEF GraphInv, Kept
  <2>4. CASE allocated[r]
    <3>1. r \in Owners
        BY <2>4, <1>4, OwnerFacts
    <3>2. r \in Owners'
        BY <3>1, <2>1, <1>8
    <3> QED  BY <3>2 DEF Owners
  <2>5. CASE Taken(r)
    <3>1. ~ graph[r].output /\ n_views[r] = 0 /\ \A w \in Pending(r) : w[1] = t
        BY <2>5 DEF Taken
    <3>2. n_views'[r] = 0 /\ Pending(r)' \subseteq Pending(r)
        BY <3>1, <2>1, <1>2
    <3>3. CASE pc' = "parents"
        <4>1. i' = t /\ graph' = graph
            BY <3>3, <1>1, <1>2
        <4> QED  BY <4>1, <3>1, <3>2, <3>3 DEF Taken
    \* With the last source of t the uses by t are over.
    <3>4. CASE pc' = "node"
        <4>1. i' = t + 1 /\ Pending(r)' \subseteq {w \in Uses(r)' : w[1] > t + 1 \/ w[1] = t + 1}
            BY <3>4, <1>2 DEF Pending
        <4>2. Pending(r)' = {}
            BY <4>1, <3>1, <3>2, <1>4
        <4>3. n_children'[r] = 0
            <5>1. n_children'[r] = Cardinality(Pending(r)')
                BY <1>2, <1>3, <1>6 DEF Counts
            <5> QED  BY <5>1, <4>2, FS_EmptySet
        <4> QED  BY <4>3, <3>1, <3>2
    <3> QED  BY <3>3, <3>4, <1>2
  <2> QED  BY <2>3, <2>4, <2>5
<1>12. PlanOK'
    BY <1>1, <1>2, PlanKept
<1> QED  BY <1>3, <1>8, <1>9, <1>10, <1>11, <1>12 DEF GraphInv

-----------------------------------------------------------------------------
(* The plan is made.                                                       *)

\* Apart with the padding is apart without.
LEMMA PlanBlockFacts ==
    ASSUME GraphInv, pc = "node", node_allocs' = [t \in Tensors |-> NodeAlloc(t)], graph' = graph
    PROVE  /\ \A t \in Tensors : node_allocs'[t].dst \in [offset : Nat, size_max : Nat]
           /\ \A t \in Nodes : \A k \in DOMAIN graph[t].src :
                node_allocs'[t].src[k] = node_allocs'[graph[t].src[k]].dst
           /\ \A t \in Tensors : ~ IsView(t) =>
                /\ PlanBlock(t)' = BlockAt(offset[t], SizeOf(t))
                /\ node_allocs'[t].dst.size_max = SizeOf(t)
                /\ End(PlanBlock(t)') <= End(BlockOf(t))
           /\ \A t, u \in Tensors : ~ IsView(t) /\ ~ IsView(u) /\ Apart(BlockOf(t), BlockOf(u)) =>
                Apart(PlanBlock(t)', PlanBlock(u)')
<1>1. GraphOK /\ Planning /\ n_tokens \in TokenCounts /\ offset \in [Tensors -> Nat]
    BY OwnerFacts DEF GraphInv, Planning
<1>2. ASSUME NEW t \in Tensors
      PROVE  /\ offset[t] \in Nat /\ SizeOf(t) \in Nat
             /\ BlockOf(t).offset = offset[t]
             /\ End(BlockOf(t)) \in Nat /\ offset[t] + SizeOf(t) <= End(BlockOf(t))
  <2>1. /\ End(BlockOf(t)) = offset[t] + Padded(SizeOf(t)) /\ BlockOf(t).offset = offset[t]
        /\ Padded(SizeOf(t)) \in Nat /\ SizeOf(t) <= Padded(SizeOf(t))
    BY <1>1, BlockFacts
  <2>2. SizeOf(t) \in Nat /\ offset[t] \in Nat
    BY <1>1, SizeFacts
  <2> QED  BY <2>1, <2>2
<1>3. \A t \in Tensors : /\ node_allocs'[t].dst = TensorAlloc(t)
                         /\ node_allocs'[t].dst \in [offset : Nat, size_max : Nat]
  <2> SUFFICES ASSUME NEW t \in Tensors
               PROVE  /\ node_allocs'[t].dst = TensorAlloc(t)
                      /\ TensorAlloc(t) \in [offset : Nat, size_max : Nat]
    OBVIOUS
  <2>1. node_allocs'[t].dst = TensorAlloc(t)
    BY DEF NodeAlloc
  <2> QED  BY <2>1, <1>2 DEF TensorAlloc, Nothing
<1>7. ASSUME NEW t \in Nodes, NEW k \in DOMAIN graph[t].src
      PROVE  node_allocs'[t].src[k] = node_allocs'[graph[t].src[k]].dst
  <2>1. t \in Tensors /\ graph[t].src[k] \in Tensors
    <3>1. t \in Tensors
        BY DEF Nodes
    <3>2. graph[t].src[k] \in Srcs(t)
        BY DEF Srcs
    <3> QED  BY <3>1, <3>2, <1>1, GraphTypes
  <2>2. k \in Places
    <3>1. PICK m : m = Len(graph[t].src)
        OBVIOUS
    <3>2. m \in {1, 2} /\ k \in 1 .. m
        BY <1>1, <2>1, <3>1, GraphTypes DEF GraphOK, NodeOK
    <3> QED  BY <3>2 DEF Places
  <2>3. node_allocs'[t].src[k] = TensorAlloc(graph[t].src[k])
    BY <2>1, <2>2 DEF NodeAlloc
  <2> QED  BY <2>1, <2>3, <1>3
<1>4. ASSUME NEW t \in Tensors, ~ IsView(t)
      PROVE  /\ PlanBlock(t)' = BlockAt(offset[t], SizeOf(t))
             /\ node_allocs'[t].dst.size_max = SizeOf(t)
             /\ End(PlanBlock(t)') = offset[t] + SizeOf(t)
             /\ PlanBlock(t)'.offset = offset[t]
  <2>1. node_allocs'[t].dst = [offset |-> offset[t], size_max |-> SizeOf(t)]
    BY <1>3, <1>4 DEF TensorAlloc
  <2>2. PlanBlock(t)' = BlockAt(offset[t], SizeOf(t)) /\ node_allocs'[t].dst.size_max = SizeOf(t)
    BY <2>1 DEF PlanBlock, BlockAt
  <2> QED  BY <2>2 DEF BlockAt, End
<1>5. ASSUME NEW t \in Tensors, NEW u \in Tensors, ~ IsView(t), ~ IsView(u), Apart(BlockOf(t), BlockOf(u))
      PROVE  Apart(PlanBlock(t)', PlanBlock(u)')
  <2>1. End(BlockOf(t)) <= offset[u] \/ End(BlockOf(u)) <= offset[t]
    BY <1>2, <1>5 DEF Apart
  <2>2. offset[t] + SizeOf(t) <= offset[u] \/ offset[u] + SizeOf(u) <= offset[t]
    <3>1. /\ offset[t] \in Nat /\ SizeOf(t) \in Nat /\ offset[u] \in Nat /\ SizeOf(u) \in Nat
          /\ End(BlockOf(t)) \in Nat /\ End(BlockOf(u)) \in Nat
          /\ offset[t] + SizeOf(t) <= End(BlockOf(t)) /\ offset[u] + SizeOf(u) <= End(BlockOf(u))
        BY <1>2
    <3> HIDE <1>2
    <3> QED  BY <3>1, <2>1
  <2> QED  BY <2>2, <1>4, <1>5 DEF Apart
<1>6. \A t \in Tensors : ~ IsView(t) => End(PlanBlock(t)') <= End(BlockOf(t))
    BY <1>2, <1>4
<1> QED  BY <1>3, <1>4, <1>5, <1>6, <1>7

LEMMA ReserveDoneInv == ASSUME GraphInv, ReserveDone PROVE GraphInv'
<1> PICK n : n = n_tokens
    OBVIOUS
<1>1. /\ pc = "node" /\ i > NTensors /\ pc' \in {"init", "failed"}
      /\ graph' = graph /\ n_tokens' = n_tokens /\ UNCHANGED heapvars /\ max_size' = max_size
      /\ node_allocs' = [t \in Tensors |-> NodeAlloc(t)]
      /\ buffer_size' = 0 \/ buffer_size' = IF max_size > buffer_size THEN max_size ELSE buffer_size
    BY DEF ReserveDone, heapvars
<1>2. /\ GraphOK /\ Planning /\ n \in TokenCounts /\ max_size \in Nat /\ buffer_size \in Nat
      /\ Len(graph) = NTensors /\ NTensors \in Nat /\ Tensors = 1 .. NTensors
      /\ Nodes \subseteq Tensors /\ i \in Nat /\ Tensors # {}
  <2>1. GraphOK /\ Planning /\ n \in TokenCounts /\ buffer_size \in Nat
    BY <1>1 DEF GraphInv, Planning, WalkOK
  <2>2. Len(graph) = NTensors
    BY <1>1, <2>1 DEF GraphOK
  <2>3. i \in Len(Leafs) + 1 .. NTensors + 1 /\ Len(Leafs) \in Nat /\ NNodes \in Nat /\ NNodes > 0
    BY <1>1, <2>1, GraphTypes DEF GraphInv, WalkOK
  <2>4. NTensors \in Nat /\ NTensors > 0
    BY <2>3 DEF NTensors
  <2>5. Tensors = 1 .. NTensors
    BY <2>1, <2>2, GraphTypes
  <2>6. Tensors # {} /\ i \in Nat
    <3>1. NTensors \in Tensors
        BY <2>4, <2>5
    <3>2. i \in Nat
        BY <2>3, <2>4
    <3> QED  BY <3>1, <3>2
  <2> QED  BY <2>1, <2>2, <2>4, <2>5, <2>6, OwnerFacts DEF Nodes
<1>3. \A t \in Tensors : Visited(t)
  <2>1. \A t \in Tensors : t < i
    BY <1>1, <1>2
  <2> QED  BY <2>1, <1>1 DEF Visited
<1>4. /\ Tensors' = Tensors /\ Nodes' = Nodes
      /\ \A t : /\ (IsView(t)' <=> IsView(t)) /\ Root(t)' = Root(t)
                /\ Roots(t)' = Roots(t) /\ SizeOf(t)' = SizeOf(t)
                /\ (ReadAway(t)' <=> ReadAway(t))
      /\ Outputs' = Outputs
      /\ \A r, u : WrittenAfter(r, u)' = WrittenAfter(r, u) /\ (TakesOver(u, r)' <=> TakesOver(u, r))
    BY <1>1, GraphSame, SameSizes
<1>5. /\ \A t \in Tensors : node_allocs'[t].dst \in [offset : Nat, size_max : Nat]
      /\ \A t \in Nodes : \A k \in DOMAIN graph[t].src :
            node_allocs'[t].src[k] = node_allocs'[graph[t].src[k]].dst
      /\ \A t \in Tensors : ~ IsView(t) =>
            /\ PlanBlock(t)' = BlockAt(offset[t], SizeOf(t))
            /\ node_allocs'[t].dst.size_max = SizeOf(t)
            /\ End(PlanBlock(t)') <= End(BlockOf(t))
      /\ \A t, u \in Tensors : ~ IsView(t) /\ ~ IsView(u) /\ Apart(BlockOf(t), BlockOf(u)) =>
            Apart(PlanBlock(t)', PlanBlock(u)')
    BY <1>1, PlanBlockFacts
<1>6. \A u \in Nodes : \A r \in Roots(u) : r \in Tensors /\ ~ IsView(r)
  <2> SUFFICES ASSUME NEW u \in Nodes, NEW p \in Srcs(u) PROVE Root(p) \in Tensors /\ ~ IsView(Root(p))
    BY DEF Roots
  <2>1. p \in Tensors
    BY <1>2, GraphTypes
  <2> QED  BY <2>1, <1>2, GraphTypes
<1>7. \A u \in Nodes : \A r : \A m \in WrittenAfter(r, u) : m \in Tensors /\ ~ IsView(m)
    BY <1>2 DEF WrittenAfter
<1>8. buffer_size' \in Nat /\ (buffer_size' = 0 \/ max_size <= buffer_size')
    BY <1>1, <1>2
<1>9. ASSUME NEW t \in Tensors, ~ IsView(t)
      PROVE  /\ node_allocs'[t].dst.size_max = graph[t].shape[n]
             /\ End(PlanBlock(t)') <= max_size
             /\ buffer_size' = 0 \/ End(PlanBlock(t)') <= buffer_size'
  <2>1. End(BlockOf(t)) <= max_size
    BY <1>2, <1>3, <1>9 DEF GraphInv, Owned
  <2>2. PlanBlock(t)' = BlockAt(offset[t], SizeOf(t)) /\ End(PlanBlock(t)') <= End(BlockOf(t))
    BY <1>5, <1>9
  <2>3. End(BlockOf(t)) \in Nat /\ offset[t] \in Nat /\ SizeOf(t) \in Nat \ {0}
    <3>1. offset \in [Tensors -> Nat]
        BY <1>2, OwnerFacts
    <3> QED  BY <3>1, <1>2, BlockFacts, EndInNat, SizeFacts
  <2>4. End(PlanBlock(t)') \in Nat
    <3>1. End(BlockAt(offset[t], SizeOf(t))) = offset[t] + SizeOf(t)
        BY <2>3, BlockAtFacts
    <3>2. offset[t] + SizeOf(t) \in Nat
        BY <2>3
    <3> QED  BY <3>1, <3>2, <2>2
  <2>5. End(PlanBlock(t)') <= max_size /\ (buffer_size' = 0 \/ End(PlanBlock(t)') <= buffer_size')
    BY <2>1, <2>2, <2>3, <2>4, <1>2, <1>8
  <2> QED  BY <2>5, <1>5, <1>9 DEF SizeOf
<1>10. ASSUME NEW u \in Nodes, NEW r \in Roots(u), NEW m \in WrittenAfter(r, u)
       PROVE  Apart(PlanBlock(m)', PlanBlock(r)') \/ (m = u /\ TakesOver(u, r) /\ PlanBlock(u)' = PlanBlock(r)')
  <2>1. \/ Apart(BlockOf(m), BlockOf(r))
        \/ m = u /\ TakesOver(u, r) /\ BlockOf(u) = BlockOf(r) /\ SizeOf(u) = SizeOf(r)
    BY <1>2, <1>3 DEF GraphInv, SourcesKept
  <2>2. m \in Tensors /\ ~ IsView(m) /\ r \in Tensors /\ ~ IsView(r)
    BY <1>6, <1>7
  <2>3. CASE Apart(BlockOf(m), BlockOf(r))
    BY <2>2, <2>3, <1>5
  <2>4. CASE m = u /\ TakesOver(u, r) /\ BlockOf(u) = BlockOf(r) /\ SizeOf(u) = SizeOf(r)
    <3>1. offset[u] = offset[r]
        BY <2>4 DEF BlockOf, BlockAt
    <3>2. PlanBlock(u)' = PlanBlock(r)'
        BY <3>1, <2>2, <2>4, <1>5
    <3> QED  BY <3>2, <2>4
  <2> QED  BY <2>1, <2>3, <2>4
\* An output, or what it is a view of, keeps its memory to the end.
<1>11. ASSUME NEW t \in Tensors, graph[t].output, ~ ReadAway(t) PROVE Root(t) \in Owners
  <2>1. Root(t) \in Tensors /\ ~ IsView(Root(t)) /\ (~ IsView(t) => Root(t) = t)
    BY <1>2, GraphTypes
  <2>2. graph[Root(t)].output \/ n_views[Root(t)] > 0
    <3>1. CASE ~ IsView(t)
        BY <2>1, <3>1, <1>11
    <3>3. CASE graph[Root(t)].output
        BY <3>3
    <3>2. CASE IsView(t) /\ ~ graph[Root(t)].output
        <4>1. t \in Views(Root(t))
            BY <3>2, <1>2, ViewFacts
        <4>2. Uses(t) = {}
            <5> SUFFICES ASSUME NEW w \in Uses(t) PROVE FALSE
                OBVIOUS
            <5>1. w[1] \in Nodes /\ w[2] \in DOMAIN graph[w[1]].src /\ graph[w[1]].src[w[2]] = t
                BY <1>2, UseFacts
            <5>2. t \in Srcs(w[1])
                BY <5>1 DEF Srcs
            <5> QED  BY <5>1, <5>2, <3>2, <1>11 DEF ReadAway
        <4>3. LiveViews(Root(t)) # {} /\ IsFiniteSet(LiveViews(Root(t)))
            BY <4>1, <4>2, <1>2, UsesFinite DEF LiveViews
        <4>4. n_views[Root(t)] = Cardinality(LiveViews(Root(t)))
            BY <2>1, <1>1 DEF GraphInv, Counts
        <4> QED  BY <4>3, <4>4, CountPositive
    <3> QED  BY <3>1, <3>2, <3>3
  <2>3. allocated[Root(t)]
    BY <2>1, <2>2, <1>1, <1>3 DEF GraphInv, Kept
  <2> QED  BY <2>1, <2>3, <1>2, OwnerFacts
<1>12. ASSUME NEW t \in Tensors, graph[t].output, ~ ReadAway(t), NEW m \in (t + 1) .. NTensors, ~ IsView(m)
       PROVE  Apart(PlanBlock(m)', PlanBlock(Root(t))')
  <2> PICK r : r = Root(t)
    OBVIOUS
  <2>1. r \in Owners /\ r \in Tensors /\ r <= t /\ ~ IsView(r) /\ Root(t)' = r
    BY <1>2, <1>4, <1>11, <1>12, GraphTypes
  <2>2. m \in Tensors /\ m > r
    BY <2>1, <1>2
  <2>3. Apart(BlockOf(m), BlockOf(r))
    BY <2>1, <2>2, <1>2, <1>3, <1>12 DEF GraphInv, OwnersAlone
  <2>4. Apart(PlanBlock(m)', PlanBlock(r)')
    BY <2>1, <2>2, <2>3, <1>5, <1>12
  <2>5. PlanBlock(Root(t))' = PlanBlock(r)'
    BY <2>1 DEF PlanBlock
  <2> QED  BY <2>4, <2>5
<1>13. PlanFor(n)'
  <2>1. \A t \in Tensors' : ~ IsView(t)' =>
            /\ node_allocs'[t].dst.size_max = graph'[t].shape[n]
            /\ buffer_size' = 0 \/ End(PlanBlock(t)') <= buffer_size'
    BY <1>1, <1>4, <1>9
  <2>2. \A u \in Nodes' : \A r \in Roots(u)' : \A m \in WrittenAfter(r, u)' :
            \/ Apart(PlanBlock(m)', PlanBlock(r)')
            \/ m = u /\ TakesOver(u, r)' /\ PlanBlock(u)' = PlanBlock(r)'
    BY <1>4, <1>10
  <2>3. \A t \in Outputs' : ~ ReadAway(t)' =>
            \A m \in (t + 1) .. NTensors : ~ IsView(m)' => Apart(PlanBlock(m)', PlanBlock(Root(t))')
    BY <1>4, <1>12 DEF Outputs
  <2>4. \A t \in Tensors' : node_allocs'[t].dst \in [offset : Nat, size_max : Nat]
    BY <1>4, <1>5
  <2>5. ASSUME NEW t \in Nodes', NEW k \in DOMAIN graph'[t].src
        PROVE  node_allocs'[t].src[k] = node_allocs'[graph'[t].src[k]].dst
    <3>1. t \in Nodes /\ graph'[t] = graph[t] /\ k \in DOMAIN graph[t].src
        BY <1>1, <1>4, <2>5
    <3> QED  BY <3>1, <1>5
  <2> QED  BY <2>1, <2>2, <2>3, <2>4, <2>5 DEF PlanFor, Apart, End
<1>14. node_allocs' # <<>>
    BY <1>1, <1>2
<1>15. \A t \in Tensors : Fits(t)'
  <2> SUFFICES ASSUME NEW t \in Tensors, ~ IsView(t) PROVE node_allocs'[t].dst.size_max >= SizeOf(t)
    BY <1>4 DEF Fits, StillFits
  <2>1. SizeOf(t) \in Nat
    BY <1>2, SizeFacts
  <2> QED  BY <2>1, <1>5
<1>16. PlanOK'
  <2>1. \A t \in Tensors' : ~ IsView(t)' => End(PlanBlock(t)') <= max_size'
    BY <1>1, <1>4, <1>9
  <2> QED  BY <2>1, <1>1, <1>2, <1>4, <1>13, <1>14, <1>15 DEF PlanOK, End
<1>17. HeapInv' /\ GraphOK'
    BY <1>1, <1>2, HeapSame, GraphStays DEF GraphInv
<1>18. WalkOK'
    BY <1>1, <1>2, <1>8 DEF WalkOK, Planning
<1>19. Counts' /\ Kept' /\ Owned' /\ OwnersAlone' /\ LeafsApart' /\ SourcesKept'
    BY <1>1 DEF Counts, Kept, Owned, OwnersAlone, LeafsApart, SourcesKept, Planning
<1> QED  BY <1>16, <1>17, <1>18, <1>19 DEF GraphInv

-----------------------------------------------------------------------------
(* Before and after the planning.                                          *)

\* Where nothing is planned nothing is said of the walk.
LEMMA NotPlanning ==
    ASSUME pc' \notin {"leafs", "node", "parents"}
    PROVE  Counts' /\ Kept' /\ Owned' /\ OwnersAlone' /\ LeafsApart' /\ SourcesKept'
    BY DEF Counts, Kept, Owned, OwnersAlone, LeafsApart, SourcesKept, Planning

LEMMA BuildDoneInv == ASSUME GraphInv, BuildDone PROVE GraphInv'
<1>1. /\ pc = "build" /\ Len(graph) = NTensors /\ pc' = "alloc_graph" /\ graph' = graph
      /\ n_tokens' = n_tokens /\ UNCHANGED gallocr /\ UNCHANGED heapvars
    BY DEF BuildDone
<1>2. HeapInv' /\ GraphOK'
    BY <1>1, HeapSame, GraphStays DEF GraphInv
<1>3. WalkOK'
    BY <1>1 DEF GraphInv, WalkOK, Planning, gallocr
<1>4. PlanOK'
    BY <1>1, PlanKept
<1> QED  BY <1>1, <1>2, <1>3, <1>4, NotPlanning DEF GraphInv

LEMMA ReserveInv == ASSUME GraphInv, AllocGraph, Reserve PROVE GraphInv'
<1>1. /\ pc = "alloc_graph" /\ graph' = graph /\ n_tokens' = n_tokens /\ UNCHANGED gallocr
      /\ HeapReset /\ pc' = "leafs" /\ i' = 1
      /\ n_children' = Zero /\ n_views' = Zero /\ offset' = Zero
      /\ allocated' = [t \in Tensors |-> FALSE]
    BY DEF AllocGraph, Reserve
<1>2. GraphOK /\ Len(Leafs) \in Nat /\ Tensors \subseteq Nat /\ Tensors' = Tensors
      /\ Tensors = 1 .. Len(graph) /\ Len(graph) \in Nat
    BY <1>1, GraphTypes, GraphSame DEF GraphInv
<1>3. HeapInv'
  <2>1. HeapInit'
    BY <1>1 DEF HeapReset, HeapInit, BlockAt
  <2> QED  BY <2>1, HeapInitInv, PTL
<1>4. GraphOK'
    BY <1>1, <1>2, GraphStays
<1>5. Owners' = {} /\ live' = {}
    BY <1>1 DEF Owners, HeapReset
<1>6. \A t \in Tensors : ~ Visited(t)'
    BY <1>1, <1>2 DEF Visited
<1>7. WalkOK'
  <2>1. Zero \in [Tensors -> Nat] /\ allocated' \in [Tensors -> BOOLEAN]
    BY <1>1 DEF Zero
  <2>2. i' \in 1 .. Len(Leafs) + 1
    BY <1>1, <1>2
  <2> QED  BY <2>1, <2>2, <1>1, <1>2 DEF GraphInv, WalkOK, Planning, gallocr
<1>8. Counts' /\ Kept' /\ LeafsApart'
    BY <1>1, <1>2, <1>6 DEF Counts, Kept, LeafsApart
<1>9. Owned' /\ OwnersAlone'
    BY <1>2, <1>5, <1>6 DEF Owned, OwnersAlone
<1>10. SourcesKept'
  <2>1. \A u \in Nodes' : ~ Visited(u)'
    BY <1>2, <1>6 DEF Nodes
  <2> QED  BY <2>1 DEF SourcesKept
<1>11. PlanOK'
    BY <1>1, PlanKept
<1> QED  BY <1>3, <1>4, <1>7, <1>8, <1>9, <1>10, <1>11 DEF GraphInv

\* Nodes and what they read are all there is: no leaf goes unread.
LEMMA NoReallocInv == ASSUME GraphInv, AllocGraph, ~ NeedsRealloc PROVE GraphInv'
<1>1. /\ pc = "alloc_graph" /\ graph' = graph /\ n_tokens' = n_tokens /\ UNCHANGED gallocr
      /\ pc' = "init" /\ UNCHANGED heapvars
    BY DEF AllocGraph
<1>2. GraphOK /\ HeapInv /\ Len(graph) = NTensors
    BY <1>1 DEF GraphInv, GraphOK
<1>3. HeapInv' /\ GraphOK'
    BY <1>1, <1>2, HeapSame, GraphStays
<1>4. WalkOK'
    BY <1>1 DEF GraphInv, WalkOK, Planning, gallocr
<1>5. node_allocs # <<>> /\ \A c \in Checks : StillFits(Checked(c), Remembered(c))
    BY DEF NeedsRealloc, Unfit
<1>6. ASSUME SameTopology, NEW t \in Tensors PROVE Fits(t)
  <2>1. CASE t \in Nodes
    <3>1. <<t, 0>> \in Checks
        BY <2>1 DEF Checks
    <3>2. Checked(<<t, 0>>) = t /\ Remembered(<<t, 0>>) = node_allocs[t].dst
        BY DEF Checked, Remembered
    <3> QED  BY <3>1, <3>2, <1>5 DEF Fits
  <2>2. CASE t \notin Nodes
    <3>1. PICK u \in Tensors : t \in Srcs(u)
        BY <2>2, <1>2 DEF GraphOK, Unread
    <3>2. u \in Nodes /\ NodeOK(u) /\ DOMAIN graph[u].src = 1 .. Len(graph[u].src)
        BY <3>1, <1>2, GraphTypes DEF GraphOK
    <3>3. PICK k \in DOMAIN graph[u].src : graph[u].src[k] = t
        BY <3>1 DEF Srcs
    <3>4. k \in Places /\ k # 0
        <4>1. PICK m : m = Len(graph[u].src)
            OBVIOUS
        <4>2. m \in {1, 2} /\ k \in 1 .. m
            BY <3>2, <4>1 DEF NodeOK
        <4> QED  BY <4>2 DEF Places
    <3>5. <<u, k>> \in Checks
        BY <3>2, <3>4 DEF Checks
    <3>6. Checked(<<u, k>>) = t /\ Remembered(<<u, k>>) = node_allocs[u].src[k]
        BY <3>3, <3>4 DEF Checked, Remembered
    <3>7. node_allocs[u].src[k] = node_allocs[t].dst
        <4>1. PICK n \in TokenCounts : PlanFor(n)
            BY <1>5, <1>6 DEF GraphInv, PlanOK
        <4> QED  BY <4>1, <3>2, <3>3 DEF PlanFor
    <3> QED  BY <3>5, <3>6, <3>7, <1>5 DEF Fits
  <2> QED  BY <2>1, <2>2
<1>7. node_allocs' = node_allocs /\ Tensors' = Tensors /\ \A t : (Fits(t)' <=> Fits(t))
  <2>1. \A t : (IsView(t)' <=> IsView(t)) /\ SizeOf(t)' = SizeOf(t)
    BY <1>1, GraphSame, SameSizes
  <2> QED  BY <2>1, <1>1, GraphSame DEF Fits, StillFits, gallocr
<1>8. PlanOK'
  <2> SUFFICES ASSUME SameTopology PROVE PlanOK'
    BY DEF PlanOK
  <2>1. node_allocs # <<>> => \E n \in TokenCounts : PlanFor(n)
    BY DEF GraphInv, PlanOK
  <2>2. \A n : PlanFor(n)' <=> PlanFor(n)
    BY <1>1, PlanSame
  <2>3. \E n \in TokenCounts : PlanFor(n)'
    BY <2>1, <2>2, <1>5
  <2> QED  BY <2>3, <1>1, <1>5, <1>6, <1>7 DEF PlanOK
<1> QED  BY <1>1, <1>3, <1>4, <1>8, NotPlanning DEF GraphInv

LEMMA InitTensorsInv == ASSUME GraphInv, InitTensors PROVE GraphInv'
<1>1. /\ pc = "init" /\ graph' = graph /\ n_tokens' = n_tokens /\ UNCHANGED gallocr
      /\ pc' = "compute" /\ UNCHANGED heapvars
      /\ addr' = [t \in Tensors |-> node_allocs[Root(t)].dst.offset]
    BY DEF InitTensors
<1>2. HeapInv' /\ GraphOK'
    BY <1>1, HeapSame, GraphStays DEF GraphInv
<1>3. WalkOK'
    BY <1>1 DEF GraphInv, WalkOK, Planning, gallocr
<1>4. /\ node_allocs' = node_allocs /\ Tensors' = Tensors
      /\ \A t : (Fits(t)' <=> Fits(t)) /\ Root(t)' = Root(t)
  <2>1. \A t : (IsView(t)' <=> IsView(t)) /\ SizeOf(t)' = SizeOf(t) /\ Root(t)' = Root(t)
    BY <1>1, GraphSame, SameSizes
  <2> QED  BY <2>1, <1>1, GraphSame DEF Fits, StillFits, gallocr
<1>5. PlanOK'
  <2> SUFFICES ASSUME SameTopology PROVE PlanOK'
    BY DEF PlanOK
  <2>1. node_allocs # <<>> /\ (\A t \in Tensors : Fits(t)) /\ \E n \in TokenCounts : PlanFor(n)
    BY <1>1 DEF GraphInv, PlanOK
  <2>2. \A n : PlanFor(n)' <=> PlanFor(n)
    BY <1>1, PlanSame
  <2>3. \E n \in TokenCounts : PlanFor(n)'
    BY <2>1, <2>2
  <2>4. addr' = [t \in Tensors' |-> node_allocs'[Root(t)'].dst.offset]
    BY <1>1, <1>4
  <2> QED  BY <2>1, <2>3, <2>4, <1>1, <1>4 DEF PlanOK
<1> QED  BY <1>1, <1>2, <1>3, <1>5, NotPlanning DEF GraphInv

\* The plan is the same, and whatever there is of a buffer is large enough.
LEMMA RetryInv == ASSUME GraphInv, Retry PROVE GraphInv'
<1>1. /\ pc = "failed" /\ graph' = graph /\ n_tokens' = n_tokens /\ node_allocs' = node_allocs
      /\ pc' = "alloc_graph" /\ UNCHANGED heapvars /\ buffer_size' \in {0, max_size}
    BY DEF Retry
<1>2. HeapInv' /\ GraphOK'
    BY <1>1, HeapSame, GraphStays DEF GraphInv
<1>3. WalkOK'
  <2>1. max_size \in Nat
    BY DEF GraphInv, HeapInv, HeapTiled, HeapTypeOK
  <2> QED  BY <2>1, <1>1 DEF GraphInv, WalkOK, Planning
<1>4. PlanOK'
  <2> SUFFICES ASSUME SameTopology, node_allocs # <<>> PROVE \E n \in TokenCounts : PlanFor(n)'
    BY <1>1 DEF PlanOK
  <2>1. PICK n \in TokenCounts : PlanFor(n)
    BY DEF GraphInv, PlanOK
  <2>2. \A t \in Tensors : ~ IsView(t) => End(PlanBlock(t)) <= max_size
    BY <1>1 DEF GraphInv, PlanOK
  <2>3. /\ Tensors' = Tensors /\ Nodes' = Nodes /\ Outputs' = Outputs
        /\ \A t : /\ (IsView(t)' <=> IsView(t)) /\ (ReadAway(t)' <=> ReadAway(t))
                  /\ Root(t)' = Root(t) /\ Roots(t)' = Roots(t)
        /\ \A r, u : WrittenAfter(r, u)' = WrittenAfter(r, u) /\ (TakesOver(u, r)' <=> TakesOver(u, r))
    BY <1>1, GraphSame
  <2>4. \A t : PlanBlock(t)' = PlanBlock(t) /\ PlanBlock(Root(t))' = PlanBlock(Root(t))
    BY <1>1, <2>3 DEF PlanBlock, BlockAt
  <2>5. \A t \in Tensors : ~ IsView(t) => /\ node_allocs[t].dst.size_max = graph[t].shape[n]
                                           /\ (buffer_size' = 0 \/ End(PlanBlock(t)) <= buffer_size')
    BY <1>1, <2>1, <2>2 DEF PlanFor
  <2>6. PlanFor(n)'
    BY <1>1, <2>1, <2>3, <2>4, <2>5 DEF PlanFor, Apart, End
  <2> QED  BY <2>6
<1> QED  BY <1>1, <1>2, <1>3, <1>4, NotPlanning DEF GraphInv

LEMMA AllocGraphInv == ASSUME GraphInv, AllocGraph PROVE GraphInv'
<1>1. CASE NeedsRealloc
  <2>1. Reserve
    BY <1>1 DEF AllocGraph
  <2> QED  BY <2>1, ReserveInv
<1>2. CASE ~ NeedsRealloc
    BY <1>2, NoReallocInv
<1> QED  BY <1>1, <1>2

-----------------------------------------------------------------------------
(* Building the graph.                                                     *)

\* What the node built next may be.
NewNodeOK(node) ==
    /\ node \in Tensor
    /\ DOMAIN node.src = 1 .. Len(node.src) /\ Len(node.src) \in {1, 2}
    /\ \A m \in DOMAIN node.src :
        /\ node.src[m] \in Tensors
        /\ node.op = "map" => \A n \in TokenCounts : node.shape[n] % graph[node.src[m]].shape[n] = 0
    /\ node.view_src \in Nat
    /\ node.view_src # 0 => /\ node.view_src = Root(node.src[1]) /\ node.op # "map"
                            /\ Len(node.src) = 1

LEMMA NewNodeFacts ==
    ASSUME GraphOK, NEW k \in Tensors, NEW output \in BOOLEAN
    PROVE  /\ NewNodeOK(Map(k, output))
           /\ NewNodeOK(View(k, output))
           /\ \A shape \in Shapes : NewNodeOK(MulMat(k, shape, output))
           /\ \A l \in Repeatable(k) : NewNodeOK(Map2(k, l, output))
<1>1. k \in Tensors /\ k \in Nat /\ graph[k].shape \in Shapes
  <2>1. Tensors \subseteq Nat /\ graph[k] \in Tensor
    BY GraphTypes
  <2> QED  BY <2>1 DEF Tensor
<1>2. \A n \in TokenCounts : graph[k].shape[n] % graph[k].shape[n] = 0
  <2> SUFFICES ASSUME NEW n \in TokenCounts PROVE graph[k].shape[n] % graph[k].shape[n] = 0
    OBVIOUS
  <2>1. graph[k].shape[n] \in Nat \ {0}
    BY <1>1, ShapeFacts
  <2>2. \A x \in Nat \ {0} : x % x = 0
    OBVIOUS
  <2> QED  BY <2>1, <2>2
<1>3. /\ <<k>> \in Seq(Nat) /\ DOMAIN <<k>> = {1} /\ Len(<<k>>) = 1 /\ <<k>>[1] = k /\ {1} = 1 .. 1
    BY <1>1
<1>4. NewNodeOK(Map(k, output))
    BY <1>1, <1>2, <1>3 DEF NewNodeOK, Map, NewNode, Tensor
<1>5. NewNodeOK(View(k, output))
  <2>1. Root(k) \in Nat
    BY <1>1, GraphTypes
  <2> QED  BY <1>1, <1>3, <2>1 DEF NewNodeOK, View, NewNode, Tensor
<1>6. \A shape \in Shapes : NewNodeOK(MulMat(k, shape, output))
    BY <1>1, <1>3 DEF NewNodeOK, MulMat, NewNode, Tensor
<1>7. ASSUME NEW l \in Repeatable(k) PROVE NewNodeOK(Map2(k, l, output))
  <2>1. l \in Tensors /\ l \in Nat /\ \A n \in TokenCounts : graph[k].shape[n] % graph[l].shape[n] = 0
    BY GraphTypes DEF Repeatable
  <2>2. /\ <<k, l>> \in Seq(Nat) /\ DOMAIN <<k, l>> = 1 .. 2 /\ Len(<<k, l>>) = 2
        /\ \A m \in 1 .. 2 : <<k, l>>[m] \in {k, l}
    BY <1>1, <2>1
  <2> QED  BY <1>1, <1>2, <2>1, <2>2 DEF NewNodeOK, Map2, NewNode, Tensor
<1> QED  BY <1>4, <1>5, <1>6, <1>7

\* The tensors there were are what they were.
LEMMA AppendFacts ==
    ASSUME GraphOK, NEW node, NewNodeOK(node), graph' = Append(graph, node)
    PROVE  /\ Tensors' = 1 .. Len(graph) + 1 /\ Len(graph') = Len(graph) + 1 /\ Len(graph) \in Nat
           /\ graph' \in Seq(Tensor)
           /\ graph'[Len(graph) + 1] = node /\ Len(graph) + 1 \in Nodes'
           /\ \A t \in Tensors : /\ t \in Tensors' /\ t \in 1 .. Len(graph)
                                 /\ graph'[t] = graph[t] /\ (t \in Nodes' <=> t \in Nodes)
                                 /\ IsView(t)' <=> IsView(t)
                                 /\ Root(t)' = Root(t) /\ Srcs(t)' = Srcs(t)
                                 /\ CanInplace(t)' <=> CanInplace(t)
<1>1. /\ graph \in Seq(Tensor) /\ node \in Tensor /\ Len(Leafs) \in Nat /\ Len(Leafs) <= Len(graph)
      /\ Tensors = 1 .. Len(graph) /\ Len(graph) \in Nat
    BY GraphTypes DEF GraphOK, NewNodeOK
<1>2. /\ graph' \in Seq(Tensor) /\ Len(graph') = Len(graph) + 1 /\ DOMAIN graph' = 1 .. Len(graph) + 1
      /\ \A t \in 1 .. Len(graph) : graph'[t] = graph[t]
      /\ graph'[Len(graph) + 1] = node
    BY <1>1
<1>3. Tensors' = 1 .. Len(graph) + 1
    BY <1>2 DEF Tensors
<1>4. Len(graph) + 1 \in Nodes'
    BY <1>1, <1>3 DEF Nodes
<1>5. ASSUME NEW t \in Tensors
      PROVE  /\ t \in Tensors' /\ t \in 1 .. Len(graph) /\ graph'[t] = graph[t] /\ (t \in Nodes' <=> t \in Nodes)
             /\ IsView(t)' <=> IsView(t)
             /\ Root(t)' = Root(t) /\ Srcs(t)' = Srcs(t)
             /\ CanInplace(t)' <=> CanInplace(t)
  <2>1. t \in 1 .. Len(graph) /\ t \in Tensors'
    BY <1>1, <1>3
  <2>2. graph'[t] = graph[t]
    BY <1>2, <2>1
  <2>3. t \in Nodes' <=> t \in Nodes
    BY <2>1 DEF Nodes
  <2> QED  BY <2>1, <2>2, <2>3 DEF IsView, Root, Srcs, CanInplace
<1> QED  BY <1>1, <1>2, <1>3, <1>4, <1>5

LEMMA NewNodeReads == ASSUME NEW node, NewNodeOK(node) PROVE 1 \in DOMAIN node.src
<1>1. PICK n : n = Len(node.src)
    OBVIOUS
<1>2. DOMAIN node.src = 1 .. n /\ n \in {1, 2}
    BY <1>1 DEF NewNodeOK
<1>3. 1 \in 1 .. n
    BY <1>2
<1> QED  BY <1>2, <1>3

LEMMA AppendOK ==
    ASSUME GraphOK, pc = "build", pc' = "build", Len(graph) < NTensors,
           NEW node, NewNodeOK(node), graph' = Append(graph, node),
           Len(graph) + 1 = NTensors => Unread \subseteq {node.src[m] : m \in DOMAIN node.src}
    PROVE  GraphOK'
<1> PICK N : N = Len(graph) + 1
    OBVIOUS
<1>1. /\ Tensors' = 1 .. N /\ Len(graph') = N /\ Len(graph) \in Nat /\ N \in Nat
      /\ graph' \in Seq(Tensor) /\ graph'[N] = node /\ N \in Nodes'
    BY AppendFacts
<1>2. \A t \in Tensors : /\ t \in Tensors' /\ t \in 1 .. Len(graph)
                         /\ graph'[t] = graph[t] /\ (t \in Nodes' <=> t \in Nodes)
                         /\ IsView(t)' <=> IsView(t)
                         /\ Root(t)' = Root(t) /\ Srcs(t)' = Srcs(t)
                         /\ CanInplace(t)' <=> CanInplace(t)
    BY AppendFacts
<1>3. Tensors = 1 .. Len(graph) /\ Tensors' = Tensors \cup {N}
    BY <1>1, GraphTypes
<1>4. Len(Leafs) <= N /\ N <= NTensors /\ Len(Leafs) \in Nat /\ NTensors \in Nat
  <2>1. Len(Leafs) \in Nat /\ NTensors \in Nat /\ Len(Leafs) <= Len(graph)
    BY GraphTypes DEF GraphOK
  <2> QED  BY <2>1, <1>1
<1>5. \A m \in DOMAIN node.src :
        node.src[m] \in Tensors /\ node.src[m] \in 1 .. N - 1
    BY <1>1, <1>3 DEF NewNodeOK
<1>6. 1 \in DOMAIN node.src /\ (IsView(N)' <=> node.view_src # 0)
  <2>1. IsView(N)' <=> node.view_src # 0
    BY <1>1 DEF IsView
  <2> QED  BY <2>1, NewNodeReads
<1>7. NodeOK(N)'
  <2>1. Len(graph'[N].src) \in {1, 2}
    BY <1>1 DEF NewNodeOK
  <2>2. graph'[N].view_src < N
    <3>1. CASE node.view_src = 0
        BY <3>1, <1>1
    <3>2. CASE node.view_src # 0
      <4>1. node.view_src = Root(node.src[1]) /\ node.src[1] \in Tensors
        BY <3>2, <1>5, <1>6 DEF NewNodeOK
      <4>2. node.view_src \in Tensors
        BY <4>1, GraphTypes
      <4> QED  BY <4>2, <1>1, <1>3
    <3> QED  BY <3>1, <3>2
  <2>3. ASSUME NEW m \in DOMAIN graph'[N].src
        PROVE  /\ graph'[N].src[m] \in 1 .. N - 1
               /\ CanInplace(N)' => \A n \in TokenCounts :
                    graph'[N].shape[n] % graph'[graph'[N].src[m]].shape[n] = 0
    <3>1. m \in DOMAIN node.src
        BY <1>1
    <3>2. PICK p : p = node.src[m]
        OBVIOUS
    <3>3. p \in Tensors /\ p \in 1 .. N - 1 /\ graph'[p] = graph[p]
          /\ (IsView(p)' <=> IsView(p))
        BY <1>2, <1>5, <3>1, <3>2
    <3>4. CanInplace(N)' => \A n \in TokenCounts : node.shape[n] % graph[p].shape[n] = 0
        BY <1>1, <3>1, <3>2 DEF NewNodeOK, CanInplace
    <3>5. graph'[N].src[m] = p
        BY <1>1, <3>2
    <3> QED  BY <1>1, <3>3, <3>4, <3>5 DEF IsView
  <2>4. IsView(N)' => /\ graph'[N].view_src = Root(graph[N].src[1])' /\ ~ CanInplace(N)'
                      /\ Len(graph'[N].src) = 1
    <3> SUFFICES ASSUME node.view_src # 0
                 PROVE  /\ node.view_src = Root(graph[N].src[1])' /\ ~ CanInplace(N)'
                        /\ Len(node.src) = 1
        BY <1>1, <1>6
    <3>1. PICK p : p = node.src[1]
        OBVIOUS
    <3>2. p \in Tensors /\ Root(p)' = Root(p) /\ graph'[N].src[1] = p
        BY <1>1, <1>2, <1>5, <1>6, <3>1
    <3>3. Root(p)' = IF graph'[p].view_src # 0 THEN graph'[p].view_src ELSE p
        BY DEF Root, IsView
    <3>4. Root(graph[N].src[1])' = IF graph'[p].view_src # 0 THEN graph'[p].view_src ELSE p
        BY <3>2 DEF Root, IsView
    <3> QED  BY <1>1, <3>1, <3>2, <3>3, <3>4 DEF NewNodeOK, CanInplace
  <2> HIDE DEF CanInplace, IsView, Root
  <2> QED  BY <2>1, <2>2, <2>3, <2>4 DEF NodeOK
<1>8. ASSUME NEW t \in Nodes PROVE NodeOK(t)'
  <2>1. t \in Tensors /\ NodeOK(t)
    BY DEF Nodes, GraphOK
  <2>2. /\ graph'[t] = graph[t] /\ t \in 1 .. Len(graph)
        /\ IsView(t)' <=> IsView(t)
        /\ CanInplace(t)' <=> CanInplace(t)
    BY <1>2, <2>1
  <2>3. ASSUME NEW k \in DOMAIN graph[t].src
        PROVE  /\ graph[t].src[k] \in 1 .. t - 1
               /\ CanInplace(t) => \A n \in TokenCounts :
                    graph[t].shape[n] % graph'[graph[t].src[k]].shape[n] = 0
    <3>1. PICK p : p = graph[t].src[k]
        OBVIOUS
    <3>2. p \in 1 .. t - 1
          /\ (CanInplace(t) => \A n \in TokenCounts : graph[t].shape[n] % graph[p].shape[n] = 0)
        BY <2>1, <3>1 DEF NodeOK
    <3>3. p \in Tensors
        BY <3>2, <2>2, <1>1, <1>3
    <3>4. graph'[p] = graph[p] /\ (IsView(p)' <=> IsView(p))
        BY <3>3, <1>2
    <3> QED  BY <3>1, <3>2, <3>4, <2>2 DEF IsView
  <2>4. IsView(t) => Root(graph[t].src[1])' = Root(graph[t].src[1])
    <3> HAVE IsView(t)
    <3>1. PICK p : p = graph[t].src[1]
        OBVIOUS
    <3>2. p \in Tensors
      <4>1. 1 \in DOMAIN graph[t].src
        BY <2>1, GraphTypes DEF NodeOK
      <4>2. p \in 1 .. t - 1
        BY <4>1, <2>1, <3>1 DEF NodeOK
      <4> QED  BY <4>2, <2>2, <1>1, <1>3
    <3>3. Root(p)' = Root(p)
        BY <3>2, <1>2
    <3> QED  BY <3>1, <3>3, <2>2 DEF Root, IsView
  <2>5. graph'[t].view_src < t /\ Len(graph'[t].src) \in {1, 2} /\ DOMAIN graph'[t].src = DOMAIN graph[t].src
    BY <2>1, <2>2 DEF NodeOK
  <2>6. IsView(t)' => /\ graph'[t].view_src = Root(graph[t].src[1])' /\ ~ CanInplace(t)'
                      /\ Len(graph'[t].src) = 1
    <3>1. IsView(t) => graph[t].view_src = Root(graph[t].src[1]) /\ ~ CanInplace(t) /\ Len(graph[t].src) = 1
        BY <2>1 DEF NodeOK
    <3>2. Root(graph[t].src[1])' = Root(graph[t].src[1])'
        BY <2>2 DEF Root, IsView
    <3> QED  BY <2>2, <2>4, <3>1, <3>2
  <2>7. ASSUME NEW k \in DOMAIN graph'[t].src
        PROVE  /\ graph'[t].src[k] \in 1 .. t - 1
               /\ CanInplace(t)' => \A n \in TokenCounts :
                    graph'[t].shape[n] % graph'[graph'[t].src[k]].shape[n] = 0
    BY <2>2, <2>3 DEF IsView
  <2> QED  BY <2>5, <2>6, <2>7 DEF NodeOK
<1>9. \A t \in Tensors' \ Nodes' : LeafOK(t)'
  <2> SUFFICES ASSUME NEW t \in Tensors', t \notin Nodes' PROVE LeafOK(t)'
    OBVIOUS
  <2>1. t \in Tensors /\ t \notin Nodes
    BY <1>1, <1>2, <1>3
  <2>2. LeafOK(t) /\ graph'[t] = graph[t]
    BY <2>1, <1>2 DEF GraphOK
  <2> QED  BY <2>2 DEF LeafOK
<1>10. \A t \in Tensors' : ~ IsView(Root(t))'
  <2> SUFFICES ASSUME NEW t \in Tensors' PROVE ~ IsView(Root(t))'
    OBVIOUS
  <2>1. PICK r : r = Root(t)'
    OBVIOUS
  <2>2. IsView(Root(t))' = IsView(r)'
    BY <2>1 DEF IsView
  <2>3. ~ IsView(r)'
    <3>1. CASE t \in Tensors
      <4>1. r = Root(t) /\ r \in Tensors /\ ~ IsView(r)
        BY <3>1, <2>1, <1>2, GraphTypes
      <4> QED  BY <4>1, <1>2
    <3>2. CASE t = N /\ node.view_src = 0
      <4>1. ~ IsView(N)'
        BY <3>2, <1>6
      <4>2. Root(N)' = N
        BY <4>1 DEF Root
      <4> QED  BY <4>1, <4>2, <3>2, <2>1
    <3>3. CASE t = N /\ node.view_src # 0
      <4>1. Root(N)' = node.view_src
        BY <3>3, <1>1, <1>6 DEF Root
      <4>2. r = Root(node.src[1]) /\ node.src[1] \in Tensors
        BY <4>1, <3>3, <2>1, <1>5, <1>6 DEF NewNodeOK
      <4>3. r \in Tensors /\ ~ IsView(r)
        BY <4>2, GraphTypes
      <4> QED  BY <4>3, <1>2
    <3> QED  BY <3>1, <3>2, <3>3, <1>3
  <2> QED  BY <2>2, <2>3
<1>11. N = NTensors => Unread' = {}
  <2> SUFFICES ASSUME N = NTensors, NEW t \in Tensors', t \notin Nodes', \A u \in Tensors' : t \notin Srcs(u)'
               PROVE  FALSE
    BY DEF Unread
  <2>1. t \in Tensors /\ t \notin Nodes
    BY <1>1, <1>2, <1>3
  <2>2. \A u \in Tensors : t \notin Srcs(u)
    BY <1>2
  <2>3. t \in Unread
    BY <2>1, <2>2 DEF Unread
  <2>4. t \in {node.src[m] : m \in DOMAIN node.src}
    BY <2>3
  <2>5. t \in Srcs(N)'
    BY <2>4, <1>1 DEF Srcs
  <2> QED  BY <2>5, <1>3
<1>12. \A t \in Nodes' : NodeOK(t)'
  <2> SUFFICES ASSUME NEW t \in Nodes' PROVE NodeOK(t)'
    OBVIOUS
  <2>1. t \in Tensors'
    BY DEF Nodes
  <2>2. t = N \/ t \in Nodes
    BY <2>1, <1>2, <1>3
  <2> QED  BY <2>2, <1>7, <1>8

<1> QED  BY <1>1, <1>4, <1>9, <1>10, <1>11, <1>12 DEF GraphOK

LEMMA BuildNodeInv == ASSUME GraphInv, BuildNode PROVE GraphInv'
<1>1. /\ pc = "build" /\ Len(graph) < NTensors /\ pc' = "build"
      /\ n_tokens' = n_tokens /\ UNCHANGED gallocr /\ UNCHANGED heapvars
    BY DEF BuildNode
<1>2. PICK k \in Tensors, output \in Marks :
        \E node \in {Map(k, output), View(k, output)}
                     \cup {MulMat(k, shape, output) : shape \in Shapes}
                     \cup {Map2(k, l, output) : l \in Repeatable(k)} :
            /\ Len(graph) + 1 = NTensors => Unread \subseteq {node.src[m] : m \in DOMAIN node.src}
            /\ graph' = Append(graph, node)
    BY DEF BuildNode
<1>3. output \in BOOLEAN /\ GraphOK
    BY DEF Marks, GraphInv
<1>4. PICK node :
        /\ NewNodeOK(node)
        /\ Len(graph) + 1 = NTensors => Unread \subseteq {node.src[m] : m \in DOMAIN node.src}
        /\ graph' = Append(graph, node)
    BY <1>2, <1>3, NewNodeFacts
<1>5. GraphOK'
    BY <1>1, <1>3, <1>4, AppendOK
<1>6. HeapInv'
    BY <1>1, HeapSame DEF GraphInv
<1>7. WalkOK'
    BY <1>1 DEF GraphInv, WalkOK, Planning, gallocr
<1>8. PlanOK'
    BY <1>1 DEF GraphInv, PlanOK, gallocr
<1> QED  BY <1>1, <1>5, <1>6, <1>7, <1>8, NotPlanning DEF GraphInv

\* A graph is begun.
Begun == graph = Leafs /\ pc = "build"

LEMMA LeafsOK == Begun => GraphOK
<1> SUFFICES ASSUME graph = Leafs, pc = "build" PROVE GraphOK
    BY DEF Begun
<1>3. Leafs \in Seq({Leaf(s) : s \in Shapes}) /\ NNodes \in Nat \ {0}
    BY GraphAssumption
<1>4. Len(graph) \in Nat /\ DOMAIN graph = 1 .. Len(graph)
  <2> DEFINE L == {Leaf(s) : s \in Shapes}
  <2>1. graph \in Seq(L)
    BY <1>3
  <2> HIDE DEF L
  <2> QED  BY <2>1
<1>5. \A t \in Tensors : \E s \in Shapes : graph[t] = Leaf(s)
    BY <1>3 DEF Tensors
<1>6. Nodes = {} /\ Len(Leafs) = Len(graph) /\ Len(graph) < NTensors
  <2>1. Nodes = {}
    BY <1>4 DEF Nodes, Tensors
  <2>2. NTensors = Len(graph) + NNodes
    BY DEF NTensors
  <2> QED  BY <1>3, <1>4, <2>1, <2>2
<1>7. ASSUME NEW t \in Tensors PROVE LeafOK(t) /\ ~ IsView(t) /\ Root(t) = t
  <2>1. /\ graph[t].src = <<>> /\ graph[t].view_src = 0 /\ graph[t].output = FALSE
        /\ graph[t].op = "none"
    <3>1. PICK s \in Shapes : graph[t] = Leaf(s)
        BY <1>5
    <3> QED  BY <3>1 DEF Leaf
  <2>2. ~ IsView(t)
    BY <2>1 DEF IsView
  <2> QED  BY <2>1, <2>2 DEF LeafOK, Root
<1>8. \A s \in Shapes : Leaf(s) \in Tensor
  <2>1. <<>> \in Seq(Nat) /\ 0 \in Nat
    OBVIOUS
  <2> QED  BY <2>1 DEF Leaf, Tensor
<1>9. graph \in Seq(Tensor)
  <2> DEFINE L == {Leaf(s) : s \in Shapes}
  <2>2. graph \in Seq(L) /\ L \subseteq Tensor
    BY <1>3, <1>8
  <2> HIDE DEF L
  <2> QED  BY <2>2
<1>10. \A t \in Tensors : ~ IsView(Root(t))
    BY <1>7
<1>11. Len(Leafs) <= Len(graph) /\ Len(graph) <= NTensors /\ Len(graph) # NTensors
  <2>1. NTensors \in Nat /\ Len(graph) \in Nat
    BY <1>3, <1>4 DEF NTensors
  <2>2. Len(graph) <= NTensors /\ Len(graph) # NTensors
    BY <1>6, <2>1
  <2> QED  BY <1>6, <2>1, <2>2
<1> QED  BY <1>6, <1>7, <1>9, <1>10, <1>11 DEF GraphOK

LEMMA GraphInitInv == Init => GraphInv
<1> SUFFICES ASSUME Init PROVE GraphInv
    OBVIOUS
<1>1. /\ HeapInit /\ graph = Leafs /\ n_tokens = 1 /\ pc = "build" /\ node_allocs = <<>> /\ buffer_size = 0
    BY DEF Init
<1>2. HeapInv /\ GraphOK
    BY <1>1, HeapInitInv, LeafsOK DEF Begun
<1>3. WalkOK
    BY <1>1, GraphAssumption DEF WalkOK, Planning
<1>4. PlanOK
    BY <1>1 DEF PlanOK
<1>5. Counts /\ Kept /\ Owned /\ OwnersAlone /\ LeafsApart /\ SourcesKept
    BY <1>1 DEF Counts, Kept, Owned, OwnersAlone, LeafsApart, SourcesKept, Planning
<1> QED  BY <1>2, <1>3, <1>4, <1>5 DEF GraphInv

LEMMA NextGraphInv == ASSUME GraphInv, NextGraph PROVE GraphInv'
<1>1. /\ pc = "compute" /\ n_tokens' \in TokenCounts /\ UNCHANGED gallocr /\ UNCHANGED heapvars
      /\ \/ pc' = "alloc_graph" /\ graph' = graph
         \/ ~ SameTopology /\ pc' = "build" /\ graph' = Leafs
    BY DEF NextGraph
<1>2. HeapInv'
    BY <1>1, HeapSame DEF GraphInv
<1>3. WalkOK'
    BY <1>1 DEF GraphInv, WalkOK, Planning, gallocr
<1>4. CASE pc' = "alloc_graph" /\ graph' = graph
  <2>1. GraphOK'
    BY <1>1, <1>4, GraphStays DEF GraphInv
  <2>2. PlanOK'
    BY <1>1, <1>4, PlanKept
  <2> QED  BY <2>1, <2>2, <1>2, <1>3, <1>4, NotPlanning DEF GraphInv
<1>5. CASE ~ SameTopology /\ pc' = "build" /\ graph' = Leafs
  <2>1. Begun'
    BY <1>5 DEF Begun
  <2>3. GraphOK'
    BY <2>1, LeafsOK, PTL
  <2>2. PlanOK'
    BY <1>5 DEF PlanOK
  <2> QED  BY <2>2, <2>3, <1>2, <1>3, <1>5, NotPlanning DEF GraphInv
<1> QED  BY <1>1, <1>4, <1>5

-----------------------------------------------------------------------------
(* The invariant, and what follows from it.                                *)

LEMMA GraphStutterInv == ASSUME GraphInv, UNCHANGED gvars PROVE GraphInv'
<1>1. /\ graph' = graph /\ n_tokens' = n_tokens /\ pc' = pc /\ i' = i /\ j' = j
      /\ n_children' = n_children /\ n_views' = n_views /\ allocated' = allocated /\ offset' = offset
      /\ UNCHANGED gallocr /\ node_allocs' = node_allocs /\ buffer_size' = buffer_size
      /\ addr' = addr /\ UNCHANGED heapvars
    BY DEF gvars, hashvars, gallocr
<1>2. /\ Tensors' = Tensors /\ Nodes' = Nodes
      /\ \A t : /\ IsView(t)' <=> IsView(t)
                /\ Root(t)' = Root(t) /\ Uses(t)' = Uses(t) /\ Views(t)' = Views(t)
                /\ SizeOf(t)' = SizeOf(t) /\ (Visited(t)' <=> Visited(t))
    BY <1>1, GraphSame, SameSizes DEF Visited
<1>3. HeapInv' /\ GraphOK'
    BY <1>1, HeapSame, GraphStays DEF GraphInv
<1>4. WalkOK'
    BY <1>1, <1>2 DEF GraphInv, WalkOK, Planning
<1>5. \A t : Pending(t)' = Pending(t)
    BY <1>1, <1>2 DEF Pending
<1>6. \A t : LiveViews(t)' = LiveViews(t)
    BY <1>2, <1>5 DEF LiveViews
<1>7. Counts'
    BY <1>1, <1>2, <1>5, <1>6 DEF GraphInv, Counts
<1>8. \A t : Taken(t)' <=> Taken(t)
    BY <1>1, <1>5 DEF Taken
<1>9. Kept'
  <2>1. Kept
    BY DEF GraphInv
  <2> QED  BY <2>1, <1>1, <1>2, <1>8 DEF Kept
<1>10. Owned' /\ OwnersAlone' /\ LeafsApart' /\ SourcesKept'
  <2>1. CASE Planning
    <3>1. Planning'
        BY <2>1, <1>1 DEF Planning
    <3> QED  BY <2>1, <3>1, <1>1, <1>2, OwnersSame
  <2>2. CASE ~ Planning
    BY <2>2, <1>1, NotPlanning DEF Planning
  <2> QED  BY <2>1, <2>2
<1>11. PlanOK'
  <2>1. \A t : /\ Fits(t)' <=> Fits(t)
              /\ PlanBlock(t)' = PlanBlock(t)
    BY <1>1, <1>2 DEF Fits, StillFits, PlanBlock, BlockAt
  <2>2. \A n : PlanFor(n)' <=> PlanFor(n)
    BY <1>1, PlanSame
  <2>3. max_size' = max_size
    BY <1>1 DEF heapvars
  <2> QED  BY <2>1, <2>2, <2>3, <1>1, <1>2 DEF GraphInv, PlanOK, End
<1> QED  BY <1>3, <1>4, <1>7, <1>9, <1>10, <1>11 DEF GraphInv

LEMMA GraphNextInv == GraphInv /\ [Next]_gvars => GraphInv'
<1> SUFFICES ASSUME GraphInv, [Next]_gvars PROVE GraphInv'
    OBVIOUS
<1>1. CASE BuildNode
    BY <1>1, BuildNodeInv
<1>2. CASE BuildDone
    BY <1>2, BuildDoneInv
<1>3. CASE AllocateLeaf
    BY <1>3, AllocateLeafInv
<1>4. CASE CountChildren
    BY <1>4, CountChildrenInv
<1>5. CASE VisitNode
    BY <1>5, VisitNodeInv
<1>6. CASE UpdateParent
    BY <1>6, UpdateParentInv
<1>7. CASE ReserveDone
    BY <1>7, ReserveDoneInv
<1>8. CASE AllocGraph
    BY <1>8, AllocGraphInv
<1>9. CASE InitTensors
    BY <1>9, InitTensorsInv
<1>10. CASE NextGraph
    BY <1>10, NextGraphInv
<1>11. CASE Retry
    BY <1>11, RetryInv
<1>12. CASE UNCHANGED gvars
    BY <1>12, GraphStutterInv
<1> QED  BY <1>1, <1>2, <1>3, <1>4, <1>5, <1>6, <1>7, <1>8, <1>9, <1>10, <1>11, <1>12 DEF Next

LEMMA GraphInvHolds == Spec => []GraphInv
    BY GraphInitInv, GraphNextInv, PTL DEF Spec

\* There are as many owners as blocks handed out: each has its own.
LEMMA OwnersCounted ==
    ASSUME GraphInv, Planning
    PROVE  {BlockOf(t) : t \in Owners} = live /\ Cardinality(Owners) = Cardinality(live)
<1>1. /\ \A t \in Owners : t \in Tensors /\ BlockOf(t) \in live
      /\ \A b \in live : \E t \in Owners : BlockOf(t) = b
      /\ \A t, u \in Owners : BlockOf(t) = BlockOf(u) => t = u
    BY OwnerFacts
<1>2. {BlockOf(t) : t \in Owners} = live
    BY <1>1
<1> DEFINE f == [t \in Owners |-> BlockOf(t)]
<1>3. IsFiniteSet(Owners)
  <2>1. IsFiniteSet(Tensors)
    BY UsesFinite DEF GraphInv
  <2>2. Owners \subseteq Tensors
    BY <1>1
  <2> QED  BY <2>1, <2>2, FS_Subset
<1>4. /\ f \in [Owners -> live]
      /\ \A t, u \in Owners : f[t] = f[u] => t = u
      /\ \A b \in live : \E t \in Owners : f[t] = b
    BY <1>1
<1> HIDE DEF f
<1>5. f \in Bijection(Owners, live)
    BY <1>4 DEF Bijection, Injection, Surjection, IsInjective
<1>6. ExistsBijection(Owners, live)
    BY <1>5 DEF ExistsBijection
<1> QED  BY <1>2, <1>3, <1>6, FS_Bijection

(***************************************************************************)
(* While ggml_gallocr_alloc_graph_impl walks a graph, its table of who     *)
(* owns memory and the heap agree: each block handed out has exactly one   *)
(* owner, and what nodes to come still read, directly or through views,    *)
(* has kept its own.                                                       *)
(***************************************************************************)
THEOREM OwnersAgree == Spec => []OwnersMatchHeap
<1>1. ASSUME GraphInv PROVE OwnersMatchHeap
  <2>1. ASSUME pc \in {"leafs", "node", "parents"}
        PROVE  {BlockOf(t) : t \in Owners} = live /\ Cardinality(Owners) = Cardinality(live)
    BY <1>1, <2>1, OwnersCounted DEF Planning
  <2>2. ASSUME pc = "node", NEW u \in i .. NTensors, NEW r \in {Root(p) : p \in Srcs(u)}, r < i
        PROVE  r \in Owners
    <3>1. PICK p \in Srcs(u) : r = Root(p)
        OBVIOUS
    <3>2. GraphOK /\ Len(graph) = NTensors /\ i \in Len(Leafs) + 1 .. NTensors + 1
        BY <1>1, <2>2 DEF GraphInv, WalkOK, GraphOK
    <3>3. Len(Leafs) \in Nat /\ NTensors \in Nat /\ Tensors = 1 .. NTensors
        BY <3>2, GraphTypes
    <3>4. u \in Tensors /\ u >= i
        BY <3>2, <3>3
    <3> QED  BY <1>1, <2>2, <3>1, <3>4, SourceOwned
  <2> QED  BY <2>1, <2>2 DEF OwnersMatchHeap
<1> QED  BY <1>1, GraphInvHolds, PTL

\* Where the tensors of the current graph are, and that they fit there.
LEMMA ComputeFacts ==
    ASSUME GraphInv, SameTopology, pc = "compute", NEW t \in Tensors, ~ IsView(t)
    PROVE  /\ addr[t] = node_allocs[t].dst.offset /\ addr[t] \in Nat
           /\ SizeOf(t) \in Nat /\ node_allocs[t].dst.size_max \in Nat
           /\ SizeOf(t) <= node_allocs[t].dst.size_max
           /\ PlanBlock(t).offset = addr[t]
           /\ End(PlanBlock(t)) = addr[t] + node_allocs[t].dst.size_max
<1>1. /\ GraphOK /\ n_tokens \in TokenCounts
      /\ \E n \in TokenCounts : PlanFor(n)
      /\ Fits(t)
      /\ addr = [u \in Tensors |-> node_allocs[Root(u)].dst.offset]
    BY DEF GraphInv, WalkOK, PlanOK
<1>2. node_allocs[t].dst \in [offset : Nat, size_max : Nat]
    BY <1>1 DEF PlanFor
<1>3. addr[t] = node_allocs[t].dst.offset
    BY <1>1 DEF Root
<1>4. node_allocs[t].dst.offset \in Nat /\ node_allocs[t].dst.size_max \in Nat
    BY <1>2
<1>5. SizeOf(t) \in Nat
    BY <1>1, SizeFacts
<1>6. SizeOf(t) <= node_allocs[t].dst.size_max
    BY <1>1, <1>4, <1>5 DEF Fits, StillFits
<1> QED  BY <1>3, <1>4, <1>5, <1>6 DEF PlanBlock, BlockAt, End

LEMMA PlannedApart ==
    ASSUME GraphInv, SameTopology, pc = "compute", NEW t \in Tensors, ~ IsView(t), NEW u \in Tensors, ~ IsView(u),
           Apart(PlanBlock(t), PlanBlock(u))
    PROVE  ~ Overlap(t, u)
<1>1. /\ addr[t] \in Nat /\ SizeOf(t) \in Nat /\ node_allocs[t].dst.size_max \in Nat
      /\ SizeOf(t) <= node_allocs[t].dst.size_max
      /\ PlanBlock(t).offset = addr[t] /\ End(PlanBlock(t)) = addr[t] + node_allocs[t].dst.size_max
      /\ addr[u] \in Nat /\ SizeOf(u) \in Nat /\ node_allocs[u].dst.size_max \in Nat
      /\ SizeOf(u) <= node_allocs[u].dst.size_max
      /\ PlanBlock(u).offset = addr[u] /\ End(PlanBlock(u)) = addr[u] + node_allocs[u].dst.size_max
    BY ComputeFacts
<1>2. addr[t] + node_allocs[t].dst.size_max <= addr[u] \/ addr[u] + node_allocs[u].dst.size_max <= addr[t]
    BY <1>1 DEF Apart
<1>3. addr[t] + SizeOf(t) <= addr[u] \/ addr[u] + SizeOf(u) <= addr[t]
    BY <1>1, <1>2
<1> QED  BY <1>1, <1>3 DEF Overlap

(***************************************************************************)
(* As long as the caller builds the same graph for every batch, of any     *)
(* size, and there is a buffer, no tensor reaches beyond its end: the one  *)
(* that ggml_gallocr_reserve_n got, or the one got on the second attempt.  *)
(***************************************************************************)
THEOREM TensorsInBuffer == ASSUME SameTopology PROVE Spec => []BufferHolds
<1>1. ASSUME GraphInv PROVE BufferHolds
  <2> SUFFICES ASSUME pc = "compute", buffer_size # 0, NEW t \in Tensors, ~ IsView(t)
               PROVE  addr[t] + SizeOf(t) <= buffer_size
    BY DEF BufferHolds, InBuffer
  <2>1. PICK n \in TokenCounts : PlanFor(n)
    BY <1>1 DEF GraphInv, PlanOK
  <2>2. End(PlanBlock(t)) <= buffer_size /\ buffer_size \in Nat
    BY <1>1, <2>1 DEF PlanFor, GraphInv, WalkOK
  <2>3. /\ addr[t] \in Nat /\ SizeOf(t) \in Nat /\ node_allocs[t].dst.size_max \in Nat
        /\ SizeOf(t) <= node_allocs[t].dst.size_max
        /\ End(PlanBlock(t)) = addr[t] + node_allocs[t].dst.size_max
    BY <1>1, ComputeFacts
  <2> QED  BY <2>2, <2>3
<1> QED  BY <1>1, GraphInvHolds, PTL

(***************************************************************************)
(* As long as the caller builds the same graph for every batch, an output  *)
(* is there when the graph has been computed: no node after it has been    *)
(* given its memory, nor, when it is a view, that of the tensor it views.  *)
(* Not so an output that is a view of a tensor that is none, when a node   *)
(* reads the view (ReadAway): that memory is freed with the last use.      *)
(***************************************************************************)
THEOREM OutputsKept == ASSUME SameTopology PROVE Spec => []OutputsSurvive
<1>1. ASSUME GraphInv PROVE OutputsSurvive
  <2> SUFFICES ASSUME pc = "compute", NEW t \in Outputs, ~ ReadAway(t),
                      NEW m \in (t + 1) .. NTensors, ~ IsView(m)
               PROVE  ~ Overlap(m, Root(t))
    BY DEF OutputsSurvive, Survives
  <2>1. PICK n \in TokenCounts : PlanFor(n)
    BY <1>1 DEF GraphInv, PlanOK
  <2>2. Apart(PlanBlock(m), PlanBlock(Root(t)))
    BY <2>1 DEF PlanFor
  <2>3. GraphOK /\ Len(graph) = NTensors /\ t \in Tensors
    BY <1>1 DEF GraphInv, GraphOK, Outputs
  <2>4. m \in Tensors /\ Root(t) \in Tensors /\ ~ IsView(Root(t))
    BY <2>3, GraphTypes
  <2> QED  BY <1>1, <2>2, <2>4, PlannedApart
<1> QED  BY <1>1, GraphInvHolds, PTL

(***************************************************************************)
(* As long as the caller builds the same graph for every batch, no node    *)
(* that is computed finds one of its sources overwritten, or overwrites    *)
(* one it still reads, in the graph planned or in one for another number   *)
(* of tokens that uses its offsets.  Overwriting in place needs what       *)
(* llama.cpp's graphs have: a repeated operand that is as large as the     *)
(* result in the graph planned is so in a smaller one.                     *)
(***************************************************************************)
THEOREM SourcesAreIntact == ASSUME RepeatedAlike, SameTopology PROVE Spec => []SourcesIntact
<1>1. ASSUME GraphInv PROVE SourcesIntact
  <2> SUFFICES ASSUME pc = "compute", NEW u \in Nodes, NEW r \in {Root(p) : p \in Srcs(u)},
                      NEW m \in WrittenAfter(r, u), Overlap(m, r)
               PROVE  m = u /\ InPlace(u, r)
    BY DEF SourcesIntact
  <2>1. GraphOK /\ Len(graph) = NTensors /\ n_tokens \in TokenCounts
    BY <1>1 DEF GraphInv, GraphOK, WalkOK
  <2>2. PICK n \in TokenCounts : PlanFor(n)
    BY <1>1 DEF GraphInv, PlanOK
  <2>3. u \in Tensors /\ r \in Roots(u) /\ r \in Tensors /\ ~ IsView(r)
    BY <2>1, GraphTypes DEF Roots, Nodes
  <2>4. m \in Tensors /\ ~ IsView(m)
    BY <2>1, <2>3, GraphTypes DEF WrittenAfter
  <2>5. m = u /\ TakesOver(u, r) /\ PlanBlock(u) = PlanBlock(r)
    <3>1. ~ Apart(PlanBlock(m), PlanBlock(r))
        BY <1>1, <2>3, <2>4, PlannedApart
    <3> QED  BY <3>1, <2>2, <2>3 DEF PlanFor
  <2>6. addr[r] = addr[u]
    BY <1>1, <2>3, <2>4, <2>5, ComputeFacts
  <2>7. SizeOf(r) = SizeOf(u)
    <3>1. graph[u].shape \in Shapes /\ graph[r].shape \in Shapes
        BY <2>1, <2>3, GraphTypes DEF Tensor
    <3>2. \A k \in TokenCounts : graph[u].shape[k] % graph[r].shape[k] = 0
      <4>1. CanInplace(u) /\ r \in Srcs(u) /\ NodeOK(u)
        BY <2>1, <2>5 DEF TakesOver, GraphOK
      <4> QED  BY <4>1 DEF NodeOK, Srcs
    <3>3. graph[u].shape[n] = node_allocs[u].dst.size_max /\ graph[r].shape[n] = node_allocs[r].dst.size_max
        BY <2>2, <2>3, <2>4, <2>5 DEF PlanFor
    <3>4. graph[u].shape[n] = graph[r].shape[n]
        BY <2>5, <3>3 DEF PlanBlock, BlockAt
    <3>5. SizeOf(u) <= graph[u].shape[n] /\ SizeOf(r) <= graph[r].shape[n]
        BY <1>1, <2>3, <2>4, <2>5, <3>3, ComputeFacts
    <3> QED  BY <2>1, <3>1, <3>2, <3>4, <3>5 DEF RepeatedAlike, SizeOf
  <2> QED  BY <2>5, <2>6, <2>7 DEF InPlace, TakesOver
<1> QED  BY <1>1, GraphInvHolds, PTL

(***************************************************************************)
(* Under the graph allocator, too, free list and blocks handed out tile    *)
(* the address space.                                                      *)
(***************************************************************************)
THEOREM PlannedHeapIsTiled == Spec => []HeapTiled
<1>1. GraphInv => HeapTiled
    BY DEF GraphInv, HeapInv
<1> QED  BY <1>1, GraphInvHolds, PTL

(***************************************************************************)
(* The bounded array of free blocks never overflows in a graph that has no *)
(* more tensors alive at once than MAX_FREE_BLOCKS, whatever their sizes   *)
(* and the order in which they come and go: a block that comes back next   *)
(* to no free one has fewer free blocks around it than there are live ones.*)
(***************************************************************************)
THEOREM BlocksAlwaysSuffice == Spec => []BlocksSuffice
<1>1. GraphInv => BlocksSuffice
    BY HeapHasRoom DEF GraphInv
<1> QED  BY <1>1, GraphInvHolds, PTL
=============================================================================
