--------------------------- MODULE KVCellsProofs ---------------------------
(***************************************************************************)
(* Facts about the operators of KVCells, for every value of the constants: *)
(* what the searches return and what Occupy does to the set of populated   *)
(* cells.  KVCacheProofs cites them.                                       *)
(***************************************************************************)
EXTENDS KVCells, FiniteSetTheorems, FunctionTheorems, TLAPS

-----------------------------------------------------------------------------
(* Least and greatest elements.                                            *)

LEMMA NatMin ==
    ASSUME NEW S \in SUBSET Nat, S # {}
    PROVE  \E m \in S : \A x \in S : m <= x
<1>1. PICK m \in S : \A x \in S : ~ (<<x, m>> \in OpToRel(<, Nat))
    BY WFMin, NatLessThanWellFounded
<1>2. \A x \in S : ~ (x < m)
    BY <1>1 DEF OpToRel
<1> QED  BY <1>2

\* Min is the least element of a set of integers bounded from below.
LEMMA MinBounded ==
    ASSUME NEW a \in Int, NEW S \in SUBSET Int, S # {}, \A x \in S : a <= x
    PROVE  Min(S) \in S /\ \A x \in S : Min(S) <= x
<1> DEFINE T == {x - a : x \in S}
<1>0. \A x \in S : x - a \in Nat /\ x - a \in T
    OBVIOUS
<1>1. T \in SUBSET Nat /\ T # {}
    BY <1>0
<1>2. PICK m \in T : \A x \in T : m <= x
    BY <1>1, NatMin
<1>3. PICK y \in S : m = y - a
    BY <1>2
<1>4. ASSUME NEW x \in S PROVE y <= x
  <2>1. m <= x - a
    BY <1>0, <1>2
  <2> QED  BY <2>1, <1>3
<1> QED  BY <1>4 DEF Min

\* Max is the greatest element of a set of integers bounded from above.
LEMMA MaxBounded ==
    ASSUME NEW b \in Int, NEW S \in SUBSET Int, S # {}, \A x \in S : x <= b
    PROVE  Max(S) \in S /\ \A x \in S : x <= Max(S)
<1> DEFINE T == {b - x : x \in S}
<1>0. \A x \in S : b - x \in Nat /\ b - x \in T
    OBVIOUS
<1>1. T \in SUBSET Nat /\ T # {}
    BY <1>0
<1>2. PICK m \in T : \A x \in T : m <= x
    BY <1>1, NatMin
<1>3. PICK y \in S : m = b - y
    BY <1>2
<1>4. ASSUME NEW x \in S PROVE y >= x
  <2>1. m <= b - x
    BY <1>0, <1>2
  <2> QED  BY <2>1, <1>3
<1> QED  BY <1>4 DEF Max

LEMMA MinPair ==
    ASSUME NEW a \in Int, NEW b \in Int
    PROVE  Min({a, b}) = IF a <= b THEN a ELSE b
<1>1. PICK m \in {a, b} : \A y \in {a, b} : m <= y
    OBVIOUS
<1>2. Min({a, b}) \in {a, b} /\ \A y \in {a, b} : Min({a, b}) <= y
    BY <1>1 DEF Min
<1> QED  BY <1>2

LEMMA MaxPair ==
    ASSUME NEW a \in Int, NEW b \in Int
    PROVE  Max({a, b}) = IF a >= b THEN a ELSE b
<1>1. PICK m \in {a, b} : \A y \in {a, b} : m >= y
    OBVIOUS
<1>2. Max({a, b}) \in {a, b} /\ \A y \in {a, b} : Max({a, b}) >= y
    BY <1>1 DEF Max
<1> QED  BY <1>2

\* The same for sets of cells.
LEMMA CellsMin ==
    ASSUME NEW S \in SUBSET Cells, S # {}
    PROVE  Min(S) \in S /\ \A x \in S : Min(S) <= x
<1>1. S \in SUBSET Int /\ 0 \in Int /\ \A x \in S : 0 <= x
    BY CellsAssumption DEF Cells
<1> QED  BY ONLY <1>1, S # {}, MinBounded

LEMMA CellsMax ==
    ASSUME NEW S \in SUBSET Cells, S # {}
    PROVE  Max(S) \in S /\ \A x \in S : x <= Max(S)
<1>1. S \in SUBSET Int /\ Size \in Int /\ \A x \in S : x <= Size
    BY CellsAssumption DEF Cells
<1> QED  BY ONLY <1>1, S # {}, MaxBounded

-----------------------------------------------------------------------------
(* Counting.                                                               *)

LEMMA CellsFinite ==
    /\ IsFiniteSet(Cells)
    /\ Cardinality(Cells) = Size
BY FS_Interval, CellsAssumption DEF Cells

\* k different values make a set of k elements.
LEMMA ImageCardinality ==
    ASSUME NEW k \in Nat, NEW f, NEW S,
           \A i \in 1 .. k : f[i] \in S,
           \A x \in S : \E i \in 1 .. k : f[i] = x,
           \A i, j \in 1 .. k : f[i] = f[j] => i = j
    PROVE  IsFiniteSet(S) /\ Cardinality(S) = k
<1> DEFINE g == [i \in 1 .. k |-> f[i]]
<1>1. g \in Bijection(1 .. k, S)
  <2>1. g \in [1 .. k -> S]
    OBVIOUS
  <2>2. g \in Injection(1 .. k, S)
    BY <2>1 DEF Injection, IsInjective
  <2>3. g \in Surjection(1 .. k, S)
    BY <2>1 DEF Surjection
  <2> QED  BY <2>2, <2>3 DEF Bijection
<1>2. IsFiniteSet(1 .. k) /\ Cardinality(1 .. k) = k
    BY FS_Interval
<1>3. ExistsBijection(1 .. k, S)
    BY <1>1 DEF ExistsBijection
<1> QED  BY <1>2, <1>3, FS_Bijection

-----------------------------------------------------------------------------
(* The searches.                                                           *)

LEMMA FirstFitFits ==
    ASSUME NEW free \in SUBSET Cells, NEW h \in Int, NEW k \in Nat, Fits(free, k) # {}
    PROVE  FirstFit(free, h, k) \in Fits(free, k)
<1> DEFINE ahead == {s \in Fits(free, k) : s >= h}
<1>1. Fits(free, k) \in SUBSET Int /\ \A s \in Fits(free, k) : 0 <= s
    BY CellsAssumption DEF Fits
<1>2. CASE ahead # {}
  <2>1. Min(ahead) \in ahead
    BY <1>1, <1>2, MinBounded
  <2> QED  BY <1>2, <2>1 DEF FirstFit
<1>3. CASE ahead = {}
  <2>1. Min(Fits(free, k)) \in Fits(free, k)
    BY <1>1, MinBounded
  <2> QED  BY <1>3, <2>1 DEF FirstFit
<1> QED  BY <1>2, <1>3

\* A search that fails leaves the head in the cache.
LEMMA FailHeadInCache ==
    ASSUME NEW free \in SUBSET Cells, NEW h \in 0 .. Size, NEW k \in Nat,
           k > Size \/ Fits(free, k) = {}
    PROVE  FailHead(free, h, k) \in 0 .. Size
<1> DEFINE full == Cells \ free
           past(h1) == {c \in full : c + 1 >= h1}
<1>0. Size \in Nat /\ Size > 0
    BY CellsAssumption
<1>1. CASE k > Size
    BY <1>1 DEF FailHead
<1>2. CASE k <= Size
  <2>1. full # {}
    <3>1. SUFFICES ASSUME full = {} PROVE FALSE
        OBVIOUS
    <3>2. Cells \subseteq free /\ 0 \in 0 .. Size - k
        BY <1>0, <1>2, <3>1
    <3>3. 0 .. 0 + k - 1 \subseteq Cells
        BY <1>0, <1>2 DEF Cells
    <3>4. 0 \in Fits(free, k)
        BY <3>2, <3>3 DEF Fits
    <3> QED  BY <1>0, <1>2, <3>4
  <2>2. full \in SUBSET Int /\ \A c \in full : 0 <= c /\ c < Size
    BY <1>0 DEF Cells
  <2>3. Min(full) \in full
    BY <2>1, CellsMin
  <2>4. ASSUME NEW h1, past(h1) # {} PROVE Min(past(h1)) \in full
    BY <2>4, CellsMin
  <2>5. Min(full) + 1 \in 0 .. Size
    BY <1>0, <2>2, <2>3
  <2>6. ASSUME NEW h1, past(h1) # {} PROVE Min(past(h1)) + 1 \in 0 .. Size
    BY <1>0, <2>2, <2>4, <2>6
  <2> QED  BY <1>0, <1>2, <2>5, <2>6 DEF FailHead
<1> QED  BY <1>0, <1>1, <1>2

\* The cells of the scatter search are free and all different.
LEMMA ScatterSlotsDistinct ==
    ASSUME NEW free \in SUBSET Cells, NEW h \in Int, NEW k \in Nat,
           NEW ids \in ScatterSlots(free, h, k)
    PROVE  /\ ids \in [1 .. k -> free]
           /\ \A i, j \in 1 .. k : ids[i] = ids[j] => i = j
<1> DEFINE h0 == IF h >= Size THEN 0 ELSE h
<1>1. ids \in [1 .. k -> free]
    BY DEF ScatterSlots
<1>2. \A i, j \in 1 .. k : i < j => Turn(ids[i], h0) < Turn(ids[j], h0)
    BY DEF ScatterSlots
<1>3. \A i \in 1 .. k : Turn(ids[i], h0) \in Int
  <2>1. Size \in Int /\ h0 \in Int
    BY CellsAssumption
  <2>2. ASSUME NEW i \in 1 .. k PROVE ids[i] \in Int
    <3>1. ids[i] \in free
        BY <1>1
    <3>2. ids[i] \in Cells
        BY <3>1
    <3>3. Cells \subseteq Int
        BY CellsAssumption DEF Cells
    <3> QED  BY <3>2, <3>3
  <2> QED  BY <2>1, <2>2 DEF Turn
<1>4. ASSUME NEW i \in 1 .. k, NEW j \in 1 .. k, ids[i] = ids[j] PROVE i = j
  <2>1. ~ (i < j)
    BY <1>2, <1>3, <1>4
  <2>2. ~ (j < i)
    BY <1>2, <1>3, <1>4
  <2> QED  BY <2>1, <2>2
<1> QED  BY <1>1, <1>4

\* CellMax is past every populated cell.
LEMMA CellMaxBounds ==
    ASSUME NEW cs \in [Cells -> Cell]
    PROVE  /\ CellMax(cs) \in 0 .. Size
           /\ \A c \in Cells : cs[c].pos >= 0 /\ ~ IsEmpty(cs[c]) => c < CellMax(cs)
<1> DEFINE full == {c \in Cells : cs[c].pos >= 0 /\ ~ IsEmpty(cs[c])}
<1>0. Size \in Nat /\ Size > 0
    BY CellsAssumption
<1>1. CASE full = {}
    BY <1>0, <1>1 DEF CellMax
<1>2. CASE full # {}
  <2>2. Max(full) \in full /\ \A c \in full : c <= Max(full)
    BY <1>2, CellsMax
  <2>3. CellMax(cs) = Max(full) + 1
    BY <1>2 DEF CellMax
  <2>4. Max(full) \in 0 .. Size - 1
    BY <1>0, <2>2 DEF Cells
  <2>5. CellMax(cs) \in 0 .. Size
    BY <1>0, <2>3, <2>4
  <2>6. ASSUME NEW c \in full PROVE c < CellMax(cs)
    BY <2>2, <2>3, <2>4 DEF Cells
  <2> QED  BY <2>5, <2>6
<1> QED  BY <1>1, <1>2

-----------------------------------------------------------------------------
(* Occupy.                                                                 *)

\* What a search may hand to Occupy: different empty cells, one for each
\* token, and tokens with a position and a sequence.
Fitting(cs, slot, ub) ==
    /\ Len(ub) \in Nat
    /\ \A i, j \in 1 .. Len(ub) : slot[i] = slot[j] => i = j
    /\ \A i \in 1 .. Len(ub) :
        /\ slot[i] \in Cells
        /\ IsEmpty(cs[slot[i]])
        /\ ub[i].pos \in Nat
        /\ ub[i].seq_id \in SUBSET Seqs
        /\ ub[i].seq_id # {}
        /\ ub[i].tok \in Tokens

\* Only the cells of the slot change; they get a position and a sequence.
LEMMA OccupiedCell ==
    ASSUME NEW cs \in [Cells -> Cell], NEW slot, NEW ub, Fitting(cs, slot, ub), NEW c \in Cells
    PROVE  \/ /\ \E i \in 1 .. Len(ub) : slot[i] = c
              /\ \E i \in 1 .. Len(ub) : Occupy(cs, slot, ub)[c].pos = ub[i].pos
              /\ Occupy(cs, slot, ub)[c] \in Cell
              /\ ~ IsEmpty(Occupy(cs, slot, ub)[c])
           \/ /\ ~ \E i \in 1 .. Len(ub) : slot[i] = c
              /\ Occupy(cs, slot, ub)[c] = cs[c]
<1>1. CASE ~ \E i \in 1 .. Len(ub) : slot[i] = c
    BY <1>1 DEF Occupy
<1>2. CASE \E i \in 1 .. Len(ub) : slot[i] = c
  <2> DEFINE i == CHOOSE i \in 1 .. Len(ub) : slot[i] = c
  <2>1. i \in 1 .. Len(ub) /\ slot[i] = c
    BY <1>2
  <2>2. Occupy(cs, slot, ub)[c] = [cs[c] EXCEPT !.pos = ub[i].pos,
                                               !.seq_id = @ \cup ub[i].seq_id,
                                               !.tok = ub[i].tok]
    BY <1>2 DEF Occupy
  <2> HIDE DEF i
  <2>3. /\ ub[i].pos \in Int /\ ub[i].seq_id \in SUBSET Seqs
        /\ ub[i].seq_id # {} /\ ub[i].tok \in Tokens
    BY <2>1 DEF Fitting
  <2>4. cs[c] \in Cell
    OBVIOUS
  <2>5. Occupy(cs, slot, ub)[c] \in Cell
    BY <2>2, <2>3, <2>4 DEF Cell
  <2>6. ~ IsEmpty(Occupy(cs, slot, ub)[c])
    BY <2>2, <2>3, <2>4 DEF Cell, IsEmpty
  <2>7. Occupy(cs, slot, ub)[c].pos = ub[i].pos
    BY <2>2, <2>4 DEF Cell
  <2> QED  BY <1>2, <2>1, <2>5, <2>6, <2>7
<1> QED  BY <1>1, <1>2

\* Occupy adds as many populated cells as the ubatch has tokens.
LEMMA OccupyCounts ==
    ASSUME NEW cs \in [Cells -> Cell], NEW slot, NEW ub, Fitting(cs, slot, ub)
    PROVE  /\ Occupy(cs, slot, ub) \in [Cells -> Cell]
           /\ Cardinality(NonEmpty(Occupy(cs, slot, ub))) = Cardinality(NonEmpty(cs)) + Len(ub)
<1> DEFINE new == {slot[i] : i \in 1 .. Len(ub)}
<1>1. IsFiniteSet(new) /\ Cardinality(new) = Len(ub)
  <2>1. Len(ub) \in Nat /\ \A i, j \in 1 .. Len(ub) : slot[i] = slot[j] => i = j
    BY DEF Fitting
  <2>2. /\ \A i \in 1 .. Len(ub) : slot[i] \in new
        /\ \A x \in new : \E i \in 1 .. Len(ub) : slot[i] = x
    OBVIOUS
  <2> QED  BY ONLY <2>1, <2>2, ImageCardinality
<1>2. IsFiniteSet(NonEmpty(cs))
    BY CellsFinite, FS_Subset DEF NonEmpty
<1>3. NonEmpty(cs) \cap new = {}
    BY DEF NonEmpty, Fitting
<1>4. NonEmpty(Occupy(cs, slot, ub)) = NonEmpty(cs) \cup new
  <2>1. ASSUME NEW c \in Cells
        PROVE  ~ IsEmpty(Occupy(cs, slot, ub)[c]) <=> ~ IsEmpty(cs[c]) \/ c \in new
    BY OccupiedCell
  <2>2. new \subseteq Cells
    BY DEF Fitting
  <2> QED  BY <2>1, <2>2 DEF NonEmpty
<1>5. Cardinality(NonEmpty(cs) \cup new) = Cardinality(NonEmpty(cs)) + Len(ub)
  <2>1. Cardinality(NonEmpty(cs) \cap new) = 0
    BY <1>3, FS_EmptySet
  <2>2. Cardinality(NonEmpty(cs) \cup new)
            = Cardinality(NonEmpty(cs)) + Cardinality(new) - Cardinality(NonEmpty(cs) \cap new)
    BY <1>1, <1>2, FS_Union
  <2>3. Cardinality(NonEmpty(cs)) \in Nat /\ Len(ub) \in Nat
    BY <1>2, FS_CardinalityType DEF Fitting
  <2> QED  BY <1>1, <2>1, <2>2, <2>3
<1>6. Occupy(cs, slot, ub) \in [Cells -> Cell]
  <2>1. \A c \in Cells : Occupy(cs, slot, ub)[c] \in Cell
    BY OccupiedCell
  <2> QED  BY <2>1 DEF Occupy
<1> QED  BY <1>4, <1>5, <1>6
=============================================================================
