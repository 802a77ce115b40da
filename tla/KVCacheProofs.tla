--------------------------- MODULE KVCacheProofs ---------------------------
(***************************************************************************)
(* Type correctness of KVCache, UsedMatchesCells and NoDefragBug, for      *)
(* every size of the cache and every batch, from one inductive invariant.  *)
(*                                                                         *)
(* UsedMatchesCells is not inductive: a defragmentation takes used for the *)
(* number of cells to pack, and that its moves neither overwrite a cell    *)
(* nor run out of sources depends on where its two loops are.  DefragOK    *)
(* says so; PosOK and TodoOK say which positions and tokens can come up.   *)
(*                                                                         *)
(* Then, on top of that: the K/V rows follow the cells, the graph sees all *)
(* of them, a decode only adds tokens, and the copies of a defragmentation *)
(* fit its graph.                                                          *)
(***************************************************************************)
EXTENDS KVCacheProps, KVCellsProofs, SequenceTheorems

PosOK == \A c \in Cells : cells[c].pos <= MaxPos

\* The tokens still to be decoded have a position and a sequence.
TodoOK ==
    /\ \A i \in 1 .. Len(todo) : /\ todo[i].pos \in 0 .. MaxPos
                                 /\ todo[i].seq_id # {}
    /\ pc \notin {"idle", "abort"} => todo # <<>>

\* The sources of the running hole that the inner loop has yet to reach.
Left == {x \in Cells : /\ x >= df.i1 /\ x < df.nkv
                       /\ ~ IsEmpty(cells[x]) /\ df.ids[x] = df.nkv}

\* Cells below i0 are packed; populated cells above it have not been placed.
ScanOK ==
    /\ df.nused = used
    /\ df.nkv \in 0 .. Size
    /\ df.i0 \in 0 .. df.nused
    /\ \A c \in Cells : ~ IsEmpty(cells[c]) => c < df.nkv
    /\ \A c \in Cells : c < df.i0 => ~ IsEmpty(cells[c])

\* The first nf cells of the hole are filled, the others are empty, and there
\* are as many sources ahead as cells to fill.
MoveOK ==
    /\ df.nf < df.nh
    /\ df.i0 + df.nh <= df.nused
    /\ df.i1 >= df.i0 + df.nh
    /\ \A c \in Cells : df.i0 <= c /\ c < df.i0 + df.nf => ~ IsEmpty(cells[c])
    /\ \A c \in Cells : df.i0 + df.nf <= c /\ c < df.i0 + df.nh => IsEmpty(cells[c])
    /\ \A c \in Cells : c >= df.i0 + df.nh /\ ~ IsEmpty(cells[c]) => df.ids[c] = df.nkv
    /\ Cardinality(Left) = df.nh - df.nf

DefragOK ==
    /\ pc \in {"scan", "move"} => ScanOK
    /\ pc = "scan" =>
        \A c \in Cells : c >= df.i0 /\ ~ IsEmpty(cells[c]) => df.ids[c] = df.nkv
    /\ pc = "move" => MoveOK
    /\ pc = "copy" => df.nkv \in 0 .. Size

KVInv ==
    /\ TypeOK
    /\ UsedMatchesCells
    /\ PosOK
    /\ TodoOK
    /\ DefragOK
    /\ NoDefragBug

-----------------------------------------------------------------------------
(* Cells one by one.                                                       *)

\* A cell that the invariant allows: populated exactly if it has a position.
CellOK(cell) ==
    /\ cell \in Cell
    /\ cell.pos >= 0 <=> ~ IsEmpty(cell)
    /\ cell.pos <= MaxPos

LEMMA CellsOK ==
    TypeOK /\ UsedMatchesCells /\ PosOK => \A c \in Cells : CellOK(cells[c])
BY DEF TypeOK, UsedMatchesCells, PosOK, CellOK

LEMMA FreedIsEmpty ==
    ASSUME NEW cell \in Cell
    PROVE  CellOK(Freed(cell)) /\ Freed(cell).pos = -1 /\ IsEmpty(Freed(cell))
<1>1. Freed(cell).pos = -1 /\ Freed(cell).seq_id = {}
    BY DEF Freed, Cell
<1>2. Freed(cell) \in Cell
  <2>1. -1 \in Int /\ {} \in SUBSET Seqs /\ NoToken \in Tokens \cup {NoToken}
    OBVIOUS
  <2> QED  BY <2>1 DEF Freed, Cell
<1>3. -1 <= MaxPos
    BY CacheAssumption
<1> QED  BY <1>1, <1>2, <1>3 DEF CellOK, IsEmpty

LEMMA NewCellIsEmpty == CellOK(NewCell) /\ IsEmpty(NewCell) /\ NewCell.pos = -1
BY CacheAssumption DEF NewCell, CellOK, Cell, IsEmpty

LEMMA RemovedCell ==
    ASSUME NEW cell, CellOK(cell), NEW s \in Seqs \cup {-1}, NEW p0 \in Int, NEW p1 \in Int
    PROVE  /\ CellOK(Removed(cell, s, p0, p1))
           /\ ~ IsEmpty(Removed(cell, s, p0, p1)) =>
                  ~ IsEmpty(cell) /\ Removed(cell, s, p0, p1).pos >= 0
<1> DEFINE left == IF s < 0 THEN {} ELSE cell.seq_id \ {s}
           r == Removed(cell, s, p0, p1)
<1>1. CASE ~ (InRange(cell.pos, p0, p1) /\ (s < 0 \/ s \in cell.seq_id))
  <2>1. r = cell
    BY <1>1 DEF Removed
  <2> QED  BY <2>1 DEF CellOK
<1>2. CASE InRange(cell.pos, p0, p1) /\ (s < 0 \/ s \in cell.seq_id)
  <2>1. CASE left = {}
    <3>1. r = Freed(cell)
        BY <1>2, <2>1 DEF Removed
    <3> QED  BY <3>1, FreedIsEmpty DEF CellOK
  <2>2. CASE left # {}
    <3>1. r = [cell EXCEPT !.seq_id = left]
        BY <1>2, <2>2 DEF Removed
    <3>2. left \in SUBSET Seqs /\ left # {} /\ left \subseteq cell.seq_id
        BY <2>2 DEF CellOK, Cell
    <3>3. cell.pos >= 0
        BY <3>2 DEF CellOK, IsEmpty
    <3> HIDE DEF left
    <3> QED  BY <3>1, <3>2, <3>3 DEF CellOK, Cell, IsEmpty
  <2> QED  BY <2>1, <2>2
<1> QED  BY <1>1, <1>2

LEMMA ShiftedCell ==
    ASSUME NEW cell, CellOK(cell), NEW s \in Seqs, NEW p0 \in Int, NEW p1 \in Int,
           NEW delta \in Int,
           s \in cell.seq_id /\ InRange(cell.pos, p0, p1) => cell.pos + delta <= MaxPos
    PROVE  /\ CellOK(Shifted(cell, s, p0, p1, delta))
           /\ ~ IsEmpty(Shifted(cell, s, p0, p1, delta)) <=>
                  /\ ~ IsEmpty(cell)
                  /\ ~ (s \in cell.seq_id /\ InRange(cell.pos, p0, p1) /\ cell.pos + delta < 0)
<1> DEFINE moved == [cell EXCEPT !.pos = @ + delta, !.delta = @ + delta]
           r == Shifted(cell, s, p0, p1, delta)
<1>1. CASE ~ (s \in cell.seq_id /\ InRange(cell.pos, p0, p1))
  <2>1. r = cell
    BY <1>1 DEF Shifted
  <2> QED  BY <1>1, <2>1
<1>2. CASE s \in cell.seq_id /\ InRange(cell.pos, p0, p1)
  <2>1. moved \in Cell /\ moved.pos = cell.pos + delta /\ moved.seq_id = cell.seq_id
    <3>1. cell \in Cell /\ cell.pos + delta \in Int /\ cell.delta + delta \in Int
        BY DEF CellOK, Cell
    <3>2. moved.pos = cell.pos + delta /\ moved.seq_id = cell.seq_id
        BY <3>1 DEF Cell
    <3>3. moved \in Cell
        BY <3>1 DEF Cell
    <3> QED  BY <3>2, <3>3
  <2>2. cell.pos \in Int /\ cell.seq_id # {}
    BY <1>2 DEF CellOK, Cell
  <2>3. CASE cell.pos + delta < 0
    <3>1. r = Freed(moved)
        BY <1>2, <2>1, <2>3 DEF Shifted
    <3> QED  BY <1>2, <2>1, <2>3, <3>1, FreedIsEmpty
  <2>4. CASE ~ (cell.pos + delta < 0)
    <3>1. r = moved
        BY <1>2, <2>1, <2>4 DEF Shifted
    <3> HIDE DEF moved
    <3> QED  BY <1>2, <2>1, <2>2, <2>4, <3>1 DEF CellOK, IsEmpty
  <2> QED  BY <2>3, <2>4
<1> QED  BY <1>1, <1>2

-----------------------------------------------------------------------------
(* The set of populated cells.                                             *)

LEMMA NonEmptyCount ==
    ASSUME NEW cs
    PROVE  /\ IsFiniteSet(NonEmpty(cs))
           /\ Cardinality(NonEmpty(cs)) \in 0 .. Size
<1>1. NonEmpty(cs) \in SUBSET Cells
    BY DEF NonEmpty
<1> QED  BY <1>1, CellsFinite, FS_Subset, FS_CardinalityType, CellsAssumption

\* A step that leaves the cells and the count alone.
LEMMA SameCells ==
    ASSUME UsedMatchesCells, PosOK, cells' = cells, used' = used
    PROVE  UsedMatchesCells' /\ PosOK'
BY DEF UsedMatchesCells, PosOK, NonEmpty

\* A step that rewrites the cells one by one and adjusts the count.
LEMMA NewCells ==
    ASSUME cells' \in [Cells -> Cell], \A c \in Cells : CellOK(cells'[c]),
           used' = Cardinality(NonEmpty(cells'))
    PROVE  UsedMatchesCells' /\ PosOK' /\ used' \in 0 .. Size
<1>1. used' \in 0 .. Size
    BY NonEmptyCount
<1>2. UsedMatchesCells'
    BY DEF UsedMatchesCells, CellOK, NonEmpty
<1> QED  BY <1>1, <1>2 DEF PosOK, CellOK

\* The number of cells left when some are freed.
LEMMA FreedCount ==
    ASSUME NEW cs, NEW freed \in SUBSET NonEmpty(cs), NEW cs2,
           \A c \in Cells : ~ IsEmpty(cs2[c]) <=> ~ IsEmpty(cs[c]) /\ c \notin freed
    PROVE  Cardinality(NonEmpty(cs2)) = Cardinality(NonEmpty(cs)) - Cardinality(freed)
<1>1. NonEmpty(cs2) = NonEmpty(cs) \ freed
    BY DEF NonEmpty
<1>2. NonEmpty(cs) \cap freed = freed
    OBVIOUS
<1> QED  BY <1>1, <1>2, NonEmptyCount, FS_Difference

-----------------------------------------------------------------------------
(* The initial state and the sequence operations.                          *)

LEMMA InitOK == Init => KVInv
<1> SUFFICES ASSUME Init PROVE KVInv
    OBVIOUS
<1> USE DEF Init
<1>0. Size \in Nat /\ Size > 0 /\ MaxPos \in Nat
    BY CellsAssumption, CacheAssumption
<1>1. \A c \in Cells : CellOK(cells[c]) /\ IsEmpty(cells[c])
    BY NewCellIsEmpty
<1>2. NonEmpty(cells) = {}
    BY <1>1 DEF NonEmpty
<1>3. UsedMatchesCells
    BY <1>1, <1>2, FS_EmptySet DEF UsedMatchesCells, CellOK
<1>4. PosOK
    BY <1>1 DEF PosOK, CellOK
<1>5. TypeOK
  <2>1. cells \in [Cells -> Cell]
    BY NewCellIsEmpty DEF CellOK
  <2>2. rows \in [Cells -> Rows]
    BY DEF Rows
  <2>3. df \in DefragState
    BY <1>0 DEF NoDefrag, DefragState
  <2>4. pc \in Phases
    BY DEF Phases
  <2>5. todo \in Seq(Entry) /\ slot \in Seq(Cells)
    OBVIOUS
  <2>6. head \in 0 .. Size /\ used \in 0 .. Size /\ n \in 0 .. Size
    BY <1>0
  <2>7. has_shift \in BOOLEAN /\ do_defrag \in BOOLEAN
    OBVIOUS
  <2>8. saved \subseteq Cells /\ ret \in {0, 1}
    OBVIOUS
  <2> QED  BY ONLY <2>1, <2>2, <2>3, <2>4, <2>5, <2>6, <2>7, <2>8 DEF TypeOK
<1>6. TodoOK /\ DefragOK /\ NoDefragBug
    BY DEF TodoOK, DefragOK, NoDefragBug
<1> QED  BY <1>3, <1>4, <1>5, <1>6 DEF KVInv

\* A step between calls has no part in TodoOK, DefragOK and NoDefragBug.
LEMMA IdleOK ==
    ASSUME KVInv, pc' = "idle", UNCHANGED todo
    PROVE  TodoOK' /\ DefragOK' /\ NoDefragBug'
BY DEF KVInv, TodoOK, DefragOK, NoDefragBug

LEMMA ClearOK == KVInv /\ Clear => KVInv'
<1> SUFFICES ASSUME KVInv, Clear PROVE KVInv'
    OBVIOUS
<1>0. Size \in Nat
    BY CellsAssumption
<1>1. cells \in [Cells -> Cell]
    BY DEF KVInv, TypeOK
<1>2. \A c \in Cells : cells'[c] = Freed(cells[c])
    BY DEF Clear
<1>3. \A c \in Cells : CellOK(cells'[c]) /\ IsEmpty(cells'[c])
    BY <1>1, <1>2, FreedIsEmpty
<1>4. cells' \in [Cells -> Cell]
    BY <1>3 DEF Clear, CellOK
<1>5. NonEmpty(cells') = {}
    BY <1>3 DEF NonEmpty
<1>6. used' = Cardinality(NonEmpty(cells'))
    BY <1>5, FS_EmptySet DEF Clear
<1>7. UsedMatchesCells' /\ PosOK' /\ used' \in 0 .. Size
    BY <1>3, <1>4, <1>6, NewCells
<1>8. TypeOK'
    BY <1>0, <1>4, <1>7 DEF KVInv, TypeOK, Clear, Rows
<1>9. TodoOK' /\ DefragOK' /\ NoDefragBug'
    BY IdleOK DEF Clear
<1> QED  BY <1>7, <1>8, <1>9 DEF KVInv

LEMMA SeqRmOK ==
    ASSUME KVInv, NEW s \in Seqs \cup {-1}, NEW p0 \in Int, NEW p1 \in Int,
           SeqRm(s, p0, p1)
    PROVE  KVInv'
<1> DEFINE freed == {c \in Cells : cells[c].pos >= 0 /\ Removed(cells[c], s, p0, p1).pos < 0}
<1> USE DEF SeqRm, RemoveSeq
<1>0. Size \in Nat /\ p0 \in Int /\ p1 \in Int
    BY CellsAssumption, CacheAssumption
<1>1. cells \in [Cells -> Cell] /\ \A c \in Cells : CellOK(cells[c])
    BY CellsOK DEF KVInv, TypeOK
<1>2. \A c \in Cells : cells'[c] = Removed(cells[c], s, p0, p1)
    OBVIOUS
<1>3. ASSUME NEW c \in Cells
      PROVE  /\ CellOK(cells'[c])
             /\ ~ IsEmpty(cells'[c]) <=> ~ IsEmpty(cells[c]) /\ c \notin freed
  <2>1. CellOK(cells[c]) /\ cells'[c] = Removed(cells[c], s, p0, p1)
    BY <1>1, <1>2
  <2>2. /\ CellOK(cells'[c])
        /\ ~ IsEmpty(cells'[c]) => ~ IsEmpty(cells[c]) /\ cells'[c].pos >= 0
    BY <1>0, <2>1, RemovedCell
  <2>3. cells'[c].pos \in Int
    BY <2>2 DEF CellOK, Cell
  <2>4. c \in freed <=> cells[c].pos >= 0 /\ cells'[c].pos < 0
    BY <2>1
  <2> HIDE DEF freed
  <2> QED  BY <2>1, <2>2, <2>3, <2>4 DEF CellOK
<1>4. cells' \in [Cells -> Cell]
    BY <1>3 DEF CellOK
<1>5. freed \in SUBSET NonEmpty(cells)
    BY <1>1 DEF NonEmpty, CellOK
<1>6. used' = Cardinality(NonEmpty(cells'))
  <2>1. used' = used - Cardinality(freed) /\ used = Cardinality(NonEmpty(cells))
    BY DEF KVInv, UsedMatchesCells
  <2> HIDE DEF freed
  <2>2. \A c \in Cells : ~ IsEmpty(cells'[c]) <=> ~ IsEmpty(cells[c]) /\ c \notin freed
    BY <1>3
  <2> QED  BY <1>5, <2>1, <2>2, FreedCount
<1>7. UsedMatchesCells' /\ PosOK' /\ used' \in 0 .. Size
    BY <1>3, <1>4, <1>6, NewCells
<1>8. head' \in 0 .. Size
  <2>1. head \in 0 .. Size
    BY DEF KVInv, TypeOK
  <2>2. freed # {} => Min(freed) \in Cells
    BY CellsMin
  <2>3. head' \in {head} \cup {c \in Cells : freed # {} /\ c = Min(freed)}
    BY <2>2
  <2> HIDE DEF freed
  <2> QED  BY <1>0, <2>1, <2>3 DEF Cells
<1>9. TypeOK'
    BY <1>4, <1>7, <1>8 DEF KVInv, TypeOK
<1>10. TodoOK' /\ DefragOK' /\ NoDefragBug'
    BY IdleOK
<1> QED  BY <1>7, <1>9, <1>10 DEF KVInv

LEMMA SeqCpOK ==
    ASSUME KVInv, NEW src \in Seqs, NEW dst \in Seqs, NEW p0, NEW p1,
           SeqCp(src, dst, p0, p1)
    PROVE  KVInv'
<1> USE DEF SeqCp
<1>0. Size \in Nat
    BY CellsAssumption
<1>1. cells \in [Cells -> Cell] /\ \A c \in Cells : CellOK(cells[c])
    BY CellsOK DEF KVInv, TypeOK
<1>2. ASSUME NEW c \in Cells
      PROVE  CellOK(cells'[c]) /\ (IsEmpty(cells'[c]) <=> IsEmpty(cells[c]))
  <2>1. CellOK(cells[c])
    BY <1>1
  <2>2. CASE cells'[c] = cells[c]
    BY <2>1, <2>2
  <2>3. CASE cells'[c] # cells[c]
    <3>1. cells'[c] = [cells[c] EXCEPT !.seq_id = @ \cup {dst}] /\ src \in cells[c].seq_id
        BY <2>3
    <3> QED  BY <2>1, <3>1 DEF CellOK, Cell, IsEmpty
  <2> QED  BY <2>2, <2>3
<1>3. cells' \in [Cells -> Cell]
    BY <1>2 DEF CellOK
<1>4. NonEmpty(cells') = NonEmpty(cells)
    BY <1>2 DEF NonEmpty
<1>5. UsedMatchesCells' /\ PosOK' /\ used' \in 0 .. Size
    BY <1>2, <1>3, <1>4, NewCells DEF KVInv, UsedMatchesCells
<1>6. TypeOK'
    BY <1>0, <1>3, <1>5 DEF KVInv, TypeOK
<1>7. TodoOK' /\ DefragOK' /\ NoDefragBug'
    BY IdleOK
<1> QED  BY <1>5, <1>6, <1>7 DEF KVInv

LEMMA SeqAddOK ==
    ASSUME KVInv, NEW s \in Seqs, NEW p0 \in Int, NEW p1 \in Int,
           NEW delta \in Shifts, SeqAdd(s, p0, p1, delta)
    PROVE  KVInv'
<1> DEFINE hit   == {c \in Cells : s \in cells[c].seq_id /\ InRange(cells[c].pos, p0, p1)}
           freed == {c \in hit : cells[c].pos + delta < 0}
<1> USE DEF SeqAdd
<1>0. Size \in Nat /\ p0 \in Int /\ p1 \in Int /\ delta \in Int
    BY CellsAssumption, CacheAssumption
<1>1. cells \in [Cells -> Cell] /\ \A c \in Cells : CellOK(cells[c])
    BY CellsOK DEF KVInv, TypeOK
<1>2. \A c \in Cells : cells'[c] = Shifted(cells[c], s, p0, p1, delta)
    OBVIOUS
<1>3. ASSUME NEW c \in Cells
      PROVE  /\ CellOK(cells'[c])
             /\ ~ IsEmpty(cells'[c]) <=> ~ IsEmpty(cells[c]) /\ c \notin freed
  <2>1. CellOK(cells[c]) /\ cells'[c] = Shifted(cells[c], s, p0, p1, delta)
    BY <1>1, <1>2
  <2>2. s \in cells[c].seq_id /\ InRange(cells[c].pos, p0, p1) => cells[c].pos + delta <= MaxPos
    OBVIOUS
  <2>3. c \in freed <=> /\ s \in cells[c].seq_id /\ InRange(cells[c].pos, p0, p1)
                        /\ cells[c].pos + delta < 0
    OBVIOUS
  <2> HIDE DEF freed
  <2> QED  BY <1>0, <2>1, <2>2, <2>3, ShiftedCell
<1>4. cells' \in [Cells -> Cell]
    BY <1>3 DEF CellOK
<1>5. freed \in SUBSET NonEmpty(cells)
    BY DEF NonEmpty, IsEmpty
<1>6. used' = Cardinality(NonEmpty(cells'))
  <2>1. used' = used - Cardinality(freed) /\ used = Cardinality(NonEmpty(cells))
    BY DEF KVInv, UsedMatchesCells
  <2> HIDE DEF freed
  <2>2. \A c \in Cells : ~ IsEmpty(cells'[c]) <=> ~ IsEmpty(cells[c]) /\ c \notin freed
    BY <1>3
  <2> QED  BY <1>5, <2>1, <2>2, FreedCount
<1>7. UsedMatchesCells' /\ PosOK' /\ used' \in 0 .. Size
    BY <1>3, <1>4, <1>6, NewCells
<1>8. head' \in 0 .. Size
  <2>1. head \in 0 .. Size
    BY DEF KVInv, TypeOK
  <2>2. freed # {} => Min(freed) \in Cells
    BY CellsMin
  <2>3. head' \in {head, 0} \cup {c \in Cells : freed # {} /\ c = Min(freed)}
    BY <2>2
  <2> HIDE DEF freed
  <2> QED  BY <1>0, <2>1, <2>3 DEF Cells
<1>9. TypeOK'
    BY <1>4, <1>7, <1>8 DEF KVInv, TypeOK
<1>10. TodoOK' /\ DefragOK' /\ NoDefragBug'
    BY IdleOK
<1> QED  BY <1>7, <1>9, <1>10 DEF KVInv

-----------------------------------------------------------------------------
(* llama_decode.                                                           *)

LEMMA NextPosInNat ==
    ASSUME KVInv, NEW s
    PROVE  NextPos(s) \in Nat
<1> DEFINE P == {cells[c].pos : c \in {d \in Cells : s \in cells[d].seq_id}} \cup {-1}
<1>1. \A c \in Cells : /\ cells[c].pos \in Int
                       /\ s \in cells[c].seq_id => cells[c].pos >= 0
                       /\ cells[c].pos <= MaxPos
  <2>1. ASSUME NEW c \in Cells PROVE CellOK(cells[c])
    BY CellsOK DEF KVInv
  <2> QED  BY <2>1 DEF CellOK, Cell, IsEmpty
<1>2. MaxPos \in Int /\ P \in SUBSET Int /\ P # {} /\ \A x \in P : x <= MaxPos /\ x >= -1
    BY <1>1, CacheAssumption
<1> HIDE DEF P
<1>3. Max(P) \in P
    BY ONLY <1>2, MaxBounded
<1>4. Max(P) \in Int /\ Max(P) >= -1
    BY <1>2, <1>3
<1>5. Max(P) + 1 \in Nat
    BY <1>4
<1> QED  BY <1>5 DEF NextPos, P

LEMMA AppendedOK ==
    ASSUME KVInv, NEW k \in 1 .. MaxBatch, NEW who \in [1 .. k -> Seqs],
           NEW toks \in [1 .. k -> Tokens], NEW b, b = Appended(who, toks),
           \A i \in DOMAIN b : b[i].pos <= MaxPos
    PROVE  /\ b \in Seq(Entry)
           /\ b # <<>>
           /\ \A i \in 1 .. Len(b) : b[i].pos \in 0 .. MaxPos /\ b[i].seq_id # {}
<1>1. b = [i \in DOMAIN who |->
                [pos    |-> NextPos(who[i]) + Cardinality({j \in 1 .. i - 1 : who[j] = who[i]}),
                 seq_id |-> {who[i]},
                 tok    |-> toks[i]]]
    BY DEF Appended
<1>2. k \in Nat /\ k > 0 /\ DOMAIN who = 1 .. k /\ DOMAIN b = 1 .. k
    BY <1>1, CacheAssumption
<1>3. ASSUME NEW i \in 1 .. k
      PROVE  b[i] \in Entry /\ b[i].pos \in 0 .. MaxPos /\ b[i].seq_id # {}
  <2> DEFINE before == {j \in 1 .. i - 1 : who[j] = who[i]}
  <2>1. b[i] = [pos |-> NextPos(who[i]) + Cardinality(before), seq_id |-> {who[i]}, tok |-> toks[i]]
    BY <1>1, <1>2
  <2>2. Cardinality(before) \in Nat
    <3>1. before \subseteq 1 .. i - 1
        OBVIOUS
    <3>2. 1 \in Int /\ i - 1 \in Int
        BY <1>2
    <3>3. IsFiniteSet(1 .. i - 1)
        BY ONLY <3>2, FS_Interval
    <3>4. IsFiniteSet(before)
        BY ONLY <3>1, <3>3, FS_Subset
    <3> QED  BY ONLY <3>4, FS_CardinalityType
  <2>3. NextPos(who[i]) \in Nat
    BY NextPosInNat
  <2>4. who[i] \in Seqs /\ toks[i] \in Tokens
    BY <1>1
  <2>5. b[i].pos <= MaxPos
    BY <1>2
  <2> HIDE DEF before
  <2>6. b[i].pos \in Nat
    BY <2>1, <2>2, <2>3
  <2> QED  BY <2>1, <2>4, <2>5, <2>6, CacheAssumption DEF Entry
<1>4. b \in Seq(Entry)
  <2>1. b \in [1 .. k -> Entry]
    BY <1>1, <1>2, <1>3
  <2> QED  BY <1>2, <2>1, SeqDef
<1>5. Len(b) = k
    BY <1>2, <1>4
<1>6. b # <<>>
    BY <1>2, <1>5, EmptySeq
<1> QED  BY <1>3, <1>4, <1>5, <1>6

\* A decode of any batch whose tokens have a position and a sequence.
LEMMA BatchBeginOK ==
    ASSUME KVInv, NEW b \in Seq(Entry), b # <<>>,
           \A i \in 1 .. Len(b) : b[i].pos \in 0 .. MaxPos /\ b[i].seq_id # {},
           DecodeBegin(b)
    PROVE  KVInv'
<1>1. todo' = b /\ pc' = "ubatch" /\ saved' = {}
    BY DEF DecodeBegin
<1>2. TypeOK'
    BY <1>1 DEF KVInv, TypeOK, DecodeBegin, Phases
<1>3. TodoOK'
    BY <1>1 DEF TodoOK
<1>4. UsedMatchesCells' /\ PosOK'
    BY SameCells DEF KVInv, DecodeBegin
<1>5. DefragOK' /\ NoDefragBug'
    BY <1>1 DEF DefragOK, NoDefragBug
<1> QED  BY <1>2, <1>3, <1>4, <1>5 DEF KVInv

LEMMA DecodeBeginOK ==
    ASSUME KVInv, NEW k \in 1 .. MaxBatch, NEW who \in [1 .. k -> Seqs],
           NEW toks \in [1 .. k -> Tokens], DecodeBegin(Appended(who, toks))
    PROVE  KVInv'
<1> DEFINE b == Appended(who, toks)
<1>1. /\ b \in Seq(Entry)
      /\ b # <<>>
      /\ \A i \in 1 .. Len(b) : b[i].pos \in 0 .. MaxPos /\ b[i].seq_id # {}
    BY AppendedOK DEF DecodeBegin
<1> QED  BY <1>1, BatchBeginOK

LEMMA NoDefragType == NoDefrag \in DefragState
BY DEF NoDefrag, DefragState

\* What the defragmentation starts from.
LEMMA UpdateOK == KVInv /\ Update => KVInv'
<1> SUFFICES ASSUME KVInv, Update PROVE KVInv'
    OBVIOUS
<1> USE DEF Update
<1>0. Size \in Nat
    BY CellsAssumption
<1>1. UsedMatchesCells' /\ PosOK'
    BY SameCells DEF KVInv
<1>2. TodoOK'
    BY DEF KVInv, TodoOK
<1>3. pc' \in {"abort", "scan", "find"} /\ (pc' = "abort" => has_shift')
    OBVIOUS
<1>4. NoDefragBug'
    BY <1>3 DEF NoDefragBug
<1>5. CASE df' = df /\ pc' # "scan"
  <2>1. TypeOK'
    BY <1>3, <1>5 DEF KVInv, TypeOK, Phases
  <2>2. DefragOK'
    BY <1>3, <1>5 DEF DefragOK
  <2> QED  BY <1>1, <1>2, <1>4, <2>1, <2>2 DEF KVInv
<1>6. CASE pc' = "scan"
  <2>1. df' = [NoDefrag EXCEPT !.nkv = CellMax(cells), !.nused = used,
                               !.ids = [c \in Cells |-> CellMax(cells)]]
    BY <1>6
  <2>2. CellMax(cells) \in 0 .. Size
    BY CellMaxBounds DEF KVInv, TypeOK
  <2>3. \A c \in Cells : ~ IsEmpty(cells[c]) => c < CellMax(cells)
    BY CellMaxBounds DEF KVInv, TypeOK, UsedMatchesCells
  <2>4. used \in 0 .. Size
    BY DEF KVInv, TypeOK
  <2>5. df' \in DefragState
    <3>1. CellMax(cells) \in Nat /\ used \in Nat
        BY <1>0, <2>2, <2>4
    <3>2. [c \in Cells |-> CellMax(cells)] \in [Cells -> Nat]
        BY <3>1
    <3> QED  BY <2>1, <3>1, <3>2, NoDefragType DEF DefragState
  <2>6. TypeOK'
    BY <1>3, <2>5 DEF KVInv, TypeOK, Phases
  <2>7. /\ df'.nused = used /\ df'.nkv = CellMax(cells) /\ df'.i0 = 0
        /\ \A c \in Cells : df'.ids[c] = CellMax(cells)
    BY <2>1 DEF NoDefrag
  <2>8. DefragOK'
    BY <1>0, <1>6, <2>2, <2>3, <2>4, <2>7 DEF DefragOK, ScanOK, Cells
  <2> QED  BY <1>1, <1>2, <1>4, <2>6, <2>8 DEF KVInv
<1> QED  BY <1>3, <1>5, <1>6

\* The next ubatch is the first tokens of what is left of the batch.
LEMMA UbatchOK ==
    ASSUME KVInv, pc \notin {"idle", "abort"}
    PROVE  /\ Ubatch \in Seq(Entry)
           /\ Len(Ubatch) \in 1 .. NUbatch
           /\ Len(Ubatch) <= Len(todo)
           /\ \A i \in 1 .. Len(Ubatch) : /\ Ubatch[i] \in Entry
                                          /\ Ubatch[i].pos \in 0 .. MaxPos
                                          /\ Ubatch[i].seq_id # {}
<1> DEFINE m == Min({NUbatch, Len(todo)})
<1>1. todo \in Seq(Entry) /\ todo # <<>>
    BY DEF KVInv, TypeOK, TodoOK
<1>2. Len(todo) \in Nat /\ Len(todo) > 0 /\ NUbatch \in Nat /\ NUbatch > 0
    BY <1>1, CacheAssumption, EmptySeq
<1>3. m \in 1 .. NUbatch /\ m <= Len(todo)
    BY <1>2, MinPair
<1> HIDE DEF m
<1>4. \A i \in 1 .. m : todo[i] \in Entry
    BY <1>1, <1>2, <1>3
<1>5. Ubatch = SubSeq(todo, 1, m)
    BY DEF Ubatch, m
<1>6. /\ Ubatch \in Seq(Entry) /\ Len(Ubatch) = m
      /\ \A i \in 1 .. m : Ubatch[i] = todo[i]
    BY <1>1, <1>2, <1>3, <1>4, <1>5
<1>7. \A i \in 1 .. m : todo[i].pos \in 0 .. MaxPos /\ todo[i].seq_id # {}
    BY <1>2, <1>3 DEF KVInv, TodoOK
<1> QED  BY <1>3, <1>4, <1>6, <1>7

LEMMA SearchHeadInCache ==
    ASSUME KVInv, NEW k
    PROVE  SearchHead(k) \in 0 .. Size
BY CellsAssumption DEF SearchHead, KVInv, TypeOK

\* A slot that is found fits the ubatch.
LEMMA FoundFits ==
    ASSUME KVInv, pc = "find", NEW h \in 0 .. Size, NEW s \in Found(h, Len(Ubatch))
    PROVE  /\ Fitting(cells, s, Ubatch)
           /\ s \in Seq(Cells)
           /\ DOMAIN s = IF Scatter THEN 1 .. NUbatch ELSE 1 .. Len(Ubatch)
           /\ \A i \in DOMAIN s : s[i] \in Cells
<1> DEFINE k == Len(Ubatch)
           free == FreeCells(cells)
<1>0. /\ Size \in Nat /\ NUbatch \in Nat /\ NUbatch > 0 /\ h \in Int
      /\ k \in 1 .. NUbatch
    BY CellsAssumption, CacheAssumption, UbatchOK
<1>1. free \in SUBSET Cells /\ \A c \in free : IsEmpty(cells[c])
  <2>1. ASSUME NEW c \in Cells PROVE cells[c].pos \in Int /\ (cells[c].pos >= 0 <=> ~ IsEmpty(cells[c]))
    BY DEF KVInv, TypeOK, UsedMatchesCells, Cell
  <2> QED  BY <2>1 DEF FreeCells
<1> HIDE DEF free
<1>2. ASSUME NEW m \in 1 .. NUbatch, k <= m, s \in [1 .. m -> free],
             \A i, j \in 1 .. m : s[i] = s[j] => i = j
      PROVE  Fitting(cells, s, Ubatch) /\ s \in Seq(Cells) /\ \A i \in DOMAIN s : s[i] \in Cells
  <2>1. s \in [1 .. m -> Cells] /\ m \in Nat
    BY <1>0, <1>1, <1>2
  <2>2. s \in Seq(Cells)
    BY <2>1, SeqDef
  <2>3. \A i \in 1 .. k : s[i] \in Cells /\ IsEmpty(cells[s[i]])
    BY <1>0, <1>1, <1>2
  <2>4. \A i \in 1 .. k : /\ Ubatch[i].pos \in Nat /\ Ubatch[i].seq_id \in SUBSET Seqs
                          /\ Ubatch[i].seq_id # {} /\ Ubatch[i].tok \in Tokens
    BY UbatchOK DEF Entry
  <2>5. Fitting(cells, s, Ubatch)
    BY <1>0, <1>2, <2>3, <2>4 DEF Fitting
  <2> QED  BY <2>1, <2>2, <2>5
<1>3. CASE Scatter
  <2>1. s \in ScatterSlots(free, h, NUbatch)
    BY <1>3 DEF Found, free
  <2>2. /\ s \in [1 .. NUbatch -> free]
        /\ \A i, j \in 1 .. NUbatch : s[i] = s[j] => i = j
    <3>1. free \in SUBSET Cells /\ h \in Int /\ NUbatch \in Nat
        BY <1>0, <1>1
    <3> QED  BY <2>1, <3>1, ScatterSlotsDistinct
  <2> QED  BY <1>0, <1>2, <1>3, <2>2
<1>4. CASE ~ Scatter
  <2> DEFINE f == FirstFit(free, h, k)
  <2>1. Fits(free, k) # {} /\ s = [i \in 1 .. k |-> f + i - 1] /\ k <= Size
    BY <1>0, <1>4 DEF Found, free
  <2>2. f \in Fits(free, k)
    BY <1>0, <1>1, <2>1, FirstFitFits
  <2>3. f \in 0 .. Size - k /\ f .. (f + k - 1) \subseteq free
    BY <2>2 DEF Fits
  <2> HIDE DEF f
  <2>4. \A i \in 1 .. k : f + i - 1 \in free
    BY <1>0, <2>3
  <2>5. s \in [1 .. k -> free]
    BY <2>1, <2>4
  <2>6. \A i, j \in 1 .. k : s[i] = s[j] => i = j
    BY <1>0, <2>1, <2>3
  <2> QED  BY <1>0, <1>2, <1>4, <2>5, <2>6
<1> QED  BY <1>3, <1>4

LEMMA FindCellsOK == KVInv /\ FindCells => KVInv'
<1> SUFFICES ASSUME KVInv, FindCells PROVE KVInv'
    OBVIOUS
<1> DEFINE ub == Ubatch
           h  == SearchHead(Len(ub))
<1>1. PICK s \in Found(h, Len(ub)) :
        /\ cells' = Occupy(cells, s, ub)
        /\ used' = used + Len(ub)
        /\ head' = IF Scatter THEN s[NUbatch] + 1 ELSE s[1]
        /\ slot' = s
        /\ saved' = IF Scatter THEN saved ELSE saved \cup {s[i] : i \in DOMAIN s}
        /\ n' = LET m == CellMax(cells')
                IN  Min({Size, IF EnableGE THEN m ELSE Max({Pad, GgmlPad(m)})})
    BY DEF FindCells
<1>2. /\ pc = "find" /\ pc' = "compute"
      /\ UNCHANGED <<has_shift, do_defrag, rows, todo, ret, df>>
    BY DEF FindCells
<1>3. /\ Fitting(cells, s, ub)
      /\ s \in Seq(Cells)
      /\ DOMAIN s = IF Scatter THEN 1 .. NUbatch ELSE 1 .. Len(ub)
      /\ \A i \in DOMAIN s : s[i] \in Cells
    BY <1>2, SearchHeadInCache, FoundFits
<1>4. /\ cells \in [Cells -> Cell] /\ \A c \in Cells : CellOK(cells[c])
      /\ used = Cardinality(NonEmpty(cells))
    BY CellsOK DEF KVInv, TypeOK, UsedMatchesCells
<1>5. /\ Len(ub) \in 1 .. NUbatch /\ NUbatch \in Nat /\ Size \in Nat /\ Size > 0
      /\ Pad \in Nat /\ Pad > 0
    BY <1>2, UbatchOK, CellsAssumption, CacheAssumption
<1>6. \A i \in 1 .. Len(ub) : ub[i].pos \in 0 .. MaxPos
    BY <1>2, UbatchOK
<1> HIDE DEF ub, h
<1>7. cells' \in [Cells -> Cell] /\ used' = Cardinality(NonEmpty(cells'))
    BY <1>1, <1>3, <1>4, OccupyCounts
<1>8. ASSUME NEW c \in Cells PROVE CellOK(cells'[c])
  <2>1. \/ /\ \E i \in 1 .. Len(ub) : cells'[c].pos = ub[i].pos
           /\ cells'[c] \in Cell
           /\ ~ IsEmpty(cells'[c])
        \/ cells'[c] = cells[c]
    BY <1>1, <1>3, <1>4, OccupiedCell
  <2> QED  BY <1>4, <1>6, <2>1 DEF CellOK
<1>9. UsedMatchesCells' /\ PosOK' /\ used' \in 0 .. Size
    BY <1>7, <1>8, NewCells
<1>10. head' \in 0 .. Size
  <2>1. (IF Scatter THEN s[NUbatch] ELSE s[1]) \in Cells
    BY <1>3, <1>5
  <2> QED  BY <1>1, <1>5, <2>1 DEF Cells
<1>11. n' \in 0 .. Size
  <2>1. CellMax(cells') \in 0 .. Size
    BY <1>7, CellMaxBounds
  <2>2. GgmlPad(CellMax(cells')) \in Int
    BY <1>5, <2>1 DEF GgmlPad
  <2>3. Max({Pad, GgmlPad(CellMax(cells'))}) \in Nat
    BY <1>5, <2>2, MaxPair
  <2> DEFINE x == IF EnableGE THEN CellMax(cells') ELSE Max({Pad, GgmlPad(CellMax(cells'))})
  <2>4. x \in Nat
    BY <1>5, <2>1, <2>3
  <2>5. n' = Min({Size, x})
    BY <1>1
  <2> HIDE DEF x
  <2>6. Min({Size, x}) = IF Size <= x THEN Size ELSE x
    BY <1>5, <2>4, MinPair
  <2> QED  BY <1>5, <2>4, <2>5, <2>6
<1>12. saved' \subseteq Cells
    BY <1>1, <1>3 DEF KVInv, TypeOK
<1>13. TypeOK'
    BY <1>1, <1>2, <1>3, <1>7, <1>9, <1>10, <1>11, <1>12 DEF KVInv, TypeOK, Phases
<1>14. TodoOK'
    BY <1>2 DEF KVInv, TodoOK
<1>15. DefragOK' /\ NoDefragBug'
    BY <1>2 DEF DefragOK, NoDefragBug
<1> QED  BY <1>9, <1>13, <1>14, <1>15 DEF KVInv

LEMMA NoCellsOK == KVInv /\ NoCells => KVInv'
<1> SUFFICES ASSUME KVInv, NoCells PROVE KVInv'
    OBVIOUS
<1> DEFINE k == Len(Ubatch)
           h == SearchHead(k)
           free == FreeCells(cells)
<1>1. /\ pc = "find" /\ Found(h, k) = {} /\ pc' = "idle" /\ ret' = 1 /\ todo' = <<>>
      /\ head' = IF Scatter THEN h ELSE FailHead(free, h, k)
      /\ UNCHANGED <<cells, used, n, has_shift, do_defrag, rows, slot, saved, df>>
    BY DEF NoCells
<1>2. h \in 0 .. Size /\ k \in Nat
    BY <1>1, SearchHeadInCache, UbatchOK, CacheAssumption
<1>3. free \in SUBSET Cells
    BY DEF FreeCells
<1>4. ~ Scatter => k > Size \/ Fits(free, k) = {}
    BY <1>1 DEF Found
<1> HIDE DEF free, h, k
<1>5. head' \in 0 .. Size
    BY <1>1, <1>2, <1>3, <1>4, FailHeadInCache
<1>6. todo' \in Seq(Entry) /\ Len(todo') = 0
    BY <1>1, EmptySeq
<1>7. TypeOK'
    BY <1>1, <1>5, <1>6 DEF KVInv, TypeOK, Phases
<1>8. TodoOK' /\ DefragOK' /\ NoDefragBug'
    BY <1>1, <1>6 DEF TodoOK, DefragOK, NoDefragBug
<1>9. UsedMatchesCells' /\ PosOK'
    BY <1>1, SameCells DEF KVInv
<1> QED  BY <1>7, <1>8, <1>9 DEF KVInv

LEMMA ComputeOK == KVInv /\ Compute => KVInv'
<1> SUFFICES ASSUME KVInv, Compute PROVE KVInv'
    OBVIOUS
<1> DEFINE k == Len(Ubatch)
           left == SubSeq(todo, k + 1, Len(todo))
           past == head + k
<1>1. /\ pc = "compute"
      /\ rows' = Written
      /\ head' = IF Scatter \/ past >= Size THEN 0 ELSE past
      /\ todo' = left
      /\ slot' = <<>>
      /\ pc' = IF left = <<>> THEN "idle" ELSE "ubatch"
      /\ ret' \in {0, ret}
      /\ do_defrag' \in {do_defrag, do_defrag \/ Fragmented}
      /\ UNCHANGED <<cells, used, n, has_shift, saved, df>>
    BY DEF Compute
<1>2. /\ k \in Nat /\ k <= Len(todo) /\ todo \in Seq(Entry) /\ Len(todo) \in Nat
      /\ \A i \in 1 .. k : Ubatch[i] \in Entry
      /\ Size \in Nat /\ head \in 0 .. Size
    BY <1>1, UbatchOK, CacheAssumption, CellsAssumption DEF KVInv, TypeOK
<1> HIDE DEF k
<1>3. /\ left \in Seq(Entry) /\ Len(left) = Len(todo) - k
      /\ \A i \in 1 .. Len(left) : left[i] = todo[k + i]
    BY <1>2
<1> HIDE DEF left
<1>4. head' \in 0 .. Size
    BY <1>1, <1>2
<1>5. rows' \in [Cells -> Rows]
  <2>1. rows \in [Cells -> Rows]
    BY DEF KVInv, TypeOK
  <2>2. ASSUME NEW i PROVE (IF i <= k THEN Ubatch[i].tok ELSE NoToken) \in Rows \/ ~ (i \in DOMAIN Target)
    <3>1. DOMAIN Target = DOMAIN slot /\ slot \in Seq(Cells)
        BY DEF Target, KVInv, TypeOK
    <3>2. i \in DOMAIN Target => i \in Nat /\ i > 0
        BY <3>1
    <3>3. i \in 1 .. k => Ubatch[i].tok \in Tokens
        BY <1>2 DEF Entry
    <3> QED  BY <1>2, <3>2, <3>3 DEF Rows
  <2>3. ASSUME NEW c \in Cells PROVE Written[c] \in Rows
    BY <2>1, <2>2 DEF Written, k
  <2> QED  BY <1>1, <2>3 DEF Written
<1>6. do_defrag' \in BOOLEAN /\ ret' \in {0, 1}
    BY <1>1 DEF KVInv, TypeOK
<1>7. slot' \in Seq(Cells)
    BY <1>1
<1>8. TypeOK'
    BY <1>1, <1>3, <1>4, <1>5, <1>6, <1>7 DEF KVInv, TypeOK, Phases
<1>9. TodoOK'
  <2>1. ASSUME NEW i \in 1 .. Len(left)
        PROVE  left[i].pos \in 0 .. MaxPos /\ left[i].seq_id # {}
    <3>1. k + i \in 1 .. Len(todo) /\ left[i] = todo[k + i]
        BY <1>2, <1>3
    <3> QED  BY <3>1 DEF KVInv, TodoOK
  <2> QED  BY <1>1, <2>1 DEF TodoOK
<1>10. DefragOK' /\ NoDefragBug'
    BY <1>1 DEF DefragOK, NoDefragBug
<1>11. UsedMatchesCells' /\ PosOK'
    BY <1>1, SameCells DEF KVInv
<1> QED  BY <1>8, <1>9, <1>10, <1>11 DEF KVInv

-----------------------------------------------------------------------------
(* llama_kv_cache_defrag_impl.                                             *)

\* What the scan of the last hole or the last run goes over to.
LEMMA ScanDoneOK ==
    ASSUME KVInv, pc \in {"scan", "move"}, NEW d \in DefragState, d.nkv \in 0 .. Size,
           ScanDone(d)
    PROVE  /\ df' \in DefragState
           /\ do_defrag' \in BOOLEAN
           /\ pc' \in {"find", "copy"}
           /\ pc' = "copy" => df'.nkv \in 0 .. Size
<1>1. CASE d.moves = 0
    BY <1>1, NoDefragType DEF ScanDone, KVInv, TypeOK
<1>2. CASE d.moves # 0
  <2>1. pc' = "copy" /\ df' = [d EXCEPT !.i1 = 0] /\ do_defrag' = do_defrag
    BY <1>2 DEF ScanDone
  <2>2. 0 \in Nat
    OBVIOUS
  <2>3. [d EXCEPT !.i1 = 0] \in DefragState /\ [d EXCEPT !.i1 = 0].nkv = d.nkv
    BY <2>2 DEF DefragState
  <2>4. do_defrag \in BOOLEAN
    BY DEF KVInv, TypeOK
  <2> QED  BY <2>1, <2>3, <2>4
<1> QED  BY <1>1, <1>2

\* A hole has at least the cell it starts at, and ends before n_used.
LEMMA HoleSizeOK ==
    ASSUME NEW i \in Nat, df.nused \in 0 .. Size, i < df.nused, IsEmpty(cells[i])
    PROVE  /\ HoleSize(i) \in 1 .. df.nused - i
           /\ \A c \in Cells : i <= c /\ c < i + HoleSize(i) => IsEmpty(cells[c])
<1> DEFINE K == {k \in 1 .. df.nused - i : \A j \in 0 .. k - 1 : IsEmpty(cells[i + j])}
<1>0. Size \in Nat /\ df.nused \in Nat
    BY CellsAssumption
<1>1. 1 \in K
  <2>1. \A j \in 0 .. 1 - 1 : i + j = i
    OBVIOUS
  <2> QED  BY <1>0, <2>1
<1>2. K \in SUBSET Int /\ K # {} /\ df.nused - i \in Int /\ \A x \in K : x <= df.nused - i
    BY <1>0, <1>1
<1> HIDE DEF K
<1>3. Max(K) \in K
    BY ONLY <1>2, MaxBounded
<1>4. HoleSize(i) \in K
    BY <1>3 DEF HoleSize, K
<1>5. /\ HoleSize(i) \in 1 .. df.nused - i
      /\ \A j \in 0 .. HoleSize(i) - 1 : IsEmpty(cells[i + j])
    BY <1>4 DEF K
<1>6. ASSUME NEW c \in Cells, i <= c, c < i + HoleSize(i) PROVE IsEmpty(cells[c])
  <2>1. c - i \in 0 .. HoleSize(i) - 1 /\ i + (c - i) = c
    BY <1>0, <1>5, <1>6 DEF Cells
  <2> QED  BY <1>5, <2>1
<1> QED  BY <1>5, <1>6

\* In a set of at least m cells some cell is the m-th from the end.
LEMMA MthFromEnd ==
    ASSUME NEW S \in SUBSET Cells, NEW m \in Nat \ {0}, Cardinality(S) >= m
    PROVE  \E c \in S : Cardinality({x \in S : x >= c}) = m
<1> DEFINE Up(c) == {x \in S : x >= c}
           many == {c \in S : Cardinality(Up(c)) >= m}
<1>a. IsFiniteSet(S)
    BY CellsFinite, FS_Subset
<1>b. Cells \subseteq Int
    BY CellsAssumption DEF Cells
<1>c. S \subseteq Int
    BY <1>b
<1>0. IsFiniteSet(S) /\ S \subseteq Int
    BY <1>a, <1>c
<1>1. \A c : IsFiniteSet(Up(c)) /\ Cardinality(Up(c)) \in Nat
    BY <1>0, FS_Subset, FS_CardinalityType
<1>2. S # {}
    BY FS_EmptySet
<1>3. Min(S) \in S /\ Up(Min(S)) = S
    BY <1>2, CellsMin
<1>4. many \in SUBSET Cells /\ many # {}
    BY <1>3
<1> DEFINE c == Max(many)
<1>5. c \in many /\ \A x \in many : x <= c
    BY <1>4, CellsMax
<1> HIDE DEF c
<1>6. c \in S /\ Cardinality(Up(c)) >= m
    BY <1>5
<1> DEFINE above == {x \in S : x > c}
<1>7. IsFiniteSet(above) /\ c \notin above /\ Up(c) = above \cup {c}
  <2>1. IsFiniteSet(above)
    BY <1>0, FS_Subset
  <2>2. \A x \in S : x >= c <=> x > c \/ x = c
    BY <1>0, <1>6
  <2>3. ~ (c > c)
    BY <1>0, <1>6
  <2> QED  BY <1>6, <2>1, <2>2, <2>3
<1>8. Cardinality(Up(c)) = Cardinality(above) + 1
    BY <1>7, FS_AddElement
<1>9. Cardinality(above) < m
  <2>1. CASE above = {}
    BY <2>1, FS_EmptySet
  <2>2. CASE above # {}
    <3> DEFINE e == Min(above)
    <3>1. above \in SUBSET Cells
        OBVIOUS
    <3>2. e \in above /\ \A x \in above : e <= x
        BY <2>2, <3>1, CellsMin
    <3> HIDE DEF e
    <3>3. e \in S /\ e > c
        BY <3>2
    <3>4. Up(e) = above
      <4>1. \A x \in S : x > c => x >= e
        BY <3>2
      <4>2. \A x \in S : x >= e => x > c
        BY <1>0, <1>6, <3>3
      <4> QED  BY <4>1, <4>2
    <3>5. e \notin many
        BY <1>0, <1>5, <1>6, <3>3
    <3>6. Cardinality(above) \in Nat
        BY <1>7, FS_CardinalityType
    <3> QED  BY <3>3, <3>4, <3>5, <3>6
  <2> QED  BY <2>1, <2>2
<1>10. Cardinality(above) \in Nat
    BY <1>7, FS_CardinalityType
<1>11. Cardinality(Up(c)) = m
    BY <1>6, <1>8, <1>9, <1>10
<1> QED  BY <1>6, <1>11

\* Shared by the steps of the two loops: what they leave alone stays right.
LEMMA LoopStep ==
    ASSUME KVInv, pc \in {"scan", "move", "copy"},
           pc' \in Phases \ {"idle", "abort"}, df' \in DefragState, do_defrag' \in BOOLEAN,
           rows' \in [Cells -> Rows], head' \in 0 .. Size,
           cells' \in [Cells -> Cell], UsedMatchesCells', PosOK',
           UNCHANGED <<used, n, has_shift, todo, slot, saved, ret>>
    PROVE  TypeOK' /\ TodoOK' /\ NoDefragBug'
<1>1. TypeOK'
    BY DEF KVInv, TypeOK
<1>2. TodoOK'
    BY DEF KVInv, TodoOK
<1>3. NoDefragBug'
    BY DEF NoDefragBug, Phases
<1> QED  BY <1>1, <1>2, <1>3

\* The loops end, by exhaustion or because no run is left.
LEMMA LoopsDone ==
    ASSUME KVInv, pc \in {"scan", "move"}, NEW d \in DefragState, d.nkv \in 0 .. Size,
           ScanDone(d), head' \in 0 .. Size,
           cells' \in [Cells -> Cell], UsedMatchesCells', PosOK',
           UNCHANGED <<used, n, has_shift, rows, todo, slot, saved, ret>>
    PROVE  KVInv'
<1>1. /\ df' \in DefragState
      /\ do_defrag' \in BOOLEAN
      /\ pc' \in {"find", "copy"}
      /\ pc' = "copy" => df'.nkv \in 0 .. Size
    BY ScanDoneOK
<1>2. pc' \in Phases \ {"idle", "abort"}
    BY <1>1 DEF Phases
<1>3. rows' \in [Cells -> Rows]
    BY DEF KVInv, TypeOK
<1>4. TypeOK' /\ TodoOK' /\ NoDefragBug'
    BY <1>1, <1>2, <1>3, LoopStep
<1>5. DefragOK'
    BY <1>1 DEF DefragOK
<1> QED  BY <1>4, <1>5 DEF KVInv

\* Everything above the packed cells is a source: used says how many.
LEMMA EnoughSources ==
    ASSUME KVInv, pc = "scan", df.i0 < df.nused, IsEmpty(cells[df.i0])
    PROVE  /\ Sources(df.i0) = {c \in NonEmpty(cells) : c >= df.i0}
           /\ Cardinality(Sources(df.i0)) = df.nused - df.i0
<1> DEFINE i == df.i0
           src == Sources(i)
           low == 0 .. i - 1
<1>1. /\ i \in Nat /\ i < df.nused /\ df.nused = used /\ used \in 0 .. Size /\ Size \in Nat
      /\ df.nkv \in 0 .. Size /\ Cells = 0 .. Size - 1 /\ IsEmpty(cells[i])
      /\ \A c \in Cells : ~ IsEmpty(cells[c]) => c < df.nkv
      /\ \A c \in Cells : c < i => ~ IsEmpty(cells[c])
      /\ \A c \in Cells : c >= i /\ ~ IsEmpty(cells[c]) => df.ids[c] = df.nkv
      /\ used = Cardinality(NonEmpty(cells))
    BY CellsAssumption DEF KVInv, TypeOK, DefragState, DefragOK, ScanOK, UsedMatchesCells, Cells
<1> HIDE DEF i
<1>2. src = {c \in NonEmpty(cells) : c >= i}
  <2>1. ASSUME NEW c \in src PROVE c \in NonEmpty(cells) /\ c >= i
    BY <1>1, <2>1 DEF Sources, NonEmpty
  <2>2. ASSUME NEW c \in NonEmpty(cells), c >= i PROVE c \in src
    <3>1. c \in Cells /\ ~ IsEmpty(cells[c])
        BY DEF NonEmpty
    <3>2. c # i /\ c < df.nkv /\ df.ids[c] = df.nkv
        BY <1>1, <2>2, <3>1
    <3>3. c \in (i + 1) .. (df.nkv - 1)
        BY <1>1, <2>2, <3>1, <3>2
    <3> QED  BY <3>1, <3>2, <3>3 DEF Sources
  <2> QED  BY <2>1, <2>2
<1> HIDE DEF src
<1>3. NonEmpty(cells) = low \cup src
  <2>1. \A c \in low : c \in NonEmpty(cells)
    BY <1>1 DEF NonEmpty
  <2>2. \A c \in NonEmpty(cells) : c \in low \/ c >= i
    BY <1>1 DEF NonEmpty
  <2> QED  BY <1>2, <2>1, <2>2
<1>4. low \cap src = {}
  <2>1. \A c \in low : ~ (c >= i)
    BY <1>1
  <2> QED  BY <1>2, <2>1
<1>5. IsFiniteSet(low) /\ Cardinality(low) = i
  <2>1. 0 \in Int /\ i - 1 \in Int
    BY <1>1
  <2>2. /\ IsFiniteSet(low)
        /\ Cardinality(low) = IF 0 > i - 1 THEN 0 ELSE (i - 1) - 0 + 1
    BY ONLY <2>1, FS_Interval
  <2> QED  BY <1>1, <2>2
<1>6. IsFiniteSet(src) /\ Cardinality(src) \in Nat
  <2>1. src \subseteq NonEmpty(cells)
    BY <1>2
  <2> QED  BY <2>1, NonEmptyCount, FS_Subset, FS_CardinalityType
<1>7. Cardinality(NonEmpty(cells)) = Cardinality(low) + Cardinality(src)
  <2>1. Cardinality(low \cup src) = Cardinality(low) + Cardinality(src) - Cardinality(low \cap src)
    BY <1>5, <1>6, FS_Union
  <2>2. Cardinality(low \cap src) = 0
    BY <1>4, FS_EmptySet
  <2> QED  BY <1>1, <1>3, <1>5, <1>6, <2>1, <2>2
<1>8. Cardinality(src) = df.nused - i
    BY <1>1, <1>5, <1>6, <1>7
<1> QED  BY <1>2, <1>8 DEF i, src

LEMMA ScanStepOK == KVInv /\ Scan => KVInv'
<1> SUFFICES ASSUME KVInv, Scan PROVE KVInv'
    OBVIOUS
<1> DEFINE i == df.i0
<1>1. /\ pc = "scan"
      /\ UNCHANGED <<cells, head, used, n, has_shift, rows, todo, slot, saved, ret>>
    BY DEF Scan
<1>2. /\ df \in DefragState /\ do_defrag \in BOOLEAN /\ rows \in [Cells -> Rows]
      /\ cells \in [Cells -> Cell] /\ head \in 0 .. Size /\ used \in 0 .. Size
    BY DEF KVInv, TypeOK
<1>3. UsedMatchesCells' /\ PosOK'
    BY <1>1, SameCells DEF KVInv
<1>4. /\ df.nused = used /\ df.nkv \in 0 .. Size /\ i \in 0 .. df.nused
      /\ \A c \in Cells : ~ IsEmpty(cells[c]) => c < df.nkv
      /\ \A c \in Cells : c < i => ~ IsEmpty(cells[c])
      /\ \A c \in Cells : c >= i /\ ~ IsEmpty(cells[c]) => df.ids[c] = df.nkv
    BY <1>1 DEF KVInv, DefragOK, ScanOK
<1>5. Size \in Nat /\ Cells = 0 .. Size - 1
    BY CellsAssumption DEF Cells
<1>6. CASE i >= df.nused
  <2>1. ScanDone(df)
    BY <1>6 DEF Scan
  <2> QED  BY <1>1, <1>2, <1>3, <1>4, <2>1, LoopsDone
<1>7. CASE ~ (i >= df.nused) /\ ~ IsEmpty(cells[i])
  <2>1. df' = [df EXCEPT !.ids[i] = i, !.i0 = i + 1] /\ pc' = "scan" /\ do_defrag' = do_defrag
    BY <1>1, <1>7 DEF Scan
  <2>2. i \in Cells /\ i \in Nat /\ i + 1 \in Nat
    BY <1>2, <1>4, <1>5, <1>7
  <2>3. [df.ids EXCEPT ![i] = i] \in [Cells -> Nat]
    BY <1>2, <2>2 DEF DefragState
  <2>4. /\ df' \in DefragState
        /\ df'.nused = df.nused /\ df'.nkv = df.nkv /\ df'.i0 = i + 1
        /\ \A c \in Cells : c # i => df'.ids[c] = df.ids[c]
    BY <1>2, <2>1, <2>2, <2>3 DEF DefragState
  <2>5. TypeOK' /\ TodoOK' /\ NoDefragBug'
    BY <1>1, <1>2, <1>3, <2>1, <2>4, LoopStep DEF Phases
  <2>6. ScanOK'
    <3>1. \A c \in Cells : c < i + 1 => ~ IsEmpty(cells[c])
        BY <1>4, <1>5, <1>7, <2>2
    <3>2. i + 1 \in 0 .. df.nused
        BY <1>2, <1>4, <1>7
    <3> QED  BY <1>1, <1>4, <2>4, <3>1, <3>2 DEF ScanOK
  <2>7. ASSUME NEW c \in Cells, c >= i + 1, ~ IsEmpty(cells[c]) PROVE df'.ids[c] = df'.nkv
    <3>1. c # i /\ c >= i
        BY <1>5, <2>2, <2>7
    <3> QED  BY <1>4, <2>4, <2>7, <3>1
  <2>8. DefragOK'
    BY <1>1, <2>1, <2>4, <2>6, <2>7 DEF DefragOK
  <2> QED  BY <1>3, <2>5, <2>8 DEF KVInv
<1>8. CASE ~ (i >= df.nused) /\ IsEmpty(cells[i])
  <2> DEFINE nh == HoleSize(i)
             src == Sources(i)
             c1 == CHOOSE c \in src : Cardinality({x \in src : x >= c}) = nh
  <2>1. i \in Nat /\ i < df.nused
    BY <1>2, <1>4, <1>8
  <2>2. /\ src = {c \in NonEmpty(cells) : c >= i}
        /\ Cardinality(src) = df.nused - i
    BY <1>1, <1>8, <2>1, EnoughSources
  <2>3. /\ nh \in 1 .. df.nused - i
        /\ \A c \in Cells : i <= c /\ c < i + nh => IsEmpty(cells[c])
    BY <1>2, <1>4, <1>8, <2>1, HoleSizeOK
  <2>4. df.nused \in Nat /\ nh \in Nat \ {0} /\ i + nh <= df.nused
    BY <1>2, <1>4, <2>1, <2>3
  <2>5. ~ (Cardinality(src) < nh)
    BY <2>1, <2>2, <2>4
  <2>6. /\ df' = [df EXCEPT !.nh = nh, !.nf = 0, !.cont = FALSE, !.i1 = c1]
        /\ pc' = "move" /\ do_defrag' = do_defrag
    BY <1>1, <1>8, <2>5 DEF Scan
  <2>7. src \in SUBSET Cells /\ Cardinality(src) >= nh
    BY <2>1, <2>2, <2>4, <2>5 DEF NonEmpty
  <2> HIDE DEF nh, src
  <2>8. c1 \in src /\ Cardinality({x \in src : x >= c1}) = nh
    <3>1. \E c \in src : Cardinality({x \in src : x >= c}) = nh
        BY <2>4, <2>7, MthFromEnd
    <3> QED  BY <3>1
  <2> HIDE DEF c1
  <2>9. c1 \in Cells /\ ~ IsEmpty(cells[c1]) /\ c1 >= i /\ c1 \in Nat
    BY <1>5, <2>2, <2>8 DEF NonEmpty
  <2>10. c1 >= i + nh
    BY <2>1, <2>3, <2>4, <2>9
  <2>11. 0 \in Nat /\ FALSE \in BOOLEAN /\ nh \in Nat
    BY <2>4
  <2>12. /\ df' \in DefragState
         /\ df'.nused = df.nused /\ df'.nkv = df.nkv /\ df'.i0 = i /\ df'.ids = df.ids
         /\ df'.nh = nh /\ df'.nf = 0 /\ df'.i1 = c1
    BY <1>2, <2>6, <2>9, <2>11 DEF DefragState
  <2>13. TypeOK' /\ TodoOK' /\ NoDefragBug'
    BY <1>1, <1>2, <1>3, <2>6, <2>12, LoopStep DEF Phases
  <2>14. ScanOK'
    BY <1>1, <1>4, <2>12 DEF ScanOK
  <2>15. Cardinality(Left') = nh - 0
    <3>1. ASSUME NEW x \in Cells
          PROVE  (/\ x >= c1 /\ x < df.nkv /\ ~ IsEmpty(cells[x]) /\ df.ids[x] = df.nkv)
                 <=> (x \in src /\ x >= c1)
      <4>1. x \in src <=> ~ IsEmpty(cells[x]) /\ x >= i
        BY <2>2 DEF NonEmpty
      <4>2. x >= c1 => x >= i
        BY <1>5, <2>1, <2>9
      <4> QED  BY <1>4, <4>1, <4>2
    <3>2. Left' = {x \in Cells : x >= c1 /\ x < df.nkv /\ ~ IsEmpty(cells[x])
                                 /\ df.ids[x] = df.nkv}
        BY <1>1, <2>12 DEF Left
    <3>3. Left' = {x \in src : x >= c1}
        BY <2>7, <3>1, <3>2
    <3> QED  BY <2>4, <2>8, <3>3
  <2>16. MoveOK'
    <3>1. \A c \in Cells : ~ (i <= c /\ c < i + 0)
        BY <1>5, <2>1
    <3>2. \A c \in Cells : i + 0 <= c /\ c < i + nh => IsEmpty(cells[c])
        BY <1>5, <2>1, <2>3
    <3>3. \A c \in Cells : c >= i + nh /\ ~ IsEmpty(cells[c]) => df.ids[c] = df.nkv
        BY <1>4, <1>5, <2>1, <2>4
    <3>4. 0 < nh
        BY <2>4
    <3> QED  BY <1>1, <2>4, <2>10, <2>12, <2>15, <3>1, <3>2, <3>3, <3>4 DEF MoveOK
  <2>17. DefragOK'
    BY <2>6, <2>14, <2>16 DEF DefragOK
  <2> QED  BY <1>3, <2>13, <2>17 DEF KVInv
<1> QED  BY <1>6, <1>7, <1>8

\* What the inner loop may rely on: there is a source at or after i1.
LEMMA MoveState ==
    ASSUME KVInv, pc = "move"
    PROVE  /\ df \in DefragState /\ do_defrag \in BOOLEAN /\ rows \in [Cells -> Rows]
           /\ cells \in [Cells -> Cell] /\ head \in 0 .. Size /\ used \in 0 .. Size
           /\ Size \in Nat /\ Cells = 0 .. Size - 1
           /\ df.nused = used /\ df.nkv \in 0 .. Size /\ ScanOK /\ MoveOK
           /\ df.i0 \in Nat /\ df.nf \in Nat /\ df.nh \in Nat /\ df.i1 \in Nat
           /\ df.moves \in Nat /\ df.cont \in BOOLEAN /\ df.ids \in [Cells -> Nat]
           /\ df.i1 \in Cells /\ df.i1 < df.nkv
<1>1. /\ df \in DefragState /\ do_defrag \in BOOLEAN /\ rows \in [Cells -> Rows]
      /\ cells \in [Cells -> Cell] /\ head \in 0 .. Size /\ used \in 0 .. Size
      /\ df.nused = used /\ df.nkv \in 0 .. Size /\ ScanOK /\ MoveOK
    BY DEF KVInv, TypeOK, DefragOK, ScanOK
<1>2. Size \in Nat /\ Cells = 0 .. Size - 1
    BY CellsAssumption DEF Cells
<1>3. /\ df.i0 \in Nat /\ df.nf \in Nat /\ df.nh \in Nat /\ df.i1 \in Nat
      /\ df.moves \in Nat /\ df.cont \in BOOLEAN /\ df.ids \in [Cells -> Nat]
    BY <1>1 DEF DefragState
<1>4. Left # {}
  <2>1. Cardinality(Left) = df.nh - df.nf /\ df.nf < df.nh
    BY <1>1 DEF MoveOK
  <2>2. Cardinality(Left) # 0
    BY ONLY <1>3, <2>1
  <2> QED  BY <2>2, FS_EmptySet
<1>5. PICK x \in Cells : x >= df.i1 /\ x < df.nkv
    BY <1>4 DEF Left
<1>6. df.i1 \in Cells /\ df.i1 < df.nkv
    BY <1>1, <1>2, <1>3, <1>5
<1> QED  BY <1>1, <1>2, <1>3, <1>6

LEMMA MoveGapOK == KVInv /\ MoveGap => KVInv'
<1> SUFFICES ASSUME KVInv, MoveGap PROVE KVInv'
    OBVIOUS
<1>1. /\ pc = "move"
      /\ IsEmpty(cells[df.i1]) \/ df.ids[df.i1] # df.nkv
      /\ UNCHANGED <<cells, head, used, n, has_shift, rows, todo, slot, saved, ret>>
    BY DEF MoveGap
<1>2. /\ df \in DefragState /\ do_defrag \in BOOLEAN /\ rows \in [Cells -> Rows]
      /\ cells \in [Cells -> Cell] /\ head \in 0 .. Size /\ used \in 0 .. Size
      /\ df.nkv \in 0 .. Size /\ df.i1 \in Nat /\ ScanOK /\ MoveOK
      /\ Cells = 0 .. Size - 1 /\ df.i0 \in Nat /\ df.nh \in Nat
    BY <1>1, MoveState
<1>3. UsedMatchesCells' /\ PosOK'
    BY <1>1, SameCells DEF KVInv
<1>4. CASE df.moves = MaxMoves
  <2>1. ScanDone(df)
    BY <1>4 DEF MoveGap
  <2> QED  BY <1>1, <1>2, <1>3, <2>1, LoopsDone
<1>5. CASE df.moves # MaxMoves
  <2>1. df' = EndRun(df) /\ pc' = "move" /\ do_defrag' = do_defrag
    BY <1>1, <1>5 DEF MoveGap
  <2>2. df.i1 + 1 \in Nat /\ FALSE \in BOOLEAN
    BY <1>2
  <2>3. /\ df' \in DefragState
        /\ df'.nused = df.nused /\ df'.nkv = df.nkv /\ df'.i0 = df.i0 /\ df'.ids = df.ids
        /\ df'.nh = df.nh /\ df'.nf = df.nf /\ df'.i1 = df.i1 + 1
    BY <1>2, <2>1, <2>2 DEF DefragState, EndRun
  <2>4. TypeOK' /\ TodoOK' /\ NoDefragBug'
    BY <1>1, <1>2, <1>3, <2>1, <2>3, LoopStep DEF Phases
  <2>5. ScanOK'
    BY <1>1, <1>2, <2>3 DEF ScanOK
  <2>6. Left' = Left
    <3>1. ASSUME NEW x \in Cells
          PROVE  (x >= df.i1 + 1 /\ x < df.nkv /\ ~ IsEmpty(cells[x]) /\ df.ids[x] = df.nkv)
                 <=> (x >= df.i1 /\ x < df.nkv /\ ~ IsEmpty(cells[x]) /\ df.ids[x] = df.nkv)
        BY <1>1, <1>2
    <3>2. Left' = {x \in Cells : x >= df.i1 + 1 /\ x < df.nkv /\ ~ IsEmpty(cells[x])
                                 /\ df.ids[x] = df.nkv}
        BY <1>1, <2>3 DEF Left
    <3> QED  BY <3>1, <3>2 DEF Left
  <2>7. MoveOK'
    <3>1. df.i1 + 1 >= df.i0 + df.nh
        BY <1>2 DEF MoveOK
    <3> QED  BY <1>1, <1>2, <2>3, <2>6, <3>1 DEF MoveOK
  <2>8. DefragOK'
    BY <2>1, <2>5, <2>7 DEF DefragOK
  <2> QED  BY <1>3, <2>4, <2>8 DEF KVInv
<1> QED  BY <1>4, <1>5

LEMMA MoveCellOK == KVInv /\ MoveCell => KVInv'
<1> SUFFICES ASSUME KVInv, MoveCell PROVE KVInv'
    OBVIOUS
<1> DEFINE from == df.i1
           to   == df.i0 + df.nf
           d    == [df EXCEPT !.ids[from] = to,
                              !.moves = IF df.cont THEN @ ELSE @ + 1,
                              !.cont = TRUE,
                              !.nf = @ + 1]
<1>1. /\ pc = "move"
      /\ ~ IsEmpty(cells[from]) /\ df.ids[from] = df.nkv
      /\ cells' = [cells EXCEPT ![to] = cells[from], ![from] = NewCell]
      /\ head' = df.nused
      /\ UNCHANGED <<used, n, has_shift, rows, todo, slot, saved, ret>>
      /\ IF d.nf < d.nh
         THEN df' = [d EXCEPT !.i1 = @ + 1] /\ UNCHANGED <<pc, do_defrag>>
         ELSE IF d.moves = MaxMoves
         THEN ScanDone(d)
         ELSE pc' = "scan" /\ df' = [d EXCEPT !.i0 = @ + d.nh] /\ UNCHANGED do_defrag
    BY DEF MoveCell
<1>2. /\ df \in DefragState /\ do_defrag \in BOOLEAN /\ rows \in [Cells -> Rows]
      /\ cells \in [Cells -> Cell] /\ head \in 0 .. Size /\ used \in 0 .. Size
      /\ Size \in Nat /\ Cells = 0 .. Size - 1
      /\ df.nused = used /\ df.nkv \in 0 .. Size /\ ScanOK /\ MoveOK
      /\ df.i0 \in Nat /\ df.nf \in Nat /\ df.nh \in Nat /\ df.i1 \in Nat
      /\ df.moves \in Nat /\ df.cont \in BOOLEAN /\ df.ids \in [Cells -> Nat]
      /\ df.i1 \in Cells /\ df.i1 < df.nkv
    BY <1>1, MoveState
<1>3. df.nf < df.nh /\ df.i0 + df.nh <= df.nused /\ df.i1 >= df.i0 + df.nh
    BY <1>2 DEF MoveOK
<1>a. /\ df.i0 \in Nat /\ df.nf \in Nat /\ df.nh \in Nat /\ df.i1 \in Nat
      /\ df.nused \in Nat /\ df.nused <= Size /\ Size \in Nat /\ Cells = 0 .. Size - 1
    BY <1>2
<1>4. to \in Cells /\ to \in Nat /\ to < from /\ from \in Cells /\ IsEmpty(cells[to])
  <2>1. to \in Cells /\ to \in Nat /\ to < from /\ df.i0 + df.nf <= to /\ to < df.i0 + df.nh
    BY <1>3, <1>a
  <2> QED  BY <1>2, <2>1 DEF MoveOK
<1>5. /\ cells' \in [Cells -> Cell]
      /\ cells'[to] = cells[from] /\ cells'[from] = NewCell
      /\ \A c \in Cells : c # to /\ c # from => cells'[c] = cells[c]
  <2>1. NewCell \in Cell /\ cells[from] \in Cell
    BY <1>2, <1>4, NewCellIsEmpty DEF CellOK
  <2>2. to # from
    BY <1>2, <1>4
  <2> HIDE DEF to, from
  <2> QED  BY <1>1, <1>2, <1>4, <2>1, <2>2
<1>6. d \in DefragState
      /\ d.i0 = df.i0 /\ d.nh = df.nh /\ d.nf = df.nf + 1 /\ d.i1 = df.i1 /\ d.nkv = df.nkv
      /\ d.nused = df.nused /\ d.ids = [df.ids EXCEPT ![from] = to]
  <2>1. [df.ids EXCEPT ![from] = to] \in [Cells -> Nat]
    BY <1>2, <1>4
  <2>2. df.nf + 1 \in Nat /\ (IF df.cont THEN df.moves ELSE df.moves + 1) \in Nat
        /\ TRUE \in BOOLEAN
    BY <1>2, SMTT(30)
  <2>3. d = [df EXCEPT !.ids = [df.ids EXCEPT ![from] = to],
                       !.moves = IF df.cont THEN df.moves ELSE df.moves + 1,
                       !.cont = TRUE,
                       !.nf = df.nf + 1]
    BY <1>2 DEF DefragState
  <2> HIDE DEF d, from, to
  <2> QED  BY <1>2, <2>1, <2>2, <2>3 DEF DefragState
<1> HIDE DEF d, to, from
<1>7. /\ to # from
      /\ IsEmpty(cells'[from]) /\ ~ IsEmpty(cells'[to])
      /\ \A c \in Cells : CellOK(cells'[c])
  <2>1. \A c \in Cells : CellOK(cells[c])
    BY CellsOK DEF KVInv
  <2>2. to # from
    BY <1>2, <1>4 DEF from
  <2> QED  BY <1>1, <1>4, <1>5, <2>1, <2>2, NewCellIsEmpty
<1>8. Cardinality(NonEmpty(cells')) = Cardinality(NonEmpty(cells))
  <2> DEFINE rest == NonEmpty(cells) \ {from}
  <2>1. NonEmpty(cells) = rest \cup {from} /\ NonEmpty(cells') = rest \cup {to}
    <3>1. from \in NonEmpty(cells) /\ to \notin NonEmpty(cells)
        BY <1>1, <1>4 DEF NonEmpty
    <3>2. to \in NonEmpty(cells') /\ from \notin NonEmpty(cells')
        BY <1>4, <1>7 DEF NonEmpty
    <3>3. \A c : c # to /\ c # from => (c \in NonEmpty(cells') <=> c \in NonEmpty(cells))
        BY <1>5 DEF NonEmpty
    <3> QED  BY <3>1, <3>2, <3>3
  <2>2. from \notin rest /\ to \notin rest
    BY <1>4 DEF NonEmpty
  <2>3. IsFiniteSet(rest)
    BY NonEmptyCount, FS_Subset
  <2> HIDE DEF rest
  <2> QED  BY <2>1, <2>2, <2>3, FS_AddElement
<1>9. UsedMatchesCells' /\ PosOK'
    BY <1>1, <1>5, <1>7, <1>8, NewCells DEF KVInv, UsedMatchesCells
<1>10. head' \in 0 .. Size /\ rows' \in [Cells -> Rows] /\ used' = used
    BY <1>1, <1>2
<1>11. \A c \in Cells : ~ IsEmpty(cells'[c]) => c < df.nkv
  <2>1. to < df.nkv
    BY <1>2, <1>4 DEF from
  <2>2. \A c \in Cells : ~ IsEmpty(cells[c]) => c < df.nkv
    BY <1>2 DEF ScanOK
  <2> QED  BY <1>5, <1>7, <2>1, <2>2
<1>12. /\ \A c \in Cells : c < df.i0 + df.nf + 1 => ~ IsEmpty(cells'[c])
       /\ \A c \in Cells : c >= df.i0 + df.nh => c # to
  <2>1. ASSUME NEW c \in Cells, c < df.i0 + df.nf + 1 PROVE ~ IsEmpty(cells'[c])
    <3>1. c = to \/ c < to
        BY <1>a, <2>1 DEF to
    <3>2. c # from
        BY <1>2, <1>3, <2>1 DEF from
    <3>3. c < to => c < df.i0 \/ (df.i0 <= c /\ c < df.i0 + df.nf)
        BY <1>2 DEF to
    <3>4. c < to => ~ IsEmpty(cells[c])
        BY <1>2, <3>3 DEF ScanOK, MoveOK
    <3>5. c < to => c # to
        BY <1>2, <1>4
    <3> QED  BY <1>5, <1>7, <3>1, <3>2, <3>4, <3>5
  <2>2. ASSUME NEW c \in Cells, c >= df.i0 + df.nh PROVE c # to
    BY <1>2, <1>3, <2>2 DEF to
  <2> QED  BY <2>1, <2>2
<1>13. \A c \in Cells : c >= df.i0 + df.nh /\ ~ IsEmpty(cells'[c]) => d.ids[c] = df.nkv
  <2>1. ASSUME NEW c \in Cells, c >= df.i0 + df.nh, ~ IsEmpty(cells'[c])
        PROVE  d.ids[c] = df.nkv
    <3>1. c # to /\ c # from
        BY <1>7, <1>12, <2>1
    <3>2. ~ IsEmpty(cells[c])
        BY <1>5, <2>1, <3>1
    <3>3. d.ids[c] = df.ids[c]
        BY <1>2, <1>6, <3>1
    <3> QED  BY <1>2, <2>1, <3>2, <3>3 DEF MoveOK
  <2> QED  BY <2>1
<1>14. CASE d.nf < d.nh
  <2>1. df' = [d EXCEPT !.i1 = @ + 1] /\ pc' = "move" /\ do_defrag' = do_defrag
    BY <1>1, <1>14
  <2>2. d.i1 + 1 \in Nat
    BY <1>2, <1>6
  <2>3. /\ df' \in DefragState
        /\ df'.nused = df.nused /\ df'.nkv = df.nkv /\ df'.i0 = df.i0 /\ df'.ids = d.ids
        /\ df'.nh = df.nh /\ df'.nf = df.nf + 1 /\ df'.i1 = df.i1 + 1
    BY <1>6, <2>1, <2>2 DEF DefragState
  <2>4. TypeOK' /\ TodoOK' /\ NoDefragBug'
    BY <1>1, <1>2, <1>5, <1>9, <1>10, <2>1, <2>3, LoopStep DEF Phases
  <2>5. ScanOK'
    <3>1. \A c \in Cells : c < df.i0 => c < df.i0 + df.nf + 1
        BY <1>2
    <3> QED  BY <1>2, <1>10, <1>11, <1>12, <2>3, <3>1 DEF ScanOK
  <2>6. Left = Left' \cup {from} /\ from \notin Left'
    <3>1. Left' = {x \in Cells : x >= df.i1 + 1 /\ x < df.nkv /\ ~ IsEmpty(cells'[x])
                                 /\ d.ids[x] = df.nkv}
        BY <2>3 DEF Left
    <3>2. from \in Left
        BY <1>1, <1>2 DEF Left, from
    <3>3. from \notin Left'
        BY <1>7, <3>1
    <3>4. ASSUME NEW x \in Cells, x # from PROVE x \in Left <=> x \in Left'
      <4>1. x >= df.i1 + 1 <=> x >= df.i1
        BY <1>2, <3>4 DEF from
      <4>2. d.ids[x] = df.ids[x]
        BY <1>2, <1>6, <3>4
      <4>3. x >= df.i1 => x # to
        BY <1>2, <1>4 DEF from
      <4>4. x >= df.i1 => cells'[x] = cells[x]
        BY <1>5, <3>4, <4>3
      <4> QED  BY <3>1, <4>1, <4>2, <4>4 DEF Left
    <3>5. Left \subseteq Cells /\ Left' \subseteq Cells
        BY <3>1 DEF Left
    <3> QED  BY <3>2, <3>3, <3>4, <3>5
  <2>7. Cardinality(Left') = df.nh - (df.nf + 1)
    <3>1. Left' \subseteq Cells
        BY DEF Left
    <3>2. IsFiniteSet(Left') /\ Cardinality(Left') \in Nat
        BY <3>1, CellsFinite, FS_Subset, FS_CardinalityType
    <3>3. Cardinality(Left) = Cardinality(Left') + 1
        BY <2>6, <3>2, FS_AddElement
    <3>4. Cardinality(Left) = df.nh - df.nf
        BY <1>2 DEF MoveOK
    <3> QED  BY <1>a, <3>2, <3>3, <3>4
  <2>8. MoveOK'
    <3>1. df.nf + 1 < df.nh /\ df.i1 + 1 >= df.i0 + df.nh
        BY <1>2, <1>3, <1>6, <1>14
    <3>2. \A c \in Cells : df.i0 <= c /\ c < df.i0 + (df.nf + 1) => ~ IsEmpty(cells'[c])
        BY <1>2, <1>12
    <3>3. ASSUME NEW c \in Cells, df.i0 + (df.nf + 1) <= c, c < df.i0 + df.nh
          PROVE  IsEmpty(cells'[c])
      <4>1. c # to /\ c # from /\ df.i0 + df.nf <= c
        BY <1>3, <1>a, <3>3 DEF to, from
      <4>2. IsEmpty(cells[c])
        BY <1>2, <3>3, <4>1 DEF MoveOK
      <4> QED  BY <1>5, <4>1, <4>2
    <3> QED  BY <1>3, <1>13, <2>3, <2>7, <3>1, <3>2, <3>3 DEF MoveOK
  <2>9. DefragOK'
    BY <2>1, <2>5, <2>8 DEF DefragOK
  <2> QED  BY <1>9, <2>4, <2>9 DEF KVInv
<1>15. CASE ~ (d.nf < d.nh) /\ d.moves = MaxMoves
  <2>1. ScanDone(d) /\ d.nkv \in 0 .. Size
    BY <1>1, <1>2, <1>6, <1>15
  <2> QED  BY <1>1, <1>5, <1>6, <1>9, <1>10, <2>1, LoopsDone
<1>16. CASE ~ (d.nf < d.nh) /\ d.moves # MaxMoves
  <2>1. df' = [d EXCEPT !.i0 = @ + d.nh] /\ pc' = "scan" /\ do_defrag' = do_defrag
    BY <1>1, <1>16
  <2>2. d.i0 + d.nh \in Nat /\ df.nf + 1 = df.nh
    BY <1>2, <1>3, <1>6, <1>16, SMTT(30)
  <2>3. /\ df' \in DefragState
        /\ df'.nused = df.nused /\ df'.nkv = df.nkv /\ df'.i0 = df.i0 + df.nh
        /\ df'.ids = d.ids
    BY <1>6, <2>1, <2>2 DEF DefragState
  <2>4. TypeOK' /\ TodoOK' /\ NoDefragBug'
    BY <1>1, <1>2, <1>5, <1>9, <1>10, <2>1, <2>3, LoopStep DEF Phases
  <2>5. ScanOK'
    <3>1. df.i0 + df.nh \in 0 .. df.nused
        BY <1>2, <1>3, SMTT(30)
    <3>2. \A c \in Cells : c < df.i0 + df.nh => ~ IsEmpty(cells'[c])
      <4>1. df.i0 + df.nh = df.i0 + df.nf + 1
        BY <1>a, <2>2
      <4> QED  BY <1>12, <4>1
    <3> QED  BY <1>2, <1>10, <1>11, <2>3, <3>1, <3>2 DEF ScanOK
  <2>6. DefragOK'
    BY <1>13, <2>1, <2>3, <2>5 DEF DefragOK
  <2> QED  BY <1>9, <2>4, <2>6 DEF KVInv
<1> QED  BY <1>14, <1>15, <1>16

\* A run of moves has at least the move it starts with.
LEMMA RunLengthOK ==
    ASSUME NEW i \in Nat, df.nkv \in 0 .. Size, i < df.nkv, df.ids[i] \in Nat
    PROVE  RunLength(i) \in 1 .. df.nkv - i
<1> DEFINE K == {k \in 1 .. df.nkv - i : \A j \in 0 .. k - 1 : df.ids[i + j] = df.ids[i] + j}
<1>0. Size \in Nat /\ df.nkv \in Nat
    BY CellsAssumption
<1>1. 1 \in K
  <2>1. \A j \in 0 .. 1 - 1 : j = 0 /\ i + j = i
    OBVIOUS
  <2>2. df.ids[i] = df.ids[i] + 0
    OBVIOUS
  <2> QED  BY <1>0, <2>1, <2>2
<1>2. K \in SUBSET Int /\ K # {} /\ df.nkv - i \in Int /\ \A x \in K : x <= df.nkv - i
    BY <1>0, <1>1
<1> HIDE DEF K
<1>3. Max(K) \in K
    BY ONLY <1>2, MaxBounded
<1>4. RunLength(i) \in K
    BY <1>3 DEF RunLength, K
<1> QED  BY <1>4 DEF K

LEMMA CopyOK == KVInv /\ Copy => KVInv'
<1> SUFFICES ASSUME KVInv, Copy PROVE KVInv'
    OBVIOUS
<1> DEFINE i == df.i1
           to == df.ids[i]
           nm == RunLength(i)
<1>1. /\ pc = "copy"
      /\ UNCHANGED <<cells, head, used, n, has_shift, todo, slot, saved, ret>>
    BY DEF Copy
<1>2. /\ df \in DefragState /\ do_defrag \in BOOLEAN /\ rows \in [Cells -> Rows]
      /\ cells \in [Cells -> Cell] /\ head \in 0 .. Size /\ df.nkv \in 0 .. Size
    BY <1>1 DEF KVInv, TypeOK, DefragOK
<1>3. i \in Nat /\ df.ids \in [Cells -> Nat] /\ Size \in Nat /\ Cells = 0 .. Size - 1
    BY <1>2, CellsAssumption DEF DefragState, Cells
<1>4. UsedMatchesCells' /\ PosOK'
    BY <1>1, SameCells DEF KVInv
<1>5. CASE i >= df.nkv
  <2>1. pc' = "find" /\ do_defrag' = FALSE /\ df' = NoDefrag /\ rows' = rows
    BY <1>5 DEF Copy
  <2>2. TypeOK' /\ TodoOK' /\ NoDefragBug'
    BY <1>1, <1>2, <1>4, <2>1, LoopStep, NoDefragType DEF Phases
  <2>3. DefragOK'
    BY <2>1 DEF DefragOK
  <2> QED  BY <1>4, <2>2, <2>3 DEF KVInv
<1>6. CASE ~ (i >= df.nkv)
  <2>1. i \in Cells /\ df.ids[i] \in Nat /\ i < df.nkv
    BY <1>2, <1>3, <1>6
  <2>2. nm \in 1 .. df.nkv - i
    BY <1>2, <1>3, <2>1, RunLengthOK
  <2>3. /\ pc' = "copy" /\ do_defrag' = do_defrag
        /\ \/ df' = [df EXCEPT !.i1 = i + 1] /\ rows' = rows
           \/ /\ df' = [df EXCEPT !.i1 = i + nm]
              /\ rows' = [c \in Cells |->
                    IF c \in to .. to + nm - 1 THEN rows[i + (c - to)] ELSE rows[c]]
    BY <1>1, <1>6 DEF Copy
  <2> HIDE DEF nm, to
  <2>4. df.nkv \in Nat /\ df.nkv <= Size
    BY <1>2, <1>3
  <2>5. i + 1 \in Nat /\ i + nm \in Nat
    BY <1>3, <2>2, <2>4
  <2>6. df' \in DefragState /\ df'.nkv = df.nkv
    BY <1>2, <2>3, <2>5 DEF DefragState
  <2>7. rows' \in [Cells -> Rows]
    <3>1. ASSUME NEW c \in Cells, c \in to .. to + nm - 1 PROVE i + (c - to) \in Cells
      <4>1. to \in Nat /\ i \in Nat /\ nm \in Nat /\ i + nm <= df.nkv /\ c \in Int
        BY <1>3, <2>1, <2>2, <2>4 DEF to
      <4> HIDE DEF i
      <4>2. c - to \in 0 .. nm - 1
        BY <3>1, <4>1
      <4>3. i + (c - to) \in 0 .. Size - 1
        BY <1>3, <2>4, <4>1, <4>2
      <4> QED  BY <1>3, <4>3
    <3> QED  BY <1>2, <2>3, <3>1
  <2>8. TypeOK' /\ TodoOK' /\ NoDefragBug'
    BY <1>1, <1>2, <1>4, <2>3, <2>6, <2>7, LoopStep DEF Phases
  <2>9. DefragOK'
    BY <1>2, <2>3, <2>6 DEF DefragOK
  <2> QED  BY <1>4, <2>8, <2>9 DEF KVInv
<1> QED  BY <1>5, <1>6

-----------------------------------------------------------------------------
(* The theorems.                                                           *)

LEMMA StutterOK == KVInv /\ UNCHANGED vars => KVInv'
<1> SUFFICES ASSUME KVInv, UNCHANGED vars PROVE KVInv'
    OBVIOUS
<1>1. TypeOK' /\ UsedMatchesCells' /\ PosOK'
    BY DEF vars, KVInv, TypeOK, UsedMatchesCells, PosOK, NonEmpty
<1>2. TodoOK' /\ NoDefragBug'
    BY DEF vars, KVInv, TodoOK, NoDefragBug
<1>3. DefragOK'
    BY DEF vars, KVInv, DefragOK, ScanOK, MoveOK, Left
<1> QED  BY <1>1, <1>2, <1>3 DEF KVInv

LEMMA StepOK == KVInv /\ [Next]_vars => KVInv'
<1> SUFFICES ASSUME KVInv, [Next]_vars PROVE KVInv'
    OBVIOUS
<1>1. CASE Clear
    BY <1>1, ClearOK
<1>0. \A r \in Ranges : r[1] \in Int /\ r[2] \in Int
    BY CacheAssumption
<1>2. CASE \E s \in Seqs \cup {-1}, r \in Ranges : SeqRm(s, r[1], r[2])
    BY <1>0, <1>2, SeqRmOK
<1>3. CASE \E src, dst \in Seqs, r \in Ranges : SeqCp(src, dst, r[1], r[2])
    BY <1>3, SeqCpOK
<1>4. CASE \E s \in Seqs, r \in Ranges, delta \in Shifts : SeqAdd(s, r[1], r[2], delta)
    BY <1>0, <1>4, SeqAddOK
<1>5. CASE \E k \in 1 .. MaxBatch : \E who \in [1 .. k -> Seqs], toks \in [1 .. k -> Tokens] :
               DecodeBegin(Appended(who, toks))
    BY <1>5, DecodeBeginOK
<1>6. CASE DecodeStep
    BY <1>6, UpdateOK, FindCellsOK, NoCellsOK, ComputeOK, ScanStepOK, MoveGapOK,
       MoveCellOK, CopyOK DEF DecodeStep
<1>7. CASE UNCHANGED vars
    BY <1>7, StutterOK
<1>8. CASE Aborted
    BY <1>8, StutterOK DEF Aborted
<1> QED  BY <1>1, <1>2, <1>3, <1>4, <1>5, <1>6, <1>7, <1>8 DEF Next

\* The inductive invariant holds in every reachable state.
THEOREM KVInvariant == Spec => []KVInv
BY InitOK, StepOK, PTL DEF Spec

\* Type correctness: the head, the count and the extent given to the graph
\* stay within the cache, whatever is removed, shifted, added or packed.
THEOREM TypeCorrect == Spec => []TypeOK
<1>1. KVInv => TypeOK
    BY DEF KVInv
<1> QED  BY <1>1, KVInvariant, PTL

\* The increments and decrements of used in seq_rm, seq_add, find_slot and
\* clear keep it equal to the number of populated cells, for any cache size.
THEOREM UsedCountIsRight == Spec => []UsedMatchesCells
<1>1. KVInv => UsedMatchesCells
    BY DEF KVInv
<1> QED  BY <1>1, KVInvariant, PTL

\* The assertion of the defragmentation, nf == nh, never fails: used tells how
\* many cells there are to pack, so every hole finds its sources.
THEOREM DefragNeverFails == Spec => []NoDefragBug
<1>1. KVInv => NoDefragBug
    BY DEF KVInv
<1> QED  BY <1>1, KVInvariant, PTL

-----------------------------------------------------------------------------
(***************************************************************************)
(* The rows.  Between the phases of a llama_decode a row is not always     *)
(* where its cell is: RowsInv says where it is, at the source of a move    *)
(* that has been planned and not yet copied, or still to come, for a slot  *)
(* just found.  That the copies of build_defrag do not overwrite a row     *)
(* that is still to be copied rests on a count: what is moved lies at or   *)
(* above n_used, and is moved below it.  RunsInv follows the runs as they  *)
(* are counted.                                                            *)
(***************************************************************************)

RowsMatch == \A c \in Cells : ~ IsEmpty(cells[c]) => rows[c] = cells[c].tok

-----------------------------------------------------------------------------
(* A defragmentation.                                                      *)

\* The cells planned to move, downwards over n_used, to different cells.
MapOK ==
    /\ \A x \in Cells : Moved(x) =>
            /\ x < df.nkv /\ df.nused <= x
            /\ df.ids[x] \in Cells /\ df.ids[x] < df.nused
            /\ ~ IsEmpty(cells[df.ids[x]])
    /\ \A x, y \in Cells : Moved(x) /\ Moved(y) /\ df.ids[x] = df.ids[y] => x = y

\* The moves up to this cell have been copied.
Copied == IF pc = "copy" THEN df.i1 ELSE 0

\* Where the row of a cell is.
RowsPlanned ==
    /\ \A x \in Cells : Moved(x) =>
            rows[IF x < Copied THEN df.ids[x] ELSE x] = cells[df.ids[x]].tok
    /\ \A c \in Cells : ~ IsEmpty(cells[c]) /\ (\A x \in Cells : Moved(x) => df.ids[x] # c) =>
            rows[c] = cells[c].tok

\* No run has been counted as long as nothing has moved.
RunsCounted == df.moves = 0 => ~ df.cont /\ \A x \in Cells : ~ Moved(x)

-----------------------------------------------------------------------------
(* A slot that has been found and not been written.                        *)

SlotOK ==
    /\ Target = slot
    /\ \A i, j \in DOMAIN slot : slot[i] = slot[j] => i = j
    /\ \A i \in 1 .. Len(Ubatch) :
            i \in DOMAIN slot /\ cells[slot[i]].tok = Ubatch[i].tok
    /\ \A i \in DOMAIN slot : i > Len(Ubatch) => IsEmpty(cells[slot[i]])
    /\ \A c \in Cells : ~ IsEmpty(cells[c]) =>
            (\E i \in 1 .. Len(Ubatch) : slot[i] = c) \/ rows[c] = cells[c].tok

RowsInv ==
    /\ pc \in {"idle", "ubatch", "find"} => RowsMatch
    /\ pc \in {"scan", "move", "copy"} => MapOK /\ RowsPlanned
    /\ pc \in {"scan", "move"} => RunsCounted
    /\ pc = "move" => df.nused <= df.i1
    /\ pc = "compute" => SlotOK /\ VisibleToGraph

-----------------------------------------------------------------------------
LEMMA InitRows == Init => RowsInv
BY DEF Init, RowsInv, RowsMatch, NewCell, IsEmpty, Cells

\* The operations of the API empty cells and never fill one.
LEMMA IdleRows ==
    ASSUME RowsInv, pc = "idle", pc' \in {"idle", "ubatch"}, UNCHANGED rows,
           \A c \in Cells : ~ IsEmpty(cells'[c]) =>
               ~ IsEmpty(cells[c]) /\ cells'[c].tok = cells[c].tok
    PROVE  RowsInv'
<1>1. RowsMatch'
    BY DEF RowsInv, RowsMatch
<1> QED  BY <1>1 DEF RowsInv

LEMMA ClearRows == KVInv /\ RowsInv /\ Clear => RowsInv'
<1> SUFFICES ASSUME KVInv, RowsInv, Clear PROVE RowsInv'
    OBVIOUS
<1>1. pc' = "idle" /\ \A c \in Cells : cells'[c] = Freed(cells[c])
    BY DEF Clear
<1>2. \A c \in Cells : IsEmpty(cells'[c])
    BY <1>1, FreedIsEmpty DEF KVInv, TypeOK
<1> QED  BY <1>1, <1>2 DEF RowsInv, RowsMatch

LEMMA SeqRmRows ==
    ASSUME KVInv, RowsInv, NEW s \in Seqs \cup {-1}, NEW p0 \in Int, NEW p1 \in Int,
           SeqRm(s, p0, p1)
    PROVE  RowsInv'
<1>1. /\ pc = "idle" /\ pc' = "idle" /\ rows' = rows
      /\ \A c \in Cells : cells'[c] = Removed(cells[c], s, p0, p1)
    BY DEF SeqRm, RemoveSeq
<1>2. \A c \in Cells : CellOK(cells[c])
    BY CellsOK DEF KVInv
<1>3. ASSUME NEW c \in Cells, ~ IsEmpty(cells'[c])
      PROVE  ~ IsEmpty(cells[c]) /\ cells'[c].tok = cells[c].tok
  <2>1. ~ IsEmpty(cells[c]) /\ cells'[c].pos >= 0 /\ cells[c] \in Cell
    BY <1>1, <1>2, <1>3, RemovedCell DEF CellOK
  <2>2. ASSUME NEW left PROVE [cells[c] EXCEPT !.seq_id = left].tok = cells[c].tok
    BY <2>1 DEF Cell
  <2>3. cells'[c] # Freed(cells[c])
    BY <1>3, <2>1, FreedIsEmpty
  <2> QED  BY <1>1, <2>1, <2>2, <2>3 DEF Removed
<1> QED  BY <1>1, <1>3, IdleRows

LEMMA SeqCpRows ==
    ASSUME KVInv, RowsInv, NEW src \in Seqs, NEW dst \in Seqs, NEW p0, NEW p1,
           SeqCp(src, dst, p0, p1)
    PROVE  RowsInv'
<1>1. /\ pc = "idle" /\ pc' = "idle" /\ rows' = rows
      /\ \A c \in Cells : cells'[c] = IF src \in cells[c].seq_id /\ InRange(cells[c].pos, p0, p1)
                                      THEN [cells[c] EXCEPT !.seq_id = @ \cup {dst}]
                                      ELSE cells[c]
    BY DEF SeqCp
<1>2. ASSUME NEW c \in Cells, ~ IsEmpty(cells'[c])
      PROVE  ~ IsEmpty(cells[c]) /\ cells'[c].tok = cells[c].tok
  <2>1. cells[c] \in Cell
    BY DEF KVInv, TypeOK
  <2>2. CASE src \in cells[c].seq_id /\ InRange(cells[c].pos, p0, p1)
    <3>1. cells'[c] = [cells[c] EXCEPT !.seq_id = @ \cup {dst}]
        BY <1>1, <2>2
    <3> QED  BY <2>1, <2>2, <3>1 DEF Cell, IsEmpty
  <2>3. CASE ~ (src \in cells[c].seq_id /\ InRange(cells[c].pos, p0, p1))
    BY <1>1, <1>2, <2>3
  <2> QED  BY <2>2, <2>3
<1> QED  BY <1>1, <1>2, IdleRows

LEMMA SeqAddRows ==
    ASSUME KVInv, RowsInv, NEW s \in Seqs, NEW p0 \in Int, NEW p1 \in Int, NEW delta \in Int,
           SeqAdd(s, p0, p1, delta)
    PROVE  RowsInv'
<1>1. /\ pc = "idle" /\ pc' = "idle" /\ rows' = rows
      /\ \A c \in Cells : cells'[c] = Shifted(cells[c], s, p0, p1, delta)
    BY DEF SeqAdd
<1>2. ASSUME NEW c \in Cells, ~ IsEmpty(cells'[c])
      PROVE  ~ IsEmpty(cells[c]) /\ cells'[c].tok = cells[c].tok
  <2> DEFINE moved == [cells[c] EXCEPT !.pos = @ + delta, !.delta = @ + delta]
  <2>1. cells[c] \in Cell
    BY DEF KVInv, TypeOK
  <2>2. /\ moved.tok = cells[c].tok /\ moved.seq_id = cells[c].seq_id
        /\ moved.pos = cells[c].pos + delta /\ moved \in Cell
    <3>1. cells[c].pos + delta \in Int /\ cells[c].delta + delta \in Int
        BY <2>1 DEF Cell
    <3> QED  BY <2>1, <3>1 DEF Cell
  <2> HIDE DEF moved
  <2>3. cells'[c] \in {cells[c], moved, Freed(moved)}
    BY <1>1 DEF Shifted, moved
  <2>4. cells'[c] # Freed(moved)
    BY <1>2, <2>2, FreedIsEmpty
  <2> QED  BY <1>2, <2>2, <2>3, <2>4 DEF IsEmpty
<1> QED  BY <1>1, <1>2, IdleRows

LEMMA DecodeBeginRows == ASSUME RowsInv, NEW b, DecodeBegin(b) PROVE RowsInv'
<1>1. pc = "idle" /\ pc' = "ubatch" /\ rows' = rows /\ cells' = cells
    BY DEF DecodeBegin
<1> QED  BY <1>1, IdleRows

LEMMA UpdateRows == KVInv /\ RowsInv /\ Update => RowsInv'
<1> SUFFICES ASSUME KVInv, RowsInv, Update PROVE RowsInv'
    OBVIOUS
<1>1. pc = "ubatch" /\ UNCHANGED <<cells, rows>> /\ RowsMatch
    BY DEF Update, RowsInv
<1>2. CASE pc' \in {"find", "abort"}
    BY <1>1, <1>2 DEF RowsInv, RowsMatch
<1>3. CASE pc' = "scan"
  <2>1. df' = [NoDefrag EXCEPT !.nkv = CellMax(cells), !.nused = used,
                               !.ids = [c \in Cells |-> CellMax(cells)]]
    BY <1>3 DEF Update
  <2>2. /\ df'.nkv = CellMax(cells) /\ df'.moves = 0 /\ ~ df'.cont
        /\ \A c \in Cells : df'.ids[c] = CellMax(cells)
    BY <2>1 DEF NoDefrag
  <2>3. \A x \in Cells : ~ Moved(x)'
    BY <2>2 DEF Moved
  <2>4. MapOK' /\ RowsPlanned' /\ RunsCounted'
    BY <1>1, <2>2, <2>3 DEF MapOK, RowsPlanned, RunsCounted, RowsMatch
  <2> QED  BY <1>3, <2>4 DEF RowsInv
<1> QED  BY <1>2, <1>3 DEF Update

LEMMA NoCellsRows == RowsInv /\ NoCells => RowsInv'
BY DEF NoCells, RowsInv, RowsMatch

-----------------------------------------------------------------------------
(* A ubatch: the slot is found, then written.                              *)

\* The cells of a slot are free and different, the padding included.
LEMMA FoundFree ==
    ASSUME KVInv, pc = "find", NEW h \in 0 .. Size, NEW s \in Found(h, Len(Ubatch))
    PROVE  /\ \A i \in DOMAIN s : s[i] \in Cells /\ IsEmpty(cells[s[i]])
           /\ \A i, j \in DOMAIN s : s[i] = s[j] => i = j
           /\ ~ Scatter => s = [i \in DOMAIN s |-> s[1] + i - 1]
<1> DEFINE k == Len(Ubatch)
           free == FreeCells(cells)
<1>0. /\ Size \in Nat /\ NUbatch \in Nat /\ NUbatch > 0 /\ h \in Int
      /\ k \in 1 .. NUbatch
    BY CellsAssumption, CacheAssumption, UbatchOK
<1>1. free \in SUBSET Cells /\ \A c \in free : IsEmpty(cells[c])
  <2>1. ASSUME NEW c \in Cells PROVE cells[c].pos \in Int /\ (cells[c].pos >= 0 <=> ~ IsEmpty(cells[c]))
    BY DEF KVInv, TypeOK, UsedMatchesCells, Cell
  <2> QED  BY <2>1 DEF FreeCells
<1> HIDE DEF free
<1>2. CASE Scatter
  <2>1. s \in ScatterSlots(free, h, NUbatch)
    BY <1>2 DEF Found, free
  <2>2. /\ s \in [1 .. NUbatch -> free]
        /\ \A i, j \in 1 .. NUbatch : s[i] = s[j] => i = j
    BY <1>0, <1>1, <2>1, ScatterSlotsDistinct
  <2> QED  BY <1>1, <1>2, <2>2
<1>3. CASE ~ Scatter
  <2> DEFINE f == FirstFit(free, h, k)
  <2>1. Fits(free, k) # {} /\ s = [i \in 1 .. k |-> f + i - 1]
    BY <1>0, <1>3 DEF Found, free
  <2>2. f \in Fits(free, k)
    BY <1>0, <1>1, <2>1, FirstFitFits
  <2>3. f \in 0 .. Size - k /\ f .. (f + k - 1) \subseteq free
    BY <2>2 DEF Fits
  <2> HIDE DEF f
  <2>4. \A i \in 1 .. k : f + i - 1 \in free
    BY <1>0, <2>3
  <2>5. s \in [1 .. k -> free]
    BY <2>1, <2>4
  <2>6. \A i, j \in 1 .. k : s[i] = s[j] => i = j
    BY <1>0, <2>1, <2>3
  <2>7. s[1] = f
    BY <1>0, <2>1, <2>3
  <2> QED  BY <1>1, <2>1, <2>5, <2>6, <2>7
<1> QED  BY <1>2, <1>3

\* Padding never makes a number smaller.
LEMMA GgmlPadBound == ASSUME NEW x \in Nat PROVE GgmlPad(x) \in Nat /\ GgmlPad(x) >= x
<1> DEFINE y == x + Pad - 1
           q == y \div Pad
           r == y % Pad
<1>1. Pad \in Nat /\ Pad > 0 /\ y \in Nat
    BY CacheAssumption
<1>2. q \in Nat /\ r \in 0 .. Pad - 1 /\ y = Pad * q + r
    BY <1>1
<1>3. GgmlPad(x) = q * Pad
    BY DEF GgmlPad
<1>4. q * Pad = y - r /\ y = x + Pad - 1
    BY <1>1, <1>2
<1> HIDE DEF q, r, y
<1> QED  BY <1>1, <1>2, <1>3, <1>4

\* The graph is given every populated cell.
LEMMA FindCellsSees == KVInv /\ FindCells => VisibleToGraph'
<1> SUFFICES ASSUME KVInv, FindCells, NEW c \in Cells, ~ IsEmpty(cells'[c]) PROVE c < n'
    BY DEF VisibleToGraph, NonEmpty
<1> DEFINE m == CellMax(cells')
           x == IF EnableGE THEN m ELSE Max({Pad, GgmlPad(m)})
<1>1. n' = Min({Size, x})
    BY DEF FindCells
<1>2. KVInv'
    BY FindCellsOK
<1>3. cells' \in [Cells -> Cell] /\ cells'[c].pos >= 0
    BY <1>2 DEF KVInv, TypeOK, UsedMatchesCells
<1>4. m \in 0 .. Size /\ c < m
    BY <1>3, CellMaxBounds
<1> HIDE DEF m
<1>5. Size \in Nat /\ Pad \in Nat /\ c \in Int /\ m \in Nat
    BY <1>4, CellsAssumption, CacheAssumption DEF Cells
<1>6. Max({Pad, GgmlPad(m)}) \in Nat /\ Max({Pad, GgmlPad(m)}) >= m
  <2>1. GgmlPad(m) \in Nat /\ GgmlPad(m) >= m
    BY <1>5, GgmlPadBound
  <2> QED  BY <1>5, <2>1, MaxPair
<1>7. x \in Nat /\ x >= m
    BY <1>5, <1>6
<1> HIDE DEF x
<1>8. Min({Size, x}) = IF Size <= x THEN Size ELSE x
    BY <1>5, <1>7, MinPair
<1> QED  BY <1>1, <1>4, <1>5, <1>7, <1>8

LEMMA FindCellsRows == KVInv /\ RowsInv /\ FindCells => RowsInv'
<1> SUFFICES ASSUME KVInv, RowsInv, FindCells PROVE RowsInv'
    OBVIOUS
<1> DEFINE ub == Ubatch
           h  == SearchHead(Len(ub))
<1>1. PICK s \in Found(h, Len(ub)) :
        /\ cells' = Occupy(cells, s, ub)
        /\ head' = IF Scatter THEN s[NUbatch] + 1 ELSE s[1]
        /\ slot' = s
    BY DEF FindCells
<1>2. pc = "find" /\ pc' = "compute" /\ rows' = rows /\ todo' = todo
    BY DEF FindCells
<1>3. /\ Fitting(cells, s, ub)
      /\ DOMAIN s = IF Scatter THEN 1 .. NUbatch ELSE 1 .. Len(ub)
      /\ s \in Seq(Cells)
    BY <1>2, SearchHeadInCache, FoundFits
<1>4. /\ \A i \in DOMAIN s : s[i] \in Cells /\ IsEmpty(cells[s[i]])
      /\ \A i, j \in DOMAIN s : s[i] = s[j] => i = j
      /\ ~ Scatter => s = [i \in DOMAIN s |-> s[1] + i - 1]
    BY <1>2, SearchHeadInCache, FoundFree
<1>5. Len(ub) \in 1 .. NUbatch /\ NUbatch \in Nat /\ ub' = ub
    BY <1>2, UbatchOK, CacheAssumption DEF Ubatch
<1>6. RowsMatch /\ cells \in [Cells -> Cell]
    BY <1>2 DEF RowsInv, KVInv, TypeOK
<1>7. Target' = slot'
    BY <1>1, <1>4 DEF Target
<1>8. \A i \in 1 .. Len(ub) : i \in DOMAIN s
    BY <1>3, <1>5
<1>9. ASSUME NEW i \in 1 .. Len(ub) PROVE cells'[s[i]].tok = ub[i].tok
  <2> DEFINE c == s[i]
             j == CHOOSE j \in 1 .. Len(ub) : s[j] = c
  <2>1. j \in 1 .. Len(ub) /\ s[j] = c
    OBVIOUS
  <2>2. j = i
    BY <1>4, <1>8, <2>1
  <2>3. c \in Cells /\ cells[c] \in Cell
    BY <1>4, <1>6, <1>8
  <2>4. cells'[c] = [cells[c] EXCEPT !.pos = ub[j].pos,
                                     !.seq_id = @ \cup ub[j].seq_id,
                                     !.tok = ub[j].tok]
    BY <1>1, <2>1, <2>3 DEF Occupy
  <2> HIDE DEF c, j, ub
  <2> QED  BY <2>2, <2>3, <2>4 DEF Cell, c
<1>10. ASSUME NEW c \in Cells, ~ \E i \in 1 .. Len(ub) : s[i] = c PROVE cells'[c] = cells[c]
    BY <1>1, <1>10 DEF Occupy
<1>11. ASSUME NEW i \in DOMAIN s, i > Len(ub) PROVE IsEmpty(cells'[s[i]])
  <2>1. ~ \E j \in 1 .. Len(ub) : s[j] = s[i]
    <3>1. ASSUME NEW j \in 1 .. Len(ub), s[j] = s[i] PROVE FALSE
      <4>1. j = i
        BY <1>4, <1>8, <3>1
      <4> QED  BY <1>5, <1>11, <4>1
    <3> QED  BY <3>1
  <2> QED  BY <1>4, <1>10, <2>1
<1>12. ASSUME NEW c \in Cells, ~ IsEmpty(cells'[c])
       PROVE  (\E i \in 1 .. Len(ub) : s[i] = c) \/ rows[c] = cells'[c].tok
    BY <1>6, <1>10, <1>12 DEF RowsMatch
<1> HIDE DEF ub, h
<1>13. SlotOK'
  <2>1. Ubatch' = ub /\ slot' = s /\ rows' = rows
    BY <1>1, <1>2, <1>5 DEF ub
  <2> QED  BY <1>4, <1>7, <1>8, <1>9, <1>11, <1>12, <2>1 DEF SlotOK
<1>14. VisibleToGraph'
    BY FindCellsSees
<1> QED  BY <1>2, <1>13, <1>14 DEF RowsInv

\* The graph writes the rows of the slot and leaves the others.
LEMMA WrittenMatches ==
    ASSUME KVInv, RowsInv, pc = "compute", NEW c \in Cells, ~ IsEmpty(cells[c])
    PROVE  Written[c] = cells[c].tok
<1>1. SlotOK /\ Target = slot /\ slot \in Seq(Cells) /\ Len(Ubatch) \in Nat
    BY UbatchOK, CacheAssumption DEF RowsInv, SlotOK, KVInv, TypeOK
<1>2. CASE \E i \in DOMAIN slot : slot[i] = c
  <2> DEFINE i == CHOOSE i \in DOMAIN slot : slot[i] = c
  <2>1. i \in DOMAIN slot /\ slot[i] = c
    BY <1>2
  <2>2. Written[c] = IF i <= Len(Ubatch) THEN Ubatch[i].tok ELSE NoToken
    BY <1>1, <1>2 DEF Written
  <2> HIDE DEF i
  <2>3. i \in Nat /\ i >= 1
    BY <1>1, <2>1
  <2>4. i <= Len(Ubatch)
    BY <1>1, <2>1, <2>3 DEF SlotOK
  <2>5. i \in 1 .. Len(Ubatch)
    BY <1>1, <2>3, <2>4
  <2>6. cells[slot[i]].tok = Ubatch[i].tok
    BY <1>1, <2>5 DEF SlotOK
  <2> QED  BY <2>1, <2>2, <2>4, <2>6
<1>3. CASE ~ \E i \in DOMAIN slot : slot[i] = c
  <2>1. Written[c] = rows[c]
    BY <1>1, <1>3 DEF Written
  <2>2. ~ \E i \in 1 .. Len(Ubatch) : slot[i] = c
    BY <1>1, <1>3 DEF SlotOK
  <2> QED  BY <1>1, <2>1, <2>2 DEF SlotOK
<1> QED  BY <1>2, <1>3

LEMMA ComputeRows == KVInv /\ RowsInv /\ Compute => RowsInv'
<1> SUFFICES ASSUME KVInv, RowsInv, Compute PROVE RowsInv'
    OBVIOUS
<1>1. pc = "compute" /\ pc' \in {"idle", "ubatch"} /\ rows' = Written /\ cells' = cells
    BY DEF Compute
<1>2. RowsMatch'
    BY <1>1, WrittenMatches DEF RowsMatch
<1> QED  BY <1>1, <1>2 DEF RowsInv

-----------------------------------------------------------------------------
(* The loops of the defragmentation.                                       *)

\* What the two loops go over to when they end.
LEMMA LoopsDoneCases ==
    ASSUME NEW d \in DefragState, ScanDone(d)
    PROVE  \/ d.moves = 0 /\ pc' = "find"
           \/ /\ d.moves # 0 /\ pc' = "copy" /\ Copied' = 0
              /\ df'.ids = d.ids /\ df'.nkv = d.nkv /\ df'.nused = d.nused
<1>1. CASE d.moves = 0
    BY <1>1 DEF ScanDone
<1>2. CASE d.moves # 0
  <2>1. pc' = "copy" /\ df' = [d EXCEPT !.i1 = 0]
    BY <1>2 DEF ScanDone
  <2>2. df'.i1 = 0 /\ df'.ids = d.ids /\ df'.nkv = d.nkv /\ df'.nused = d.nused
    BY <2>1 DEF DefragState
  <2> QED  BY <1>2, <2>1, <2>2 DEF Copied
<1> QED  BY <1>1, <1>2

\* A step that plans no move and copies none.
LEMMA SamePlan ==
    ASSUME MapOK, RowsPlanned, Copied = 0, Copied' = 0, UNCHANGED <<cells, rows>>,
           df'.nkv = df.nkv, df'.nused = df.nused,
           \A x \in Cells : Moved(x)' <=> Moved(x),
           \A x \in Cells : Moved(x) => df'.ids[x] = df.ids[x]
    PROVE  MapOK' /\ RowsPlanned'
<1>1. MapOK'
    BY DEF MapOK
<1>2. \A x \in Cells : Moved(x)' =>
            rows'[IF x < Copied' THEN df'.ids[x] ELSE x] = cells'[df'.ids[x]].tok
    BY DEF RowsPlanned
<1>3. ASSUME NEW c \in Cells, ~ IsEmpty(cells'[c]), \A x \in Cells : Moved(x)' => df'.ids[x] # c
      PROVE  rows'[c] = cells'[c].tok
    BY <1>3 DEF RowsPlanned
<1> QED  BY <1>1, <1>2, <1>3 DEF RowsPlanned

\* As long as nothing has moved the rows are in place.
LEMMA NothingMoved ==
    ASSUME RowsPlanned, RunsCounted, df.moves = 0
    PROVE  RowsMatch
BY DEF RowsPlanned, RunsCounted, RowsMatch

\* The loops end without a further move.
LEMMA LoopsDoneRows ==
    ASSUME KVInv, MapOK, RowsPlanned, RunsCounted, Copied = 0, ScanDone(df), UNCHANGED <<cells, rows>>
    PROVE  RowsInv'
<1>1. df \in DefragState
    BY DEF KVInv, TypeOK
<1>2. CASE df.moves = 0 /\ pc' = "find"
    BY <1>2, NothingMoved DEF RowsMatch, RowsInv
<1>3. CASE /\ pc' = "copy" /\ Copied' = 0
           /\ df'.ids = df.ids /\ df'.nkv = df.nkv /\ df'.nused = df.nused
  <2>1. MapOK' /\ RowsPlanned'
    BY <1>3, SamePlan DEF Moved
  <2> QED  BY <1>3, <2>1 DEF RowsInv
<1> QED  BY <1>1, <1>2, <1>3, LoopsDoneCases

\* The nh-th source from the end lies above n_used: there are as many sources
\* as cells from the hole to n_used, and none in the hole.
LEMMA SourceAboveUsed ==
    ASSUME KVInv, pc = "scan", df.i0 < df.nused, IsEmpty(cells[df.i0]),
           NEW c \in Sources(df.i0),
           Cardinality({x \in Sources(df.i0) : x >= c}) = HoleSize(df.i0)
    PROVE  c >= df.nused
<1> DEFINE i == df.i0
           nh == HoleSize(i)
           src == Sources(i)
           up == {x \in src : x >= c}
           low == {x \in src : x < c}
           between == (i + nh) .. (c - 1)
<1>1. /\ i \in Nat /\ df.nused \in 0 .. Size /\ Size \in Nat /\ Cells = 0 .. Size - 1
    BY CellsAssumption DEF KVInv, TypeOK, DefragState, DefragOK, ScanOK, Cells
<1>2. src = {x \in NonEmpty(cells) : x >= i} /\ Cardinality(src) = df.nused - i
    BY EnoughSources
<1>3. /\ nh \in 1 .. df.nused - i
      /\ \A x \in Cells : i <= x /\ x < i + nh => IsEmpty(cells[x])
    BY <1>1, HoleSizeOK
<1>a. df.nused \in Nat /\ i + nh \in Int /\ nh \in Nat
    BY <1>1, <1>3
<1>0. c \in src /\ Cardinality(up) = nh
    OBVIOUS
<1> HIDE DEF i, nh, src
<1>4. src \subseteq Cells /\ IsFiniteSet(src)
  <2>1. src \subseteq Cells
    BY <1>2 DEF NonEmpty
  <2> QED  BY <2>1, CellsFinite, FS_Subset
<1>b. c \in Int
    BY <1>0, <1>1, <1>4
<1>5. low \subseteq between
  <2>1. ASSUME NEW x \in low PROVE x \in between
    <3>1. x \in Cells /\ ~ IsEmpty(cells[x]) /\ x >= i /\ x < c
        BY <1>2 DEF NonEmpty
    <3>2. x \in Int /\ ~ (x < i + nh)
        BY <1>1, <1>3, <3>1
    <3> QED  BY <1>a, <1>b, <3>1, <3>2
  <2> QED  BY <2>1
<1>6. /\ IsFiniteSet(between)
      /\ Cardinality(between) = IF i + nh > c - 1 THEN 0 ELSE (c - 1) - (i + nh) + 1
  <2>1. i + nh \in Int /\ c - 1 \in Int
    BY <1>a, <1>b
  <2> QED  BY ONLY <2>1, FS_Interval
<1>7. IsFiniteSet(low) /\ IsFiniteSet(up)
      /\ Cardinality(low) \in Nat /\ Cardinality(low) <= Cardinality(between)
  <2>1. IsFiniteSet(low) /\ Cardinality(low) <= Cardinality(between)
    BY <1>5, <1>6, FS_Subset
  <2>2. IsFiniteSet(up)
    BY <1>4, FS_Subset
  <2> QED  BY <2>1, <2>2, FS_CardinalityType
<1>8. Cardinality(src) = Cardinality(low) + Cardinality(up)
  <2>1. src = low \cup up
    <3>1. \A x \in src : x < c \/ x >= c
        BY <1>1, <1>4, <1>b
    <3> QED  BY <3>1
  <2>2. low \cap up = {}
    <3>1. \A x \in src : ~ (x < c /\ x >= c)
        BY <1>1, <1>4, <1>b
    <3> QED  BY <3>1
  <2>3. Cardinality(low \cup up) = Cardinality(low) + Cardinality(up) - Cardinality(low \cap up)
    BY <1>7, FS_Union
  <2>4. Cardinality(low \cap up) = 0
    BY <2>2, FS_EmptySet
  <2>5. Cardinality(up) \in Nat
    BY <1>7, FS_CardinalityType
  <2> HIDE DEF low, up
  <2> QED  BY <1>7, <2>1, <2>3, <2>4, <2>5
<1>9. Cardinality(low) = df.nused - i - nh
  <2> HIDE DEF low, up
  <2> QED  BY <1>0, <1>1, <1>2, <1>7, <1>8, <1>a
<1>10. CASE i + nh > c - 1
  <2>1. c \in Cells /\ ~ IsEmpty(cells[c]) /\ c >= i
    BY <1>0, <1>2 DEF NonEmpty
  <2>2. ~ (c < i + nh)
    BY <1>3, <2>1
  <2>3. c = i + nh /\ Cardinality(between) = 0
    BY <1>6, <1>10, <1>a, <1>b, <2>2
  <2> HIDE DEF low, between
  <2> QED  BY <1>1, <1>7, <1>9, <1>a, <1>b, <2>3
<1>11. CASE ~ (i + nh > c - 1)
  <2> HIDE DEF low, between
  <2> QED  BY <1>1, <1>6, <1>7, <1>9, <1>11, <1>a, <1>b
<1> QED  BY <1>10, <1>11

LEMMA ScanRows == KVInv /\ RowsInv /\ Scan => RowsInv'
<1> SUFFICES ASSUME KVInv, RowsInv, Scan PROVE RowsInv'
    OBVIOUS
<1> DEFINE i == df.i0
<1>1. pc = "scan" /\ UNCHANGED <<cells, rows>>
    BY DEF Scan
<1>2. MapOK /\ RowsPlanned /\ RunsCounted /\ Copied = 0
    BY <1>1 DEF RowsInv, Copied
<1>3. /\ df \in DefragState /\ df.ids \in [Cells -> Nat] /\ i \in Nat
      /\ df.nused \in 0 .. Size /\ Size \in Nat /\ Cells = 0 .. Size - 1
    BY <1>1, CellsAssumption DEF KVInv, TypeOK, DefragState, DefragOK, ScanOK, Cells
<1>4. CASE i >= df.nused
    BY <1>1, <1>2, <1>4, LoopsDoneRows DEF Scan
<1>5. CASE ~ (i >= df.nused) /\ ~ IsEmpty(cells[i])
  <2>1. df' = [df EXCEPT !.ids[i] = i, !.i0 = i + 1] /\ pc' = "scan"
    BY <1>1, <1>5 DEF Scan
  <2>2. i \in Cells
    BY <1>3, <1>5
  <2>3. /\ df'.nkv = df.nkv /\ df'.nused = df.nused /\ df'.moves = df.moves /\ df'.cont = df.cont
        /\ df'.ids = [df.ids EXCEPT ![i] = i]
    BY <1>3, <2>1 DEF DefragState
  <2>4. df.ids[i] = df.nkv
    BY <1>1, <1>3, <1>5, <2>2 DEF KVInv, DefragOK
  <2>5. df'.ids[i] = i /\ \A x \in Cells : x # i => df'.ids[x] = df.ids[x]
    BY <1>3, <2>2, <2>3
  <2>6. \A x \in Cells : Moved(x)' <=> Moved(x)
    BY <2>3, <2>4, <2>5 DEF Moved
  <2>7. \A x \in Cells : Moved(x) => df'.ids[x] = df.ids[x]
    BY <2>4, <2>5 DEF Moved
  <2>8. MapOK' /\ RowsPlanned'
    BY <1>1, <1>2, <2>1, <2>3, <2>6, <2>7, SamePlan DEF Copied
  <2>9. RunsCounted'
    BY <1>2, <2>3, <2>6 DEF RunsCounted
  <2> QED  BY <2>1, <2>8, <2>9 DEF RowsInv
<1>6. CASE ~ (i >= df.nused) /\ IsEmpty(cells[i])
  <2> DEFINE nh == HoleSize(i)
             src == Sources(i)
             c1 == CHOOSE c \in src : Cardinality({x \in src : x >= c}) = nh
  <2>1. i < df.nused
    BY <1>3, <1>6
  <2>2. Cardinality(src) = df.nused - i /\ nh \in 1 .. df.nused - i /\ src \in SUBSET Cells
    <3>1. Cardinality(src) = df.nused - i /\ src = {c \in NonEmpty(cells) : c >= i}
        BY <1>1, <1>6, <2>1, EnoughSources
    <3>2. nh \in 1 .. df.nused - i
        BY <1>3, <1>6, <2>1, HoleSizeOK
    <3> QED  BY <3>1, <3>2 DEF NonEmpty
  <2>3. nh \in Nat \ {0} /\ Cardinality(src) >= nh /\ ~ (Cardinality(src) < nh)
    <3> HIDE DEF nh, src
    <3> QED  BY <1>3, <2>2
  <2>4. df' = [df EXCEPT !.nh = nh, !.nf = 0, !.cont = FALSE, !.i1 = c1] /\ pc' = "move"
    BY <1>1, <1>6, <2>3 DEF Scan
  <2>5. c1 \in src /\ Cardinality({x \in src : x >= c1}) = nh
    <3>1. \E c \in src : Cardinality({x \in src : x >= c}) = nh
        BY <2>2, <2>3, MthFromEnd
    <3> QED  BY <3>1
  <2>6. c1 >= df.nused
    <3> HIDE DEF c1
    <3> QED  BY <1>1, <1>6, <2>1, <2>5, SourceAboveUsed
  <2> HIDE DEF c1, nh, src
  <2>7. /\ df'.nkv = df.nkv /\ df'.nused = df.nused /\ df'.moves = df.moves /\ ~ df'.cont
        /\ df'.ids = df.ids /\ df'.i1 = c1
    BY <1>3, <2>4 DEF DefragState
  <2>8. \A x \in Cells : Moved(x)' <=> Moved(x)
    BY <2>7 DEF Moved
  <2>9. MapOK' /\ RowsPlanned'
    BY <1>1, <1>2, <2>4, <2>7, <2>8, SamePlan DEF Copied
  <2>10. RunsCounted'
    BY <1>2, <2>7, <2>8 DEF RunsCounted
  <2>11. df'.nused <= df'.i1
    BY <2>6, <2>7
  <2> QED  BY <2>4, <2>9, <2>10, <2>11 DEF RowsInv
<1> QED  BY <1>4, <1>5, <1>6

LEMMA MoveGapRows == KVInv /\ RowsInv /\ MoveGap => RowsInv'
<1> SUFFICES ASSUME KVInv, RowsInv, MoveGap PROVE RowsInv'
    OBVIOUS
<1>1. pc = "move" /\ UNCHANGED <<cells, rows>>
    BY DEF MoveGap
<1>2. MapOK /\ RowsPlanned /\ RunsCounted /\ Copied = 0 /\ df.nused <= df.i1
    BY <1>1 DEF RowsInv, Copied
<1>3. df \in DefragState /\ df.i1 \in Nat /\ df.nused \in Nat
    BY <1>1, MoveState DEF DefragState
<1>4. CASE df.moves = MaxMoves
    BY <1>1, <1>2, <1>4, LoopsDoneRows DEF MoveGap
<1>5. CASE df.moves # MaxMoves
  <2>1. df' = EndRun(df) /\ pc' = "move"
    BY <1>1, <1>5 DEF MoveGap
  <2>2. /\ df'.nkv = df.nkv /\ df'.nused = df.nused /\ df'.moves = df.moves /\ ~ df'.cont
        /\ df'.ids = df.ids /\ df'.i1 = df.i1 + 1
    BY <1>3, <2>1 DEF DefragState, EndRun
  <2>3. \A x \in Cells : Moved(x)' <=> Moved(x)
    BY <2>2 DEF Moved
  <2>4. MapOK' /\ RowsPlanned'
    BY <1>1, <1>2, <2>1, <2>2, <2>3, SamePlan DEF Copied
  <2>5. RunsCounted'
    BY <1>2, <2>2, <2>3 DEF RunsCounted
  <2>6. df'.nused <= df'.i1
    BY <1>2, <1>3, <2>2
  <2> QED  BY <2>1, <2>4, <2>5, <2>6 DEF RowsInv
<1> QED  BY <1>4, <1>5

\* A cell moves below n_used, to a place that no other move goes to.
LEMMA NewMove ==
    ASSUME MapOK, RowsPlanned, Copied = 0, Copied' = 0, rows' = rows,
           df'.nkv = df.nkv, df'.nused = df.nused, df.ids \in [Cells -> Nat],
           cells \in [Cells -> Cell], df.nkv \in Nat, df.nused \in Nat,
           NEW from \in Cells, NEW to \in Cells, from \in Nat, to \in Nat,
           from < df.nkv, df.nused <= from, to < df.nused,
           ~ IsEmpty(cells[from]), IsEmpty(cells[to]), df.ids[from] = df.nkv,
           cells' = [cells EXCEPT ![to] = cells[from], ![from] = NewCell],
           df'.ids = [df.ids EXCEPT ![from] = to]
    PROVE  MapOK' /\ RowsPlanned'
<1>1. to # from /\ to # df.nkv
    OBVIOUS
<1>2. /\ cells'[to] = cells[from] /\ cells'[from] = NewCell
      /\ \A c \in Cells : c # to /\ c # from => cells'[c] = cells[c]
    BY <1>1
<1>3. df'.ids[from] = to /\ \A x \in Cells : x # from => df'.ids[x] = df.ids[x]
    OBVIOUS
<1>4. Moved(from)' /\ ~ Moved(from)
    BY <1>1, <1>3 DEF Moved
<1>5. \A x \in Cells : x # from => (Moved(x)' <=> Moved(x))
    BY <1>3 DEF Moved
<1>6. ASSUME NEW x \in Cells, Moved(x)
      PROVE  x # from /\ df.ids[x] # to /\ df.ids[x] # from /\ df.ids[x] \in Cells
  <2>1. ~ IsEmpty(cells[df.ids[x]]) /\ df.ids[x] \in Cells /\ df.ids[x] < df.nused /\ df.ids[x] \in Nat
    BY <1>6 DEF MapOK
  <2> QED  BY <1>4, <1>6, <2>1
<1>7. ~ IsEmpty(cells'[to])
    BY <1>2
<1>8. MapOK'
  <2>1. ASSUME NEW x \in Cells, Moved(x)'
        PROVE  /\ x < df'.nkv /\ df'.nused <= x
               /\ df'.ids[x] \in Cells /\ df'.ids[x] < df'.nused
               /\ ~ IsEmpty(cells'[df'.ids[x]])
    <3>1. CASE x = from
        BY <1>3, <1>7, <3>1
    <3>2. CASE x # from
      <4>1. Moved(x) /\ df'.ids[x] = df.ids[x]
        BY <1>3, <1>5, <2>1, <3>2
      <4>2. cells'[df.ids[x]] = cells[df.ids[x]]
        BY <1>2, <1>6, <4>1
      <4> QED  BY <4>1, <4>2 DEF MapOK
    <3> QED  BY <3>1, <3>2
  <2>2. ASSUME NEW x \in Cells, NEW y \in Cells, Moved(x)', Moved(y)', df'.ids[x] = df'.ids[y]
        PROVE  x = y
    <3>1. CASE x = from \/ y = from
        BY <1>3, <1>5, <1>6, <2>2, <3>1
    <3>2. CASE x # from /\ y # from
        BY <1>3, <1>5, <2>2, <3>2 DEF MapOK
    <3> QED  BY <3>1, <3>2
  <2> QED  BY <2>1, <2>2 DEF MapOK
<1>9. ASSUME NEW x \in Cells, Moved(x)'
      PROVE  rows'[IF x < Copied' THEN df'.ids[x] ELSE x] = cells'[df'.ids[x]].tok
  <2>0. x \in Int
    BY CellsAssumption DEF Cells
  <2>1. CASE x = from
    <3>1. \A y \in Cells : Moved(y) => df.ids[y] # from
        BY <1>6
    <3>2. rows[from] = cells[from].tok
        BY <3>1 DEF RowsPlanned
    <3> QED  BY <1>2, <1>3, <2>1, <3>2
  <2>2. CASE x # from
    <3>1. Moved(x) /\ df'.ids[x] = df.ids[x]
        BY <1>3, <1>5, <1>9, <2>2
    <3>2. cells'[df.ids[x]] = cells[df.ids[x]]
        BY <1>2, <1>6, <3>1
    <3> QED  BY <3>1, <3>2 DEF RowsPlanned
  <2> QED  BY <2>1, <2>2
<1>10. ASSUME NEW c \in Cells, ~ IsEmpty(cells'[c]), \A x \in Cells : Moved(x)' => df'.ids[x] # c
       PROVE  rows'[c] = cells'[c].tok
  <2>1. c # to
    BY <1>3, <1>4, <1>10
  <2>2. c # from
    BY <1>2, <1>10, NewCellIsEmpty
  <2>3. cells'[c] = cells[c]
    BY <1>2, <2>1, <2>2
  <2>4. \A x \in Cells : Moved(x) => df.ids[x] # c
    BY <1>3, <1>5, <1>6, <1>10
  <2> QED  BY <1>10, <2>3, <2>4 DEF RowsPlanned
<1> QED  BY <1>8, <1>9, <1>10 DEF RowsPlanned

LEMMA MoveCellRows == KVInv /\ RowsInv /\ MoveCell => RowsInv'
<1> SUFFICES ASSUME KVInv, RowsInv, MoveCell PROVE RowsInv'
    OBVIOUS
<1> DEFINE from == df.i1
           to   == df.i0 + df.nf
           d    == [df EXCEPT !.ids[from] = to,
                              !.moves = IF df.cont THEN @ ELSE @ + 1,
                              !.cont = TRUE,
                              !.nf = @ + 1]
<1>1. /\ pc = "move"
      /\ ~ IsEmpty(cells[from]) /\ df.ids[from] = df.nkv
      /\ cells' = [cells EXCEPT ![to] = cells[from], ![from] = NewCell]
      /\ rows' = rows
      /\ IF d.nf < d.nh
         THEN df' = [d EXCEPT !.i1 = @ + 1] /\ UNCHANGED <<pc, do_defrag>>
         ELSE IF d.moves = MaxMoves
         THEN ScanDone(d)
         ELSE pc' = "scan" /\ df' = [d EXCEPT !.i0 = @ + d.nh] /\ UNCHANGED do_defrag
    BY DEF MoveCell
<1>2. MapOK /\ RowsPlanned /\ RunsCounted /\ Copied = 0 /\ df.nused <= from
    BY <1>1 DEF RowsInv, Copied
<1>3. /\ df \in DefragState /\ cells \in [Cells -> Cell]
      /\ Size \in Nat /\ Cells = 0 .. Size - 1
      /\ df.nused = used /\ used \in 0 .. Size /\ df.nkv \in 0 .. Size /\ MoveOK
      /\ df.i0 \in Nat /\ df.nf \in Nat /\ df.nh \in Nat
      /\ df.moves \in Nat /\ df.cont \in BOOLEAN /\ df.ids \in [Cells -> Nat]
      /\ from \in Nat /\ from \in Cells /\ from < df.nkv
    BY <1>1, MoveState
<1>4. to \in Nat /\ to \in Cells /\ to < df.nused /\ df.i0 + df.nf <= to /\ to < df.i0 + df.nh
  <2>1. df.nf < df.nh /\ df.i0 + df.nh <= df.nused
    BY <1>3 DEF MoveOK
  <2> QED  BY <1>3, <2>1
<1>5. IsEmpty(cells[to])
    BY <1>3, <1>4 DEF MoveOK
<1>6. /\ d \in DefragState
      /\ d.i1 = from /\ d.nkv = df.nkv /\ d.nused = df.nused
      /\ d.ids = [df.ids EXCEPT ![from] = to]
      /\ d.moves = IF df.cont THEN df.moves ELSE df.moves + 1
  <2>1. [df.ids EXCEPT ![from] = to] \in [Cells -> Nat]
    BY <1>3, <1>4
  <2>2. df.nf + 1 \in Nat /\ (IF df.cont THEN df.moves ELSE df.moves + 1) \in Nat
        /\ TRUE \in BOOLEAN
    BY <1>3
  <2>3. d = [df EXCEPT !.ids = [df.ids EXCEPT ![from] = to],
                       !.moves = IF df.cont THEN df.moves ELSE df.moves + 1,
                       !.cont = TRUE,
                       !.nf = df.nf + 1]
    BY <1>3 DEF DefragState
  <2>4. df.i1 = from
    OBVIOUS
  <2> HIDE DEF d, from, to
  <2> QED  BY <1>3, <2>1, <2>2, <2>3, <2>4 DEF DefragState
<1> HIDE DEF d, from, to
<1>7. d.moves # 0
    BY <1>2, <1>3, <1>6 DEF RunsCounted
<1>8. /\ df'.ids = d.ids /\ df'.nkv = d.nkv /\ df'.nused = d.nused /\ Copied' = 0
      /\ \/ pc' = "scan" /\ df'.moves = d.moves
         \/ pc' = "move" /\ df'.moves = d.moves /\ df'.i1 = from + 1
         \/ pc' = "copy"
  <2>1. CASE df' = [d EXCEPT !.i1 = @ + 1] /\ pc' = "move"
    BY <1>6, <2>1 DEF DefragState, Copied
  <2>2. CASE df' = [d EXCEPT !.i0 = @ + d.nh] /\ pc' = "scan"
    BY <1>6, <2>2 DEF DefragState, Copied
  <2>3. CASE ScanDone(d)
    BY <1>6, <1>7, <2>3, LoopsDoneCases
  <2> QED  BY <1>1, <2>1, <2>2, <2>3
<1>9. MapOK' /\ RowsPlanned'
  <2>1. df.nkv \in Nat /\ df.nused \in Nat
    BY <1>3
  <2> QED  BY <1>1, <1>2, <1>3, <1>4, <1>5, <1>6, <1>8, <2>1, NewMove
<1>10. pc' \in {"scan", "move"} => RunsCounted'
    BY <1>7, <1>8 DEF RunsCounted
<1>11. pc' = "move" => df'.nused <= df'.i1
    BY <1>2, <1>3, <1>6, <1>8
<1> QED  BY <1>8, <1>9, <1>10, <1>11 DEF RowsInv

-----------------------------------------------------------------------------
(* The copies of build_defrag.                                             *)

\* The cells of a run all move, to consecutive cells below the run.
LEMMA RunMoves ==
    ASSUME MapOK, NEW i \in Cells, Moved(i), df.nkv \in 0 .. Size, i < df.nkv, df.nused \in Nat,
           df.ids \in [Cells -> Nat], NEW x \in Cells, i <= x, x < i + RunLength(i)
    PROVE  Moved(x) /\ df.ids[x] = df.ids[i] + (x - i)
<1> DEFINE K == {k \in 1 .. df.nkv - i : \A j \in 0 .. k - 1 : df.ids[i + j] = df.ids[i] + j}
           nm == RunLength(i)
<1>0. /\ Size \in Nat /\ df.nkv \in Nat /\ i \in Nat /\ x \in Nat /\ df.ids[i] \in Nat
      /\ df.nused <= i /\ df.ids[i] < df.nused
    BY CellsAssumption DEF Cells, MapOK
<1>1. 1 \in K
  <2>1. \A j \in 0 .. 1 - 1 : j = 0 /\ i + j = i
    BY <1>0
  <2>2. df.ids[i] = df.ids[i] + 0
    BY <1>0
  <2> QED  BY <1>0, <2>1, <2>2
<1>2. K \in SUBSET Int /\ K # {} /\ df.nkv - i \in Int /\ \A k \in K : k <= df.nkv - i
    BY <1>0, <1>1
<1> HIDE DEF K
<1>3. nm \in K
    BY ONLY <1>2, MaxBounded DEF RunLength, K
<1>4. /\ nm \in 1 .. df.nkv - i
      /\ \A j \in 0 .. nm - 1 : df.ids[i + j] = df.ids[i] + j
    BY <1>3 DEF K
<1> HIDE DEF nm
<1>5. x < i + nm
    BY DEF nm
<1>6. x - i \in 0 .. nm - 1 /\ i + (x - i) = x
    BY <1>0, <1>4, <1>5
<1>7. df.ids[x] = df.ids[i] + (x - i)
    BY <1>4, <1>6
<1>8. df.ids[x] < x /\ x < df.nkv
  <2>1. df.ids[i] < i
    BY <1>0 DEF MapOK
  <2> QED  BY <1>0, <1>4, <1>5, <1>7, <2>1
<1> QED  BY <1>0, <1>7, <1>8 DEF Moved

LEMMA CopyRows == KVInv /\ RowsInv /\ Copy => RowsInv'
<1> SUFFICES ASSUME KVInv, RowsInv, Copy PROVE RowsInv'
    OBVIOUS
<1> DEFINE i == df.i1
           to == df.ids[i]
           nm == RunLength(i)
<1>1. pc = "copy" /\ cells' = cells /\ MapOK /\ RowsPlanned /\ Copied = i
    BY DEF Copy, RowsInv, Copied
<1>2. /\ df \in DefragState /\ df.ids \in [Cells -> Nat] /\ i \in Nat /\ df.nused \in Nat
      /\ df.nkv \in 0 .. Size /\ Size \in Nat /\ Cells = 0 .. Size - 1
    BY <1>1, CellsAssumption DEF KVInv, TypeOK, DefragState, DefragOK, Cells
<1>3. CASE i >= df.nkv
  <2>1. pc' = "find" /\ rows' = rows
    BY <1>3 DEF Copy
  <2>2. ASSUME NEW c \in Cells, ~ IsEmpty(cells[c]) PROVE rows[c] = cells[c].tok
    <3>1. CASE \A x \in Cells : Moved(x) => df.ids[x] # c
        BY <1>1, <2>2, <3>1 DEF RowsPlanned
    <3>2. ASSUME NEW x \in Cells, Moved(x), df.ids[x] = c PROVE rows[c] = cells[c].tok
      <4>1. x < i
        BY <1>1, <1>2, <1>3, <3>2 DEF MapOK
      <4> QED  BY <1>1, <3>2, <4>1 DEF RowsPlanned
    <3> QED  BY <3>1, <3>2
  <2> QED  BY <1>1, <2>1, <2>2 DEF RowsInv, RowsMatch
<1>4. CASE ~ (i >= df.nkv) /\ df.ids[i] \in {i, df.nkv}
  <2>1. df' = [df EXCEPT !.i1 = i + 1] /\ rows' = rows /\ pc' = "copy"
    BY <1>1, <1>4 DEF Copy
  <2>2. df'.ids = df.ids /\ df'.nkv = df.nkv /\ df'.nused = df.nused /\ df'.i1 = i + 1
    BY <1>2, <2>1 DEF DefragState
  <2>3. Copied' = i + 1
    BY <2>1, <2>2 DEF Copied
  <2>4. \A x \in Cells : Moved(x)' <=> Moved(x)
    BY <2>2 DEF Moved
  <2>5. ASSUME NEW x \in Cells, Moved(x) PROVE x < i + 1 <=> x < i
    <3>1. x # i /\ x \in Nat
        BY <1>2, <1>4, <2>5 DEF Moved
    <3> HIDE DEF i
    <3> QED  BY <1>2, <3>1
  <2>6. MapOK'
    BY <1>1, <2>2, <2>4 DEF MapOK
  <2>7. \A x \in Cells : Moved(x)' =>
            rows'[IF x < Copied' THEN df'.ids[x] ELSE x] = cells'[df'.ids[x]].tok
    BY <1>1, <2>1, <2>2, <2>3, <2>4, <2>5 DEF RowsPlanned
  <2>8. \A c \in Cells : ~ IsEmpty(cells'[c]) /\ (\A x \in Cells : Moved(x)' => df'.ids[x] # c) =>
            rows'[c] = cells'[c].tok
    BY <1>1, <2>1, <2>2, <2>4 DEF RowsPlanned
  <2> QED  BY <2>1, <2>6, <2>7, <2>8 DEF RowsInv, RowsPlanned
<1>5. CASE ~ (i >= df.nkv) /\ ~ (df.ids[i] \in {i, df.nkv})
  <2>1. /\ df' = [df EXCEPT !.i1 = i + nm] /\ pc' = "copy"
        /\ rows' = [c \in Cells |->
                        IF c \in to .. to + nm - 1 THEN rows[i + (c - to)] ELSE rows[c]]
    BY <1>1, <1>5 DEF Copy
  <2>2. i \in Cells /\ i < df.nkv /\ Moved(i)
    BY <1>2, <1>5 DEF Moved
  <2>3. nm \in 1 .. df.nkv - i
    BY <1>2, <2>2, RunLengthOK
  <2>4. \A x \in Cells : i <= x /\ x < i + nm => Moved(x) /\ df.ids[x] = to + (x - i)
    BY <1>1, <1>2, <2>2, RunMoves
  <2>5. df.nused <= i /\ to \in Cells /\ to \in Nat
    BY <1>1, <1>2, <2>2 DEF MapOK
  <2> HIDE DEF i, to, nm
  <2>6. nm \in Nat /\ nm > 0 /\ i + nm <= df.nkv /\ i + nm <= Size /\ i \in Nat
    BY <1>2, <2>3
  <2>7. df'.ids = df.ids /\ df'.nkv = df.nkv /\ df'.nused = df.nused /\ df'.i1 = i + nm
    BY <1>2, <2>1, <2>6 DEF DefragState
  <2>8. Copied' = i + nm
    BY <2>1, <2>7 DEF Copied
  <2>9. \A x \in Cells : Moved(x)' <=> Moved(x)
    BY <2>7 DEF Moved
  <2>10. MapOK'
    BY <1>1, <2>7, <2>9 DEF MapOK
  \* The destinations of the run are destinations of moves of the run.
  <2>11. ASSUME NEW c \in Cells, c \in to .. to + nm - 1
         PROVE  /\ i + (c - to) \in Cells /\ Moved(i + (c - to))
                /\ df.ids[i + (c - to)] = c /\ c < df.nused
                /\ i <= i + (c - to) /\ i + (c - to) < i + nm
    <3> DEFINE y == i + (c - to)
    <3>1. y \in Cells /\ i <= y /\ y < i + nm /\ c \in Nat /\ to + (y - i) = c
        BY <1>2, <2>5, <2>6, <2>11
    <3> HIDE DEF y
    <3>2. Moved(y) /\ df.ids[y] = c
        BY <2>4, <3>1
    <3>3. c < df.nused
        BY <1>1, <3>1, <3>2 DEF MapOK
    <3> QED  BY <3>1, <3>2, <3>3 DEF y
  <2>12. ASSUME NEW x \in Cells, Moved(x)
         PROVE  rows'[IF x < i + nm THEN df.ids[x] ELSE x] = cells[df.ids[x]].tok
    <3>0. x \in Nat /\ df.ids[x] \in Cells /\ df.ids[x] \in Nat /\ df.nused <= x
        BY <1>1, <1>2, <2>12 DEF MapOK
    <3>1. CASE x < i
      <4>1. df.ids[x] \notin to .. to + nm - 1
        <5>1. ASSUME df.ids[x] \in to .. to + nm - 1 PROVE FALSE
          <6> DEFINE y == i + (df.ids[x] - to)
          <6>1. y \in Cells /\ Moved(y) /\ df.ids[y] = df.ids[x] /\ i <= y
            BY <2>11, <3>0, <5>1
          <6> HIDE DEF y
          <6>2. y = x
            BY <1>1, <2>12, <6>1 DEF MapOK
          <6> QED  BY <2>6, <3>0, <3>1, <6>1, <6>2
        <5> QED  BY <5>1
      <4>2. rows'[df.ids[x]] = rows[df.ids[x]]
        BY <2>1, <3>0, <4>1
      <4>3. x < i + nm
        BY <2>6, <3>0, <3>1
      <4> QED  BY <1>1, <2>12, <3>1, <4>2, <4>3 DEF RowsPlanned
    <3>2. CASE i <= x /\ x < i + nm
      <4>1. df.ids[x] = to + (x - i)
        BY <2>4, <3>2
      <4>2. df.ids[x] \in to .. to + nm - 1 /\ i + (df.ids[x] - to) = x
        BY <2>5, <2>6, <3>0, <3>2, <4>1
      <4>3. rows'[df.ids[x]] = rows[x]
        BY <2>1, <3>0, <4>2
      <4>4. ~ (x < i)
        BY <2>6, <3>0, <3>2
      <4> QED  BY <1>1, <2>12, <3>2, <4>3, <4>4 DEF RowsPlanned
    <3>3. CASE ~ (x < i + nm)
      <4>1. x \notin to .. to + nm - 1
        BY <1>2, <2>11, <3>0
      <4>2. rows'[x] = rows[x]
        BY <2>1, <4>1
      <4>3. ~ (x < i)
        BY <2>6, <3>0, <3>3
      <4> QED  BY <1>1, <2>12, <3>3, <4>2, <4>3 DEF RowsPlanned
    <3> QED  BY <2>6, <3>0, <3>1, <3>2, <3>3
  <2>13. ASSUME NEW c \in Cells, ~ IsEmpty(cells[c]), \A x \in Cells : Moved(x) => df.ids[x] # c
         PROVE  rows'[c] = cells[c].tok
    <3>1. c \notin to .. to + nm - 1
        BY <2>11, <2>13
    <3> QED  BY <1>1, <2>1, <2>13, <3>1 DEF RowsPlanned
  <2>14. \A x \in Cells : Moved(x)' =>
            rows'[IF x < Copied' THEN df'.ids[x] ELSE x] = cells'[df'.ids[x]].tok
    BY <1>1, <2>7, <2>8, <2>9, <2>12
  <2>15. \A c \in Cells : ~ IsEmpty(cells'[c]) /\ (\A x \in Cells : Moved(x)' => df'.ids[x] # c) =>
            rows'[c] = cells'[c].tok
    BY <1>1, <2>7, <2>9, <2>13
  <2> QED  BY <2>1, <2>10, <2>14, <2>15 DEF RowsInv, RowsPlanned
<1> QED  BY <1>3, <1>4, <1>5

-----------------------------------------------------------------------------
(* What llama_decode does to the contents of the cache.                    *)

\* The cells that hold token t of sequence s at position p.
Holders(cs, s, p, t) ==
    {c \in Cells : s \in cs[c].seq_id /\ cs[c].pos = p /\ cs[c].tok = t}

\* The tokens of a ubatch that are t of sequence s at position p.
Added(ub, s, p, t) ==
    {i \in DOMAIN ub : ub[i].pos = p /\ s \in ub[i].seq_id /\ ub[i].tok = t}

LEMMA HoldersFinite ==
    ASSUME NEW cs, NEW s, NEW p, NEW t
    PROVE  /\ IsFiniteSet(Holders(cs, s, p, t))
           /\ Cardinality(Holders(cs, s, p, t)) \in Nat
           /\ Holding(cs, s, p, t) = Cardinality(Holders(cs, s, p, t))
<1>1. Holders(cs, s, p, t) \subseteq Cells
    BY DEF Holders
<1>2. Holding(cs, s, p, t) = Cardinality(Holders(cs, s, p, t))
    BY DEF Holding, Holders
<1> QED  BY <1>1, <1>2, CellsFinite, FS_Subset, FS_CardinalityType

\* The fields of a cell that has been given the i-th token.
LEMMA FilledCell ==
    ASSUME NEW cs \in [Cells -> Cell], NEW sl, NEW ub, Fitting(cs, sl, ub), NEW i \in 1 .. Len(ub)
    PROVE  /\ sl[i] \in Cells
           /\ Occupy(cs, sl, ub)[sl[i]].pos = ub[i].pos
           /\ Occupy(cs, sl, ub)[sl[i]].seq_id = ub[i].seq_id
           /\ Occupy(cs, sl, ub)[sl[i]].tok = ub[i].tok
<1> DEFINE c == sl[i]
           j == CHOOSE j \in 1 .. Len(ub) : sl[j] = c
<1>1. j \in 1 .. Len(ub) /\ sl[j] = c
    OBVIOUS
<1>2. j = i
    BY <1>1 DEF Fitting
<1>3. c \in Cells /\ cs[c] \in Cell /\ cs[c].seq_id = {}
    BY DEF Fitting, IsEmpty
<1>4. Occupy(cs, sl, ub)[c] = [cs[c] EXCEPT !.pos = ub[j].pos,
                                            !.seq_id = @ \cup ub[j].seq_id,
                                            !.tok = ub[j].tok]
    BY <1>1, <1>3 DEF Occupy
<1> HIDE DEF c, j
<1>5. /\ Occupy(cs, sl, ub)[c].pos = ub[i].pos /\ Occupy(cs, sl, ub)[c].tok = ub[i].tok
      /\ Occupy(cs, sl, ub)[c].seq_id = {} \cup ub[i].seq_id
    BY <1>2, <1>3, <1>4 DEF Cell
<1> QED  BY <1>3, <1>5 DEF c

\* Occupy adds the tokens of the ubatch and loses nothing.
LEMMA OccupyAdds ==
    ASSUME NEW cs \in [Cells -> Cell], NEW sl, NEW ub, Fitting(cs, sl, ub),
           DOMAIN ub = 1 .. Len(ub), NEW s, NEW p, NEW t
    PROVE  Holding(Occupy(cs, sl, ub), s, p, t)
               = Holding(cs, s, p, t) + Cardinality(Added(ub, s, p, t))
<1> DEFINE H == Holders(cs, s, p, t)
           H2 == Holders(Occupy(cs, sl, ub), s, p, t)
           I == Added(ub, s, p, t)
           new == {sl[i] : i \in I}
<1>1. Len(ub) \in Nat /\ I \subseteq 1 .. Len(ub)
    BY DEF Fitting, Added
<1>2. \A i \in 1 .. Len(ub) : i \in I <=> ub[i].pos = p /\ s \in ub[i].seq_id /\ ub[i].tok = t
    BY DEF Added
<1>3. \A c : c \in H <=> c \in Cells /\ s \in cs[c].seq_id /\ cs[c].pos = p /\ cs[c].tok = t
    BY DEF Holders
<1>4. \A c : c \in H2 <=> /\ c \in Cells /\ s \in Occupy(cs, sl, ub)[c].seq_id
                          /\ Occupy(cs, sl, ub)[c].pos = p /\ Occupy(cs, sl, ub)[c].tok = t
    BY DEF Holders
<1> HIDE DEF H, H2, I
<1>5. IsFiniteSet(I) /\ Cardinality(I) \in Nat
  <2>1. IsFiniteSet(1 .. Len(ub))
    BY <1>1, FS_Interval
  <2> QED  BY <1>1, <2>1, FS_Subset, FS_CardinalityType
<1>6. IsFiniteSet(new) /\ Cardinality(new) = Cardinality(I)
  <2> DEFINE g == [i \in I |-> sl[i]]
  <2>1. \A i, j \in I : g[i] = g[j] => i = j
    BY <1>1 DEF Fitting
  <2>2. g \in [I -> new]
    OBVIOUS
  <2>3. g \in Injection(I, new)
    BY <2>1, <2>2 DEF Injection, IsInjective
  <2>4. g \in Surjection(I, new)
    BY <2>2 DEF Surjection
  <2>5. ExistsBijection(I, new)
    BY <2>3, <2>4 DEF Bijection, ExistsBijection
  <2> HIDE DEF g, new
  <2> QED  BY <1>5, <2>5, FS_Bijection
<1>7. H \cap new = {}
  <2>1. ASSUME NEW i \in I PROVE sl[i] \notin H
    BY <1>1, <1>3 DEF Fitting, IsEmpty
  <2> QED  BY <2>1
<1>8. H2 = H \cup new
  <2>1. ASSUME NEW c \in Cells, NEW i \in 1 .. Len(ub), sl[i] = c
        PROVE  c \in H2 <=> c \in H \cup new
    <3>1. c \in H2 <=> i \in I
        BY <1>2, <1>4, <2>1, FilledCell
    <3>2. c \notin H
        BY <1>3, <2>1 DEF Fitting, IsEmpty
    <3>3. c \in new <=> i \in I
      <4>1. ASSUME NEW j \in I, sl[j] = c PROVE i \in I
        BY <1>1, <2>1, <4>1 DEF Fitting
      <4> QED  BY <2>1, <4>1
    <3> QED  BY <3>1, <3>2, <3>3
  <2>2. ASSUME NEW c \in Cells, ~ \E i \in 1 .. Len(ub) : sl[i] = c
        PROVE  c \in H2 <=> c \in H \cup new
    <3>1. Occupy(cs, sl, ub)[c] = cs[c]
        BY <2>2 DEF Occupy
    <3>2. c \notin new
        BY <1>1, <2>2
    <3> QED  BY <1>3, <1>4, <3>1, <3>2
  <2>3. H2 \subseteq Cells /\ H \cup new \subseteq Cells
    BY <1>1, <1>3, <1>4 DEF Fitting
  <2> QED  BY <2>1, <2>2, <2>3
<1>9. IsFiniteSet(H) /\ Cardinality(H) \in Nat
    BY HoldersFinite DEF H
<1>10. Cardinality(H2) = Cardinality(H) + Cardinality(I)
  <2>1. Cardinality(H \cap new) = 0
    BY <1>7, FS_EmptySet
  <2>2. Cardinality(H \cup new) = Cardinality(H) + Cardinality(new) - Cardinality(H \cap new)
    BY <1>6, <1>9, FS_Union
  <2> QED  BY <1>5, <1>6, <1>8, <1>9, <2>1, <2>2
<1> QED  BY <1>10, HoldersFinite DEF H, H2, I

\* A cell that moves to an empty one takes what it holds with it.
LEMMA MoveKeeps ==
    ASSUME NEW cs \in [Cells -> Cell], NEW from \in Cells, NEW to \in Cells, from # to,
           IsEmpty(cs[to]), NEW cs2, cs2[to] = cs[from], cs2[from] = NewCell,
           \A c \in Cells : c # to /\ c # from => cs2[c] = cs[c],
           NEW s, NEW p, NEW t
    PROVE  Holding(cs2, s, p, t) = Holding(cs, s, p, t)
<1> DEFINE H == Holders(cs, s, p, t)
           H2 == Holders(cs2, s, p, t)
           rest == H \ {from}
<1>1. /\ cs2[to] = cs[from] /\ cs2[from] = NewCell
      /\ \A c \in Cells : c # to /\ c # from => cs2[c] = cs[c]
    OBVIOUS
<1>2. \A c : c \in H <=> c \in Cells /\ s \in cs[c].seq_id /\ cs[c].pos = p /\ cs[c].tok = t
    BY DEF Holders
<1>3. \A c : c \in H2 <=> c \in Cells /\ s \in cs2[c].seq_id /\ cs2[c].pos = p /\ cs2[c].tok = t
    BY DEF Holders
<1>4. /\ to \notin H /\ from \notin H2
      /\ to \in H2 <=> from \in H
      /\ \A c : c # to /\ c # from => (c \in H2 <=> c \in H)
    BY <1>1, <1>2, <1>3 DEF IsEmpty, NewCell
<1>5. IsFiniteSet(H) /\ IsFiniteSet(H2)
    BY HoldersFinite
<1> HIDE DEF H, H2
<1>6. Cardinality(H2) = Cardinality(H)
  <2>1. CASE from \notin H
    <3>1. H2 = H
        BY <1>4, <2>1
    <3> QED  BY <3>1
  <2>2. CASE from \in H
    <3>1. H = rest \cup {from} /\ H2 = rest \cup {to} /\ from \notin rest /\ to \notin rest
        BY <1>4, <2>2
    <3>2. IsFiniteSet(rest)
        BY <1>5, FS_Subset
    <3> HIDE DEF rest
    <3> QED  BY <3>1, <3>2, FS_AddElement
  <2> QED  BY <2>1, <2>2
<1> QED  BY <1>6, HoldersFinite DEF H, H2

\* The step DecodeOnlyAdds allows.
AddsOnly ==
    pc # "idle" =>
        \A s \in Seqs, p \in 0 .. MaxPos, t \in Tokens :
            Holding(cells', s, p, t) =
                Holding(cells, s, p, t)
                + IF pc = "find" /\ pc' = "compute"
                  THEN Cardinality({i \in DOMAIN Ubatch :
                           Ubatch[i].pos = p /\ s \in Ubatch[i].seq_id /\ Ubatch[i].tok = t})
                  ELSE 0

\* A step that leaves every count as it is.
LEMMA KeepsCounts ==
    ASSUME ~ (pc = "find" /\ pc' = "compute"),
           \A s, p, t : Holding(cells', s, p, t) = Holding(cells, s, p, t)
    PROVE  AddsOnly
<1>1. \A s, p, t : Holding(cells, s, p, t) \in Nat
    BY HoldersFinite
<1> QED  BY <1>1 DEF AddsOnly

LEMMA FindCellsAdds == KVInv /\ FindCells => AddsOnly
<1> SUFFICES ASSUME KVInv, FindCells, NEW s \in Seqs, NEW p \in 0 .. MaxPos, NEW t \in Tokens
             PROVE  Holding(cells', s, p, t) = Holding(cells, s, p, t)
                        + Cardinality(Added(Ubatch, s, p, t))
    BY DEF AddsOnly, Added, FindCells
<1>1. PICK sl \in Found(SearchHead(Len(Ubatch)), Len(Ubatch)) : cells' = Occupy(cells, sl, Ubatch)
    BY DEF FindCells
<1>2. Fitting(cells, sl, Ubatch)
    BY SearchHeadInCache, FoundFits DEF FindCells
<1>3. Ubatch \in Seq(Entry)
    BY UbatchOK DEF FindCells
<1>4. DOMAIN Ubatch = 1 .. Len(Ubatch)
    BY <1>3
<1>5. cells \in [Cells -> Cell]
    BY DEF KVInv, TypeOK
<1> QED  BY <1>1, <1>2, <1>4, <1>5, OccupyAdds

LEMMA MoveCellKeeps == KVInv /\ MoveCell => AddsOnly
<1> SUFFICES ASSUME KVInv, MoveCell PROVE AddsOnly
    OBVIOUS
<1> DEFINE from == df.i1
           to   == df.i0 + df.nf
<1>1. pc = "move" /\ cells' = [cells EXCEPT ![to] = cells[from], ![from] = NewCell]
    BY DEF MoveCell
<1>2. /\ cells \in [Cells -> Cell] /\ Size \in Nat /\ Cells = 0 .. Size - 1
      /\ df.nused = used /\ used \in 0 .. Size /\ MoveOK
      /\ df.i0 \in Nat /\ df.nf \in Nat /\ df.nh \in Nat /\ df.i1 \in Nat
      /\ from \in Cells
    BY <1>1, MoveState
<1>3. to \in Cells /\ to # from /\ df.i0 + df.nf <= to /\ to < df.i0 + df.nh
  <2>1. df.nf < df.nh /\ df.i0 + df.nh <= df.nused /\ df.i1 >= df.i0 + df.nh
    BY <1>2 DEF MoveOK
  <2> QED  BY <1>2, <2>1
<1>4. IsEmpty(cells[to])
    BY <1>2, <1>3 DEF MoveOK
<1> HIDE DEF from, to
<1>5. ASSUME NEW s, NEW p, NEW t PROVE Holding(cells', s, p, t) = Holding(cells, s, p, t)
  <2>1. cells \in [Cells -> Cell] /\ from \in Cells /\ to \in Cells /\ from # to
    BY <1>2, <1>3
  <2>2. /\ cells'[to] = cells[from] /\ cells'[from] = NewCell
        /\ \A c \in Cells : c # to /\ c # from => cells'[c] = cells[c]
    BY <1>1, <2>1
  <2> QED  BY ONLY <1>4, <2>1, <2>2, MoveKeeps
<1> QED  BY <1>1, <1>5, KeepsCounts

LEMMA AddsStep == KVInv /\ [Next]_vars => [AddsOnly]_vars
<1> SUFFICES ASSUME KVInv, Next PROVE AddsOnly
    OBVIOUS
<1>1. CASE pc = "idle"
    BY <1>1 DEF AddsOnly
<1>2. CASE pc # "idle"
  <2>1. DecodeStep \/ Aborted
    BY <1>2 DEF Next, Clear, SeqRm, SeqCp, SeqAdd, DecodeBegin
  <2>2. CASE Update \/ NoCells \/ Compute \/ Scan \/ MoveGap \/ Copy \/ Aborted
    <3>1. cells' = cells /\ ~ (pc = "find" /\ pc' = "compute")
        BY <2>2 DEF Update, NoCells, Compute, Scan, MoveGap, Copy, Aborted, vars
    <3> QED  BY <3>1, KeepsCounts
  <2> QED  BY <2>1, <2>2, FindCellsAdds, MoveCellKeeps DEF DecodeStep
<1> QED  BY <1>1, <1>2

-----------------------------------------------------------------------------
(* The runs of moves, and what is counted of them.                         *)

\* A run that goes on ends at the cell below i1 and at the last filled cell of
\* the hole; otherwise one more run may be counted.
RunsInv ==
    /\ pc \in {"scan", "move", "copy"} => Cardinality(Runs) <= df.moves /\ df.moves <= MaxMoves
    /\ pc = "scan" => df.moves < MaxMoves
    /\ pc = "move" => df.cont \/ df.moves < MaxMoves
    /\ pc = "move" /\ df.cont => /\ df.i1 > 0 /\ Moved(df.i1 - 1)
                                 /\ df.ids[df.i1 - 1] = df.i0 + df.nf - 1

\* What the loops have in common.
LEMMA LoopTypes ==
    ASSUME KVInv, pc \in {"scan", "move", "copy"}
    PROVE  /\ df \in DefragState /\ df.ids \in [Cells -> Nat] /\ df.moves \in Nat
           /\ df.nkv \in 0 .. Size /\ Size \in Nat /\ Cells = 0 .. Size - 1
           /\ df.i0 \in Nat /\ df.i1 \in Nat /\ df.nf \in Nat /\ MaxMoves \in Nat
BY CellsAssumption, CacheAssumption
   DEF KVInv, TypeOK, DefragState, DefragOK, ScanOK, Cells

LEMMA RunsFinite ==
    ASSUME NEW k \in Nat, df.nkv = k
    PROVE  IsFiniteSet(Runs) /\ Cardinality(Runs) \in Nat
<1>1. IsFiniteSet(0 .. k - 1)
  <2>1. 0 \in Int /\ k - 1 \in Int
    OBVIOUS
  <2> QED  BY ONLY <2>1, FS_Interval
<1>2. Runs \subseteq 0 .. k - 1
    BY DEF Runs
<1> QED  BY <1>1, <1>2, FS_Subset, FS_CardinalityType

\* The runs depend only on the moves.
LEMMA SameRuns ==
    ASSUME df.nkv \in 0 .. Size, df'.nkv = df.nkv,
           \A x \in Cells : Moved(x)' <=> Moved(x),
           \A x \in Cells : Moved(x) => df'.ids[x] = df.ids[x]
    PROVE  Runs' = Runs
<1>1. Size \in Nat /\ Cells = 0 .. Size - 1 /\ df.nkv \in Nat
    BY CellsAssumption DEF Cells
<1>2. ASSUME NEW i \in 0 .. df.nkv - 1
      PROVE  (Moved(i) /\ ~ (i > 0 /\ Moved(i - 1) /\ df.ids[i] = df.ids[i - 1] + 1))'
             <=> (Moved(i) /\ ~ (i > 0 /\ Moved(i - 1) /\ df.ids[i] = df.ids[i - 1] + 1))
  <2>1. i \in Cells /\ (i > 0 => i - 1 \in Cells)
    BY <1>1
  <2>2. Moved(i)' <=> Moved(i)
    BY <2>1
  <2>3. i > 0 => (Moved(i - 1)' <=> Moved(i - 1))
    BY <2>1
  <2>4. Moved(i) => df'.ids[i] = df.ids[i]
    BY <2>1
  <2>5. i > 0 /\ Moved(i - 1) => df'.ids[i - 1] = df.ids[i - 1]
    BY <2>1
  <2> QED  BY <2>2, <2>3, <2>4, <2>5
<1> QED  BY <1>2 DEF Runs

\* The loops end with the moves as they are.
LEMMA LoopsDoneRuns ==
    ASSUME KVInv, RunsInv, pc \in {"scan", "move"}, ScanDone(df)
    PROVE  RunsInv'
<1>1. CASE df.moves = 0 /\ pc' = "find"
    BY <1>1 DEF RunsInv
<1>2. CASE /\ df.moves # 0 /\ pc' = "copy" /\ Copied' = 0
           /\ df'.ids = df.ids /\ df'.nkv = df.nkv /\ df'.nused = df.nused
  <2>1. Runs' = Runs
    BY <1>2, LoopTypes, SameRuns DEF Moved
  <2>2. df'.moves = df.moves
    <3>1. df' = [df EXCEPT !.i1 = 0]
        BY <1>2 DEF ScanDone
    <3> QED  BY <3>1, LoopTypes DEF DefragState
  <2> QED  BY <1>2, <2>1, <2>2 DEF RunsInv
<1> QED  BY <1>1, <1>2, LoopTypes, LoopsDoneCases

LEMMA UpdateRuns == KVInv /\ Update => RunsInv'
<1> SUFFICES ASSUME KVInv, Update PROVE RunsInv'
    OBVIOUS
<1>1. CASE pc' \in {"find", "abort"}
    BY <1>1 DEF RunsInv
<1>2. CASE pc' = "scan"
  <2>1. df' = [NoDefrag EXCEPT !.nkv = CellMax(cells), !.nused = used,
                               !.ids = [c \in Cells |-> CellMax(cells)]]
    BY <1>2 DEF Update
  <2>2. df'.nkv = CellMax(cells) /\ df'.moves = 0 /\ \A c \in Cells : df'.ids[c] = CellMax(cells)
    BY <2>1 DEF NoDefrag
  <2>3. CellMax(cells) \in 0 .. Size /\ Size \in Nat /\ Cells = 0 .. Size - 1
    BY CellMaxBounds, CellsAssumption DEF KVInv, TypeOK, Cells
  <2>4. \A x \in 0 .. df'.nkv - 1 : ~ Moved(x)'
    <3>1. \A x \in 0 .. CellMax(cells) - 1 : x \in Cells
        BY <2>3
    <3> QED  BY <2>2, <3>1 DEF Moved
  <2>5. Runs' = {}
    BY <2>4 DEF Runs
  <2> QED  BY <1>2, <2>2, <2>5, FS_EmptySet, CacheAssumption DEF RunsInv
<1> QED  BY <1>1, <1>2 DEF Update

LEMMA ScanRuns == KVInv /\ RunsInv /\ Scan => RunsInv'
<1> SUFFICES ASSUME KVInv, RunsInv, Scan PROVE RunsInv'
    OBVIOUS
<1> DEFINE i == df.i0
<1>1. pc = "scan" /\ Cardinality(Runs) <= df.moves /\ df.moves < MaxMoves
    BY DEF Scan, RunsInv
<1>2. df \in DefragState /\ df.ids \in [Cells -> Nat] /\ i \in Nat /\ df.nkv \in 0 .. Size
    BY <1>1, LoopTypes
<1>3. CASE i >= df.nused
    BY <1>1, <1>3, LoopsDoneRuns DEF Scan
<1>4. CASE ~ (i >= df.nused) /\ ~ IsEmpty(cells[i])
  <2>1. df' = [df EXCEPT !.ids[i] = i, !.i0 = i + 1] /\ pc' = "scan"
    BY <1>1, <1>4 DEF Scan
  <2>2. i \in Cells /\ df.ids[i] = df.nkv
    <3>1. /\ df.nused \in 0 .. Size /\ Size \in Nat /\ Cells = 0 .. Size - 1
          /\ \A c \in Cells : c >= i /\ ~ IsEmpty(cells[c]) => df.ids[c] = df.nkv
        BY <1>1, CellsAssumption DEF KVInv, TypeOK, DefragOK, ScanOK, Cells
    <3> QED  BY <1>2, <1>4, <3>1
  <2>3. df'.nkv = df.nkv /\ df'.moves = df.moves /\ df'.ids = [df.ids EXCEPT ![i] = i]
    BY <1>2, <2>1 DEF DefragState
  <2>4. df'.ids[i] = i /\ \A x \in Cells : x # i => df'.ids[x] = df.ids[x]
    BY <1>2, <2>2, <2>3
  <2>5. \A x \in Cells : (Moved(x)' <=> Moved(x)) /\ (Moved(x) => df'.ids[x] = df.ids[x])
    BY <2>2, <2>3, <2>4 DEF Moved
  <2>6. Runs' = Runs
    BY <1>2, <2>3, <2>5, SameRuns
  <2>7. df.moves <= MaxMoves
    BY <1>1, LoopTypes
  <2> QED  BY <1>1, <2>1, <2>3, <2>6, <2>7 DEF RunsInv
<1>5. CASE ~ (i >= df.nused) /\ IsEmpty(cells[i])
  <2>1. CASE pc' = "abort"
    BY <2>1 DEF RunsInv
  <2>2. CASE pc' # "abort"
    <3>1. PICK nh, c1 : pc' = "move" /\ df' = [df EXCEPT !.nh = nh, !.nf = 0, !.cont = FALSE, !.i1 = c1]
        BY <1>5, <2>2 DEF Scan
    <3>2. df'.nkv = df.nkv /\ df'.moves = df.moves /\ df'.ids = df.ids /\ df'.cont = FALSE
        BY <1>2, <3>1 DEF DefragState
    <3>3. Runs' = Runs
        BY <1>2, <3>2, SameRuns DEF Moved
    <3>4. df.moves <= MaxMoves
        BY <1>1, LoopTypes
    <3> QED  BY <1>1, <3>1, <3>2, <3>3, <3>4 DEF RunsInv
  <2> QED  BY <2>1, <2>2
<1> QED  BY <1>3, <1>4, <1>5

LEMMA MoveGapRuns == KVInv /\ RunsInv /\ MoveGap => RunsInv'
<1> SUFFICES ASSUME KVInv, RunsInv, MoveGap PROVE RunsInv'
    OBVIOUS
<1>1. pc = "move" /\ Cardinality(Runs) <= df.moves /\ df.moves <= MaxMoves
    BY DEF MoveGap, RunsInv
<1>2. CASE df.moves = MaxMoves
    BY <1>1, <1>2, LoopsDoneRuns DEF MoveGap
<1>3. CASE df.moves # MaxMoves
  <2>1. df' = EndRun(df) /\ pc' = "move"
    BY <1>1, <1>3 DEF MoveGap
  <2>2. df'.nkv = df.nkv /\ df'.moves = df.moves /\ df'.ids = df.ids /\ df'.cont = FALSE
    BY <1>1, <2>1, LoopTypes DEF DefragState, EndRun
  <2>3. Runs' = Runs
    BY <1>1, <2>2, LoopTypes, SameRuns DEF Moved
  <2>4. df.moves < MaxMoves
    BY <1>1, <1>3, LoopTypes
  <2> QED  BY <1>1, <2>1, <2>2, <2>3, <2>4 DEF RunsInv
<1> QED  BY <1>2, <1>3

LEMMA MoveCellRuns == KVInv /\ RunsInv /\ MoveCell => RunsInv'
<1> SUFFICES ASSUME KVInv, RunsInv, MoveCell PROVE RunsInv'
    OBVIOUS
<1>0. PICK from, to : from = df.i1 /\ to = df.i0 + df.nf
    OBVIOUS
<1> DEFINE d    == [df EXCEPT !.ids[from] = to,
                              !.moves = IF df.cont THEN @ ELSE @ + 1,
                              !.cont = TRUE,
                              !.nf = @ + 1]
<1>1. /\ pc = "move" /\ df.ids[from] = df.nkv
      /\ \/ pc' = "move" /\ df' = [d EXCEPT !.i1 = @ + 1]
         \/ d.moves = MaxMoves /\ ScanDone(d)
         \/ d.moves # MaxMoves /\ pc' = "scan" /\ df' = [d EXCEPT !.i0 = @ + d.nh]
    BY <1>0 DEF MoveCell
<1>3. /\ df \in DefragState /\ Size \in Nat /\ Cells = 0 .. Size - 1
      /\ df.nused = used /\ used \in 0 .. Size /\ df.nkv \in 0 .. Size /\ MoveOK
      /\ df.i0 \in Nat /\ df.nf \in Nat /\ df.nh \in Nat
      /\ df.moves \in Nat /\ df.cont \in BOOLEAN /\ df.ids \in [Cells -> Nat]
      /\ from \in Nat /\ from \in Cells /\ from < df.nkv
    BY <1>0, <1>1, MoveState
<1>2. /\ Cardinality(Runs) <= df.moves /\ df.moves <= MaxMoves
      /\ df.cont \/ df.moves < MaxMoves
      /\ df.cont => /\ from > 0 /\ df.ids[from - 1] \notin {from - 1, df.nkv}
                    /\ df.ids[from - 1] = to - 1
  <2>1. df.cont => /\ df.i1 > 0 /\ df.ids[df.i1 - 1] \notin {df.i1 - 1, df.nkv}
                   /\ df.ids[df.i1 - 1] = df.i0 + df.nf - 1
    BY <1>1 DEF RunsInv, Moved
  <2>2. df.i1 = from /\ df.i0 + df.nf - 1 = to - 1
    <3>1. df.i0 \in Nat /\ df.nf \in Nat
        BY <1>3
    <3> QED  BY ONLY <1>0, <3>1
  <2>3. df.cont => /\ from > 0 /\ df.ids[from - 1] \notin {from - 1, df.nkv}
                   /\ df.ids[from - 1] = to - 1
    BY <2>1, <2>2
  <2>4. /\ Cardinality(Runs) <= df.moves /\ df.moves <= MaxMoves
        /\ df.cont \/ df.moves < MaxMoves
    BY <1>1 DEF RunsInv
  <2> QED  BY <2>3, <2>4
<1>4. to \in Nat /\ to < from /\ to # df.nkv /\ from + 1 > 0 /\ (from + 1) - 1 = from
  <2>1. df.nf < df.nh /\ df.i0 + df.nh <= df.nused /\ from >= df.i0 + df.nh
    BY <1>0, <1>3 DEF MoveOK
  <2>2. /\ df.i0 \in Nat /\ df.nf \in Nat /\ df.nh \in Nat /\ from \in Nat
        /\ df.nkv \in Nat /\ from < df.nkv /\ to = df.i0 + df.nf
    BY <1>0, <1>3
  <2> QED  BY ONLY <2>1, <2>2
<1>5. MaxMoves \in Nat /\ Cardinality(Runs) \in Nat /\ IsFiniteSet(Runs) /\ df.nkv \in Nat
  <2>1. df.nkv \in Nat
    BY <1>3
  <2> QED  BY <2>1, RunsFinite, CacheAssumption
<1>6. /\ d \in DefragState
      /\ d.i0 = df.i0 /\ d.nf = df.nf + 1
      /\ d.i1 = from /\ d.nkv = df.nkv /\ d.cont = TRUE
      /\ d.ids = [df.ids EXCEPT ![from] = to]
      /\ d.moves = IF df.cont THEN df.moves ELSE df.moves + 1
  <2>1. [df.ids EXCEPT ![from] = to] \in [Cells -> Nat]
    BY <1>3, <1>4
  <2>2. df.nf + 1 \in Nat /\ (IF df.cont THEN df.moves ELSE df.moves + 1) \in Nat
        /\ TRUE \in BOOLEAN
    BY <1>3, SMTT(30)
  <2>3. d = [df EXCEPT !.ids = [df.ids EXCEPT ![from] = to],
                       !.moves = IF df.cont THEN df.moves ELSE df.moves + 1,
                       !.cont = TRUE,
                       !.nf = df.nf + 1]
    BY <1>3 DEF DefragState
  <2>4. df.i1 = from
    BY <1>0
  <2> HIDE DEF d
  <2> QED  BY <1>3, <2>1, <2>2, <2>3, <2>4 DEF DefragState
<1> HIDE DEF d
<1>7. /\ df'.ids = d.ids /\ df'.nkv = df.nkv
      /\ pc' \in {"scan", "move", "copy"} => df'.moves = d.moves
      /\ pc' \in {"scan", "move", "copy", "find"}
      /\ pc' = "scan" => d.moves # MaxMoves
      /\ pc' = "move" => df'.cont /\ df'.i1 = from + 1 /\ df'.i0 = df.i0 /\ df'.nf = df.nf + 1
      \/ pc' = "find"
  <2>1. CASE df' = [d EXCEPT !.i1 = @ + 1] /\ pc' = "move"
    BY <1>6, <2>1 DEF DefragState
  <2>2. CASE df' = [d EXCEPT !.i0 = @ + d.nh] /\ pc' = "scan" /\ d.moves # MaxMoves
    BY <1>6, <2>2 DEF DefragState
  <2>3. CASE ScanDone(d)
    <3>1. CASE pc' = "copy" /\ df' = [d EXCEPT !.i1 = 0]
        BY <1>6, <3>1 DEF DefragState
    <3> QED  BY <2>3, <3>1 DEF ScanDone
  <2> QED  BY <1>1, <2>1, <2>2, <2>3
<1>8. CASE pc' = "find"
    BY <1>8 DEF RunsInv
<1>9. CASE pc' # "find"
  <2>1. df'.ids[from] = to /\ \A x \in Cells : x # from => df'.ids[x] = df.ids[x]
    BY <1>3, <1>6, <1>7, <1>9
  <2>2. Moved(from)' /\ ~ Moved(from)
    BY <1>1, <1>4, <1>7, <1>9, <2>1 DEF Moved
  <2>3. \A x \in Cells : x # from => (Moved(x)' <=> Moved(x))
    BY <1>7, <1>9, <2>1 DEF Moved
  \* Only the cell that moves can begin a run that was none before.
  <2>4. Runs' \subseteq Runs \cup {from}
    <3>1. ASSUME NEW i \in 0 .. df.nkv - 1, i # from,
                 Moved(i)', ~ (i > 0 /\ Moved(i - 1)' /\ df'.ids[i] = df'.ids[i - 1] + 1)
          PROVE  i \in Runs
      <4>1. i \in Cells /\ (i > 0 => i - 1 \in Cells)
        BY <1>3
      <4>2. Moved(i) /\ df'.ids[i] = df.ids[i]
        BY <2>1, <2>3, <3>1, <4>1
      <4>3. ASSUME i > 0, Moved(i - 1), df.ids[i] = df.ids[i - 1] + 1 PROVE FALSE
        <5>1. i - 1 # from /\ i - 1 \in Cells
            BY <2>2, <4>1, <4>3
        <5>2. Moved(i - 1)' /\ df'.ids[i - 1] = df.ids[i - 1]
            BY <2>1, <2>3, <4>3, <5>1
        <5> QED  BY <3>1, <4>2, <4>3, <5>2
      <4> QED  BY <3>1, <4>2, <4>3 DEF Runs
    <3>2. Runs' = {i \in 0 .. df.nkv - 1 :
                      Moved(i)' /\ ~ (i > 0 /\ Moved(i - 1)' /\ df'.ids[i] = df'.ids[i - 1] + 1)}
        BY <1>7, <1>9 DEF Runs
    <3> QED  BY <3>1, <3>2
  <2>5. Cardinality(Runs') <= d.moves /\ d.moves <= MaxMoves
    <3>1. CASE df.cont
      <4>1. from > 0 /\ Moved(from - 1) /\ df.ids[from - 1] = to - 1
        BY <1>2, <3>1 DEF Moved
      <4>2. from - 1 \in Cells /\ from - 1 # from
        BY <1>3, <4>1
      <4>3. Moved(from - 1)' /\ df'.ids[from - 1] = to - 1
        BY <2>1, <2>3, <4>1, <4>2
      <4>4. df'.ids[from] = df'.ids[from - 1] + 1
        <5>1. to = (to - 1) + 1
            BY <1>4
        <5> QED  BY <2>1, <4>3, <5>1
      <4>5. from \notin Runs'
        BY <4>1, <4>3, <4>4 DEF Runs
      <4>6. Runs' \subseteq Runs
        BY <2>4, <4>5
      <4>7. Cardinality(Runs') <= Cardinality(Runs) /\ Cardinality(Runs') \in Nat
        BY <1>5, <4>6, FS_Subset, FS_CardinalityType
      <4>8. d.moves = df.moves
        BY <1>6, <3>1
      <4> QED  BY <1>2, <1>3, <1>5, <4>7, <4>8
    <3>2. CASE ~ df.cont
      <4>1. from \notin Runs
        BY <2>2 DEF Runs
      <4>2. Cardinality(Runs \cup {from}) = Cardinality(Runs) + 1 /\ IsFiniteSet(Runs \cup {from})
        BY <1>5, <4>1, FS_AddElement
      <4>3. Cardinality(Runs') <= Cardinality(Runs \cup {from}) /\ Cardinality(Runs') \in Nat
        BY <2>4, <4>2, FS_Subset, FS_CardinalityType
      <4>4. d.moves = df.moves + 1 /\ df.moves < MaxMoves
        BY <1>2, <1>6, <3>2
      <4> QED  BY <1>2, <1>3, <1>5, <4>2, <4>3, <4>4, SMTT(30)
    <3> QED  BY <3>1, <3>2
  <2>6. pc' = "scan" => df'.moves < MaxMoves
    <3>1. d.moves \in Nat
        BY <1>3, <1>6
    <3> QED  BY <1>5, <1>7, <2>5, <3>1
  <2>7. pc' = "move" => /\ df'.i1 > 0 /\ Moved(df.i1 - 1)'
                        /\ df'.ids[df'.i1 - 1] = df'.i0 + df'.nf - 1
    <3>1. ASSUME pc' = "move" PROVE df'.i1 > 0 /\ df'.i1 - 1 = from /\ df'.i0 + df'.nf - 1 = to
      <4>1. df'.i1 = from + 1 /\ df'.i0 = df.i0 /\ df'.nf = df.nf + 1
        BY <1>7, <1>9, <3>1
      <4> QED  BY <1>0, <1>3, <1>4, <4>1
    <3>2. df'.ids[from] \notin {from, df'.nkv}
        BY <2>2 DEF Moved
    <3> QED  BY <2>1, <3>1, <3>2 DEF Moved
  <2> QED  BY <1>7, <1>9, <2>5, <2>6, <2>7 DEF RunsInv
<1> QED  BY <1>8, <1>9

LEMMA CopyRuns == KVInv /\ RunsInv /\ Copy => RunsInv'
<1> SUFFICES ASSUME KVInv, RunsInv, Copy PROVE RunsInv'
    OBVIOUS
<1>1. pc = "copy" /\ Cardinality(Runs) <= df.moves /\ df.moves <= MaxMoves
    BY DEF Copy, RunsInv
<1>2. CASE pc' = "find"
    BY <1>2 DEF RunsInv
<1>3. CASE pc' # "find"
  <2>1. PICK x : pc' = "copy" /\ df' = [df EXCEPT !.i1 = x]
    BY <1>1, <1>3 DEF Copy
  <2>2. df'.nkv = df.nkv /\ df'.moves = df.moves /\ df'.ids = df.ids
    BY <1>1, <2>1, LoopTypes DEF DefragState
  <2>3. Runs' = Runs
    BY <1>1, <2>2, LoopTypes, SameRuns DEF Moved
  <2> QED  BY <1>1, <2>1, <2>2, <2>3 DEF RunsInv
<1> QED  BY <1>2, <1>3

LEMMA RunsStep == KVInv /\ RunsInv /\ [Next]_vars => RunsInv'
<1> SUFFICES ASSUME KVInv, RunsInv, [Next]_vars PROVE RunsInv'
    OBVIOUS
<1>1. CASE pc' \notin {"scan", "move", "copy"}
    BY <1>1 DEF RunsInv
<1>2. CASE pc' \in {"scan", "move", "copy"}
  <2>1. DecodeStep \/ UNCHANGED vars
    BY <1>2 DEF Next, Clear, SeqRm, SeqCp, SeqAdd, DecodeBegin, Aborted
  <2>2. ~ FindCells /\ ~ NoCells /\ ~ Compute
    BY <1>2 DEF FindCells, NoCells, Compute
  <2>3. CASE UNCHANGED vars
    BY <2>3 DEF vars, RunsInv, Runs, Moved
  <2> QED  BY <2>1, <2>2, <2>3, UpdateRuns, ScanRuns, MoveGapRuns, MoveCellRuns, CopyRuns
           DEF DecodeStep
<1> QED  BY <1>1, <1>2

-----------------------------------------------------------------------------
(* The theorems.                                                           *)

LEMMA StutterRows == RowsInv /\ UNCHANGED vars => RowsInv'
<1> SUFFICES ASSUME RowsInv, UNCHANGED vars PROVE RowsInv'
    OBVIOUS
<1>1. UNCHANGED <<pc, cells, rows, df, slot, n, todo, head>>
    BY DEF vars
<1>2. (RowsMatch => RowsMatch') /\ (RunsCounted => RunsCounted')
    BY <1>1 DEF RowsMatch, RunsCounted, Moved
<1>3. (MapOK => MapOK') /\ (RowsPlanned => RowsPlanned')
    BY <1>1 DEF MapOK, RowsPlanned, Moved, Copied
<1>4. (SlotOK => SlotOK') /\ (VisibleToGraph => VisibleToGraph')
    BY <1>1 DEF SlotOK, Target, Ubatch, VisibleToGraph, NonEmpty
<1> QED  BY <1>1, <1>2, <1>3, <1>4 DEF RowsInv

LEMMA RowsStep == KVInv /\ RowsInv /\ [Next]_vars => RowsInv'
<1> SUFFICES ASSUME KVInv, RowsInv, [Next]_vars PROVE RowsInv'
    OBVIOUS
<1>0. /\ \A r \in Ranges : r[1] \in Int /\ r[2] \in Int
      /\ \A delta \in Shifts : delta \in Int
    BY CacheAssumption
<1>1. CASE Clear
    BY <1>1, ClearRows
<1>2. CASE \E s \in Seqs \cup {-1}, r \in Ranges : SeqRm(s, r[1], r[2])
    BY <1>0, <1>2, SeqRmRows
<1>3. CASE \E src, dst \in Seqs, r \in Ranges : SeqCp(src, dst, r[1], r[2])
    BY <1>3, SeqCpRows
<1>4. CASE \E s \in Seqs, r \in Ranges, delta \in Shifts : SeqAdd(s, r[1], r[2], delta)
    BY <1>0, <1>4, SeqAddRows
<1>5. CASE \E k \in 1 .. MaxBatch : \E who \in [1 .. k -> Seqs], toks \in [1 .. k -> Tokens] :
               DecodeBegin(Appended(who, toks))
    BY <1>5, DecodeBeginRows
<1>6. CASE DecodeStep
    BY <1>6, UpdateRows, FindCellsRows, NoCellsRows, ComputeRows, ScanRows, MoveGapRows,
       MoveCellRows, CopyRows DEF DecodeStep
<1>7. CASE UNCHANGED vars
    BY <1>7, StutterRows
<1>8. CASE Aborted
    BY <1>8, StutterRows DEF Aborted
<1> QED  BY <1>1, <1>2, <1>3, <1>4, <1>5, <1>6, <1>7, <1>8 DEF Next

\* The inductive invariant of this module, on top of KVInv.
THEOREM RowsInvariant == Spec => []RowsInv
BY KVInvariant, InitRows, RowsStep, PTL DEF Spec

\* Whenever a graph is about to be built or no call is running, the K/V row at
\* every populated cell is the row of its token: the copies of build_defrag,
\* run by run, bring about what llama_kv_cache_defrag_impl did to the cells.
THEOREM RowsFollow == Spec => []RowsFollowCells
<1>1. RowsInv => RowsFollowCells
    BY DEF RowsInv, RowsMatch, RowsFollowCells, NonEmpty
<1> QED  BY <1>1, RowsInvariant, PTL

\* The n that llama_decode gives to the graph covers every populated cell, with
\* and without graph capture and for any padding.
THEOREM GraphSeesAll == Spec => []VisibleToGraph
<1>1. RowsInv => VisibleToGraph
    BY DEF RowsInv, VisibleToGraph
<1> QED  BY <1>1, RowsInvariant, PTL

\* A running llama_decode changes the contents of the cache only by adding the
\* tokens of a ubatch: no defragmentation loses or duplicates a token, and no
\* slot that is found overwrites one.
THEOREM OnlyAdds == Spec => DecodeOnlyAdds
<1>1. [][AddsOnly]_vars => DecodeOnlyAdds
    BY PTL DEF DecodeOnlyAdds, AddsOnly
<1> QED  BY <1>1, KVInvariant, AddsStep, PTL DEF Spec

\* build_defrag makes a copy for each run of moves, and there are never more runs
\* than llama_kv_cache_defrag_impl has counted against max_moves, although it
\* counts them in the order it plans them, hole by hole.
THEOREM CopiesFit == Spec => []CopiesFitTheGraph
<1>1. Init => RunsInv
    BY DEF Init, RunsInv
<1>2. RunsInv => CopiesFitTheGraph
    BY DEF RunsInv, CopiesFitTheGraph
<1> QED  BY <1>1, <1>2, RunsStep, KVInvariant, PTL DEF Spec
=============================================================================
