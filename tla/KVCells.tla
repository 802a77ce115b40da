------------------------------ MODULE KVCells ------------------------------
(***************************************************************************)
(* The cells of llama_kv_cache and the two searches over them, as          *)
(* functions of their state.  A cell holds a position, the shift applied   *)
(* to it, and the set of sequences it belongs to.  The field tok is not in *)
(* the struct: it names the token whose K/V row the cell is supposed to    *)
(* describe, so that the tensor contents can be compared with the cells.   *)
(*                                                                         *)
(* llama_kv_cache_find_slot is a loop that moves cache.head; FirstFit and  *)
(* FailHead say what it returns and where it leaves the head.  SlotSearch  *)
(* models the loop itself, which is proved to compute exactly these.       *)
(***************************************************************************)
EXTENDS Integers, Sequences, FiniteSetsExt

CONSTANTS
    Size,       \* cache.size, the number of cells (n_ctx, padded)
    NSeq,       \* number of sequence ids in use (the bitset has room for 32)
    Tokens,     \* what a K/V row can hold
    NoToken     \* the row of a zeroed buffer, and the tok of an empty cell

ASSUME CellsAssumption ==
    /\ Size \in Nat \ {0}
    /\ NSeq \in 1..32
    /\ NoToken \notin Tokens

Cells == 0 .. Size - 1
Seqs  == 0 .. NSeq - 1

Cell == [pos : Int, delta : Int, seq_id : SUBSET Seqs, tok : Tokens \cup {NoToken}]

\* A default-constructed llama_kv_cell.
NewCell == [pos |-> -1, delta |-> 0, seq_id |-> {}, tok |-> NoToken]

\* Mutant of Freed: the position stays as well.
FreedKeepsPos(cell) == [cell EXCEPT !.seq_id = {}, !.tok = NoToken]

\* What clear and seq_rm leave of a cell: the shift stays.
Freed(cell) == [cell EXCEPT !.pos = -1, !.seq_id = {}, !.tok = NoToken]

IsEmpty(cell) == cell.seq_id = {}

NonEmpty(cs) == {c \in Cells : ~ IsEmpty(cs[c])}

\* Mutant of FreeCells: position 0 taken for free.
FreeCellsFromZero(cs) == {c \in Cells : cs[c].pos <= 0}

\* The searches test the position, not the sequence set.
FreeCells(cs) == {c \in Cells : cs[c].pos < 0}

\* The range [p0, p1) of the sequence operations, after their clamping.
InRange(p, p0, p1) == p >= Max({p0, 0}) /\ (p1 < 0 \/ p < p1)

\* Mutant of CellMax: the cells are counted, as if they lay at the front.
CellCount(cs) == Cardinality({c \in Cells : cs[c].pos >= 0 /\ ~ IsEmpty(cs[c])})

\* One past the last populated cell, 0 when there is none.
CellMax(cs) ==
    LET full == {c \in Cells : cs[c].pos >= 0 /\ ~ IsEmpty(cs[c])}
    IN  IF full = {} THEN 0 ELSE Max(full) + 1

(***************************************************************************)
(* llama_kv_cache_find_slot: k consecutive free cells.                     *)
(***************************************************************************)
Fits(free, k) == {s \in 0 .. Size - k : s .. (s + k - 1) \subseteq free}

\* The first fit at or after the head, wrapping to the start of the cache.
FirstFit(free, h, k) ==
    LET ahead == {s \in Fits(free, k) : s >= h}
    IN  IF ahead # {} THEN Min(ahead) ELSE Min(Fits(free, k))

(***************************************************************************)
(* The head after a search that found nothing.  The search jumps from one  *)
(* occupied cell to the next and gives up at the first one that closes a   *)
(* full turn from h; if the tail is too short to reach it, the search      *)
(* wraps and gives up at the first occupied cell.                          *)
(***************************************************************************)
FailHead(free, h, k) ==
    LET full == Cells \ free
        h1   == IF h = 0 THEN Size ELSE h
        past == {c \in full : c + 1 >= h1}
        from == {c + 1 : c \in {d \in full : d + 1 < h1}} \cup {0}
    IN  IF k > Size THEN h
        ELSE IF past # {} /\ Max(from) <= Size - k THEN Min(past) + 1
        ELSE Min(full) + 1

(***************************************************************************)
(* llama_kv_cache_find_scatter_slot: k free cells in cyclic order from the *)
(* head, however they lie.                                                 *)
(***************************************************************************)
Turn(c, h) == IF c >= h THEN c - h ELSE c - h + Size

ScatterSlots(free, h, k) ==
    LET h0 == IF h >= Size THEN 0 ELSE h
    IN  {ids \in [1 .. k -> free] :
            /\ \A i, j \in 1 .. k : i < j => Turn(ids[i], h0) < Turn(ids[j], h0)
            /\ \A c \in free : (\E i \in 1 .. k : ids[i] = c)
                               \/ Turn(c, h0) > Turn(ids[k], h0)}

(***************************************************************************)
(* Both searches end by giving slot[i] the position and the sequences of   *)
(* the i-th token of the ubatch.  seq_id.set only adds to what is there.   *)
(***************************************************************************)
Occupy(cs, slot, ub) ==
    [c \in Cells |->
        IF \E i \in 1 .. Len(ub) : slot[i] = c
        THEN LET i == CHOOSE i \in 1 .. Len(ub) : slot[i] = c
             IN  [cs[c] EXCEPT !.pos = ub[i].pos,
                               !.seq_id = @ \cup ub[i].seq_id,
                               !.tok = ub[i].tok]
        ELSE cs[c]]
=============================================================================
