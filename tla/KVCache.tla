------------------------------ MODULE KVCache ------------------------------
(***************************************************************************)
(* llama_kv_cache and the part of llama_decode that works on it: the       *)
(* sequence operations of the API, the loop that cuts a batch into         *)
(* ubatches and finds cells for each, the rows the graph writes, and       *)
(* defragmentation, cell by cell.                                          *)
(*                                                                         *)
(* One thread owns the context, so an API call runs to its end before the  *)
(* next one starts.  pc is where a running llama_decode is; every other    *)
(* call is one step from "idle" to "idle".                                 *)
(*                                                                         *)
(*   idle --DecodeBegin--> ubatch --Update--> find --FindCells--> compute  *)
(*                           ^      \            ^                 |  |    *)
(*                           |       scan <-> move -> copy --------+  |    *)
(*                           +----------------------------------------+    *)
(*                                                                         *)
(* Left out: recurrent caches (llama_decode asserts !recurrent), the       *)
(* tensors of each layer (one row stands for the K and V rows of a cell),  *)
(* scheduling and reservation of graphs.                                   *)
(***************************************************************************)
EXTENDS KVCells

CONSTANTS
    MaxPos,       \* positions the caller uses are 0 .. MaxPos (bounds the model)
    MaxBatch,     \* cparams.n_batch
    NUbatch,      \* cparams.n_ubatch
    Pad,          \* llama_kv_cache_get_padding
    Scatter,      \* cparams.enable_scatter_kv
    EnableGE,     \* cparams.enable_ge, which forces enable_scatter_kv
    DefragMin,    \* do not defrag contexts smaller than this (2048)
    DefragThold,  \* cparams.defrag_thold, in tenths; 0 turns defrag off
    MaxMoves,     \* runs of cells one defrag graph has nodes for
    Ranges,       \* the ranges <<p0, p1>> a caller passes
    Shifts        \* the deltas a caller passes to seq_add

ASSUME CacheAssumption ==
    /\ MaxPos \in Nat
    /\ MaxBatch \in Nat \ {0}
    /\ NUbatch \in 1 .. MaxBatch
    /\ Pad \in Nat \ {0}
    /\ Scatter \in BOOLEAN
    /\ EnableGE \in BOOLEAN /\ (EnableGE => Scatter)
    /\ DefragMin \in Nat
    /\ DefragThold \in Nat
    /\ MaxMoves \in Nat \ {0}
    /\ Ranges \subseteq Int \X Int
    /\ Shifts \subseteq Int

VARIABLES
    cells,      \* cache.cells
    head,       \* cache.head
    used,       \* cache.used
    n,          \* cache.n, the cells the next graph attends to
    has_shift,  \* cache.has_shift
    do_defrag,  \* cache.do_defrag
    rows,       \* the K/V tensors: the token whose row lies at each cell
    pc,         \* where the running llama_decode is
    todo,       \* the tokens of the batch not yet decoded (lctx.sbatch)
    slot,       \* the cells found for the current ubatch
    saved,      \* the cells kv_slot_restorer has recorded
    ret,        \* what the last llama_decode returned
    df          \* the locals of the running llama_kv_cache_defrag_impl

kvvars == <<cells, head, used, n, has_shift, do_defrag, rows>>
vars   == <<cells, head, used, n, has_shift, do_defrag, rows,
            pc, todo, slot, saved, ret, df>>

Rows == Tokens \cup {NoToken}

Entry == [pos : Int, seq_id : SUBSET Seqs, tok : Tokens]

\* ids[i] = nkv means that cell i is not moved, ids[i] = i that it stays.
DefragState == [i0 : Nat, nh : Nat, nf : Nat, i1 : Nat, cont : BOOLEAN,
                moves : Nat, nkv : Nat, nused : Nat, ids : [Cells -> Nat]]

NoDefrag == [i0 |-> 0, nh |-> 0, nf |-> 0, i1 |-> 0, cont |-> FALSE,
             moves |-> 0, nkv |-> 0, nused |-> 0, ids |-> [c \in Cells |-> 0]]

Phases == {"idle", "ubatch", "scan", "move", "copy", "find", "compute", "abort"}

TypeOK ==
    /\ cells \in [Cells -> Cell]
    /\ head \in 0 .. Size
    /\ used \in 0 .. Size
    /\ n \in 0 .. Size
    /\ has_shift \in BOOLEAN
    /\ do_defrag \in BOOLEAN
    /\ rows \in [Cells -> Rows]
    /\ pc \in Phases
    /\ todo \in Seq(Entry)
    /\ slot \in Seq(Cells)
    /\ saved \subseteq Cells
    /\ ret \in {0, 1}
    /\ df \in DefragState

Init ==
    /\ cells = [c \in Cells |-> NewCell]
    /\ head = 0
    /\ used = 0
    /\ n = 0
    /\ has_shift = FALSE
    /\ do_defrag = FALSE
    /\ rows = [c \in Cells |-> NoToken]
    /\ pc = "idle"
    /\ todo = <<>>
    /\ slot = <<>>
    /\ saved = {}
    /\ ret = 0
    /\ df = NoDefrag

-----------------------------------------------------------------------------
(* The sequence operations of the API.                                     *)

\* Every cell is freed and the buffers are zeroed.
Clear ==
    /\ pc = "idle"
    /\ cells' = [c \in Cells |-> Freed(cells[c])]
    /\ head' = 0
    /\ used' = 0
    /\ rows' = [c \in Cells |-> NoToken]
    /\ UNCHANGED <<n, has_shift, do_defrag, pc, todo, slot, saved, ret, df>>

\* The effect of seq_rm on one cell; s < 0 matches every sequence.
Removed(cell, s, p0, p1) ==
    IF InRange(cell.pos, p0, p1) /\ (s < 0 \/ s \in cell.seq_id)
    THEN LET left == IF s < 0 THEN {} ELSE cell.seq_id \ {s}
         IN  IF left = {} THEN Freed(cell) ELSE [cell EXCEPT !.seq_id = left]
    ELSE cell

\* Cells that lose their last sequence are freed and counted off, and the
\* head moves back to the first of them.
RemoveSeq(s, p0, p1) ==
    LET freed == {c \in Cells : cells[c].pos >= 0
                                /\ Removed(cells[c], s, p0, p1).pos < 0}
    IN  /\ cells' = [c \in Cells |-> Removed(cells[c], s, p0, p1)]
        /\ used' = used - Cardinality(freed)
        /\ head' = IF freed # {} /\ Min(freed) < head THEN Min(freed) ELSE head
        /\ UNCHANGED <<n, has_shift, do_defrag, rows, slot, saved, df>>

SeqRm(s, p0, p1) ==
    /\ pc = "idle"
    /\ RemoveSeq(s, p0, p1)
    /\ UNCHANGED <<pc, todo, ret>>

SeqCp(src, dst, p0, p1) ==
    /\ pc = "idle"
    /\ head' = 0
    /\ cells' = [c \in Cells |->
                    IF src \in cells[c].seq_id /\ InRange(cells[c].pos, p0, p1)
                    THEN [cells[c] EXCEPT !.seq_id = @ \cup {dst}]
                    ELSE cells[c]]
    /\ UNCHANGED <<used, n, has_shift, do_defrag, rows, pc, todo, slot, saved, ret, df>>

\* A cell shifted below position 0 is freed; the shift is recorded in delta.
Shifted(cell, s, p0, p1, delta) ==
    IF s \in cell.seq_id /\ InRange(cell.pos, p0, p1)
    THEN LET moved == [cell EXCEPT !.pos = @ + delta, !.delta = @ + delta]
         IN  IF moved.pos < 0 THEN Freed(moved) ELSE moved
    ELSE cell

SeqAdd(s, p0, p1, delta) ==
    LET hit   == {c \in Cells : s \in cells[c].seq_id /\ InRange(cells[c].pos, p0, p1)}
        freed == {c \in hit : cells[c].pos + delta < 0}
    IN  /\ pc = "idle"
        /\ \A c \in hit : cells[c].pos + delta <= MaxPos
        /\ cells' = [c \in Cells |-> Shifted(cells[c], s, p0, p1, delta)]
        /\ used' = used - Cardinality(freed)
        /\ has_shift' = (has_shift \/ hit # {})
        /\ head' = IF Max({p0, 0}) = p1 THEN head
                   ELSE IF freed # {} THEN Min(freed) ELSE 0
        /\ UNCHANGED <<n, do_defrag, rows, pc, todo, slot, saved, ret, df>>

-----------------------------------------------------------------------------
(* llama_decode.                                                           *)

DecodeBegin(b) ==
    /\ pc = "idle"
    /\ \A i \in DOMAIN b : b[i].pos <= MaxPos
    /\ pc' = "ubatch"
    /\ todo' = b
    /\ saved' = {}
    /\ UNCHANGED <<cells, head, used, n, has_shift, do_defrag, rows, slot, ret, df>>

\* llama_kv_cache_update_impl, up to the defrag loop: a cache that has been
\* shifted fails the assertion.
Update ==
    /\ pc = "ubatch"
    /\ IF has_shift THEN pc' = "abort" /\ UNCHANGED df
       ELSE IF do_defrag
            THEN /\ pc' = "scan"
                 /\ df' = [NoDefrag EXCEPT !.nkv = CellMax(cells), !.nused = used,
                                           !.ids = [c \in Cells |-> CellMax(cells)]]
            ELSE pc' = "find" /\ UNCHANGED df
    /\ UNCHANGED <<cells, head, used, n, has_shift, do_defrag, rows, todo, slot, saved, ret>>

\* split_simple: the next n_ubatch tokens, or what is left.
Ubatch == SubSeq(todo, 1, Min({NUbatch, Len(todo)}))

\* Start from the beginning when enough unused cells lie before the head.
SearchHead(k) == IF head > used + 2 * k THEN 0 ELSE head

\* The cells the searches return: n_ubatch of them in scatter mode, whatever
\* the size of the ubatch.
Found(h, k) ==
    LET free == FreeCells(cells)
    IN  IF Scatter
        THEN IF NUbatch + used > Size THEN {} ELSE ScatterSlots(free, h, NUbatch)
        ELSE IF k > Size \/ Fits(free, k) = {} THEN {}
             ELSE {[i \in 1 .. k |-> FirstFit(free, h, k) + i - 1]}

GgmlPad(x) == ((x + Pad - 1) \div Pad) * Pad

FindCells ==
    LET ub == Ubatch
        h  == SearchHead(Len(ub))
    IN  /\ pc = "find"
        /\ \E s \in Found(h, Len(ub)) :
            /\ cells' = Occupy(cells, s, ub)
            /\ used' = used + Len(ub)
            /\ head' = IF Scatter THEN s[NUbatch] + 1 ELSE s[1]
            /\ slot' = s
            /\ saved' = IF Scatter THEN saved ELSE saved \cup {s[i] : i \in DOMAIN s}
            /\ n' = LET m == CellMax(cells')
                    IN  Min({Size, IF EnableGE THEN m ELSE Max({Pad, GgmlPad(m)})})
        /\ pc' = "compute"
        /\ UNCHANGED <<has_shift, do_defrag, rows, todo, ret, df>>

\* No cells: llama_decode returns 1.  kv_slot_restorer goes out of scope.
NoCells ==
    LET k == Len(Ubatch)
        h == SearchHead(k)
    IN  /\ pc = "find"
        /\ Found(h, k) = {}
        /\ head' = IF Scatter THEN h ELSE FailHead(FreeCells(cells), h, k)
        /\ pc' = "idle"
        /\ ret' = 1
        /\ todo' = <<>>
        /\ UNCHANGED <<cells, used, n, has_shift, do_defrag, rows, slot, saved, df>>

\* Mutant of Target: the graph writes one row further on.
TargetPastHead == [i \in DOMAIN slot |-> head + i]

\* The graph writes the rows of the ubatch: from the head on, or, in scatter
\* mode, at the n_ubatch cells found, the padding of a short ubatch included.
Target == IF Scatter THEN slot ELSE [i \in DOMAIN slot |-> head + i - 1]

Written ==
    [c \in Cells |->
        IF \E i \in DOMAIN Target : Target[i] = c
        THEN LET i == CHOOSE i \in DOMAIN Target : Target[i] = c
             IN  IF i <= Len(Ubatch) THEN Ubatch[i].tok ELSE NoToken
        ELSE rows[c]]

\* The test at the end of llama_decode.
Fragmented ==
    /\ DefragThold > 0
    /\ n >= DefragMin
    /\ 10 * (n - (used + Pad)) > DefragThold * n

\* Compute the graph, move the head past the ubatch, and go on with the rest
\* of the batch or return 0.
Compute ==
    LET left == SubSeq(todo, Len(Ubatch) + 1, Len(todo))
        past == head + Len(Ubatch)
    IN  /\ pc = "compute"
        /\ rows' = Written
        /\ head' = IF Scatter \/ past >= Size THEN 0 ELSE past
        /\ todo' = left
        /\ slot' = <<>>
        /\ IF left = <<>>
           THEN /\ pc' = "idle"
                /\ ret' = 0
                /\ do_defrag' = (do_defrag \/ Fragmented)
           ELSE /\ pc' = "ubatch"
                /\ UNCHANGED <<ret, do_defrag>>
        /\ UNCHANGED <<cells, used, n, has_shift, saved, df>>

-----------------------------------------------------------------------------
(* llama_kv_cache_defrag_impl: fill the holes below n_used with the cells  *)
(* above it, one iteration of its loops at a time.                         *)

\* After the loops: copy the rows if anything moved.
ScanDone(d) == IF d.moves = 0 THEN /\ pc' = "find"
                                   /\ do_defrag' = FALSE
                                   /\ df' = NoDefrag
               ELSE /\ pc' = "copy"
                    /\ df' = [d EXCEPT !.i1 = 0]
                    /\ UNCHANGED do_defrag

\* The hole that starts at i: up to the next populated cell or n_used.
HoleSize(i) ==
    Max({k \in 1 .. df.nused - i : \A j \in 0 .. k - 1 : IsEmpty(cells[i + j])})

\* Mutant of Sources: the last populated cell is forgotten.
SourcesButLast(i) == {c \in (i + 1) .. (df.nkv - 2) : ~ IsEmpty(cells[c]) /\ df.ids[c] = df.nkv}

\* Populated cells above i that have not been placed.
Sources(i) == {c \in (i + 1) .. (df.nkv - 1) : ~ IsEmpty(cells[c]) /\ df.ids[c] = df.nkv}

\* One turn of the outer loop.  At a hole of nh cells, look for the nh-th
\* source from the end; GGML_ASSERT(nf == nh) fails if there are fewer.
Scan ==
    /\ pc = "scan"
    /\ LET i == df.i0
       IN  IF i >= df.nused
           THEN ScanDone(df)
           ELSE /\ IF ~ IsEmpty(cells[i])
                   THEN df' = [df EXCEPT !.ids[i] = i, !.i0 = i + 1] /\ UNCHANGED pc
                   ELSE LET nh  == HoleSize(i)
                            src == Sources(i)
                        IN  IF Cardinality(src) < nh
                            THEN pc' = "abort" /\ UNCHANGED df
                            ELSE /\ pc' = "move"
                                 /\ df' = [df EXCEPT !.nh = nh, !.nf = 0, !.cont = FALSE,
                                       !.i1 = CHOOSE c \in src :
                                                Cardinality({x \in src : x >= c}) = nh]
                /\ UNCHANGED do_defrag
    /\ UNCHANGED <<cells, head, used, n, has_shift, rows, todo, slot, saved, ret>>

\* Mutants of EndRun: the run goes on over the gap; the loop does not advance.
SkipGap(d) == [d EXCEPT !.i1 = @ + 1]
StayAtGap(d) == [d EXCEPT !.cont = FALSE]

EndRun(d) == [d EXCEPT !.cont = FALSE, !.i1 = @ + 1]

\* One turn of the inner loop at a cell that is not a source: a gap, which
\* ends the run and, when no run is left, the defragmentation.
MoveGap ==
    /\ pc = "move"
    /\ IsEmpty(cells[df.i1]) \/ df.ids[df.i1] # df.nkv
    /\ IF df.moves = MaxMoves
       THEN ScanDone(df)
       ELSE /\ df' = EndRun(df)
            /\ UNCHANGED <<pc, do_defrag>>
    /\ UNCHANGED <<cells, head, used, n, has_shift, rows, todo, slot, saved, ret>>

\* One turn at a source: its metadata moves to the hole.  A full hole ends
\* the inner loop, and the outer one too when no run is left.
MoveCell ==
    LET from == df.i1
        to   == df.i0 + df.nf
        d    == [df EXCEPT !.ids[from] = to,
                           !.moves = IF df.cont THEN @ ELSE @ + 1,
                           !.cont = TRUE,
                           !.nf = @ + 1]
    IN  /\ pc = "move"
        /\ ~ IsEmpty(cells[from]) /\ df.ids[from] = df.nkv
        /\ cells' = [cells EXCEPT ![to] = cells[from], ![from] = NewCell]
        /\ head' = df.nused
        /\ IF d.nf < d.nh
           THEN /\ df' = [d EXCEPT !.i1 = @ + 1]
                /\ UNCHANGED <<pc, do_defrag>>
           ELSE IF d.moves = MaxMoves
           THEN ScanDone(d)
           ELSE /\ pc' = "scan"
                /\ df' = [d EXCEPT !.i0 = @ + d.nh]
                /\ UNCHANGED do_defrag
        /\ UNCHANGED <<used, n, has_shift, rows, todo, slot, saved, ret>>

\* Mutant of RunLength: a run reaches to the end of the cache.
RunToEnd(i) == df.nkv - i

\* The length of the run of moves that starts at cell i (build_defrag).
RunLength(i) ==
    Max({k \in 1 .. df.nkv - i : \A j \in 0 .. k - 1 : df.ids[i + j] = df.ids[i] + j})

\* One turn of build_defrag, with the copies it adds to the graph.
Copy ==
    /\ pc = "copy"
    /\ LET i == df.i1
       IN  IF i >= df.nkv
           THEN /\ pc' = "find"
                /\ do_defrag' = FALSE
                /\ df' = NoDefrag
                /\ UNCHANGED rows
           ELSE /\ IF df.ids[i] \in {i, df.nkv}
                   THEN /\ df' = [df EXCEPT !.i1 = i + 1]
                        /\ UNCHANGED rows
                   ELSE LET nm == RunLength(i)
                            to == df.ids[i]
                        IN  /\ rows' = [c \in Cells |->
                                  IF c \in to .. to + nm - 1 THEN rows[i + (c - to)] ELSE rows[c]]
                            /\ df' = [df EXCEPT !.i1 = i + nm]
                /\ UNCHANGED <<pc, do_defrag>>
    /\ UNCHANGED <<cells, head, used, n, has_shift, todo, slot, saved, ret>>

-----------------------------------------------------------------------------
(* The caller: a batch appends tokens to the sequences.                    *)

NextPos(s) == Max({cells[c].pos : c \in {d \in Cells : s \in cells[d].seq_id}} \cup {-1}) + 1

\* The batch whose i-th token goes to the end of sequence who[i].
Appended(who, toks) ==
    [i \in DOMAIN who |->
        [pos    |-> NextPos(who[i]) + Cardinality({j \in 1 .. i - 1 : who[j] = who[i]}),
         seq_id |-> {who[i]},
         tok    |-> toks[i]]]

\* The steps of a running llama_decode.
DecodeStep ==
    \/ Update
    \/ FindCells
    \/ NoCells
    \/ Compute
    \/ Scan
    \/ MoveGap
    \/ MoveCell
    \/ Copy

\* A failed GGML_ASSERT ends the process.
Aborted == pc = "abort" /\ UNCHANGED vars

Next ==
    \/ Clear
    \/ \E s \in Seqs \cup {-1}, r \in Ranges : SeqRm(s, r[1], r[2])
    \/ \E src, dst \in Seqs, r \in Ranges : SeqCp(src, dst, r[1], r[2])
    \/ \E s \in Seqs, r \in Ranges, delta \in Shifts : SeqAdd(s, r[1], r[2], delta)
    \/ \E k \in 1 .. MaxBatch : \E who \in [1 .. k -> Seqs], toks \in [1 .. k -> Tokens] :
            DecodeBegin(Appended(who, toks))
    \/ DecodeStep
    \/ Aborted

Spec == Init /\ [][Next]_vars

\* A call that has been made runs on: one thread, no blocking.
FairSpec == Spec /\ WF_vars(DecodeStep)
=============================================================================
