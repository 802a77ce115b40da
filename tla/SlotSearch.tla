----------------------------- MODULE SlotSearch -----------------------------
(***************************************************************************)
(* The loops of llama_kv_cache_find_slot and                               *)
(* llama_kv_cache_find_scatter_slot, one turn at a time, over any          *)
(* occupancy of the cells and from any head.  KVCache uses what the loops  *)
(* return (FirstFit, FailHead, ScatterSlots); here those are what the      *)
(* loops are checked against.                                              *)
(***************************************************************************)
EXTENDS KVCells

VARIABLES
    free,     \* the cells with pos < 0
    want,     \* n_tokens, or require_slots in scatter mode
    scatter,  \* which of the two searches runs
    head0,    \* cache.head when the search starts
    head,     \* cache.head
    tested,   \* n_tested
    ids,      \* slot_ids
    result    \* "searching", "found" or "failed"

vars == <<free, want, scatter, head0, head, tested, ids, result>>

\* Both searches fail at once when they ask for more than there can be; in
\* scatter mode used is the number of cells that are not free.
Init ==
    /\ free \in SUBSET Cells
    /\ want \in 1 .. Size + 1
    /\ scatter \in BOOLEAN
    /\ head0 \in 0 .. Size
    /\ head = head0
    /\ tested = 0
    /\ ids = <<>>
    /\ result = IF (IF scatter THEN want + Cardinality(Cells \ free) > Size ELSE want > Size)
                THEN "failed" ELSE "searching"

\* Mutant of Turned: the search gives up once fewer than want cells are left
\* to test.
AlmostTurned(t) == t + want > Size

\* A full turn has been made.
Turned(t) == t >= Size

\* Mutant of PassOver: the search goes back to the occupied cell.
StopAt(i) == head' = head + i /\ tested' = tested + i

\* Go on behind the i-th cell from the head.
PassOver(i) == head' = head + i + 1 /\ tested' = tested + i + 1

\* The tail is too short for want cells: go back to the first cell.
Wrap ==
    /\ result = "searching" /\ ~ scatter
    /\ head + want > Size
    /\ tested' = tested + Size - head
    /\ head' = 0
    /\ UNCHANGED <<free, want, scatter, head0, ids, result>>

\* Test want cells from the head; skip past the first that is not free.
Test ==
    LET taken == {i \in 0 .. want - 1 : head + i \notin free}
    IN  /\ result = "searching" /\ ~ scatter
        /\ head + want <= Size
        /\ IF taken = {}
           THEN result' = "found" /\ UNCHANGED <<head, tested>>
           ELSE /\ PassOver(Min(taken))
                /\ result' = IF Turned(tested') THEN "failed" ELSE result
        /\ UNCHANGED <<free, want, scatter, head0, ids>>

\* One cell of the scatter search.
Collect ==
    LET h == IF head >= Size THEN 0 ELSE head
    IN  /\ result = "searching" /\ scatter
        /\ ids' = IF h \in free THEN Append(ids, h) ELSE ids
        /\ head' = h + 1
        /\ tested' = tested + 1
        /\ result' = IF Len(ids') = want THEN "found"
                     ELSE IF Turned(tested') THEN "failed" ELSE result
        /\ UNCHANGED <<free, want, scatter, head0>>

Done == result # "searching" /\ UNCHANGED vars

Next == Wrap \/ Test \/ Collect \/ Done

Spec == Init /\ [][Next]_vars /\ WF_vars(Next)

-----------------------------------------------------------------------------
(***************************************************************************)
(* find_slot returns the first run of free cells at or after the head, or  *)
(* before it; it fails only if no run of that length exists anywhere, and  *)
(* leaves the head where FailHead says.  "The KV cache is full" must not   *)
(* be the answer when there is room.                                       *)
(***************************************************************************)
FindSlotIsComplete ==
    ~ scatter =>
        /\ result = "found" => /\ Fits(free, want) # {}
                               /\ head = FirstFit(free, head0, want)
        /\ result = "failed" => /\ Fits(free, want) = {}
                                /\ head = FailHead(free, head0, want)

(***************************************************************************)
(* The scatter search returns exactly the cells of ScatterSlots and fails  *)
(* only when the cells that are free are fewer than required.              *)
(***************************************************************************)
ScatterIsComplete ==
    scatter =>
        /\ result = "found" => /\ {ids} = ScatterSlots(free, head0, want)
                               /\ head = ids[want] + 1
        /\ result = "failed" => Cardinality(free) < want

\* Both searches end: the only exits of their loops are reached.
SearchEnds == <>(result # "searching")
=============================================================================
