--------------------------- MODULE SlotCacheProps ---------------------------
(***************************************************************************)
(* What the slots and the KV cache owe each other.                         *)
(***************************************************************************)
EXTENDS SlotCache

\* The cells a token attends to: those of its sequence, up to its position,
\* among the first n (the mask of llama_set_inputs).
Attended(e) == {c \in 0 .. n - 1 : e.seq_id \subseteq cells[c].seq_id /\ cells[c].pos <= e.pos}

\* The text a busy slot is at: its prompt and what it has generated.
Text(s) ==
    LET prompt == slots[s].prompt
        cache  == slots[s].cache_tokens
    IN  prompt \o SubSeq(cache, Len(prompt) + 1, Len(cache))

(***************************************************************************)
(* Every token the server decodes attends to exactly one cell for each     *)
(* position up to its own, and the K/V rows there are those of the text    *)
(* the slot is at.  What is computed already is taken from cache_tokens,   *)
(* kept by update_slots, the cells by seq_rm, the slot search and the      *)
(* graph; in between lie reused prefixes, cancelled generations, prompts   *)
(* spread over several rounds and decodes that are tried again.            *)
(***************************************************************************)
AttentionExact ==
    pc = "compute" =>
        \A s \in Seqs, i \in DOMAIN Ubatch :
            LET e == Ubatch[i]
            IN  e.seq_id = {s} =>
                    /\ Cardinality(Attended(e)) = e.pos + 1
                    /\ \A p \in 0 .. e.pos : \E c \in Attended(e) :
                            /\ cells[c].pos = p
                            /\ Written[c] = Text(s)[p + 1]

(***************************************************************************)
(* No request is dropped for want of cells: however the idle slots' tokens *)
(* are strewn over the cache, halving the views ends in a decode that      *)
(* finds its cells.                                                        *)
(***************************************************************************)
NeverGivesUp == ~ (at_slots = "decode" /\ pc = "idle" /\ ret # 0 /\ n_batch <= 1)

(***************************************************************************)
(* No busy slot is at the end of its context when a round begins: the      *)
(* generation is stopped before, and the context shift, which would make   *)
(* the next llama_decode fail an assertion, is never made.                 *)
(***************************************************************************)
NeverShifts == at_slots # "shift"

-----------------------------------------------------------------------------
(***************************************************************************)
(* What the contents rest on besides NeverGivesUp: a view that fails fails *)
(* before any of its ubatches is in the cells, and no task is served       *)
(* before the cache is cleared for the first time.  The code keeps neither *)
(* under every setting: RetryStartsClean and ReusesComputed are violated   *)
(* where one of the three does not hold.                                   *)
(***************************************************************************)
FailsWhole ==
    at_slots = "decode" /\ pc = "find" /\ Found(SearchHead(Len(Ubatch)), Len(Ubatch)) = {} =>
        Len(todo) = ViewEnd - i_view

StartsClean == clean_kv_cache => \A s \in Seqs : ~ IsProcessing(s)

Orderly == FailsWhole /\ StartsClean /\ NeverGivesUp

(***************************************************************************)
(* server.cpp:1494: "if you get here, it means the KV cache is full": when *)
(* the halving ends without cells, no cell is free.                        *)
(***************************************************************************)
GivesUpWhenFull == ~ NeverGivesUp => FreeCells(cells) = {}

-----------------------------------------------------------------------------
\* The positions of slot s the cache holds with the tokens the list says.
Computed(s, list) ==
    {p \in 0 .. Len(list) - 1 :
        \E c \in Cells : s \in cells[c].seq_id /\ cells[c].pos = p /\ rows[c] = list[p + 1]}

(***************************************************************************)
(* server.cpp:1415: "reuse any previously computed tokens that are common  *)
(* with the new prompt": the tokens a prompt reuses have been computed and *)
(* are in the cache.                                                       *)
(***************************************************************************)
ReusesComputed ==
    [][\A s \in Seqs :
        slots[s].state = "started" /\ slots'[s].state \in {"processing_prompt", "done_prompt"} =>
            LET n_past == Reused(slots[s].cache_tokens, slots'[s].prompt)
            IN  0 .. n_past - 1 \subseteq Computed(s, slots'[s].prompt)]_slotvars

(***************************************************************************)
(* src/llama-execute-decode.cpp:346-348: "in case of unsuccessful decoding *)
(* (error or warning), the kv_cache state will be returned to its original *)
(* state", on which the server relies when it decodes a view again: no     *)
(* token of a view about to be decoded is in the cache already.            *)
(***************************************************************************)
RetryStartsClean ==
    [][at_slots = "view" /\ at_slots' = "decode" =>
        \A i \in DOMAIN todo', c \in Cells :
            ~ (todo'[i].seq_id \subseteq cells[c].seq_id /\ cells[c].pos = todo'[i].pos)]_slotvars
=============================================================================
