------------------------------ MODULE SlotCache ------------------------------
(***************************************************************************)
(* The slots of examples/server/server.cpp on top of the KV cache: what    *)
(* update_slots believes the cache to hold (cache_tokens and n_past of     *)
(* each slot), the batch it makes of the slots, the views of the batch it  *)
(* decodes, and the halving of the views when there are no cells.          *)
(*                                                                         *)
(* KVCache's variables and its llama_decode are used as they are; slot s   *)
(* is sequence s.  The main thread alone runs all of this.  at_slots is    *)
(* where it is:                                                            *)
(*                                                                         *)
(*   tasks --BeginRound--> prompt --> view --BeginView--> decode           *)
(*     ^                               |  ^                 |              *)
(*     +----------EndRound-------------+  +--Sample, Retry--+              *)
(*                                                                         *)
(* The queues, and which task gets which slot, are Server's: here any idle *)
(* slot is given any prompt, and any busy slot is cancelled, between two   *)
(* rounds.  What nobody reads of an idle slot is forgotten.                *)
(***************************************************************************)
EXTENDS KVCache

CONSTANTS
    Prompts,        \* the prompts the clients send, tokenized
    Keeps,          \* their n_keep
    Outputs,        \* the tokens the model generates
    ContBatching,   \* params.cont_batching
    EarlyTasks      \* the HTTP threads may post before start_loop runs

\* llama_context keeps one cell for every position of n_ctx; a slot has its share.
SlotCtx == Size \div NSeq

ASSUME SlotAssumption ==
    /\ Prompts \subseteq Seq(Tokens)
    /\ Keeps \subseteq Int
    /\ Outputs \subseteq Tokens
    /\ SlotCtx >= 4
    /\ MaxPos >= SlotCtx
    /\ ContBatching \in BOOLEAN /\ EarlyTasks \in BOOLEAN

VARIABLES
    slots,          \* server_context::slots
    at_slots,       \* where update_slots is
    next,           \* the slot the loop over the prompts is at
    batch,          \* server_context::batch
    i_view,         \* the first token of the batch not decoded yet
    n_batch,        \* the length of the views
    clean_kv_cache  \* the cache is to be cleared when all slots are idle

servervars == <<slots, at_slots, next, batch, i_view, n_batch, clean_kv_cache>>
slotvars   == <<vars, servervars>>

IdleSlot(cache) ==
    [state |-> "idle", prompt |-> <<>>, n_past |-> 0, cache_tokens |-> cache,
     sampled |-> NoToken, i_batch |-> -1]

SlotInit ==
    /\ Init
    /\ slots = [s \in Seqs |-> IdleSlot(<<>>)]
    /\ at_slots = "tasks"
    /\ next = 0
    /\ batch = <<>>
    /\ i_view = 0
    /\ n_batch = MaxBatch
    /\ clean_kv_cache = TRUE

IsProcessing(s) == slots[s].state # "idle"

\* release: cache_tokens stays, for the next prompt.
Released(sl) == IdleSlot(sl.cache_tokens)

-----------------------------------------------------------------------------
(* process_single_task, between two rounds.                                *)

Launch(s, prompt) ==
    /\ at_slots = "tasks"
    /\ ~ IsProcessing(s)
    /\ EarlyTasks \/ ~ clean_kv_cache
    /\ slots' = [slots EXCEPT ![s].state = "started", ![s].prompt = prompt]
    /\ UNCHANGED <<vars, at_slots, next, batch, i_view, n_batch, clean_kv_cache>>

CancelTask(s) ==
    /\ at_slots = "tasks"
    /\ IsProcessing(s)
    /\ slots' = [slots EXCEPT ![s] = Released(@)]
    /\ UNCHANGED <<vars, at_slots, next, batch, i_view, n_batch, clean_kv_cache>>

-----------------------------------------------------------------------------
(* update_slots: the batch.                                                *)

\* All slots are idle.
IdleRound ==
    /\ at_slots = "tasks"
    /\ \A s \in Seqs : ~ IsProcessing(s)
    /\ clean_kv_cache
    /\ Clear
    /\ clean_kv_cache' = FALSE
    /\ UNCHANGED <<slots, at_slots, next, batch, i_view, n_batch>>

\* The test for a context shift.
ContextFull(sl) == sl.n_past + 1 >= SlotCtx

Token(s, pos, tok) == [pos |-> pos, seq_id |-> {s}, tok |-> tok]

\* The slots that go on generating, and the rank of one among them.
Generating == {s \in Seqs : slots[s].state = "generating"}
Rank(s) == Cardinality({u \in Generating : u < s})

\* A generating slot puts its sampled token into the batch.
Generated(s) ==
    [slots[s] EXCEPT !.i_batch = Rank(s),
                     !.n_past = @ + 1,
                     !.cache_tokens = Append(@, slots[s].sampled)]

\* The sampled tokens come first, in the order of the slots.  A slot at the
\* end of its context would be shifted, and the next llama_decode fail
\* KVCache's assertion: "shift" stands for all that.
BeginRound ==
    /\ at_slots = "tasks"
    /\ \E s \in Seqs : IsProcessing(s)
    /\ IF \E s \in Seqs : IsProcessing(s) /\ ContextFull(slots[s])
       THEN at_slots' = "shift" /\ UNCHANGED <<slots, batch>>
       ELSE /\ batch' = [j \in 1 .. Cardinality(Generating) |->
                            LET s == CHOOSE u \in Generating : Rank(u) = j - 1
                            IN  Token(s, slots[s].n_past, slots[s].sampled)]
            /\ slots' = [s \in Seqs |-> IF s \in Generating THEN Generated(s) ELSE slots[s]]
            /\ at_slots' = IF ContBatching \/ Generating = {} THEN "prompt" ELSE "view"
    /\ next' = 0
    /\ i_view' = 0
    /\ n_batch' = MaxBatch
    /\ UNCHANGED <<vars, clean_kv_cache>>

\* A prompt that does not fit loses blocks after the first n_keep tokens.
NKeep(keep, prompt) == Min({SlotCtx - 4, IF keep < 0 THEN Len(prompt) ELSE keep})

Truncated(prompt, n_keep) ==
    LET n_block_size  == (SlotCtx - n_keep) \div 2
        erased_blocks == (Len(prompt) - n_keep - n_block_size) \div n_block_size
    IN  IF Len(prompt) < SlotCtx THEN prompt
        ELSE SubSeq(prompt, 1, n_keep)
             \o SubSeq(prompt, n_keep + erased_blocks * n_block_size + 1, Len(prompt))

\* Mutant of Reused: all of the cache that the prompt is long enough for.
ReusedByLength(cache, prompt) == Min({Len(cache), Len(prompt) - 1})

\* The common prefix, but at least one token is evaluated.
Reused(cache, prompt) ==
    Max({m \in 0 .. Min({Len(cache), Len(prompt) - 1}) :
            SubSeq(cache, 1, m) = SubSeq(prompt, 1, m)})

\* A started slot before its first tokens go into the batch.
Prepared(sl, keep) ==
    IF sl.state # "started" THEN sl
    ELSE LET prompt == Truncated(sl.prompt, NKeep(keep, sl.prompt))
         IN  [sl EXCEPT !.state = "processing_prompt", !.prompt = prompt,
                          !.n_past = Reused(sl.cache_tokens, prompt)]

\* How much of the prompt the batch has room for.
Room(sl) == Min({Len(sl.prompt) - sl.n_past, Max({MaxBatch - Len(batch), 0})})

\* The slot once its next tokens are in the batch.
Batched(sl) ==
    LET n_past == sl.n_past + Room(sl)
        done   == n_past = Len(sl.prompt)
    IN  [sl EXCEPT
            !.cache_tokens = SubSeq(@, 1, sl.n_past) \o SubSeq(sl.prompt, sl.n_past + 1, n_past),
            !.n_past = n_past,
            !.state = IF done THEN "done_prompt" ELSE @,
            !.i_batch = IF done THEN Len(batch) + Room(sl) - 1 ELSE @]

\* The loop ends when the batch is full or the slots are through.
NextSlot ==
    IF Len(batch') >= MaxBatch \/ next = NSeq - 1
    THEN at_slots' = "view" /\ UNCHANGED next
    ELSE next' = next + 1 /\ UNCHANGED at_slots

SkipSlot ==
    /\ at_slots = "prompt"
    /\ slots[next].state \in {"idle", "generating"}
    /\ UNCHANGED batch
    /\ NextSlot
    /\ UNCHANGED <<vars, slots, i_view, n_batch, clean_kv_cache>>

\* Nothing to evaluate: the slot is released and the loop goes straight on.
EmptyPrompt ==
    /\ at_slots = "prompt"
    /\ slots[next].state = "started" /\ slots[next].prompt = <<>>
    /\ slots' = [slots EXCEPT ![next] = Released(@)]
    /\ IF next = NSeq - 1 THEN at_slots' = "view" /\ UNCHANGED next
       ELSE next' = next + 1 /\ UNCHANGED at_slots
    /\ UNCHANGED <<vars, batch, i_view, n_batch, clean_kv_cache>>

\* What is not common with the prompt leaves the cache, and the prompt's next
\* tokens come in.
BatchPrompt(keep) ==
    LET sl == Prepared(slots[next], keep)
    IN  /\ at_slots = "prompt"
        /\ slots[next].state \in {"started", "processing_prompt"}
        /\ slots[next].prompt # <<>>
        /\ RemoveSeq(next, sl.n_past, -1)
        /\ UNCHANGED <<pc, todo, ret>>
        /\ batch' = batch \o [j \in 1 .. Room(sl) |->
                                Token(next, sl.n_past + j - 1, sl.prompt[sl.n_past + j])]
        /\ slots' = [slots EXCEPT ![next] = Batched(sl)]
        /\ NextSlot
        /\ UNCHANGED <<i_view, n_batch, clean_kv_cache>>

-----------------------------------------------------------------------------
(* update_slots: the views.                                                *)

ViewEnd == Min({i_view + n_batch, Len(batch)})

BeginView ==
    /\ at_slots = "view"
    /\ i_view < Len(batch)
    /\ DecodeBegin(SubSeq(batch, i_view + 1, ViewEnd))
    /\ at_slots' = "decode"
    /\ UNCHANGED <<slots, next, batch, i_view, n_batch, clean_kv_cache>>

\* llama_decode runs.
DecodeView ==
    /\ at_slots = "decode"
    /\ DecodeStep
    /\ UNCHANGED servervars

\* The slots whose output is in the view.
Sampling == {s \in Seqs : /\ slots[s].i_batch \in i_view .. ViewEnd - 1
                          /\ slots[s].state \in {"done_prompt", "generating"}}

\* Mutant of LimitReached: one token later.
LimitOverrun(sl) == sl.n_past >= SlotCtx

\* The test of process_token for the end of the context.
LimitReached(sl) == sl.n_past + 1 >= SlotCtx

\* process_token decides whether the slot goes on; NoToken stands for every
\* other reason to stop (end of generation, budget).
Sampled(sl, tok) ==
    IF tok = NoToken \/ LimitReached(sl) THEN Released(sl)
    ELSE [sl EXCEPT !.state = "generating", !.sampled = tok, !.i_batch = -1]

Sample ==
    /\ at_slots = "decode"
    /\ pc = "idle" /\ ret = 0
    /\ \E tok \in [Sampling -> Outputs \cup {NoToken}] :
            slots' = [s \in Seqs |-> IF s \in Sampling THEN Sampled(slots[s], tok[s]) ELSE slots[s]]
    /\ i_view' = i_view + n_batch
    /\ at_slots' = "view"
    /\ UNCHANGED <<vars, next, batch, n_batch, clean_kv_cache>>

\* No cells: again with half the length, or, with single tokens, give up and
\* release all slots.
Retry ==
    /\ at_slots = "decode"
    /\ pc = "idle" /\ ret # 0
    /\ IF n_batch = 1
       THEN /\ slots' = [s \in Seqs |-> Released(slots[s])]
            /\ at_slots' = "tasks"
            /\ UNCHANGED n_batch
       ELSE /\ n_batch' = n_batch \div 2
            /\ at_slots' = "view"
            /\ UNCHANGED slots
    /\ UNCHANGED <<vars, next, batch, i_view, clean_kv_cache>>

EndRound ==
    /\ at_slots = "view"
    /\ i_view >= Len(batch)
    /\ at_slots' = "tasks"
    /\ batch' = <<>>
    /\ i_view' = 0
    /\ n_batch' = MaxBatch
    /\ next' = 0
    /\ UNCHANGED <<vars, slots, clean_kv_cache>>

SlotNext ==
    \/ \E s \in Seqs, prompt \in Prompts : Launch(s, prompt)
    \/ \E s \in Seqs : CancelTask(s)
    \/ IdleRound
    \/ BeginRound
    \/ SkipSlot
    \/ EmptyPrompt
    \/ \E keep \in Keeps : BatchPrompt(keep)
    \/ BeginView
    \/ DecodeView
    \/ Sample
    \/ Retry
    \/ EndRound

SlotSpec == SlotInit /\ [][SlotNext]_slotvars
=============================================================================
