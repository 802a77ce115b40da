-------------------------- MODULE SlotCacheProofs --------------------------
(***************************************************************************)
(* The slots on the KV cache, for every size of the cache, number of       *)
(* slots, length of the batch and set of prompts.                          *)
(*                                                                         *)
(* First the bounds (StopInv): a truncated prompt fits its slot, and no    *)
(* slot is ever at the end of its context when a round begins.             *)
(*                                                                         *)
(* Then the contents (ContentInv): cells, texts and batch agree.  What     *)
(* changes the cells does one of three things, each of which keeps them    *)
(* exact: tokens that wait are put into empty cells (ExactOccupy), a cell  *)
(* moves (ExactMove), or texts are cut and go on in the batch              *)
(* (ExactChange).  From it: a token attends to its own text and nothing    *)
(* else, and a view of one token always finds a cell.                      *)
(***************************************************************************)
EXTENDS SlotCacheProps, KVCacheProofs

-----------------------------------------------------------------------------
(* Truncation.                                                             *)

LEMMA Quotient ==
    ASSUME NEW x \in Nat, NEW b \in Nat \ {0}
    PROVE  /\ x \div b \in Nat
           /\ (x \div b) * b \in Nat
           /\ (x \div b) * b <= x
           /\ x < (x \div b) * b + b
  BY SMTT(60)

LEMMA NKeepBounds ==
    ASSUME NEW keep \in Int, NEW prompt \in Seq(Tokens)
    PROVE  NKeep(keep, prompt) \in 0 .. SlotCtx - 4
<1>1. SlotCtx >= 4 /\ SlotCtx \in Int
    BY SlotAssumption, CellsAssumption DEF SlotCtx
<1>2. Len(prompt) \in Nat
    OBVIOUS
<1> DEFINE k == IF keep < 0 THEN Len(prompt) ELSE keep
<1>3. k \in Nat
    BY <1>2
<1>4. Min({SlotCtx - 4, k}) \in {SlotCtx - 4, k} /\ Min({SlotCtx - 4, k}) <= SlotCtx - 4
    BY <1>1, <1>3, MinPair
<1> QED  BY <1>1, <1>3, <1>4 DEF NKeep

(***************************************************************************)
(* server.cpp:1411, GGML_ASSERT(slot.n_prompt_tokens < slot.n_ctx): a      *)
(* prompt of any length, with any n_keep, is cut to less than the context  *)
(* of its slot, and something is left of it.                               *)
(***************************************************************************)
THEOREM TruncatedFits ==
    ASSUME NEW prompt \in Seq(Tokens), prompt # <<>>, NEW keep \in Int
    PROVE  LET cut == Truncated(prompt, NKeep(keep, prompt))
           IN  cut \in Seq(Tokens) /\ Len(cut) \in 1 .. SlotCtx - 1
<1> DEFINE k   == NKeep(keep, prompt)
           b   == (SlotCtx - k) \div 2
           x   == Len(prompt) - k - b
           eb  == (x \div b) * b
           cut == Truncated(prompt, k)
<1>1. SlotCtx >= 4 /\ SlotCtx \in Int /\ Len(prompt) \in Nat /\ Len(prompt) # 0
    BY SlotAssumption, CellsAssumption DEF SlotCtx
<1>2. k \in Nat /\ k <= SlotCtx - 4
    BY <1>1, NKeepBounds
<1>3. CASE Len(prompt) < SlotCtx
  <2>1. cut = prompt
    BY <1>3 DEF Truncated
  <2> QED  BY <2>1, <1>1, <1>3
<1>4. CASE ~ (Len(prompt) < SlotCtx)
  <2> HIDE DEF k
  <2>1. b \in Nat \ {0} /\ 2 * b <= SlotCtx - k
    BY <1>1, <1>2
  <2> HIDE DEF b
  <2>2. x \in Nat /\ x = Len(prompt) - k - b
    BY <1>1, <1>2, <1>4, <2>1
  <2> HIDE DEF x
  <2>3. eb \in Nat /\ eb <= x /\ x < eb + b
    BY <2>1, <2>2, Quotient
  <2>4. cut = SubSeq(prompt, 1, k) \o SubSeq(prompt, k + eb + 1, Len(prompt))
    BY <1>4 DEF Truncated, x, b
  <2> HIDE DEF eb
  <2>5. SubSeq(prompt, 1, k) \in Seq(Tokens) /\ Len(SubSeq(prompt, 1, k)) = k
    BY <1>1, <1>2, <1>4, SubSeqProperties
  <2>6. /\ SubSeq(prompt, k + eb + 1, Len(prompt)) \in Seq(Tokens)
        /\ Len(SubSeq(prompt, k + eb + 1, Len(prompt))) = Len(prompt) - (k + eb)
    BY <1>1, <1>2, <1>4, <2>1, <2>2, <2>3, SubSeqProperties
  <2>7. cut \in Seq(Tokens) /\ Len(cut) = k + (Len(prompt) - (k + eb))
    BY <2>4, <2>5, <2>6, ConcatProperties
  <2>8. k + (Len(prompt) - (k + eb)) \in 1 .. SlotCtx - 1
    BY <1>1, <1>2, <1>4, <2>1, <2>2, <2>3
  <2> HIDE DEF cut
  <2> QED  BY <2>7, <2>8 DEF k, cut
<1> QED  BY <1>3, <1>4

-----------------------------------------------------------------------------
(* The end of the context.                                                 *)

States == {"idle", "started", "processing_prompt", "done_prompt", "generating"}

SlotType == [state : States, prompt : Seq(Tokens), n_past : Nat, cache_tokens : Seq(Tokens),
             sampled : Rows, i_batch : Int]

SlotTypeOK ==
    /\ slots \in [Seqs -> SlotType]
    /\ at_slots \in {"tasks", "prompt", "view", "decode"}
    /\ next \in Seqs
    /\ batch \in Seq(Entry)
    /\ i_view \in Nat
    /\ n_batch \in Nat \ {0}
    /\ at_slots = "prompt" => i_view = 0

\* The output of slot s is in a part of the batch not decoded yet.
Awaited(s) == slots[s].i_batch \in i_view .. Len(batch) - 1

\* How far a slot may be.  One that generates is below the end of its context,
\* but for the token it waits for in this round: process_token stops it there.
Bounded(s) ==
    /\ slots[s].state \in {"idle", "started"} => slots[s].n_past = 0
    /\ slots[s].state = "processing_prompt" =>
            /\ slots[s].n_past < Len(slots[s].prompt) /\ Len(slots[s].prompt) < SlotCtx
            /\ slots[s].n_past <= Len(slots[s].cache_tokens)
    /\ slots[s].state = "done_prompt" =>
            slots[s].n_past < SlotCtx /\ at_slots # "tasks" /\ Awaited(s)
    /\ slots[s].state = "generating" =>
            /\ slots[s].sampled \in Tokens
            /\ \/ slots[s].n_past + 1 < SlotCtx
               \/ slots[s].n_past < SlotCtx /\ at_slots # "tasks" /\ Awaited(s)

StopInv == SlotTypeOK /\ \A s \in Seqs : Bounded(s)

LEMMA SeqsFacts ==
    /\ SlotCtx \in Int /\ SlotCtx >= 4
    /\ MaxBatch \in Nat \ {0}
    /\ NSeq \in Nat \ {0}
    /\ NoToken \notin Tokens
    /\ IsFiniteSet(Seqs)
  BY SlotAssumption, CellsAssumption, CacheAssumption, FS_Interval DEF SlotCtx, Seqs

LEMMA StopInit == SlotInit => StopInv
<1> SUFFICES ASSUME SlotInit PROVE StopInv
    OBVIOUS
<1>1. IdleSlot(<<>>) \in SlotType
    BY DEF IdleSlot, SlotType, States, Rows
<1>2. SlotTypeOK
    BY <1>1, SeqsFacts DEF SlotInit, SlotTypeOK, Seqs
<1>3. \A s \in Seqs : slots[s].state = "idle" /\ slots[s].n_past = 0
    BY DEF SlotInit, IdleSlot
<1> QED  BY <1>2, <1>3 DEF StopInv, Bounded

\* A released slot is one of the right type, at the start of its context.
LEMMA ReleasedType ==
    ASSUME NEW sl \in SlotType
    PROVE  Released(sl) \in SlotType /\ Released(sl).state = "idle" /\ Released(sl).n_past = 0
  BY DEF Released, IdleSlot, SlotType, States, Rows

\* What a slot is bound to stays when the loops move on over it.
LEMMA BoundedFrame ==
    ASSUME NEW s \in Seqs, Bounded(s), slots'[s] = slots[s],
           at_slots' = "tasks" => at_slots = "tasks",
           Awaited(s) => Awaited(s)'
    PROVE  Bounded(s)'
  BY DEF Bounded

\* One slot is released or started, nothing else changes.
LEMMA OneSlotInv ==
    ASSUME StopInv, NEW s \in Seqs, NEW sl \in SlotType,
           sl.state \in {"idle", "started"}, sl.n_past = 0,
           slots' = [slots EXCEPT ![s] = sl],
           at_slots' \in {"tasks", "prompt", "view", "decode"},
           at_slots' = "prompt" => at_slots = "prompt",
           at_slots' = "tasks" => at_slots = "tasks",
           next' \in Seqs,
           UNCHANGED <<batch, i_view, n_batch>>
    PROVE  StopInv'
<1>1. SlotTypeOK'
    BY DEF StopInv, SlotTypeOK
<1>2. ASSUME NEW u \in Seqs PROVE Bounded(u)'
  <2>1. CASE u = s
    <3>1. slots'[u] = sl
        BY <2>1 DEF StopInv, SlotTypeOK
    <3> QED  BY <3>1 DEF Bounded
  <2>2. CASE u # s
    <3>1. slots'[u] = slots[u] /\ Bounded(u) /\ (Awaited(u) => Awaited(u)')
        BY <2>2 DEF StopInv, SlotTypeOK, Awaited
    <3> QED  BY <3>1, BoundedFrame
  <2> QED  BY <2>1, <2>2
<1> QED  BY <1>1, <1>2 DEF StopInv

\* No slot changes, and nothing awaited is passed over.
LEMMA NoSlotInv ==
    ASSUME StopInv, slots' = slots,
           at_slots' \in {"tasks", "prompt", "view", "decode"},
           at_slots' = "prompt" => at_slots = "prompt",
           at_slots' = "tasks" => at_slots = "tasks" \/ i_view >= Len(batch),
           next' \in Seqs, n_batch' \in Nat \ {0},
           \/ UNCHANGED <<batch, i_view>>
           \/ batch' = <<>> /\ i_view' = 0 /\ i_view >= Len(batch)
    PROVE  StopInv'
<1>1. SlotTypeOK'
  <2>0. batch \in Seq(Entry) /\ i_view \in Nat /\ (at_slots = "prompt" => i_view = 0) /\ <<>> \in Seq(Entry)
    BY DEF StopInv, SlotTypeOK
  <2>1. batch' \in Seq(Entry) /\ i_view' \in Nat /\ (at_slots' = "prompt" => i_view' = 0)
    <3>1. CASE UNCHANGED <<batch, i_view>>
        BY <2>0, <3>1
    <3>2. CASE batch' = <<>> /\ i_view' = 0
        BY <2>0, <3>2
    <3> QED  BY <3>1, <3>2
  <2> QED  BY <2>1 DEF StopInv, SlotTypeOK
<1>2. ASSUME NEW u \in Seqs PROVE Bounded(u)'
  <2>1. Bounded(u) /\ i_view \in Nat /\ Len(batch) \in Nat /\ slots[u].i_batch \in Int
    BY DEF StopInv, SlotTypeOK, SlotType
  <2>2. CASE i_view >= Len(batch)
    <3>1. ~ Awaited(u)
        BY <2>1, <2>2 DEF Awaited
    <3> QED  BY <2>1, <3>1 DEF Bounded
  <2>3. CASE ~ (i_view >= Len(batch))
    <3>1. Awaited(u) => Awaited(u)'
        BY <2>3 DEF Awaited
    <3> QED  BY <2>1, <2>3, <3>1, BoundedFrame
  <2> QED  BY <2>2, <2>3
<1> QED  BY <1>1, <1>2 DEF StopInv
LEMMA NextSlotFacts ==
    ASSUME next \in Seqs, at_slots = "prompt", NextSlot
    PROVE  next' \in Seqs /\ at_slots' \in {"prompt", "view"}
  BY SeqsFacts DEF NextSlot, Seqs

LEMMA QuietSteps ==
    ASSUME StopInv,
           \/ \E s \in Seqs, prompt \in Prompts : Launch(s, prompt)
           \/ \E s \in Seqs : CancelTask(s)
           \/ IdleRound \/ SkipSlot \/ EmptyPrompt \/ BeginView \/ DecodeView \/ EndRound
    PROVE  StopInv'
<1>0. SlotTypeOK /\ \A s \in Seqs : Bounded(s) /\ slots[s] \in SlotType
    BY DEF StopInv, SlotTypeOK
<1>1. ASSUME NEW s \in Seqs, NEW prompt \in Prompts, Launch(s, prompt) PROVE StopInv'
  <2> DEFINE sl == [slots[s] EXCEPT !.state = "started", !.prompt = prompt]
  <2>1. slots[s] \in SlotType /\ slots[s].state = "idle" /\ slots[s].n_past = 0
    BY <1>0, <1>1 DEF Launch, IsProcessing, Bounded
  <2>2. prompt \in Seq(Tokens)
    BY SlotAssumption
  <2>3. sl \in SlotType /\ sl.state = "started" /\ sl.n_past = 0
    BY <2>1, <2>2 DEF SlotType, States
  <2>4. slots' = [slots EXCEPT ![s] = sl]
    BY <1>0, <1>1 DEF Launch, SlotTypeOK, SlotType
  <2>5. at_slots' = "tasks" /\ at_slots = "tasks" /\ next' = next /\ UNCHANGED <<batch, i_view, n_batch>>
    BY <1>1 DEF Launch
  <2> HIDE DEF sl
  <2> QED  BY <1>0, <2>3, <2>4, <2>5, OneSlotInv DEF SlotTypeOK
<1>2. ASSUME NEW s \in Seqs, CancelTask(s) PROVE StopInv'
  <2>1. slots' = [slots EXCEPT ![s] = Released(slots[s])]
    BY <1>2 DEF CancelTask
  <2>2. at_slots' = "tasks" /\ at_slots = "tasks" /\ next' = next /\ UNCHANGED <<batch, i_view, n_batch>>
    BY <1>2 DEF CancelTask
  <2> QED  BY <1>0, <2>1, <2>2, ReleasedType, OneSlotInv DEF SlotTypeOK
<1>3. CASE IdleRound
    BY <1>0, <1>3, NoSlotInv DEF IdleRound, SlotTypeOK
<1>4. CASE SkipSlot
  <2>1. at_slots = "prompt" /\ UNCHANGED <<slots, batch, i_view, n_batch>>
    BY <1>4 DEF SkipSlot
  <2>2. next' \in Seqs /\ at_slots' \in {"prompt", "view"}
    BY <1>0, <1>4, <2>1, NextSlotFacts DEF SkipSlot, SlotTypeOK
  <2> QED  BY <1>0, <2>1, <2>2, NoSlotInv DEF SlotTypeOK
<1>5. CASE EmptyPrompt
  <2>1. at_slots = "prompt" /\ UNCHANGED <<batch, i_view, n_batch>>
    BY <1>5 DEF EmptyPrompt
  <2>2. slots' = [slots EXCEPT ![next] = Released(slots[next])]
    BY <1>5 DEF EmptyPrompt
  <2>3. next' \in Seqs /\ at_slots' \in {"prompt", "view"}
    BY <1>0, <1>5, SeqsFacts DEF EmptyPrompt, SlotTypeOK, Seqs
  <2> QED  BY <1>0, <2>1, <2>2, <2>3, ReleasedType, OneSlotInv DEF SlotTypeOK
<1>6. CASE BeginView
    BY <1>0, <1>6, NoSlotInv DEF BeginView, SlotTypeOK
<1>7. CASE DecodeView
    BY <1>0, <1>7, NoSlotInv DEF DecodeView, servervars, SlotTypeOK
<1>8. CASE EndRound
    BY <1>0, <1>8, NoSlotInv, SeqsFacts DEF EndRound, SlotTypeOK, Seqs
<1> QED  BY <1>1, <1>2, <1>3, <1>4, <1>5, <1>6, <1>7, <1>8

\* The ranks of the generating slots are places in the batch.
LEMMA RankFacts ==
    /\ IsFiniteSet(Generating)
    /\ Cardinality(Generating) \in Nat
    /\ \A s \in Generating : Rank(s) \in 0 .. Cardinality(Generating) - 1
<1>1. Generating \subseteq Seqs
    BY DEF Generating
<1>2. IsFiniteSet(Generating) /\ Cardinality(Generating) \in Nat
    BY <1>1, SeqsFacts, FS_Subset, FS_CardinalityType
<1>3. ASSUME NEW s \in Generating PROVE Rank(s) \in 0 .. Cardinality(Generating) - 1
  <2> DEFINE below == {u \in Generating : u < s}
  <2>1. below \subseteq Generating \ {s}
    BY <1>1 DEF Seqs
  <2>2. /\ IsFiniteSet(Generating \ {s})
        /\ Cardinality(Generating \ {s}) = Cardinality(Generating) - 1
    BY <1>2, FS_RemoveElement
  <2>3. IsFiniteSet(below) /\ Cardinality(below) <= Cardinality(Generating \ {s})
    BY <2>1, <2>2, FS_Subset
  <2>4. Cardinality(below) \in Nat
    BY <2>3, FS_CardinalityType
  <2> QED  BY <1>2, <2>2, <2>3, <2>4 DEF Rank
<1> QED  BY <1>2, <1>3

LEMMA RankInjective ==
    ASSUME NEW s \in Generating, NEW u \in Generating, Rank(s) = Rank(u)
    PROVE  s = u
<1>1. ASSUME NEW x \in Generating, NEW y \in Generating, x < y PROVE Rank(x) # Rank(y)
  <2> DEFINE below == {v \in Generating : v < x}
             upto  == {v \in Generating : v < y}
  <2>1. below \subseteq upto /\ x \in upto /\ x \notin below
    BY <1>1 DEF Generating, Seqs
  <2>2. IsFiniteSet(upto)
    BY RankFacts, FS_Subset
  <2>3. Cardinality(below) # Cardinality(upto)
    BY <2>1, <2>2, FS_Subset
  <2> QED  BY <2>3 DEF Rank
<1>2. s \in Int /\ u \in Int
    BY DEF Generating, Seqs
<1> QED  BY <1>1, <1>2

\* Every place in the batch is the rank of a slot.
LEMMA RankOnto ==
    ASSUME NEW r \in 0 .. Cardinality(Generating) - 1
    PROVE  \E s \in Generating : Rank(s) = r
<1> DEFINE k == Cardinality(Generating)
           h == [s \in Generating |-> Rank(s)]
           T == {h[s] : s \in Generating}
<1>1. IsFiniteSet(Generating) /\ k \in Nat /\ \A s \in Generating : Rank(s) \in 0 .. k - 1
    BY RankFacts
<1>3. \A s, u \in Generating : Rank(s) = Rank(u) => s = u
    BY RankInjective
<1>4. h \in Bijection(Generating, T)
  <2>1. h \in Injection(Generating, T)
    BY <1>3 DEF Injection, IsInjective
  <2>2. h \in Surjection(Generating, T)
    BY DEF Surjection
  <2> QED  BY <2>1, <2>2 DEF Bijection
<1>5. Cardinality(T) = k
    BY <1>1, <1>4, FS_Bijection DEF ExistsBijection
<1>6. T \subseteq 0 .. k - 1
    BY <1>1
<1>7. IsFiniteSet(0 .. k - 1) /\ Cardinality(0 .. k - 1) = k
    BY <1>1, FS_Interval
<1>8. T = 0 .. k - 1
    BY <1>5, <1>6, <1>7, FS_Subset
<1> QED  BY <1>8

\* Between rounds no busy slot is at the end of its context.
LEMMA NoneFull ==
    ASSUME StopInv, at_slots = "tasks"
    PROVE  /\ \A s \in Seqs : IsProcessing(s) => slots[s].n_past + 1 < SlotCtx
           /\ ~ \E s \in Seqs : IsProcessing(s) /\ ContextFull(slots[s])
<1>1. \A s \in Seqs : IsProcessing(s) => slots[s].n_past + 1 < SlotCtx
  <2> SUFFICES ASSUME NEW s \in Seqs, IsProcessing(s) PROVE slots[s].n_past + 1 < SlotCtx
    OBVIOUS
  <2>1. Bounded(s) /\ slots[s] \in SlotType
    BY DEF StopInv, SlotTypeOK
  <2>2. slots[s].n_past \in Nat /\ slots[s].state \in States /\ Len(slots[s].prompt) \in Nat
    BY <2>1 DEF SlotType
  <2> QED  BY <2>1, <2>2, SeqsFacts DEF Bounded, IsProcessing, States
<1>2. \A s \in Seqs : slots[s].n_past \in Nat
    BY DEF StopInv, SlotTypeOK, SlotType
<1> QED  BY <1>1, <1>2, SeqsFacts DEF ContextFull

\* What BeginRound makes of the generating slots.
LEMMA RoundFacts ==
    ASSUME StopInv, BeginRound
    PROVE  /\ batch' \in Seq(Entry) /\ Len(batch') = Cardinality(Generating)
           /\ \A j \in 1 .. Len(batch') : \E s \in Generating :
                    Rank(s) = j - 1 /\ batch'[j] = Token(s, slots[s].n_past, slots[s].sampled)
           /\ slots' = [s \in Seqs |-> IF s \in Generating THEN Generated(s) ELSE slots[s]]
           /\ at_slots' \in {"prompt", "view"}
<1>1. at_slots = "tasks" /\ ~ \E s \in Seqs : IsProcessing(s) /\ ContextFull(slots[s])
    BY NoneFull DEF BeginRound
<1> DEFINE k        == Cardinality(Generating)
           who(j)   == CHOOSE u \in Generating : Rank(u) = j - 1
           entry(j) == Token(who(j), slots[who(j)].n_past, slots[who(j)].sampled)
<1>2. /\ batch' = [j \in 1 .. k |-> entry(j)]
      /\ slots' = [s \in Seqs |-> IF s \in Generating THEN Generated(s) ELSE slots[s]]
      /\ at_slots' \in {"prompt", "view"}
    BY <1>1 DEF BeginRound
<1>3. k \in Nat
    BY RankFacts
<1>4. ASSUME NEW j \in 1 .. k PROVE who(j) \in Generating /\ Rank(who(j)) = j - 1
  <2>1. j - 1 \in 0 .. k - 1
    BY <1>3
  <2> QED  BY <2>1, RankOnto
<1> HIDE DEF who
<1>5. ASSUME NEW j \in 1 .. k PROVE entry(j) \in Entry
  <2>1. who(j) \in Seqs /\ slots[who(j)].state = "generating"
    BY <1>4 DEF Generating
  <2>2. slots[who(j)].n_past \in Nat /\ slots[who(j)].sampled \in Tokens
    BY <2>1 DEF StopInv, SlotTypeOK, SlotType, Bounded
  <2> QED  BY <2>1, <2>2 DEF Token, Entry
<1>6. \A j \in 1 .. k : \E s \in Generating :
            Rank(s) = j - 1 /\ entry(j) = Token(s, slots[s].n_past, slots[s].sampled)
    BY <1>4
<1> HIDE DEF entry
<1>7. batch' \in Seq(Entry) /\ Len(batch') = k /\ \A j \in 1 .. k : batch'[j] = entry(j)
    BY <1>2, <1>3, <1>5
<1> QED  BY <1>2, <1>6, <1>7

\* A generating slot with its token in the batch.
LEMMA GeneratedFacts ==
    ASSUME StopInv, NEW s \in Generating
    PROVE  /\ Generated(s) \in SlotType
           /\ Generated(s).state = "generating"
           /\ Generated(s).sampled \in Tokens
           /\ Generated(s).n_past = slots[s].n_past + 1
           /\ Generated(s).i_batch = Rank(s)
           /\ Generated(s).prompt = slots[s].prompt
           /\ Generated(s).cache_tokens = Append(slots[s].cache_tokens, slots[s].sampled)
<1>1. s \in Seqs /\ slots[s] \in SlotType /\ slots[s].state = "generating"
    BY DEF StopInv, SlotTypeOK, Generating
<1>2. slots[s].sampled \in Tokens
    BY <1>1 DEF StopInv, Bounded
<1>3. Append(slots[s].cache_tokens, slots[s].sampled) \in Seq(Tokens)
    BY <1>1, <1>2 DEF SlotType
<1>4. slots[s].n_past + 1 \in Nat /\ Rank(s) \in Int
    BY <1>1, RankFacts DEF SlotType
<1> QED  BY <1>1, <1>2, <1>3, <1>4 DEF Generated, SlotType

LEMMA BeginRoundInv ==
    ASSUME StopInv, BeginRound
    PROVE  StopInv'
<1>0. SlotTypeOK /\ \A s \in Seqs : Bounded(s) /\ slots[s] \in SlotType
    BY DEF StopInv, SlotTypeOK
<1>1. at_slots = "tasks" /\ i_view' = 0 /\ n_batch' = MaxBatch /\ next' = 0
    BY DEF BeginRound
<1>2. \A s \in Seqs : IsProcessing(s) => slots[s].n_past + 1 < SlotCtx
    BY <1>1, NoneFull
<1>3. \A s \in Seqs : slots[s].n_past \in Nat
    BY <1>0 DEF SlotType
<1> DEFINE k == Cardinality(Generating)
<1>5. /\ batch' \in Seq(Entry) /\ Len(batch') = k
      /\ slots' = [s \in Seqs |-> IF s \in Generating THEN Generated(s) ELSE slots[s]]
      /\ at_slots' \in {"prompt", "view"}
    BY RoundFacts
<1>6. k \in Nat /\ \A s \in Generating : Rank(s) \in 0 .. k - 1
    BY RankFacts
<1>9. \A s \in Generating : /\ Generated(s) \in SlotType
                             /\ Generated(s).state = "generating"
                             /\ Generated(s).sampled \in Tokens
                             /\ Generated(s).n_past = slots[s].n_past + 1
                             /\ Generated(s).i_batch = Rank(s)
    BY GeneratedFacts
<1>10. slots' \in [Seqs -> SlotType]
    BY <1>0, <1>5, <1>9
<1>11. SlotTypeOK'
  <2>1. 0 \in Seqs /\ MaxBatch \in Nat \ {0}
    BY SeqsFacts DEF Seqs
  <2> QED  BY <1>1, <1>5, <1>10, <2>1 DEF SlotTypeOK
<1>12. ASSUME NEW s \in Seqs PROVE Bounded(s)'
  <2>1. CASE s \in Generating
    <3>1. slots'[s] = Generated(s)
        BY <1>5, <2>1
    <3>2. slots'[s].n_past < SlotCtx
        BY <1>2, <1>3, <1>9, <2>1, <3>1, SeqsFacts DEF Generating, IsProcessing
    <3>3. Awaited(s)'
        BY <1>1, <1>5, <1>6, <1>9, <2>1, <3>1 DEF Awaited
    <3>4. at_slots' # "tasks"
        BY <1>5
    <3> QED  BY <1>9, <2>1, <3>1, <3>2, <3>3, <3>4 DEF Bounded
  <2>2. CASE s \notin Generating
    <3>1. slots'[s] = slots[s] /\ Bounded(s) /\ slots[s].state # "generating"
        BY <1>0, <1>5, <2>2 DEF Generating
    <3>2. slots[s].state # "done_prompt"
        BY <1>1, <3>1 DEF Bounded
    <3> QED  BY <3>1, <3>2 DEF Bounded
  <2> QED  BY <2>1, <2>2
<1> QED  BY <1>11, <1>12 DEF StopInv
-----------------------------------------------------------------------------
(* A slot whose prompt goes into the batch.                                *)

LEMMA ReusedFacts ==
    ASSUME NEW cache \in Seq(Tokens), NEW prompt \in Seq(Tokens), prompt # <<>>
    PROVE  /\ Reused(cache, prompt) \in 0 .. Len(prompt) - 1
           /\ Reused(cache, prompt) <= Len(cache)
           /\ \A p \in 1 .. Reused(cache, prompt) : cache[p] = prompt[p]
<1> DEFINE most == Min({Len(cache), Len(prompt) - 1})
           S    == {m \in 0 .. most : SubSeq(cache, 1, m) = SubSeq(prompt, 1, m)}
<1>1. Len(cache) \in Nat /\ Len(prompt) \in Nat /\ Len(prompt) # 0
    OBVIOUS
<1>2. most \in Nat /\ most <= Len(cache) /\ most <= Len(prompt) - 1
    BY <1>1, MinPair
<1> HIDE DEF most
<1>3. SubSeq(cache, 1, 0) = <<>> /\ SubSeq(prompt, 1, 0) = <<>>
    BY SubSeqEmpty
<1>4. 0 \in S
    BY <1>2, <1>3
<1>5. S \in SUBSET Int /\ \A m \in S : m <= most
    BY <1>2
<1>6. S \subseteq 0 .. most /\ \A m \in S : SubSeq(cache, 1, m) = SubSeq(prompt, 1, m)
    OBVIOUS
<1> HIDE DEF S
<1>7. Max(S) \in S
  <2>1. S # {} /\ most \in Int
    BY <1>2, <1>4
  <2> QED  BY <1>5, <2>1, MaxBounded
<1>8. PICK m : m = Max(S)
    OBVIOUS
<1>9. m \in 0 .. most /\ SubSeq(cache, 1, m) = SubSeq(prompt, 1, m)
    BY <1>6, <1>7, <1>8
<1>10. ASSUME NEW p \in 1 .. m PROVE cache[p] = prompt[p]
  <2>1. m \in Nat /\ m <= Len(cache) /\ m <= Len(prompt)
    BY <1>1, <1>2, <1>9
  <2>2. SubSeq(cache, 1, m)[p] = cache[p] /\ SubSeq(prompt, 1, m)[p] = prompt[p]
    BY <2>1
  <2> QED  BY <1>9, <2>2
<1>11. Reused(cache, prompt) = m
    BY <1>8 DEF Reused, S, most
<1> QED  BY <1>1, <1>2, <1>9, <1>10, <1>11

LEMMA PreparedFacts ==
    ASSUME StopInv, NEW s \in Seqs, NEW keep \in Int,
           slots[s].state \in {"started", "processing_prompt"}, slots[s].prompt # <<>>
    PROVE  LET sl == Prepared(slots[s], keep)
           IN  /\ sl \in SlotType
               /\ sl.state = "processing_prompt"
               /\ sl.n_past < Len(sl.prompt) /\ Len(sl.prompt) < SlotCtx
               /\ sl.n_past <= Len(sl.cache_tokens)
               /\ sl.cache_tokens = slots[s].cache_tokens
               /\ \/ sl = slots[s]
                  \/ \A p \in 1 .. sl.n_past : sl.cache_tokens[p] = sl.prompt[p]
<1>1. slots[s] \in SlotType /\ Bounded(s)
    BY DEF StopInv, SlotTypeOK
<1>2. CASE slots[s].state # "started"
    BY <1>1, <1>2 DEF Prepared, Bounded
<1>3. CASE slots[s].state = "started"
  <2> DEFINE cut  == Truncated(slots[s].prompt, NKeep(keep, slots[s].prompt))
             past == Reused(slots[s].cache_tokens, cut)
  <2>1. slots[s].prompt \in Seq(Tokens) /\ slots[s].cache_tokens \in Seq(Tokens)
    BY <1>1 DEF SlotType
  <2>2. cut \in Seq(Tokens) /\ Len(cut) \in 1 .. SlotCtx - 1
    BY <2>1, TruncatedFits
  <2>3. Prepared(slots[s], keep) =
            [slots[s] EXCEPT !.state = "processing_prompt", !.prompt = cut, !.n_past = past]
    BY <1>3 DEF Prepared
  <2> HIDE DEF cut
  <2>4. cut # <<>> /\ Len(cut) \in Nat
    BY <2>2
  <2>5. /\ past \in 0 .. Len(cut) - 1 /\ past <= Len(slots[s].cache_tokens)
        /\ \A p \in 1 .. past : slots[s].cache_tokens[p] = cut[p]
    BY <2>1, <2>2, <2>4, ReusedFacts
  <2> HIDE DEF past
  <2>6. past \in Nat /\ past < Len(cut) /\ Len(cut) < SlotCtx
    BY <2>2, <2>5, SeqsFacts
  <2>7. PICK sl : sl = Prepared(slots[s], keep)
    OBVIOUS
  <2>8. /\ sl.state = "processing_prompt" /\ sl.prompt = cut /\ sl.n_past = past
        /\ sl.cache_tokens = slots[s].cache_tokens
    BY <1>1, <2>3, <2>7 DEF SlotType
  <2>9. sl \in SlotType
    BY <1>1, <2>2, <2>3, <2>6, <2>7 DEF SlotType, States
  <2> QED  BY <2>5, <2>6, <2>7, <2>8, <2>9
<1> QED  BY <1>2, <1>3

\* Slot s is prepared as sl, and list is its text once the next tokens of its
\* prompt are in the batch.
BatchedAs(keep, s, sl, list) ==
    /\ s = next /\ sl = Prepared(slots[s], keep)
    /\ sl.n_past < Len(sl.prompt) /\ Len(sl.prompt) < SlotCtx
    /\ sl.n_past <= Len(sl.cache_tokens)
    /\ sl.n_past <= Len(list) /\ Len(list) <= Len(sl.prompt)
    /\ \A i \in 1 .. sl.n_past : list[i] = sl.cache_tokens[i]
    /\ \A i \in sl.n_past + 1 .. Len(list) : list[i] = sl.prompt[i]
    /\ slots' = [slots EXCEPT ![s] =
            [sl EXCEPT !.cache_tokens = list, !.n_past = Len(list),
                       !.state = IF Len(list) = Len(sl.prompt) THEN "done_prompt"
                                 ELSE "processing_prompt",
                       !.i_batch = IF Len(list) = Len(sl.prompt) THEN Len(batch') - 1
                                   ELSE sl.i_batch]]
    /\ batch' \in Seq(Entry)
    /\ Len(batch') = Len(batch) + (Len(list) - sl.n_past)
    /\ \A j \in 1 .. Len(batch) : batch'[j] = batch[j]
    /\ \A j \in 1 .. Len(list) - sl.n_past :
            batch'[Len(batch) + j] = Token(s, sl.n_past + j - 1, list[sl.n_past + j])

LEMMA BatchedFacts ==
    ASSUME StopInv, NEW keep \in Keeps, BatchPrompt(keep)
    PROVE  \E s \in Seqs, sl \in SlotType, list \in Seq(Tokens) : BatchedAs(keep, s, sl, list)
<1>0. SlotTypeOK /\ next \in Seqs /\ \A s \in Seqs : Bounded(s) /\ slots[s] \in SlotType
    BY DEF StopInv, SlotTypeOK
<1>a. PICK s \in Seqs : s = next
    BY <1>0
<1>b. PICK sl : sl = Prepared(slots[s], keep)
    OBVIOUS
<1> DEFINE room == Room(sl)
           end  == sl.n_past + room
           new  == [j \in 1 .. room |-> Token(s, sl.n_past + j - 1, sl.prompt[sl.n_past + j])]
           tail == SubSeq(sl.prompt, sl.n_past + 1, end)
           list == SubSeq(sl.cache_tokens, 1, sl.n_past) \o tail
<1>1. /\ slots[s].state \in {"started", "processing_prompt"}
      /\ slots[s].prompt # <<>>
      /\ batch' = batch \o new
      /\ slots' = [slots EXCEPT ![s] = Batched(sl)]
    BY <1>a, <1>b DEF BatchPrompt
<1>2. keep \in Int
    BY SlotAssumption
<1>3. /\ sl \in SlotType
      /\ sl.state = "processing_prompt"
      /\ sl.n_past < Len(sl.prompt) /\ Len(sl.prompt) < SlotCtx
      /\ sl.n_past <= Len(sl.cache_tokens)
    BY <1>1, <1>2, <1>b, PreparedFacts
<1>4. sl.n_past \in Nat /\ sl.prompt \in Seq(Tokens) /\ sl.cache_tokens \in Seq(Tokens)
      /\ Len(sl.prompt) \in Nat /\ Len(sl.cache_tokens) \in Nat
    BY <1>3 DEF SlotType
<1>5. Len(batch) \in Nat /\ batch \in Seq(Entry)
    BY <1>0 DEF SlotTypeOK
<1>6. room \in 0 .. Len(sl.prompt) - sl.n_past
  <2>1. MaxBatch - Len(batch) \in Int
    BY <1>5, SeqsFacts
  <2> DEFINE space == Max({MaxBatch - Len(batch), 0})
             left  == Len(sl.prompt) - sl.n_past
  <2>2. space \in Nat
    BY <2>1, MaxPair
  <2>3. left \in Nat
    BY <1>3, <1>4
  <2>4. room = Min({left, space})
    BY DEF Room
  <2> HIDE DEF space, left, room
  <2>5. room \in 0 .. left
    BY <2>2, <2>3, <2>4, MinPair
  <2> QED  BY <2>5 DEF left
<1> HIDE DEF room
<1>7. room \in Nat /\ end \in Nat /\ end <= Len(sl.prompt) /\ sl.n_past <= end
      /\ end = sl.n_past + room
    BY <1>3, <1>4, <1>6
<1> HIDE DEF end
<1>8. /\ new \in Seq(Entry) /\ Len(new) = room
      /\ \A j \in 1 .. room : new[j] = Token(s, sl.n_past + j - 1, sl.prompt[sl.n_past + j])
  <2>1. ASSUME NEW j \in 1 .. room
        PROVE  Token(s, sl.n_past + j - 1, sl.prompt[sl.n_past + j]) \in Entry
    <3>1. sl.n_past + j \in 1 .. Len(sl.prompt) /\ sl.n_past + j - 1 \in Int
        BY <1>4, <1>7
    <3>2. sl.prompt[sl.n_past + j] \in Tokens
        BY <1>4, <3>1
    <3> QED  BY <3>1, <3>2 DEF Token, Entry
  <2> QED  BY <1>7, <2>1
<1> HIDE DEF new
<1>9. /\ batch' \in Seq(Entry) /\ Len(batch') = Len(batch) + room
      /\ \A j \in 1 .. Len(batch) : batch'[j] = batch[j]
      /\ \A j \in 1 .. room : batch'[Len(batch) + j] = new[j]
  <2>1. batch' \in Seq(Entry) /\ Len(batch') = Len(batch) + room
    BY <1>1, <1>5, <1>8, ConcatProperties
  <2>2. \A j \in 1 .. Len(batch) + Len(new) :
            batch'[j] = IF j <= Len(batch) THEN batch[j] ELSE new[j - Len(batch)]
    BY <1>1, <1>5, <1>8, ConcatProperties
  <2>3. ASSUME NEW j \in 1 .. Len(batch) PROVE batch'[j] = batch[j]
    BY <1>5, <1>7, <1>8, <2>2
  <2>4. ASSUME NEW j \in 1 .. room PROVE batch'[Len(batch) + j] = new[j]
    <3>1. /\ Len(batch) + j \in 1 .. Len(batch) + Len(new) /\ ~ (Len(batch) + j <= Len(batch))
          /\ (Len(batch) + j) - Len(batch) = j
        BY <1>5, <1>7, <1>8
    <3> QED  BY <2>2, <3>1
  <2> QED  BY <2>1, <2>3, <2>4
<1>10. /\ SubSeq(sl.cache_tokens, 1, sl.n_past) \in Seq(Tokens)
       /\ Len(SubSeq(sl.cache_tokens, 1, sl.n_past)) = sl.n_past
       /\ \A i \in 1 .. sl.n_past : SubSeq(sl.cache_tokens, 1, sl.n_past)[i] = sl.cache_tokens[i]
    BY <1>3, <1>4, SubSeqProperties
<1>11. /\ tail \in Seq(Tokens) /\ Len(tail) = room
       /\ \A i \in 1 .. room : tail[i] = sl.prompt[sl.n_past + i]
  <2>1. \A i \in sl.n_past + 1 .. end : sl.prompt[i] \in Tokens
    BY <1>4, <1>7
  <2>2. /\ tail \in Seq(Tokens)
        /\ Len(tail) = IF sl.n_past + 1 <= end THEN end - (sl.n_past + 1) + 1 ELSE 0
    BY <1>4, <1>7, <2>1, SubSeqProperties
  <2>3. Len(tail) = room
    BY <1>4, <1>7, <2>2, SMTT(30)
  <2>4. ASSUME NEW i \in 1 .. room PROVE tail[i] = sl.prompt[sl.n_past + i]
    BY <1>4, <1>7
  <2> QED  BY <2>2, <2>3, <2>4
<1>12. /\ list \in Seq(Tokens) /\ Len(list) = end
       /\ \A i \in 1 .. sl.n_past : list[i] = sl.cache_tokens[i]
       /\ \A i \in sl.n_past + 1 .. end : list[i] = sl.prompt[i]
  <2> DEFINE kept == SubSeq(sl.cache_tokens, 1, sl.n_past)
  <2>1. list = kept \o tail /\ kept \in Seq(Tokens) /\ Len(kept) = sl.n_past
        /\ \A i \in 1 .. sl.n_past : kept[i] = sl.cache_tokens[i]
    BY <1>10
  <2> HIDE DEF tail, kept, list
  <2>2. list \in Seq(Tokens) /\ Len(list) = end
    BY <1>7, <1>11, <2>1, ConcatProperties
  <2>3. \A i \in 1 .. Len(kept) + Len(tail) :
            list[i] = IF i <= Len(kept) THEN kept[i] ELSE tail[i - Len(kept)]
    BY <1>11, <2>1, ConcatProperties
  <2>4. ASSUME NEW i \in 1 .. sl.n_past PROVE list[i] = sl.cache_tokens[i]
    <3>1. i \in 1 .. Len(kept) + Len(tail) /\ i <= Len(kept)
        BY <1>4, <1>7, <1>11, <2>1
    <3> QED  BY <2>1, <2>3, <3>1
  <2>5. ASSUME NEW i \in sl.n_past + 1 .. end PROVE list[i] = sl.prompt[i]
    <3>1. /\ i \in 1 .. Len(kept) + Len(tail) /\ ~ (i <= Len(kept))
          /\ i - sl.n_past \in 1 .. room /\ sl.n_past + (i - sl.n_past) = i
      <4>1. Len(kept) = sl.n_past /\ Len(tail) = room
        BY <1>11, <2>1
      <4>2. sl.n_past \in Nat /\ room \in Nat /\ end = sl.n_past + room
        BY <1>4, <1>7
      <4>3. i \in Int /\ i >= sl.n_past + 1 /\ i <= sl.n_past + room
        BY <4>2
      <4> QED  BY ONLY <4>1, <4>2, <4>3
    <3>2. list[i] = tail[i - sl.n_past]
        BY <2>1, <2>3, <3>1
    <3> QED  BY <1>11, <3>1, <3>2
  <2> QED  BY <2>2, <2>4, <2>5
<1>13. Batched(sl) = [sl EXCEPT !.cache_tokens = list, !.n_past = end,
                                !.state = IF end = Len(sl.prompt) THEN "done_prompt" ELSE sl.state,
                                !.i_batch = IF end = Len(sl.prompt) THEN Len(batch) + room - 1
                                            ELSE sl.i_batch]
    BY DEF Batched, end, room, list, tail
<1> HIDE DEF list
<1>14. \A j \in 1 .. room : batch'[Len(batch) + j] = Token(s, sl.n_past + j - 1, list[sl.n_past + j])
  <2> SUFFICES ASSUME NEW j \in 1 .. room
               PROVE  batch'[Len(batch) + j] = Token(s, sl.n_past + j - 1, list[sl.n_past + j])
    OBVIOUS
  <2>1. sl.n_past + j \in sl.n_past + 1 .. end
    BY <1>4, <1>7
  <2> QED  BY <1>8, <1>9, <1>12, <2>1
<1>15. slots' = [slots EXCEPT ![s] =
                    [sl EXCEPT !.cache_tokens = list, !.n_past = Len(list),
                               !.state = IF Len(list) = Len(sl.prompt) THEN "done_prompt"
                                         ELSE "processing_prompt",
                               !.i_batch = IF Len(list) = Len(sl.prompt) THEN Len(batch') - 1
                                           ELSE sl.i_batch]]
  <2>1. Len(list) = end /\ Len(batch') - 1 = Len(batch) + room - 1 /\ sl.state = "processing_prompt"
    BY <1>3, <1>5, <1>7, <1>9, <1>12
  <2>2. Batched(sl) = [sl EXCEPT !.cache_tokens = list, !.n_past = Len(list),
                               !.state = IF Len(list) = Len(sl.prompt) THEN "done_prompt"
                                         ELSE "processing_prompt",
                               !.i_batch = IF Len(list) = Len(sl.prompt) THEN Len(batch') - 1
                                           ELSE sl.i_batch]
    BY <1>13, <2>1, Zenon
  <2> QED  BY <1>1, <2>2
<1>16. room = Len(list) - sl.n_past
    BY <1>4, <1>7, <1>12
<1>17. sl.n_past <= Len(list) /\ Len(list) <= Len(sl.prompt)
    BY <1>7, <1>12
<1>18. BatchedAs(keep, s, sl, list)
    BY <1>3, <1>9, <1>12, <1>14, <1>15, <1>16, <1>17, <1>a, <1>b DEF BatchedAs
<1> QED  BY <1>3, <1>12, <1>18

LEMMA BatchPromptInv ==
    ASSUME StopInv, NEW keep \in Keeps, BatchPrompt(keep)
    PROVE  StopInv'
<1>0. SlotTypeOK /\ next \in Seqs /\ \A s \in Seqs : Bounded(s) /\ slots[s] \in SlotType
    BY DEF StopInv, SlotTypeOK
<1>1. at_slots = "prompt" /\ NextSlot /\ i_view' = i_view /\ n_batch' = n_batch
    BY DEF BatchPrompt
<1>u. PICK u \in Seqs, sl \in SlotType, list \in Seq(Tokens) : BatchedAs(keep, u, sl, list)
    BY BatchedFacts
<1>2. /\ u = next
      /\ sl.n_past < Len(sl.prompt) /\ Len(sl.prompt) < SlotCtx
      /\ sl.n_past <= Len(list) /\ Len(list) <= Len(sl.prompt)
      /\ slots' = [slots EXCEPT ![u] =
            [sl EXCEPT !.cache_tokens = list, !.n_past = Len(list),
                       !.state = IF Len(list) = Len(sl.prompt) THEN "done_prompt"
                                 ELSE "processing_prompt",
                       !.i_batch = IF Len(list) = Len(sl.prompt) THEN Len(batch') - 1
                                   ELSE sl.i_batch]]
      /\ batch' \in Seq(Entry)
      /\ Len(batch') = Len(batch) + (Len(list) - sl.n_past)
    BY <1>u DEF BatchedAs
<1>3. PICK m : m = Len(batch')
    OBVIOUS
<1>4. /\ sl.n_past \in Nat /\ Len(list) \in Nat /\ Len(sl.prompt) \in Nat
      /\ Len(batch) \in Nat /\ m \in Nat /\ i_view = 0
      /\ m = Len(batch) + (Len(list) - sl.n_past) /\ m >= Len(batch)
  <2>1. /\ sl.n_past \in Nat /\ Len(list) \in Nat /\ Len(sl.prompt) \in Nat
        /\ Len(batch) \in Nat /\ i_view = 0 /\ sl.n_past <= Len(list)
    BY <1>0, <1>1, <1>2 DEF SlotTypeOK, SlotType
  <2> QED  BY <1>2, <1>3, <2>1
<1> DEFINE done == Len(list) = Len(sl.prompt)
           st   == IF done THEN "done_prompt" ELSE "processing_prompt"
           ib   == IF done THEN m - 1 ELSE sl.i_batch
           new  == [sl EXCEPT !.cache_tokens = list, !.n_past = Len(list), !.state = st,
                              !.i_batch = ib]
<1>5. new \in SlotType
  <2>1. st \in States
    BY DEF States
  <2>2. ib \in Int
    BY <1>4 DEF SlotType
  <2> HIDE DEF st, ib, done
  <2> QED  BY <1>4, <2>1, <2>2 DEF SlotType
<1>6. /\ new.n_past = Len(list) /\ new.cache_tokens = list /\ new.prompt = sl.prompt
      /\ new.state = IF done THEN "done_prompt" ELSE "processing_prompt"
      /\ done => new.i_batch = m - 1
    BY DEF SlotType
<1>7. slots' = [slots EXCEPT ![u] = new]
    BY <1>2, <1>3
<1> HIDE DEF new
<1>16. next' \in Seqs /\ at_slots' \in {"prompt", "view"}
    BY <1>0, <1>1, NextSlotFacts
<1>17. SlotTypeOK'
    BY <1>0, <1>1, <1>2, <1>4, <1>5, <1>7, <1>16 DEF SlotTypeOK
<1>18. ASSUME NEW s \in Seqs PROVE Bounded(s)'
  <2>1. CASE s # u
    <3>1. slots'[s] = slots[s]
        BY <1>0, <1>7, <2>1 DEF SlotTypeOK
    <3>2. slots[s].i_batch \in Int
        BY <1>0 DEF SlotType
    <3>3. Awaited(s) => Awaited(s)'
        BY <1>1, <1>3, <1>4, <3>1, <3>2 DEF Awaited
    <3>4. at_slots' # "tasks"
        BY <1>16
    <3> QED  BY <1>0, <3>1, <3>3, <3>4, BoundedFrame
  <2>2. CASE s = u
    <3>1. slots'[s] = new
        BY <1>0, <1>7, <2>2 DEF SlotTypeOK
    <3>2. CASE done
      <4>1. new.state = "done_prompt" /\ new.n_past = Len(list) /\ new.i_batch = m - 1
        BY <1>6, <3>2
      <4>2. Len(list) < SlotCtx /\ m >= 1
        BY <1>2, <1>4, <3>2, SeqsFacts
      <4>3. Awaited(s)'
        BY <1>1, <1>3, <1>4, <3>1, <4>1, <4>2 DEF Awaited
      <4> QED  BY <1>16, <3>1, <4>1, <4>2, <4>3 DEF Bounded
    <3>3. CASE ~ done
      <4>1. /\ new.state = "processing_prompt" /\ new.n_past = Len(list)
            /\ new.prompt = sl.prompt /\ new.cache_tokens = list
        BY <1>6, <3>3
      <4>2. Len(list) < Len(sl.prompt)
        BY <1>2, <1>4, <3>3
      <4> QED  BY <1>2, <1>4, <3>1, <4>1, <4>2 DEF Bounded
    <3> QED  BY <3>2, <3>3
  <2> QED  BY <2>1, <2>2
<1> QED  BY <1>17, <1>18 DEF StopInv

-----------------------------------------------------------------------------
(* A view has been decoded, or not.                                        *)

LEMMA SampleInv ==
    ASSUME StopInv, Sample
    PROVE  StopInv'
<1>0. SlotTypeOK /\ \A s \in Seqs : Bounded(s) /\ slots[s] \in SlotType
    BY DEF StopInv, SlotTypeOK
<1>1. PICK tok \in [Sampling -> Outputs \cup {NoToken}] :
            slots' = [s \in Seqs |-> IF s \in Sampling THEN Sampled(slots[s], tok[s]) ELSE slots[s]]
    BY DEF Sample
<1>2. /\ i_view' = i_view + n_batch /\ at_slots' = "view" /\ at_slots = "decode"
      /\ batch' = batch /\ next' = next /\ n_batch' = n_batch
    BY DEF Sample
<1>3. i_view \in Nat /\ n_batch \in Nat \ {0} /\ Len(batch) \in Nat
    BY <1>0 DEF SlotTypeOK
<1>4. ViewEnd = IF i_view + n_batch <= Len(batch) THEN i_view + n_batch ELSE Len(batch)
    BY <1>3, MinPair DEF ViewEnd
<1>5. ASSUME NEW s \in Sampling
      PROVE  slots'[s] \in SlotType /\ Bounded(s)'
  <2>1. /\ s \in Seqs /\ slots[s].state \in {"done_prompt", "generating"}
        /\ slots'[s] = Sampled(slots[s], tok[s]) /\ tok[s] \in Outputs \cup {NoToken}
    BY <1>1 DEF Sampling
  <2>2. slots[s] \in SlotType /\ slots[s].n_past \in Nat
    BY <1>0, <2>1 DEF SlotType
  <2>3. CASE tok[s] = NoToken \/ LimitReached(slots[s])
    <3>1. slots'[s] = Released(slots[s])
        BY <2>1, <2>3 DEF Sampled
    <3> QED  BY <2>2, <3>1, ReleasedType DEF Bounded
  <2>4. CASE ~ (tok[s] = NoToken \/ LimitReached(slots[s]))
    <3>1. slots'[s] = [slots[s] EXCEPT !.state = "generating", !.sampled = tok[s], !.i_batch = -1]
        BY <2>1, <2>4 DEF Sampled
    <3>2. tok[s] \in Tokens
        BY <2>1, <2>4, SlotAssumption
    <3>3. slots[s].n_past + 1 < SlotCtx
        BY <2>2, <2>4, SeqsFacts DEF LimitReached
    <3>4. slots'[s] \in SlotType
      <4>1. -1 \in Int /\ "generating" \in States /\ tok[s] \in Rows
        BY <3>2 DEF States, Rows
      <4> QED  BY <2>2, <3>1, <4>1 DEF SlotType
    <3>5. slots'[s].state = "generating" /\ slots'[s].n_past = slots[s].n_past /\ slots'[s].sampled = tok[s]
        BY <2>2, <3>1 DEF SlotType
    <3> QED  BY <3>2, <3>3, <3>4, <3>5 DEF Bounded
  <2> QED  BY <2>3, <2>4
<1>6. ASSUME NEW s \in Seqs, s \notin Sampling
      PROVE  slots'[s] \in SlotType /\ Bounded(s)'
  <2>1. slots'[s] = slots[s] /\ slots[s] \in SlotType /\ Bounded(s) /\ slots[s].i_batch \in Int
    BY <1>0, <1>1, <1>6 DEF SlotType
  <2>2. CASE slots[s].state \in {"done_prompt", "generating"}
    <3>1. slots[s].i_batch \notin i_view .. ViewEnd - 1
        BY <1>6, <2>2 DEF Sampling
    <3>2. Awaited(s) => Awaited(s)'
        BY <1>2, <1>3, <1>4, <2>1, <3>1 DEF Awaited
    <3> QED  BY <1>2, <2>1, <3>2, BoundedFrame
  <2>3. CASE slots[s].state \notin {"done_prompt", "generating"}
    BY <2>1, <2>3 DEF Bounded
  <2> QED  BY <2>1, <2>2, <2>3
<1>7. SlotTypeOK'
  <2>1. slots' = [s \in Seqs |-> slots'[s]]
    BY <1>1
  <2>2. slots' \in [Seqs -> SlotType]
    BY <1>5, <1>6, <2>1
  <2>3. i_view' \in Nat
    BY <1>2, <1>3
  <2> QED  BY <1>0, <1>2, <2>2, <2>3 DEF SlotTypeOK
<1> QED  BY <1>5, <1>6, <1>7 DEF StopInv

LEMMA RetryInv ==
    ASSUME StopInv, Retry
    PROVE  StopInv'
<1>0. SlotTypeOK /\ \A s \in Seqs : slots[s] \in SlotType
    BY DEF StopInv, SlotTypeOK
<1>1. at_slots = "decode" /\ UNCHANGED <<next, batch, i_view>> /\ n_batch \in Nat \ {0}
    BY <1>0 DEF Retry, SlotTypeOK
<1>2. CASE n_batch = 1
  <2>1. /\ slots' = [s \in Seqs |-> Released(slots[s])]
        /\ at_slots' = "tasks" /\ n_batch' = n_batch
    BY <1>2 DEF Retry
  <2>2. \A s \in Seqs : /\ slots'[s] \in SlotType
                         /\ slots'[s].state = "idle" /\ slots'[s].n_past = 0
    BY <1>0, <2>1, ReleasedType
  <2>3. SlotTypeOK'
    BY <1>0, <1>1, <2>1, <2>2 DEF SlotTypeOK
  <2> QED  BY <2>2, <2>3 DEF StopInv, Bounded
<1>3. CASE n_batch # 1
  <2>1. n_batch' = n_batch \div 2 /\ at_slots' = "view" /\ slots' = slots
    BY <1>3 DEF Retry
  <2>2. n_batch' \in Nat \ {0}
    BY <1>1, <1>3, <2>1
  <2> QED  BY <1>0, <1>1, <2>1, <2>2, NoSlotInv DEF SlotTypeOK
<1> QED  BY <1>2, <1>3

LEMMA StopStep == StopInv /\ [SlotNext]_slotvars => StopInv'
<1> SUFFICES ASSUME StopInv, [SlotNext]_slotvars PROVE StopInv'
    OBVIOUS
<1>1. CASE UNCHANGED slotvars
    BY <1>1 DEF slotvars, servervars, StopInv, SlotTypeOK, Bounded, Awaited
<1>2. CASE SlotNext
    BY <1>2, QuietSteps, BeginRoundInv, BatchPromptInv, SampleInv, RetryInv DEF SlotNext
<1> QED  BY <1>1, <1>2

(***************************************************************************)
(* For every context, number of slots, batch length and set of prompts: a  *)
(* slot is stopped before the end of its context, so that the context      *)
(* shift, which the next llama_decode would not survive, is never made.    *)
(***************************************************************************)
THEOREM ServerNeverShifts == SlotSpec => []NeverShifts
<1>1. SlotInit => StopInv
    BY StopInit
<1>2. StopInv /\ [SlotNext]_slotvars => StopInv'
    BY StopStep
<1>3. StopInv => NeverShifts
    BY DEF StopInv, SlotTypeOK, NeverShifts
<1> QED  BY <1>1, <1>2, <1>3, PTL DEF SlotSpec

-----------------------------------------------------------------------------
(* The contents of the cache.                                              *)

\* The text each slot believes to be in the cache.
Held == [s \in Seqs |-> slots[s].cache_tokens]

\* How much of the batch lies before the ubatch llama_decode is at.
Begun == ViewEnd - Len(todo)

\* How much of the batch is in the cells: a ubatch is once its cells are found.
Placed == IF at_slots # "decode" \/ (pc = "idle" /\ ret # 0) THEN i_view
          ELSE IF pc = "idle" THEN ViewEnd
          ELSE IF pc = "compute" THEN Begun + Len(Ubatch)
          ELSE Begun

\* The positions of each slot that are in the batch and not yet in the cells.
WaitingIn(b, from) ==
    [s \in Seqs |-> {p \in Nat : \E j \in 1 .. Len(b) :
                        j > from /\ b[j].seq_id = {s} /\ b[j].pos = p}]
Waiting == WaitingIn(batch, Placed)

\* Every cell belongs to one slot, no slot has two for a position.
Owned(cs) == \A c \in Cells : ~ IsEmpty(cs[c]) => \E s \in Seqs : cs[c].seq_id = {s}

OneEach(cs) ==
    \A s \in Seqs : \A c, d \in Cells :
        cs[c].seq_id = {s} /\ cs[d].seq_id = {s} /\ cs[c].pos = cs[d].pos => c = d

\* The cells of a slot are those of its text, as far as it is not waiting.
Says(cs, held, waiting) ==
    \A s \in Seqs : \A c \in Cells : cs[c].seq_id = {s} =>
        /\ cs[c].pos \in 0 .. Len(held[s]) - 1
        /\ cs[c].tok = held[s][cs[c].pos + 1]
        /\ cs[c].pos \notin waiting[s]

Holds(cs, held, waiting) ==
    \A s \in Seqs : \A p \in 0 .. Len(held[s]) - 1 :
        p \notin waiting[s] => \E c \in Cells : cs[c].seq_id = {s} /\ cs[c].pos = p

Exact(cs, held, waiting) ==
    Owned(cs) /\ OneEach(cs) /\ Says(cs, held, waiting) /\ Holds(cs, held, waiting)

\* The batch holds tokens of the texts, those of one slot in their order.
InOrder(b, held) ==
    /\ \A j \in 1 .. Len(b) : \E s \in Seqs :
            /\ b[j].seq_id = {s}
            /\ b[j].pos \in 0 .. Len(held[s]) - 1
            /\ b[j].tok = held[s][b[j].pos + 1]
    /\ \A i, j \in 1 .. Len(b) : i < j /\ b[i].seq_id = b[j].seq_id => b[i].pos < b[j].pos

InBatch(s) == \E j \in 1 .. Len(batch) : batch[j].seq_id = {s}

\* What a slot knows of its text; only a slot that has not started on its prompt
\* may hold another.
TextOK(s) ==
    LET prompt == slots[s].prompt
        cache  == slots[s].cache_tokens
    IN  /\ Len(cache) < SlotCtx
        /\ slots[s].state = "idle" => prompt = <<>>
        /\ slots[s].state # "started" =>
                \A p \in 1 .. Len(prompt) : p <= Len(cache) => cache[p] = prompt[p]
        /\ slots[s].state \in {"processing_prompt", "done_prompt", "generating"} =>
                slots[s].n_past = Len(cache)
        /\ slots[s].state \in {"done_prompt", "generating"} => Len(prompt) <= Len(cache)
        /\ clean_kv_cache => slots[s].state = "idle" /\ cache = <<>>
        /\ InBatch(s) => /\ slots[s].state # "started"
                         /\ at_slots = "prompt" => s < next \/ slots[s].state = "generating"

RoundOK ==
    /\ ~ has_shift
    /\ at_slots = "tasks" => batch = <<>>
    /\ at_slots # "decode" => pc = "idle"
    /\ n_batch <= MaxBatch
    /\ at_slots = "decode" /\ pc # "idle" =>
            /\ i_view < Len(batch)
            /\ i_view <= Begun /\ Begun < ViewEnd
            /\ todo = SubSeq(batch, Begun + 1, ViewEnd)
            /\ i_view < Begun => NUbatch < ViewEnd - i_view

ContentInv ==
    /\ Exact(cells, Held, Waiting)
    /\ InOrder(batch, Held)
    /\ \A s \in Seqs : TextOK(s)
    /\ RoundOK

-----------------------------------------------------------------------------
(* What one operation on the cells does to their contents.                 *)

\* The slots' contexts never fill the cache: there is a free cell.
LEMMA RoomLeft ==
    ASSUME NEW cs, \A c \in Cells : CellOK(cs[c]),
           NEW held, \A s \in Seqs : Len(held[s]) \in Nat /\ Len(held[s]) < SlotCtx,
           NEW waiting, Exact(cs, held, waiting)
    PROVE  FreeCells(cs) # {}
<1> DEFINE P == 0 .. SlotCtx - 2
           T == Seqs \X P
           owner(c) == CHOOSE s \in Seqs : cs[c].seq_id = {s}
           f == [c \in Cells |-> <<owner(c), cs[c].pos>>]
<1> SUFFICES ASSUME FreeCells(cs) = {} PROVE FALSE
    OBVIOUS
<1>1. ASSUME NEW c \in Cells
      PROVE  /\ owner(c) \in Seqs /\ cs[c].seq_id = {owner(c)}
             /\ cs[c].pos \in P
  <2>1. cs[c].pos \in Int /\ ~ (cs[c].pos < 0)
    BY DEF FreeCells, CellOK, Cell
  <2>2. ~ IsEmpty(cs[c])
    BY <2>1 DEF CellOK
  <2>3. \E s \in Seqs : cs[c].seq_id = {s}
    BY <2>2 DEF Exact, Owned
  <2>4. owner(c) \in Seqs /\ cs[c].seq_id = {owner(c)}
    BY <2>3
  <2> HIDE DEF owner
  <2>5. cs[c].pos \in 0 .. Len(held[owner(c)]) - 1
    BY <2>4 DEF Exact, Says
  <2>6. Len(held[owner(c)]) \in Nat /\ Len(held[owner(c)]) < SlotCtx
    BY <2>4
  <2> QED  BY <2>4, <2>5, <2>6, SeqsFacts
<1>2. NSeq \in Nat /\ NSeq > 0 /\ SlotCtx \in Nat /\ SlotCtx >= 4 /\ SlotCtx * NSeq <= Size /\ Size \in Nat
  <2>1. NSeq \in Nat \ {0} /\ Size \in Nat
    BY SeqsFacts, CellsAssumption
  <2> QED  BY <2>1, Quotient, SeqsFacts DEF SlotCtx
<1>3. IsFiniteSet(P) /\ Cardinality(P) = SlotCtx - 1
  <2>1. 0 \in Int /\ SlotCtx - 2 \in Int
    BY <1>2
  <2>2. IsFiniteSet(P) /\ Cardinality(P) = IF 0 > SlotCtx - 2 THEN 0 ELSE (SlotCtx - 2) - 0 + 1
    BY ONLY <2>1, FS_Interval
  <2> QED  BY <1>2, <2>2
<1>4. IsFiniteSet(Seqs) /\ Cardinality(Seqs) = NSeq
  <2>1. 0 \in Int /\ NSeq - 1 \in Int
    BY <1>2
  <2>2. Cardinality(0 .. NSeq - 1) = IF 0 > NSeq - 1 THEN 0 ELSE (NSeq - 1) - 0 + 1
    BY ONLY <2>1, FS_Interval
  <2> QED  BY <1>2, <2>2, SeqsFacts DEF Seqs
<1> HIDE DEF P
<1>5. IsFiniteSet(T) /\ Cardinality(T) = NSeq * (SlotCtx - 1)
    BY <1>3, <1>4, FS_Product
<1>6. NSeq * (SlotCtx - 1) < Size
  <2>1. NSeq * (SlotCtx - 1) = SlotCtx * NSeq - NSeq
    BY <1>2
  <2>2. SlotCtx * NSeq \in Nat
    BY <1>2
  <2> QED  BY <1>2, <2>1, <2>2
<1> HIDE DEF owner
<1>7. f \in [Cells -> T]
    BY <1>1
<1> HIDE DEF T
<1>8. \E x, y \in Cells : x # y /\ f[x] = f[y]
  <2>1. IsFiniteSet(Cells) /\ Cardinality(T) < Cardinality(Cells)
    BY <1>5, <1>6, CellsFinite
  <2> HIDE DEF f
  <2> QED  BY <1>5, <1>7, <2>1, FS_PigeonHole
<1>9. PICK x \in Cells, y \in Cells : x # y /\ f[x] = f[y]
    BY <1>8
<1>10. owner(x) = owner(y) /\ cs[x].pos = cs[y].pos
    BY <1>9
<1> QED  BY <1>1, <1>9, <1>10 DEF Exact, OneEach

\* The sequence of a cell or a token that has only one.
LEMMA SameSingleton ==
    ASSUME NEW x, NEW y, {x} = {y}
    PROVE  x = y
<1>1. x \in {y}
    OBVIOUS
<1> QED  BY <1>1

\* The tokens of a ubatch, each of another place of the texts, are those that
\* wait no longer.
Arriving(ub, held, waiting, later) ==
    /\ \A s \in Seqs : later[s] \subseteq waiting[s]
    /\ \A i \in 1 .. Len(ub) : \E s \in Seqs :
            /\ ub[i].seq_id = {s}
            /\ ub[i].pos \in waiting[s] /\ ub[i].pos \notin later[s]
            /\ ub[i].pos \in 0 .. Len(held[s]) - 1
            /\ ub[i].tok = held[s][ub[i].pos + 1]
    /\ \A i, j \in 1 .. Len(ub) :
            ub[i].seq_id = ub[j].seq_id /\ ub[i].pos = ub[j].pos => i = j
    /\ \A s \in Seqs : \A p \in waiting[s] :
            p \in later[s] \/ \E i \in 1 .. Len(ub) : ub[i].seq_id = {s} /\ ub[i].pos = p

\* A decode puts the tokens of a ubatch into cells.
LEMMA ExactOccupy ==
    ASSUME NEW cs \in [Cells -> Cell], NEW held, NEW waiting, Exact(cs, held, waiting),
           NEW slot0, NEW ub, Fitting(cs, slot0, ub),
           NEW later, Arriving(ub, held, waiting, later)
    PROVE  Exact(Occupy(cs, slot0, ub), held, later)
<1> DEFINE new == Occupy(cs, slot0, ub)
<1> SUFFICES ASSUME \A s \in Seqs : later[s] \subseteq waiting[s],
           \A i \in 1 .. Len(ub) : \E s \in Seqs :
                /\ ub[i].seq_id = {s}
                /\ ub[i].pos \in waiting[s] /\ ub[i].pos \notin later[s]
                /\ ub[i].pos \in 0 .. Len(held[s]) - 1
                /\ ub[i].tok = held[s][ub[i].pos + 1],
           \A i, j \in 1 .. Len(ub) : ub[i].seq_id = ub[j].seq_id /\ ub[i].pos = ub[j].pos => i = j,
           \A s \in Seqs : \A p \in waiting[s] :
                p \in later[s] \/ \E i \in 1 .. Len(ub) : ub[i].seq_id = {s} /\ ub[i].pos = p
             PROVE  Exact(new, held, later)
    BY DEF Arriving
<1>1. ASSUME NEW i \in 1 .. Len(ub)
      PROVE  /\ new[slot0[i]].pos = ub[i].pos
             /\ new[slot0[i]].seq_id = ub[i].seq_id
             /\ new[slot0[i]].tok = ub[i].tok
  <2> DEFINE c == slot0[i]
             j == CHOOSE j \in 1 .. Len(ub) : slot0[j] = c
  <2>1. j \in 1 .. Len(ub) /\ slot0[j] = c
    OBVIOUS
  <2>2. j = i
    BY <2>1 DEF Fitting
  <2>3. c \in Cells /\ cs[c] \in Cell /\ cs[c].seq_id = {}
    BY DEF Fitting, IsEmpty
  <2>4. new[c] = [cs[c] EXCEPT !.pos = ub[j].pos,
                               !.seq_id = @ \cup ub[j].seq_id,
                               !.tok = ub[j].tok]
    BY <2>1, <2>3 DEF Occupy
  <2>5. {} \cup ub[i].seq_id = ub[i].seq_id
    OBVIOUS
  <2> HIDE DEF j, new
  <2> QED  BY <2>2, <2>3, <2>4, <2>5 DEF Cell
<1>2. ASSUME NEW c \in Cells, ~ \E i \in 1 .. Len(ub) : slot0[i] = c PROVE new[c] = cs[c]
    BY <1>2 DEF Occupy
<1>3. \A i \in 1 .. Len(ub) : slot0[i] \in Cells /\ cs[slot0[i]].seq_id = {}
    BY DEF Fitting, IsEmpty
<1> HIDE DEF new
\* A cell of a slot is one of the ubatch or one that was there.
<1>4. ASSUME NEW s \in Seqs, NEW c \in Cells, new[c].seq_id = {s}
      PROVE  \/ \E i \in 1 .. Len(ub) : slot0[i] = c /\ ub[i].seq_id = {s} /\ new[c].pos = ub[i].pos
             \/ cs[c].seq_id = {s} /\ new[c] = cs[c] /\ new[c].pos \notin waiting[s]
  <2>1. CASE \E i \in 1 .. Len(ub) : slot0[i] = c
    BY <1>1, <1>4, <2>1
  <2>2. CASE ~ \E i \in 1 .. Len(ub) : slot0[i] = c
    <3>1. new[c] = cs[c]
        BY <1>2, <2>2
    <3> QED  BY <1>4, <3>1 DEF Exact, Says
  <2> QED  BY <2>1, <2>2
\* A token of the ubatch belongs to one slot.
<1>5. ASSUME NEW i \in 1 .. Len(ub), NEW s \in Seqs, ub[i].seq_id = {s}
      PROVE  /\ ub[i].pos \in waiting[s] /\ ub[i].pos \notin later[s]
             /\ ub[i].pos \in 0 .. Len(held[s]) - 1
             /\ ub[i].tok = held[s][ub[i].pos + 1]
  <2>1. PICK u \in Seqs : /\ ub[i].seq_id = {u}
                          /\ ub[i].pos \in waiting[u] /\ ub[i].pos \notin later[u]
                          /\ ub[i].pos \in 0 .. Len(held[u]) - 1
                          /\ ub[i].tok = held[u][ub[i].pos + 1]
    OBVIOUS
  <2>2. {u} = {s}
    BY <1>5, <2>1
  <2>3. u = s
    BY <2>2, SameSingleton
  <2> QED  BY <2>1, <2>3
<1>6. Owned(new)
  <2> SUFFICES ASSUME NEW c \in Cells, ~ IsEmpty(new[c]) PROVE \E s \in Seqs : new[c].seq_id = {s}
    BY DEF Owned
  <2>1. CASE \E i \in 1 .. Len(ub) : slot0[i] = c
    <3>1. PICK i \in 1 .. Len(ub) : slot0[i] = c
        BY <2>1
    <3>2. PICK s \in Seqs : ub[i].seq_id = {s}
        OBVIOUS
    <3> QED  BY <1>1, <3>1, <3>2
  <2>2. CASE ~ \E i \in 1 .. Len(ub) : slot0[i] = c
    <3>1. new[c] = cs[c]
        BY <1>2, <2>2
    <3> QED  BY <3>1 DEF Exact, Owned
  <2> QED  BY <2>1, <2>2
<1>7. OneEach(new)
  <2> SUFFICES ASSUME NEW s \in Seqs, NEW c \in Cells, NEW d \in Cells,
                      new[c].seq_id = {s}, new[d].seq_id = {s}, new[c].pos = new[d].pos
               PROVE  c = d
    BY DEF OneEach
  <2>1. ASSUME NEW i \in 1 .. Len(ub), NEW j \in 1 .. Len(ub),
               slot0[i] = c, ub[i].seq_id = {s}, new[c].pos = ub[i].pos,
               slot0[j] = d, ub[j].seq_id = {s}, new[d].pos = ub[j].pos
        PROVE  c = d
    <3>1. ub[i].seq_id = ub[j].seq_id /\ ub[i].pos = ub[j].pos
        BY <2>1
    <3>2. i = j
        BY <3>1
    <3> QED  BY <2>1, <3>2
  <2>2. ASSUME cs[c].seq_id = {s}, new[c] = cs[c], cs[d].seq_id = {s}, new[d] = cs[d]
        PROVE  c = d
    <3>1. cs[c].pos = cs[d].pos
        BY <2>2
    <3> QED  BY <2>2, <3>1 DEF Exact, OneEach
  <2>3. ASSUME NEW i \in 1 .. Len(ub), ub[i].seq_id = {s}, ub[i].pos \notin waiting[s]
        PROVE  FALSE
    BY <1>5, <2>3
  <2> DEFINE Fresh(x) == \E i \in 1 .. Len(ub) :
                              slot0[i] = x /\ ub[i].seq_id = {s} /\ new[x].pos = ub[i].pos
             Old(x)   == cs[x].seq_id = {s} /\ new[x] = cs[x] /\ new[x].pos \notin waiting[s]
  <2>4. (Fresh(c) \/ Old(c)) /\ (Fresh(d) \/ Old(d))
    BY <1>4
  <2>5. CASE Fresh(c) /\ Fresh(d)
    BY <2>1, <2>5
  <2>6. CASE Old(c) /\ Old(d)
    BY <2>2, <2>6
  <2>7. ~ (Fresh(c) /\ Old(d)) /\ ~ (Old(c) /\ Fresh(d))
    <3>1. new[c].pos = new[d].pos
        OBVIOUS
    <3> QED  BY <2>3, <3>1
  <2> HIDE DEF Fresh, Old
  <2> QED  BY <2>4, <2>5, <2>6, <2>7
<1>8. Says(new, held, later)
  <2> SUFFICES ASSUME NEW s \in Seqs, NEW c \in Cells, new[c].seq_id = {s}
               PROVE  /\ new[c].pos \in 0 .. Len(held[s]) - 1
                      /\ new[c].tok = held[s][new[c].pos + 1]
                      /\ new[c].pos \notin later[s]
    BY DEF Says
  <2>1. ASSUME NEW i \in 1 .. Len(ub), slot0[i] = c, ub[i].seq_id = {s}, new[c].pos = ub[i].pos
        PROVE  /\ new[c].pos \in 0 .. Len(held[s]) - 1
               /\ new[c].tok = held[s][new[c].pos + 1]
               /\ new[c].pos \notin later[s]
    <3>1. new[c].tok = ub[i].tok
        BY <1>1, <2>1
    <3> QED  BY <1>5, <2>1, <3>1
  <2>2. ASSUME cs[c].seq_id = {s}, new[c] = cs[c], new[c].pos \notin waiting[s]
        PROVE  /\ new[c].pos \in 0 .. Len(held[s]) - 1
               /\ new[c].tok = held[s][new[c].pos + 1]
               /\ new[c].pos \notin later[s]
    <3>1. Says(cs, held, waiting)
        BY DEF Exact
    <3>2. cs[c].pos \in 0 .. Len(held[s]) - 1 /\ cs[c].tok = held[s][cs[c].pos + 1]
        BY <2>2, <3>1 DEF Says
    <3> QED  BY <2>2, <3>2
  <2>3. \/ \E i \in 1 .. Len(ub) : slot0[i] = c /\ ub[i].seq_id = {s} /\ new[c].pos = ub[i].pos
        \/ cs[c].seq_id = {s} /\ new[c] = cs[c] /\ new[c].pos \notin waiting[s]
    BY <1>4
  <2>4. CASE cs[c].seq_id = {s} /\ new[c] = cs[c] /\ new[c].pos \notin waiting[s]
    BY <2>2, <2>4
  <2>5. CASE \E i \in 1 .. Len(ub) : slot0[i] = c /\ ub[i].seq_id = {s} /\ new[c].pos = ub[i].pos
    <3>1. PICK i \in 1 .. Len(ub) : slot0[i] = c /\ ub[i].seq_id = {s} /\ new[c].pos = ub[i].pos
        BY <2>5
    <3> QED  BY <2>1, <3>1
  <2> QED  BY <2>3, <2>4, <2>5
<1>9. Holds(new, held, later)
  <2> SUFFICES ASSUME NEW s \in Seqs, NEW p \in 0 .. Len(held[s]) - 1, p \notin later[s]
               PROVE  \E c \in Cells : new[c].seq_id = {s} /\ new[c].pos = p
    BY DEF Holds
  <2>1. CASE p \in waiting[s]
    <3>1. PICK i \in 1 .. Len(ub) : ub[i].seq_id = {s} /\ ub[i].pos = p
        BY <2>1
    <3>2. slot0[i] \in Cells /\ new[slot0[i]].seq_id = {s} /\ new[slot0[i]].pos = p
        BY <1>1, <1>3, <3>1
    <3> QED  BY <3>2
  <2>2. CASE p \notin waiting[s]
    <3>1. PICK c \in Cells : cs[c].seq_id = {s} /\ cs[c].pos = p
      <4>1. Holds(cs, held, waiting)
        BY DEF Exact
      <4>2. \A q \in 0 .. Len(held[s]) - 1 :
                q \notin waiting[s] => \E c \in Cells : cs[c].seq_id = {s} /\ cs[c].pos = q
        BY ONLY <4>1, s \in Seqs DEF Holds
      <4> QED  BY ONLY <2>2, <4>2, p \in 0 .. Len(held[s]) - 1
    <3>2. ~ \E i \in 1 .. Len(ub) : slot0[i] = c
        BY <1>3, <3>1
    <3>3. new[c] = cs[c]
        BY <1>2, <3>2
    <3> QED  BY <3>1, <3>3
  <2> QED  BY <2>1, <2>2
<1>10. Exact(new, held, later)
    BY <1>6, <1>7, <1>8, <1>9 DEF Exact
<1> QED  BY <1>10 DEF new

\* A defragmentation moves a cell.
LEMMA ExactMove ==
    ASSUME NEW cs \in [Cells -> Cell], NEW held, NEW waiting, Exact(cs, held, waiting),
           NEW from \in Cells, NEW to \in Cells, IsEmpty(cs[to]), ~ IsEmpty(cs[from])
    PROVE  Exact([cs EXCEPT ![to] = cs[from], ![from] = NewCell], held, waiting)
<1> DEFINE new     == [cs EXCEPT ![to] = cs[from], ![from] = NewCell]
           Back(c) == IF c = to THEN from ELSE c
<1>1. to # from /\ new[from].seq_id = {} /\ new[to] = cs[from]
    BY DEF NewCell
<1>2. ASSUME NEW c \in Cells, new[c].seq_id # {}
      PROVE  c # from /\ Back(c) \in Cells /\ new[c] = cs[Back(c)]
    BY <1>1, <1>2
<1>3. ASSUME NEW c \in Cells, NEW d \in Cells, c # from, d # from, Back(c) = Back(d) PROVE c = d
    BY <1>3
<1>4. ASSUME NEW c \in Cells, cs[c].seq_id # {}
      PROVE  \E d \in Cells : new[d] = cs[c]
  <2>1. CASE c = from
    BY <1>1, <2>1
  <2>2. CASE c # from
    <3>1. c # to
        BY <1>4 DEF IsEmpty
    <3> QED  BY <2>2, <3>1
  <2> QED  BY <2>1, <2>2
<1> HIDE DEF new, Back
<1>5. ASSUME NEW s PROVE {s} # {}
    OBVIOUS
<1>6. Owned(new)
  <2> SUFFICES ASSUME NEW c \in Cells, ~ IsEmpty(new[c]) PROVE \E s \in Seqs : new[c].seq_id = {s}
    BY DEF Owned
  <2>1. Back(c) \in Cells /\ new[c] = cs[Back(c)] /\ ~ IsEmpty(cs[Back(c)])
    BY <1>2 DEF IsEmpty
  <2>2. \E s \in Seqs : cs[Back(c)].seq_id = {s}
    BY <2>1 DEF Exact, Owned
  <2> QED  BY <2>1, <2>2
<1>7. OneEach(new)
  <2> SUFFICES ASSUME NEW s \in Seqs, NEW c \in Cells, NEW d \in Cells,
                      new[c].seq_id = {s}, new[d].seq_id = {s}, new[c].pos = new[d].pos
               PROVE  c = d
    BY DEF OneEach
  <2>1. c # from /\ Back(c) \in Cells /\ new[c] = cs[Back(c)]
    BY <1>2, <1>5
  <2>2. d # from /\ Back(d) \in Cells /\ new[d] = cs[Back(d)]
    BY <1>2, <1>5
  <2>3. OneEach(cs)
    BY DEF Exact
  <2>4. Back(c) = Back(d)
    BY <2>1, <2>2, <2>3 DEF OneEach
  <2> QED  BY <1>3, <2>1, <2>2, <2>4
<1>8. Says(new, held, waiting)
  <2> SUFFICES ASSUME NEW s \in Seqs, NEW c \in Cells, new[c].seq_id = {s}
               PROVE  /\ new[c].pos \in 0 .. Len(held[s]) - 1
                      /\ new[c].tok = held[s][new[c].pos + 1]
                      /\ new[c].pos \notin waiting[s]
    BY DEF Says
  <2>1. Back(c) \in Cells /\ new[c] = cs[Back(c)]
    BY <1>2, <1>5
  <2>2. Says(cs, held, waiting)
    BY DEF Exact
  <2>3. cs[Back(c)].seq_id = {s}
    BY <2>1
  <2>4. /\ cs[Back(c)].pos \in 0 .. Len(held[s]) - 1
        /\ cs[Back(c)].tok = held[s][cs[Back(c)].pos + 1]
        /\ cs[Back(c)].pos \notin waiting[s]
    BY <2>1, <2>2, <2>3 DEF Says
  <2> QED  BY <2>1, <2>4
<1>9. Holds(new, held, waiting)
  <2> SUFFICES ASSUME NEW s \in Seqs, NEW p \in 0 .. Len(held[s]) - 1, p \notin waiting[s]
               PROVE  \E c \in Cells : new[c].seq_id = {s} /\ new[c].pos = p
    BY DEF Holds
  <2>1. PICK c \in Cells : cs[c].seq_id = {s} /\ cs[c].pos = p
    <3>1. Holds(cs, held, waiting)
        BY DEF Exact
    <3>2. \A q \in 0 .. Len(held[s]) - 1 :
                q \notin waiting[s] => \E c \in Cells : cs[c].seq_id = {s} /\ cs[c].pos = q
        BY ONLY <3>1, s \in Seqs DEF Holds
    <3> QED  BY ONLY <3>2, p \notin waiting[s], p \in 0 .. Len(held[s]) - 1
  <2>2. PICK d \in Cells : new[d] = cs[c]
    BY <1>4, <1>5, <2>1
  <2> QED  BY <2>1, <2>2
<1>10. Exact(new, held, waiting)
    BY <1>6, <1>7, <1>8, <1>9 DEF Exact
<1> QED  BY <1>10 DEF new

\* The cells of each text from position keep[s] on are emptied.
Emptied(cs, new, keep) ==
    /\ \A c \in Cells : new[c].seq_id = {} \/ new[c] = cs[c]
    /\ \A s \in Seqs : \A c \in Cells : cs[c].seq_id = {s} =>
            IF cs[c].pos < keep[s] THEN new[c] = cs[c] ELSE new[c].seq_id = {}

\* Each text is cut to its first keep[s] tokens, and goes on with tokens that wait.
Continued(held, waiting, list, later, keep) ==
    /\ \A s \in Seqs : /\ keep[s] \in Nat
                        /\ Len(held[s]) \in Nat /\ Len(list[s]) \in Nat
                        /\ keep[s] <= Len(held[s]) /\ keep[s] <= Len(list[s])
    /\ \A s \in Seqs : \A p \in 0 .. keep[s] - 1 :
            /\ list[s][p + 1] = held[s][p + 1]
            /\ p \in later[s] <=> p \in waiting[s]
    /\ \A s \in Seqs : \A p \in keep[s] .. Len(list[s]) - 1 : p \in later[s]

LEMMA ExactChange ==
    ASSUME NEW cs, NEW held, NEW waiting, Exact(cs, held, waiting),
           NEW new, NEW list, NEW later, NEW keep,
           Emptied(cs, new, keep), Continued(held, waiting, list, later, keep)
    PROVE  Exact(new, list, later)
<1> SUFFICES ASSUME
           \A c \in Cells : new[c].seq_id = {} \/ new[c] = cs[c],
           \A s \in Seqs : \A c \in Cells : cs[c].seq_id = {s} =>
                IF cs[c].pos < keep[s] THEN new[c] = cs[c] ELSE new[c].seq_id = {},
           \A s \in Seqs : /\ keep[s] \in Nat
                           /\ Len(held[s]) \in Nat /\ Len(list[s]) \in Nat
                           /\ keep[s] <= Len(held[s]) /\ keep[s] <= Len(list[s]),
           \A s \in Seqs : \A p \in 0 .. keep[s] - 1 :
                /\ list[s][p + 1] = held[s][p + 1]
                /\ p \in later[s] <=> p \in waiting[s],
           \A s \in Seqs : \A p \in keep[s] .. Len(list[s]) - 1 : p \in later[s]
             PROVE  Exact(new, list, later)
    BY DEF Emptied, Continued
<1>1. ASSUME NEW c \in Cells, NEW s \in Seqs, new[c].seq_id = {s}
      PROVE  new[c] = cs[c] /\ cs[c].seq_id = {s} /\ cs[c].pos < keep[s]
  <2>1. new[c].seq_id # {}
    BY <1>1
  <2>2. new[c] = cs[c]
    BY <2>1
  <2> QED  BY <1>1, <2>1, <2>2
<1>2. Owned(new)
  <2> SUFFICES ASSUME NEW c \in Cells, ~ IsEmpty(new[c]) PROVE \E s \in Seqs : new[c].seq_id = {s}
    BY DEF Owned
  <2>1. new[c] = cs[c] /\ ~ IsEmpty(cs[c])
    BY DEF IsEmpty
  <2> QED  BY <2>1 DEF Exact, Owned
<1>3. OneEach(new)
  <2> SUFFICES ASSUME NEW s \in Seqs, NEW c \in Cells, NEW d \in Cells,
                      new[c].seq_id = {s}, new[d].seq_id = {s}, new[c].pos = new[d].pos
               PROVE  c = d
    BY DEF OneEach
  <2>1. new[c] = cs[c] /\ new[d] = cs[d]
    BY <1>1
  <2>2. OneEach(cs)
    BY DEF Exact
  <2> QED  BY <2>1, <2>2 DEF OneEach
<1>4. Says(new, list, later)
  <2> SUFFICES ASSUME NEW s \in Seqs, NEW c \in Cells, new[c].seq_id = {s}
               PROVE  /\ new[c].pos \in 0 .. Len(list[s]) - 1
                      /\ new[c].tok = list[s][new[c].pos + 1]
                      /\ new[c].pos \notin later[s]
    BY DEF Says
  <2>1. new[c] = cs[c] /\ cs[c].seq_id = {s} /\ cs[c].pos < keep[s]
    BY <1>1
  <2>2. Says(cs, held, waiting)
    BY DEF Exact
  <2>3. /\ cs[c].pos \in 0 .. Len(held[s]) - 1
        /\ cs[c].tok = held[s][cs[c].pos + 1]
        /\ cs[c].pos \notin waiting[s]
    BY <2>1, <2>2 DEF Says
  <2>4. keep[s] \in Nat /\ Len(list[s]) \in Nat /\ keep[s] <= Len(list[s]) /\ Len(held[s]) \in Nat
    OBVIOUS
  <2> DEFINE p == cs[c].pos
  <2>5. p \in 0 .. Len(held[s]) - 1 /\ p < keep[s]
    BY <2>1, <2>3
  <2> HIDE DEF p
  <2>6. p \in 0 .. keep[s] - 1 /\ p \in 0 .. Len(list[s]) - 1
    BY ONLY <2>4, <2>5
  <2>7. list[s][p + 1] = held[s][p + 1] /\ (p \in later[s] <=> p \in waiting[s])
    BY <2>6
  <2> QED  BY <2>1, <2>3, <2>6, <2>7 DEF p
<1>5. Holds(new, list, later)
  <2> SUFFICES ASSUME NEW s \in Seqs, NEW p \in 0 .. Len(list[s]) - 1, p \notin later[s]
               PROVE  \E c \in Cells : new[c].seq_id = {s} /\ new[c].pos = p
    BY DEF Holds
  <2>1. keep[s] \in Nat /\ Len(list[s]) \in Nat /\ keep[s] <= Len(held[s]) /\ Len(held[s]) \in Nat
    OBVIOUS
  <2>2. p \notin keep[s] .. Len(list[s]) - 1
    OBVIOUS
  <2>3. p \in 0 .. keep[s] - 1 /\ p \in 0 .. Len(held[s]) - 1 /\ p < keep[s]
    BY ONLY <2>1, <2>2, p \in 0 .. Len(list[s]) - 1
  <2>4. p \notin waiting[s]
    BY <2>3
  <2>5. PICK c \in Cells : cs[c].seq_id = {s} /\ cs[c].pos = p
    <3>1. Holds(cs, held, waiting)
        BY DEF Exact
    <3>2. \A q \in 0 .. Len(held[s]) - 1 :
                q \notin waiting[s] => \E c \in Cells : cs[c].seq_id = {s} /\ cs[c].pos = q
        BY ONLY <3>1, s \in Seqs DEF Holds
    <3> QED  BY ONLY <2>3, <2>4, <3>2
  <2>6. new[c] = cs[c]
    BY <2>3, <2>5
  <2> QED  BY <2>5, <2>6
<1> QED  BY <1>2, <1>3, <1>4, <1>5 DEF Exact

-----------------------------------------------------------------------------
(* The steps that leave the cells and the texts alone.                     *)

SlotInv == KVInv /\ RowsInv /\ StopInv /\ ContentInv

LEMMA ViewEndFacts ==
    ASSUME StopInv
    PROVE  /\ i_view \in Nat /\ n_batch \in Nat \ {0} /\ Len(batch) \in Nat /\ batch \in Seq(Entry)
           /\ ViewEnd = IF i_view + n_batch <= Len(batch) THEN i_view + n_batch ELSE Len(batch)
<1>1. i_view \in Nat /\ n_batch \in Nat \ {0} /\ batch \in Seq(Entry)
    BY DEF StopInv, SlotTypeOK
<1>2. Len(batch) \in Nat
    BY <1>1
<1> QED  BY <1>1, <1>2, MinPair DEF ViewEnd

LEMMA WaitingSame ==
    ASSUME NEW b, NEW from, NEW to, \A j \in 1 .. Len(b) : j > from <=> j > to
    PROVE  WaitingIn(b, from) = WaitingIn(b, to)
  BY DEF WaitingIn

LEMMA HeldSame ==
    ASSUME \A s \in Seqs : slots'[s].cache_tokens = slots[s].cache_tokens
    PROVE  Held' = Held
  BY DEF Held

LEMMA ContentFrame ==
    ASSUME ContentInv, cells' = cells, batch' = batch, Held' = Held, Waiting' = Waiting
    PROVE  Exact(cells, Held, Waiting)' /\ InOrder(batch, Held)'
<1>1. Exact(cells, Held, Waiting) /\ InOrder(batch, Held)
    BY DEF ContentInv
<1> QED  BY <1>1

\* What a slot knows stays when its text does.
LEMMA TextFrame ==
    ASSUME NEW s \in Seqs, TextOK(s), slots'[s] = slots[s],
           clean_kv_cache' => clean_kv_cache,
           InBatch(s)' => InBatch(s) /\ (at_slots' = "prompt" => at_slots = "prompt" /\ (s < next => s < next'))
    PROVE  TextOK(s)'
  BY DEF TextOK

\* A slot that is released keeps its text.
LEMMA TextReleased ==
    ASSUME NEW s \in Seqs, TextOK(s), slots'[s] = Released(slots[s]),
           ~ clean_kv_cache', InBatch(s)' => at_slots' # "prompt"
    PROVE  TextOK(s)'
<1>1. /\ slots'[s].state = "idle" /\ slots'[s].prompt = <<>>
      /\ slots'[s].cache_tokens = slots[s].cache_tokens
    BY DEF Released, IdleSlot
<1>2. Len(slots[s].cache_tokens) < SlotCtx
    BY DEF TextOK
<1> QED  BY <1>1, <1>2 DEF TextOK

LEMMA NoBatch ==
    ASSUME batch = <<>>
    PROVE  /\ \A s : ~ InBatch(s)
           /\ \A from : WaitingIn(batch, from) = [s \in Seqs |-> {}]
  BY DEF InBatch, WaitingIn

LEMMA ContentInit == SlotInit => ContentInv
<1> SUFFICES ASSUME SlotInit PROVE ContentInv
    OBVIOUS
<1>1. /\ cells = [c \in Cells |-> NewCell] /\ ~ has_shift /\ pc = "idle"
      /\ slots = [s \in Seqs |-> IdleSlot(<<>>)] /\ at_slots = "tasks" /\ batch = <<>>
      /\ n_batch = MaxBatch
    BY DEF SlotInit, Init
<1>2. \A c \in Cells : cells[c].seq_id = {}
    BY <1>1 DEF NewCell
<1>3. \A s \in Seqs : /\ slots[s].state = "idle" /\ slots[s].prompt = <<>>
                      /\ slots[s].cache_tokens = <<>>
    BY <1>1 DEF IdleSlot
<1>4. \A s \in Seqs : Held[s] = <<>> /\ Len(Held[s]) = 0
    BY <1>3 DEF Held
<1>5. Exact(cells, Held, Waiting)
  <2>1. \A s \in Seqs : \A c \in Cells : cells[c].seq_id # {s}
    BY <1>2
  <2>2. Owned(cells) /\ OneEach(cells)
    BY <1>2, <2>1 DEF Owned, OneEach, IsEmpty
  <2>3. Says(cells, Held, Waiting)
    BY <2>1 DEF Says
  <2>4. \A s \in Seqs : 0 .. Len(Held[s]) - 1 = {}
    BY <1>4
  <2>5. Holds(cells, Held, Waiting)
    BY <2>4 DEF Holds
  <2> QED  BY <2>2, <2>3, <2>5 DEF Exact
<1>6. InOrder(batch, Held)
    BY <1>1 DEF InOrder
<1>7. \A s \in Seqs : TextOK(s)
    BY <1>1, <1>3, NoBatch, SeqsFacts DEF TextOK
<1>8. RoundOK
    BY <1>1, SeqsFacts DEF RoundOK
<1> QED  BY <1>5, <1>6, <1>7, <1>8 DEF ContentInv

LEMMA LaunchContent ==
    ASSUME SlotInv, StartsClean' \/ ~ EarlyTasks, NEW s \in Seqs, NEW prompt \in Prompts, Launch(s, prompt)
    PROVE  ContentInv'
<1>0. ~ clean_kv_cache
  <2>1. /\ slots'[s].state = "started" /\ clean_kv_cache' = clean_kv_cache
        /\ EarlyTasks \/ ~ clean_kv_cache
    BY DEF Launch, SlotInv, StopInv, SlotTypeOK, SlotType
  <2> QED  BY <2>1 DEF StartsClean, IsProcessing
<1>1. /\ at_slots = "tasks" /\ ~ clean_kv_cache
      /\ slots' = [slots EXCEPT ![s].state = "started", ![s].prompt = prompt]
      /\ UNCHANGED <<vars, at_slots, next, batch, i_view, n_batch, clean_kv_cache>>
    BY <1>0 DEF Launch
<1>2. slots \in [Seqs -> SlotType]
    BY DEF SlotInv, StopInv, SlotTypeOK
<1>3. batch = <<>> /\ RoundOK
    BY <1>1 DEF SlotInv, ContentInv, RoundOK
<1>4. /\ slots'[s].state = "started" /\ slots'[s].prompt = prompt
      /\ slots'[s].cache_tokens = slots[s].cache_tokens
    BY <1>1, <1>2 DEF SlotType
<1>5. \A u \in Seqs : u # s => slots'[u] = slots[u]
    BY <1>1, <1>2
<1>6. Held' = Held
    BY <1>4, <1>5, HeldSame
<1>7. Waiting' = Waiting
    BY <1>1 DEF Waiting, Placed, ViewEnd, vars
<1>8. Exact(cells, Held, Waiting)' /\ InOrder(batch, Held)'
    BY <1>1, <1>6, <1>7, ContentFrame DEF SlotInv, vars
<1>9. ASSUME NEW u \in Seqs PROVE TextOK(u)'
  <2>1. TextOK(u) /\ ~ InBatch(u) /\ (InBatch(u)' <=> InBatch(u))
    BY <1>1, <1>3, NoBatch DEF SlotInv, ContentInv, InBatch
  <2>2. CASE u # s
    BY <1>1, <1>5, <2>1, <2>2, TextFrame
  <2>3. CASE u = s
    BY <1>1, <1>4, <2>1, <2>3 DEF TextOK
  <2> QED  BY <2>2, <2>3
<1>10. RoundOK'
    BY <1>1, <1>3 DEF RoundOK, ViewEnd, vars
<1> QED  BY <1>8, <1>9, <1>10 DEF ContentInv

LEMMA CancelContent ==
    ASSUME SlotInv, NEW s \in Seqs, CancelTask(s)
    PROVE  ContentInv'
<1>1. /\ at_slots = "tasks" /\ IsProcessing(s)
      /\ slots' = [slots EXCEPT ![s] = Released(slots[s])]
      /\ UNCHANGED <<vars, at_slots, next, batch, i_view, n_batch, clean_kv_cache>>
    BY DEF CancelTask
<1>2. slots \in [Seqs -> SlotType]
    BY DEF SlotInv, StopInv, SlotTypeOK
<1>3. batch = <<>> /\ RoundOK
    BY <1>1 DEF SlotInv, ContentInv, RoundOK
<1>4. slots'[s] = Released(slots[s]) /\ Released(slots[s]).cache_tokens = slots[s].cache_tokens
    BY <1>1, <1>2 DEF Released, IdleSlot
<1>5. \A u \in Seqs : u # s => slots'[u] = slots[u]
    BY <1>1, <1>2
<1>6. Held' = Held
    BY <1>4, <1>5, HeldSame
<1>7. Waiting' = Waiting
    BY <1>1 DEF Waiting, Placed, ViewEnd, vars
<1>8. Exact(cells, Held, Waiting)' /\ InOrder(batch, Held)'
    BY <1>1, <1>6, <1>7, ContentFrame DEF SlotInv, vars
<1>9. ASSUME NEW u \in Seqs PROVE TextOK(u)'
  <2>1. TextOK(u) /\ ~ InBatch(u) /\ (InBatch(u)' <=> InBatch(u))
    BY <1>1, <1>3, NoBatch DEF SlotInv, ContentInv, InBatch
  <2>2. CASE u # s
    BY <1>1, <1>5, <2>1, <2>2, TextFrame
  <2>3. CASE u = s
    <3>1. ~ clean_kv_cache
        BY <1>1, <2>1, <2>3 DEF TextOK, IsProcessing
    <3> QED  BY <1>1, <1>4, <2>1, <2>3, <3>1, TextReleased
  <2> QED  BY <2>2, <2>3
<1>10. RoundOK'
    BY <1>1, <1>3 DEF RoundOK, ViewEnd, vars
<1> QED  BY <1>8, <1>9, <1>10 DEF ContentInv

LEMMA SkipContent ==
    ASSUME SlotInv, SkipSlot
    PROVE  ContentInv'
<1>1. /\ at_slots = "prompt" /\ slots[next].state \in {"idle", "generating"}
      /\ UNCHANGED <<vars, slots, batch, i_view, n_batch, clean_kv_cache>>
      /\ NextSlot
    BY DEF SkipSlot
<1>2. next \in Seqs /\ next' \in Seqs /\ at_slots' \in {"prompt", "view"}
    BY <1>1, NextSlotFacts DEF SlotInv, StopInv, SlotTypeOK
<1>3. at_slots' = "prompt" => next' = next + 1
    BY <1>1 DEF NextSlot
<1>4. Held' = Held
    BY <1>1, HeldSame
<1>5. Waiting' = Waiting
    BY <1>1, <1>2 DEF Waiting, Placed, ViewEnd, vars
<1>6. Exact(cells, Held, Waiting)' /\ InOrder(batch, Held)'
    BY <1>1, <1>4, <1>5, ContentFrame DEF SlotInv, vars
<1>7. ASSUME NEW u \in Seqs PROVE TextOK(u)'
  <2>1. TextOK(u) /\ (InBatch(u)' <=> InBatch(u)) /\ slots'[u] = slots[u]
    BY <1>1 DEF SlotInv, ContentInv, InBatch
  <2>2. u < next => u < next + 1
    BY <1>2 DEF Seqs
  <2> QED  BY <1>1, <1>2, <1>3, <2>1, <2>2, TextFrame
<1>8. RoundOK'
    BY <1>1, <1>2 DEF SlotInv, ContentInv, RoundOK, ViewEnd, vars
<1> QED  BY <1>6, <1>7, <1>8 DEF ContentInv

LEMMA EmptyContent ==
    ASSUME SlotInv, EmptyPrompt
    PROVE  ContentInv'
<1>1. /\ at_slots = "prompt" /\ slots[next].state = "started"
      /\ slots' = [slots EXCEPT ![next] = Released(slots[next])]
      /\ UNCHANGED <<vars, batch, i_view, n_batch, clean_kv_cache>>
      /\ at_slots' \in {"prompt", "view"}
      /\ at_slots' = "prompt" => next' = next + 1
    BY DEF EmptyPrompt
<1>2. next \in Seqs /\ slots \in [Seqs -> SlotType]
    BY DEF SlotInv, StopInv, SlotTypeOK
<1>3. PICK s \in Seqs : s = next
    BY <1>2
<1>4. slots'[s] = Released(slots[s]) /\ Released(slots[s]).cache_tokens = slots[s].cache_tokens
    BY <1>1, <1>2, <1>3 DEF Released, IdleSlot
<1>5. \A u \in Seqs : u # s => slots'[u] = slots[u]
    BY <1>1, <1>2, <1>3
<1>6. Held' = Held
    BY <1>4, <1>5, HeldSame
<1>7. Waiting' = Waiting
    BY <1>1 DEF Waiting, Placed, ViewEnd, vars
<1>8. Exact(cells, Held, Waiting)' /\ InOrder(batch, Held)'
    BY <1>1, <1>6, <1>7, ContentFrame DEF SlotInv, vars
<1>9. ASSUME NEW u \in Seqs PROVE TextOK(u)'
  <2>1. TextOK(u) /\ (InBatch(u)' <=> InBatch(u))
    BY <1>1 DEF SlotInv, ContentInv, InBatch
  <2>2. CASE u # s
    <3>1. u < next => u < next + 1
        BY <1>2 DEF Seqs
    <3> QED  BY <1>1, <1>5, <2>1, <2>2, <3>1, TextFrame
  <2>3. CASE u = s
    <3>1. slots[u].state = "started" /\ ~ InBatch(u) /\ ~ clean_kv_cache
        BY <1>1, <1>3, <2>1, <2>3 DEF TextOK
    <3> QED  BY <1>1, <1>4, <2>1, <2>3, <3>1, TextReleased
  <2> QED  BY <2>2, <2>3
<1>10. RoundOK'
    BY <1>1 DEF SlotInv, ContentInv, RoundOK, ViewEnd, vars
<1> QED  BY <1>8, <1>9, <1>10 DEF ContentInv

LEMMA IdleContent ==
    ASSUME SlotInv, IdleRound
    PROVE  ContentInv'
<1>1. /\ at_slots = "tasks" /\ clean_kv_cache /\ ~ clean_kv_cache'
      /\ UNCHANGED <<slots, at_slots, next, batch, i_view, n_batch>>
      /\ pc' = pc /\ pc = "idle" /\ todo' = todo /\ ret' = ret /\ has_shift' = has_shift
      /\ cells' = [c \in Cells |-> Freed(cells[c])]
    BY DEF IdleRound, Clear
<1>2. \A s \in Seqs : TextOK(s) /\ slots[s].cache_tokens = <<>>
    BY <1>1 DEF SlotInv, ContentInv, TextOK
<1>3. \A s \in Seqs : Held[s] = <<>> /\ Len(Held[s]) = 0
    BY <1>2 DEF Held
<1>4. \A c \in Cells : cells'[c].seq_id = {}
  <2>1. cells \in [Cells -> Cell]
    BY DEF SlotInv, KVInv, TypeOK
  <2>2. \A c \in Cells : cells'[c] = Freed(cells[c])
    BY <1>1
  <2> QED  BY <2>1, <2>2 DEF Freed, Cell
<1>5. Held' = Held /\ Waiting' = Waiting
    BY <1>1, HeldSame DEF Waiting, Placed, ViewEnd
<1>6. Exact(cells', Held, Waiting)
  <2>1. \A s \in Seqs : \A c \in Cells : cells'[c].seq_id # {s}
    BY <1>4
  <2>2. Owned(cells') /\ OneEach(cells')
    BY <1>4, <2>1 DEF Owned, OneEach, IsEmpty
  <2>3. Says(cells', Held, Waiting)
    BY <2>1 DEF Says
  <2>4. \A s \in Seqs : 0 .. Len(Held[s]) - 1 = {}
    BY <1>3
  <2>5. Holds(cells', Held, Waiting)
    BY <2>4 DEF Holds
  <2> QED  BY <2>2, <2>3, <2>5 DEF Exact
<1>7. Exact(cells, Held, Waiting)' /\ InOrder(batch, Held)'
    BY <1>1, <1>5, <1>6 DEF SlotInv, ContentInv
<1>8. ASSUME NEW u \in Seqs PROVE TextOK(u)'
  <2>1. TextOK(u) /\ (InBatch(u)' <=> InBatch(u)) /\ slots'[u] = slots[u]
    BY <1>1, <1>2 DEF InBatch
  <2> QED  BY <1>1, <2>1, TextFrame
<1>9. RoundOK'
    BY <1>1 DEF SlotInv, ContentInv, RoundOK, ViewEnd
<1> QED  BY <1>7, <1>8, <1>9 DEF ContentInv

LEMMA BeginViewContent ==
    ASSUME SlotInv, BeginView
    PROVE  ContentInv'
<1>1. /\ at_slots = "view" /\ at_slots' = "decode" /\ i_view < Len(batch)
      /\ pc = "idle" /\ pc' = "ubatch" /\ todo' = SubSeq(batch, i_view + 1, ViewEnd)
      /\ UNCHANGED <<cells, has_shift, slots, next, batch, i_view, n_batch, clean_kv_cache>>
    BY DEF BeginView, DecodeBegin
<1>2. ViewEnd' = ViewEnd
    BY <1>1 DEF ViewEnd
<1>a. i_view \in Nat /\ ViewEnd \in Nat /\ i_view < ViewEnd /\ Begun' = i_view
  <2>1. PICK e : e = ViewEnd
    OBVIOUS
  <2>2. /\ i_view \in Nat /\ Len(batch) \in Nat /\ batch \in Seq(Entry)
        /\ e \in Nat /\ i_view < e /\ e <= Len(batch)
    BY <1>1, <2>1, ViewEndFacts DEF SlotInv
  <2>3. Len(SubSeq(batch, i_view + 1, e)) = e - i_view
    <3>1. \A i \in i_view + 1 .. e : batch[i] \in Entry
        BY <2>2
    <3> QED  BY <2>2, <3>1
  <2> QED  BY <1>1, <1>2, <2>1, <2>2, <2>3 DEF Begun
<1>3. Held' = Held /\ Waiting' = Waiting
    BY <1>1, <1>a, HeldSame DEF Waiting, Placed
<1>4. Exact(cells, Held, Waiting)' /\ InOrder(batch, Held)'
    BY <1>1, <1>3, ContentFrame DEF SlotInv
<1>5. ASSUME NEW u \in Seqs PROVE TextOK(u)'
  <2>1. TextOK(u) /\ (InBatch(u)' <=> InBatch(u)) /\ slots'[u] = slots[u]
    BY <1>1 DEF SlotInv, ContentInv, InBatch
  <2> QED  BY <1>1, <2>1, TextFrame
<1>6. RoundOK'
    BY <1>1, <1>2, <1>a DEF SlotInv, ContentInv, RoundOK
<1> QED  BY <1>4, <1>5, <1>6 DEF ContentInv

LEMMA SampleContent ==
    ASSUME SlotInv, Sample
    PROVE  ContentInv'
<1>1. PICK tok \in [Sampling -> Outputs \cup {NoToken}] :
            slots' = [s \in Seqs |-> IF s \in Sampling THEN Sampled(slots[s], tok[s]) ELSE slots[s]]
    BY DEF Sample
<1>2. /\ at_slots = "decode" /\ pc = "idle" /\ ret = 0
      /\ i_view' = i_view + n_batch /\ at_slots' = "view"
      /\ UNCHANGED <<vars, next, batch, n_batch, clean_kv_cache>>
    BY DEF Sample
<1>3. /\ i_view \in Nat /\ n_batch \in Nat \ {0} /\ Len(batch) \in Nat
      /\ ViewEnd = IF i_view + n_batch <= Len(batch) THEN i_view + n_batch ELSE Len(batch)
    BY ViewEndFacts DEF SlotInv
<1>4. ASSUME NEW s \in Seqs
      PROVE  TextOK(s)' /\ slots'[s].cache_tokens = slots[s].cache_tokens
  <2>1. TextOK(s) /\ (InBatch(s)' <=> InBatch(s)) /\ slots[s] \in SlotType
    BY <1>2 DEF SlotInv, ContentInv, InBatch, StopInv, SlotTypeOK
  <2>2. CASE s \notin Sampling
    <3>1. slots'[s] = slots[s]
        BY <1>1, <2>2
    <3> QED  BY <1>2, <2>1, <3>1, TextFrame
  <2>3. CASE s \in Sampling
    <3>1. /\ slots'[s] = Sampled(slots[s], tok[s])
          /\ slots[s].state \in {"done_prompt", "generating"}
        BY <1>1, <2>3 DEF Sampling
    <3>2. ~ clean_kv_cache
        BY <2>1, <3>1 DEF TextOK
    <3>3. CASE tok[s] = NoToken \/ LimitReached(slots[s])
      <4>1. slots'[s] = Released(slots[s])
        BY <3>1, <3>3 DEF Sampled
      <4>2. Released(slots[s]).cache_tokens = slots[s].cache_tokens
        BY DEF Released, IdleSlot
      <4> QED  BY <1>2, <2>1, <3>2, <4>1, <4>2, TextReleased
    <3>4. CASE ~ (tok[s] = NoToken \/ LimitReached(slots[s]))
      <4>1. slots'[s] = [slots[s] EXCEPT !.state = "generating", !.sampled = tok[s], !.i_batch = -1]
        BY <3>1, <3>4 DEF Sampled
      <4>2. /\ slots'[s].state = "generating"
            /\ slots'[s].prompt = slots[s].prompt
            /\ slots'[s].n_past = slots[s].n_past
            /\ slots'[s].cache_tokens = slots[s].cache_tokens
        BY <2>1, <4>1 DEF SlotType
      <4> QED  BY <1>2, <2>1, <3>1, <3>2, <4>2 DEF TextOK
    <3> QED  BY <3>3, <3>4
  <2> QED  BY <2>2, <2>3
<1>5. Held' = Held
    BY <1>4, HeldSame
<1>6. Waiting' = Waiting
  <2>1. \A j \in 1 .. Len(batch) : j > ViewEnd <=> j > i_view + n_batch
    BY <1>3
  <2>2. WaitingIn(batch, ViewEnd) = WaitingIn(batch, i_view + n_batch)
    BY <2>1, WaitingSame
  <2>3. Waiting = WaitingIn(batch, ViewEnd)
    BY <1>2 DEF Waiting, Placed
  <2>4. Waiting' = WaitingIn(batch', i_view')
    BY <1>2 DEF Waiting, Placed
  <2> QED  BY <1>2, <2>2, <2>3, <2>4
<1>7. Exact(cells, Held, Waiting)' /\ InOrder(batch, Held)'
    BY <1>2, <1>5, <1>6, ContentFrame DEF SlotInv, vars
<1>8. RoundOK'
    BY <1>2 DEF SlotInv, ContentInv, RoundOK, vars
<1> QED  BY <1>4, <1>7, <1>8 DEF ContentInv

LEMMA RetryContent ==
    ASSUME SlotInv, NeverGivesUp, Retry
    PROVE  ContentInv'
<1>1. /\ at_slots = "decode" /\ pc = "idle" /\ ret # 0
      /\ UNCHANGED <<vars, next, batch, i_view, clean_kv_cache>>
    BY DEF Retry
<1>2. RoundOK /\ n_batch > 1
  <2>1. n_batch \in Nat
    BY DEF SlotInv, StopInv, SlotTypeOK
  <2> QED  BY <1>1, <2>1 DEF SlotInv, ContentInv, NeverGivesUp
<1>3. n_batch' = n_batch \div 2 /\ at_slots' = "view" /\ UNCHANGED slots
    BY <1>2 DEF Retry
<1>4. n_batch' <= MaxBatch
  <2>1. n_batch \in Nat \ {0} /\ n_batch <= MaxBatch
    BY <1>2 DEF SlotInv, StopInv, SlotTypeOK, RoundOK
  <2> QED  BY <1>3, <2>1, SeqsFacts
<1>5. Held' = Held
    BY <1>3, HeldSame
<1>6. Waiting' = Waiting
    BY <1>1, <1>3 DEF Waiting, Placed
<1>7. Exact(cells, Held, Waiting)' /\ InOrder(batch, Held)'
    BY <1>1, <1>5, <1>6, ContentFrame DEF SlotInv, vars
<1>8. ASSUME NEW u \in Seqs PROVE TextOK(u)'
  <2>1. TextOK(u) /\ (InBatch(u)' <=> InBatch(u)) /\ slots'[u] = slots[u]
    BY <1>1, <1>3 DEF SlotInv, ContentInv, InBatch
  <2> QED  BY <1>1, <1>3, <2>1, TextFrame
<1>9. RoundOK'
    BY <1>1, <1>2, <1>3, <1>4 DEF RoundOK, vars
<1> QED  BY <1>7, <1>8, <1>9 DEF ContentInv

LEMMA EndRoundContent ==
    ASSUME SlotInv, EndRound
    PROVE  ContentInv'
<1>1. /\ at_slots = "view" /\ i_view >= Len(batch)
      /\ at_slots' = "tasks" /\ batch' = <<>> /\ i_view' = 0 /\ n_batch' = MaxBatch /\ next' = 0
      /\ UNCHANGED <<vars, slots, clean_kv_cache>>
    BY DEF EndRound
<1>2. i_view \in Nat /\ Len(batch) \in Nat
    BY ViewEndFacts DEF SlotInv
<1>3. Held' = Held
    BY <1>1, HeldSame
<1>4. Waiting' = Waiting
  <2>1. \A j \in 1 .. Len(batch) : ~ (j > i_view)
    BY <1>1, <1>2
  <2>2. Waiting = [s \in Seqs |-> {}]
    BY <1>1, <2>1 DEF Waiting, Placed, WaitingIn
  <2>3. Waiting' = [s \in Seqs |-> {}]
    BY <1>1 DEF Waiting, WaitingIn
  <2> QED  BY <2>2, <2>3
<1>5. Exact(cells, Held, Waiting)'
    BY <1>1, <1>3, <1>4 DEF SlotInv, ContentInv, vars
<1>6. InOrder(batch, Held)'
    BY <1>1 DEF InOrder
<1>7. ASSUME NEW u \in Seqs PROVE TextOK(u)'
  <2>1. TextOK(u) /\ ~ InBatch(u)' /\ slots'[u] = slots[u]
    BY <1>1 DEF SlotInv, ContentInv, InBatch
  <2> QED  BY <1>1, <2>1, TextFrame
<1>8. RoundOK'
    BY <1>1, SeqsFacts DEF SlotInv, ContentInv, RoundOK, vars
<1> QED  BY <1>5, <1>6, <1>7, <1>8 DEF ContentInv

-----------------------------------------------------------------------------
(* The steps of llama_decode.                                              *)

\* The ubatch is the next tokens of the view, what is left of it comes after.
LEMMA ViewFacts ==
    ASSUME SlotInv, at_slots = "decode", pc # "idle"
    PROVE  /\ pc # "abort" /\ i_view \in Nat /\ Begun \in Nat /\ ViewEnd \in Nat
           /\ i_view <= Begun /\ Begun < ViewEnd /\ ViewEnd <= Len(batch)
           /\ ViewEnd - i_view <= n_batch /\ n_batch <= MaxBatch
           /\ Len(Ubatch) \in Nat \ {0} /\ Begun + Len(Ubatch) <= ViewEnd
           /\ \A i \in 1 .. Len(Ubatch) : /\ Ubatch[i] = batch[Begun + i]
                                          /\ Begun + i \in 1 .. Len(batch)
           /\ Len(todo) = ViewEnd - Begun
           /\ Begun + Len(Ubatch) < ViewEnd => Len(Ubatch) = NUbatch
           /\ LET left == SubSeq(todo, Len(Ubatch) + 1, Len(todo))
              IN  /\ left \in Seq(Entry)
                  /\ Len(left) = ViewEnd - (Begun + Len(Ubatch))
                  /\ left # <<>> => left = SubSeq(batch, Begun + Len(Ubatch) + 1, ViewEnd)
<1>1. /\ ~ has_shift /\ i_view < Len(batch) /\ todo = SubSeq(batch, Begun + 1, ViewEnd)
      /\ n_batch <= MaxBatch /\ i_view <= Begun /\ Begun < ViewEnd
    BY DEF SlotInv, ContentInv, RoundOK
<1>2. pc # "abort"
    BY <1>1 DEF SlotInv, KVInv, NoDefragBug
<1>3. /\ i_view \in Nat /\ n_batch \in Nat \ {0} /\ Len(batch) \in Nat /\ batch \in Seq(Entry)
      /\ ViewEnd = IF i_view + n_batch <= Len(batch) THEN i_view + n_batch ELSE Len(batch)
    BY ViewEndFacts DEF SlotInv
<1>4. PICK e, a, u : e = ViewEnd /\ a = Begun /\ u = Len(Ubatch)
    OBVIOUS
<1>5. todo \in Seq(Entry) /\ Len(todo) \in Nat
    BY DEF SlotInv, KVInv, TypeOK
<1>6. /\ e \in Nat /\ a \in Nat /\ i_view <= a /\ a < e /\ e <= Len(batch)
      /\ e - i_view <= n_batch /\ Len(todo) = e - a
  <2>1. e \in Nat /\ e <= Len(batch) /\ e - i_view <= n_batch
    BY <1>3, <1>4
  <2>2. a = e - Len(todo)
    BY <1>4 DEF Begun
  <2>3. i_view <= a /\ a < e
    BY <1>1, <1>4
  <2>4. PICK t : t = Len(todo)
    OBVIOUS
  <2>5. a \in Nat /\ t = e - a
    <3>1. t \in Nat /\ a = e - t /\ e \in Nat /\ i_view \in Nat
        BY <1>3, <1>5, <2>1, <2>2, <2>4
    <3> QED  BY <2>3, <3>1
  <2> QED  BY <2>1, <2>3, <2>4, <2>5
<1>7. \A i \in a + 1 .. e : batch[i] \in Entry
    BY <1>3, <1>6
<1>8. \A i \in 1 .. e - a : todo[i] = batch[a + i]
  <2>1. \A i \in 1 .. e - a : SubSeq(batch, a + 1, e)[i] = batch[a + i]
    BY <1>3, <1>6, <1>7
  <2> QED  BY <1>1, <1>4, <2>1
<1>9. /\ u \in 1 .. NUbatch /\ u <= Len(todo) /\ NUbatch \in Nat
      /\ Ubatch = SubSeq(todo, 1, u) /\ (u < Len(todo) => u = NUbatch)
  <2>1. u \in 1 .. NUbatch /\ u <= Len(todo) /\ NUbatch \in Nat
    BY <1>2, <1>4, UbatchOK, CacheAssumption DEF SlotInv
  <2>2. PICK m : m = Min({NUbatch, Len(todo)})
    OBVIOUS
  <2>3. m \in {NUbatch, Len(todo)} /\ m <= NUbatch /\ m <= Len(todo)
    BY <1>5, <2>1, <2>2, MinPair
  <2>4. Ubatch = SubSeq(todo, 1, m)
    BY <2>2 DEF Ubatch
  <2>5. \A i \in 1 .. m : todo[i] \in Entry
    BY <1>5, <2>1, <2>3
  <2>6. Len(Ubatch) = m
    BY <1>5, <2>1, <2>3, <2>4, <2>5
  <2> QED  BY <1>4, <1>5, <2>1, <2>3, <2>4, <2>6
<1>10. \A i \in 1 .. u : Ubatch[i] = batch[a + i] /\ a + i \in 1 .. Len(batch)
  <2>1. \A i \in 1 .. u : todo[i] \in Entry
    BY <1>5, <1>9
  <2>2. \A i \in 1 .. u : Ubatch[i] = todo[i]
    BY <1>5, <1>9, <2>1
  <2>3. \A i \in 1 .. u : i \in 1 .. e - a /\ a + i \in 1 .. Len(batch)
    BY <1>3, <1>6, <1>9
  <2> QED  BY <1>8, <2>2, <2>3
<1> DEFINE left == SubSeq(todo, u + 1, Len(todo))
           rest == SubSeq(batch, a + u + 1, e)
<1>11. left \in Seq(Entry) /\ Len(left) = e - (a + u) /\ (left # <<>> => left = rest)
  <2>1. CASE u = Len(todo)
    <3>1. left = <<>>
        BY <1>5, <2>1, SubSeqEmpty
    <3>2. e - (a + u) = 0
        BY <1>6, <1>9, <2>1
    <3>3. <<>> \in Seq(Entry) /\ Len(<<>>) = 0
        OBVIOUS
    <3> HIDE DEF left, rest
    <3> QED  BY <3>1, <3>2, <3>3
  <2>2. CASE u # Len(todo)
    <3>1. \A i \in u + 1 .. Len(todo) : todo[i] \in Entry
        BY <1>5, <1>9
    <3>2. /\ left \in Seq(Entry) /\ Len(left) = Len(todo) - u
          /\ \A i \in 1 .. Len(todo) - u : left[i] = todo[u + i]
        BY <1>5, <1>9, <2>2, <3>1
    <3>3. \A i \in a + u + 1 .. e : batch[i] \in Entry
        BY <1>3, <1>6, <1>9
    <3>4. /\ rest \in Seq(Entry) /\ Len(rest) = e - (a + u)
          /\ \A i \in 1 .. e - (a + u) : rest[i] = batch[(a + u) + i]
        BY <1>3, <1>6, <1>9, <2>2, <3>3
    <3>5. Len(todo) - u = e - (a + u)
        BY <1>6, <1>9
    <3> HIDE DEF left, rest
    <3>6. ASSUME NEW i \in 1 .. e - (a + u) PROVE left[i] = rest[i]
      <4>1. u + i \in 1 .. e - a /\ a + (u + i) = (a + u) + i
        BY <1>6, <1>9
      <4>2. left[i] = todo[u + i] /\ todo[u + i] = batch[a + (u + i)]
        BY <1>8, <3>2, <3>5, <4>1
      <4> QED  BY <3>4, <4>1, <4>2
    <3> QED  BY <3>2, <3>4, <3>5, <3>6, SeqEqual
  <2> QED  BY <2>1, <2>2
<1>12. u \in Nat \ {0} /\ a + u <= e /\ (a + u < e => u = NUbatch)
    BY <1>6, <1>9
<1> QED  BY <1>1, <1>2, <1>3, <1>4, <1>6, <1>10, <1>11, <1>12

\* A step that changes neither the cells nor what is in them.
LEMMA DecodeFrame ==
    ASSUME SlotInv, at_slots = "decode", UNCHANGED servervars, cells' = cells,
           Placed' = Placed, has_shift' = has_shift,
           pc' # "idle" => pc # "idle" /\ todo' = todo
    PROVE  ContentInv'
<1>1. /\ UNCHANGED <<slots, batch, next, i_view, n_batch, clean_kv_cache>> /\ at_slots' = "decode"
      /\ ViewEnd' = ViewEnd
    BY DEF servervars, ViewEnd
<1>2. Held' = Held /\ Waiting' = Waiting
    BY <1>1, HeldSame DEF Waiting
<1>3. Exact(cells, Held, Waiting)' /\ InOrder(batch, Held)'
    BY <1>1, <1>2, ContentFrame DEF SlotInv
<1>4. ASSUME NEW u \in Seqs PROVE TextOK(u)'
  <2>1. TextOK(u) /\ (InBatch(u)' <=> InBatch(u)) /\ slots'[u] = slots[u]
    BY <1>1 DEF SlotInv, ContentInv, InBatch
  <2> QED  BY <1>1, <2>1, TextFrame
<1>5. RoundOK'
    BY <1>1 DEF SlotInv, ContentInv, RoundOK, Begun
<1> QED  BY <1>3, <1>4, <1>5 DEF ContentInv

LEMMA LoopContent ==
    ASSUME SlotInv, at_slots = "decode", UNCHANGED servervars,
           Update \/ Scan \/ MoveGap \/ Copy
    PROVE  ContentInv'
<1>1. /\ cells' = cells /\ has_shift' = has_shift /\ todo' = todo
      /\ pc \notin {"idle", "compute"}
    BY DEF Update, Scan, MoveGap, Copy
<1>2. pc' \notin {"idle", "compute"}
  <2>1. CASE Update
    BY <2>1 DEF Update
  <2>2. CASE Scan
    BY <2>2 DEF Scan, ScanDone
  <2>3. CASE MoveGap
    BY <2>3 DEF MoveGap, ScanDone
  <2>4. CASE Copy
    BY <2>4 DEF Copy
  <2> QED  BY <2>1, <2>2, <2>3, <2>4
<1>3. Placed' = Placed
    BY <1>1, <1>2 DEF Placed, Begun, ViewEnd, servervars
<1> QED  BY <1>1, <1>2, <1>3, DecodeFrame

LEMMA MoveContent ==
    ASSUME SlotInv, at_slots = "decode", UNCHANGED servervars, MoveCell
    PROVE  ContentInv'
<1> DEFINE to == df.i0 + df.nf
<1>1. PICK from \in Cells : from = df.i1
    BY MoveState DEF SlotInv, MoveCell
<1>2. /\ pc = "move" /\ ~ IsEmpty(cells[from])
      /\ cells' = [cells EXCEPT ![to] = cells[from], ![from] = NewCell]
      /\ UNCHANGED <<has_shift, todo>>
    BY <1>1 DEF MoveCell
<1>3. pc' \notin {"idle", "compute"}
    BY <1>2 DEF MoveCell, ScanDone
<1>4. to \in Cells /\ IsEmpty(cells[to])
  <2>1. /\ df.i0 \in Nat /\ df.nf \in Nat /\ df.nh \in Nat /\ Size \in Nat /\ used \in 0 .. Size
        /\ df.nused = used /\ Cells = 0 .. Size - 1 /\ MoveOK
    BY <1>2, MoveState DEF SlotInv
  <2>2. df.nf < df.nh /\ df.i0 + df.nh <= used
    BY <2>1 DEF MoveOK
  <2>3. to \in Cells /\ to >= df.i0 + df.nf /\ to < df.i0 + df.nh
    BY ONLY <2>1, <2>2
  <2> HIDE DEF to
  <2> QED  BY <2>1, <2>3 DEF MoveOK
<1> HIDE DEF to
<1>5. PICK x \in Cells : x = to
    BY <1>4
<1>6. cells \in [Cells -> Cell] /\ Exact(cells, Held, Waiting)
    BY DEF SlotInv, KVInv, TypeOK, ContentInv
<1>7. Exact([cells EXCEPT ![x] = cells[from], ![from] = NewCell], Held, Waiting)
    BY <1>2, <1>4, <1>5, <1>6, ExactMove
<1>8. /\ UNCHANGED <<slots, batch, next, i_view, n_batch, clean_kv_cache>> /\ at_slots' = "decode"
      /\ ViewEnd' = ViewEnd
    BY DEF servervars, ViewEnd
<1>9. Held' = Held /\ Waiting' = Waiting
    BY <1>2, <1>3, <1>8, HeldSame DEF Waiting, Placed, Begun
<1>10. Exact(cells, Held, Waiting)' /\ InOrder(batch, Held)'
    BY <1>2, <1>5, <1>7, <1>8, <1>9 DEF SlotInv, ContentInv
<1>11. ASSUME NEW u \in Seqs PROVE TextOK(u)'
  <2>1. TextOK(u) /\ (InBatch(u)' <=> InBatch(u)) /\ slots'[u] = slots[u]
    BY <1>8 DEF SlotInv, ContentInv, InBatch
  <2> QED  BY <1>8, <2>1, TextFrame
<1>12. RoundOK'
    BY <1>2, <1>3, <1>8 DEF SlotInv, ContentInv, RoundOK, Begun
<1> QED  BY <1>10, <1>11, <1>12 DEF ContentInv

\* A view that fails whole leaves the cells as they were.
LEMMA NoCellsContent ==
    ASSUME SlotInv, FailsWhole, at_slots = "decode", UNCHANGED servervars, NoCells
    PROVE  ContentInv'
<1>1. /\ pc = "find" /\ pc' = "idle" /\ ret' = 1 /\ UNCHANGED <<cells, has_shift>>
      /\ Found(SearchHead(Len(Ubatch)), Len(Ubatch)) = {}
    BY DEF NoCells
<1>2. Begun = i_view
  <2>1. Len(todo) = ViewEnd - i_view
    BY <1>1 DEF FailsWhole
  <2>2. i_view \in Nat /\ ViewEnd \in Nat
    BY <1>1, ViewFacts
  <2> QED  BY <2>1, <2>2 DEF Begun
<1>3. Placed' = Placed
    BY <1>1, <1>2 DEF Placed, servervars
<1> QED  BY <1>1, <1>3, DecodeFrame

LEMMA ComputeContent ==
    ASSUME SlotInv, at_slots = "decode", UNCHANGED servervars, Compute
    PROVE  ContentInv'
<1>0. PICK left : left = SubSeq(todo, Len(Ubatch) + 1, Len(todo))
    OBVIOUS
<1>1. pc = "compute" /\ UNCHANGED <<cells, has_shift>> /\ todo' = left
    BY <1>0 DEF Compute
<1>2. PICK e, a, u : e = ViewEnd /\ a = Begun /\ u = Len(Ubatch)
    OBVIOUS
<1>3. /\ e \in Nat /\ a \in Nat /\ u \in Nat \ {0} /\ a + u <= e /\ i_view \in Nat /\ i_view <= a
      /\ left \in Seq(Entry) /\ Len(left) = e - (a + u)
      /\ (left # <<>> => left = SubSeq(batch, a + u + 1, e))
      /\ (a + u < e => u = NUbatch)
    BY <1>0, <1>1, <1>2, ViewFacts
<1>4. ViewEnd' = e /\ Placed = a + u /\ i_view' = i_view /\ at_slots' = "decode"
    BY <1>1, <1>2 DEF Placed, servervars, ViewEnd
<1>5. CASE left = <<>>
  <2>1. pc' = "idle" /\ ret' = 0
    BY <1>0, <1>5 DEF Compute
  <2>2. a + u = e
    <3>1. Len(left) = 0
        BY <1>5
    <3>2. e - (a + u) = 0
        BY <1>3, <3>1
    <3> QED  BY <1>3, <3>2
  <2>3. Placed' = Placed
    BY <1>4, <2>1, <2>2 DEF Placed
  <2> QED  BY <1>1, <2>1, <2>3, DecodeFrame
<1>6. CASE left # <<>>
  <2>1. pc' = "ubatch"
    BY <1>0, <1>6 DEF Compute
  <2>2. Begun' = a + u
    BY <1>1, <1>3, <1>4 DEF Begun
  <2>3. a + u < e
    <3>1. Len(left) # 0
        BY <1>3, <1>6, EmptySeq
    <3> QED  BY <1>3, <3>1
  <2>4. Placed' = Placed
    BY <1>4, <2>1, <2>2 DEF Placed
  <2>5. Held' = Held /\ Waiting' = Waiting
    BY <2>4, HeldSame DEF Waiting, servervars
  <2>6. Exact(cells, Held, Waiting)' /\ InOrder(batch, Held)'
    BY <1>1, <2>5, ContentFrame DEF SlotInv, servervars
  <2>7. ASSUME NEW s \in Seqs PROVE TextOK(s)'
    <3>1. TextOK(s) /\ (InBatch(s)' <=> InBatch(s)) /\ slots'[s] = slots[s]
        BY DEF SlotInv, ContentInv, InBatch, servervars
    <3> QED  BY <1>4, <3>1, TextFrame DEF servervars
  <2>8. RoundOK'
    <3>1. /\ ~ has_shift /\ n_batch <= MaxBatch /\ i_view < Len(batch)
          /\ UNCHANGED <<batch, n_batch, i_view>>
        BY <1>1 DEF SlotInv, ContentInv, RoundOK, servervars
    <3>2. i_view <= a + u /\ NUbatch < e - i_view
        BY <1>3, <2>3
    <3> QED  BY <1>1, <1>3, <1>4, <1>6, <2>1, <2>2, <2>3, <3>1, <3>2 DEF RoundOK
  <2> QED  BY <2>6, <2>7, <2>8 DEF ContentInv
<1> QED  BY <1>5, <1>6

LEMMA FindContent ==
    ASSUME SlotInv, at_slots = "decode", UNCHANGED servervars, FindCells
    PROVE  ContentInv'
<1>1. /\ pc = "find" /\ pc' = "compute" /\ UNCHANGED <<has_shift, todo>>
    BY DEF FindCells
<1>2. PICK sl \in Found(SearchHead(Len(Ubatch)), Len(Ubatch)) : cells' = Occupy(cells, sl, Ubatch)
    BY DEF FindCells
<1>3. Fitting(cells, sl, Ubatch)
    BY <1>1, SearchHeadInCache, FoundFits DEF SlotInv
<1>4. PICK ub, a, z : ub = Ubatch /\ a = Begun /\ z = Begun + Len(Ubatch)
    OBVIOUS
<1>5. /\ Len(ub) = z - a /\ Len(ub) \in Nat /\ a \in Nat
      /\ z \in Nat /\ z <= Len(batch) /\ Len(batch) \in Nat /\ a < z
      /\ \A i \in 1 .. Len(ub) : /\ ub[i] = batch[a + i]
                                 /\ a + i \in 1 .. Len(batch)
                                 /\ a + i <= z
  <2>1. Len(batch) \in Nat
    BY ViewEndFacts DEF SlotInv
  <2>2. /\ a \in Nat /\ Len(ub) \in Nat \ {0} /\ z = a + Len(ub)
        /\ ViewEnd \in Nat /\ z <= ViewEnd /\ ViewEnd <= Len(batch)
        /\ \A i \in 1 .. Len(ub) : ub[i] = batch[a + i] /\ a + i \in 1 .. Len(batch)
    BY <1>1, <1>4, ViewFacts
  <2> QED  BY <2>1, <2>2
<1>6. InOrder(batch, Held)
    BY DEF SlotInv, ContentInv
<1> DEFINE wait  == WaitingIn(batch, a)
           later == WaitingIn(batch, z)
<1>7. Waiting = wait
    BY <1>1, <1>4 DEF Waiting, Placed
<1>8. \A s \in Seqs : later[s] \subseteq wait[s]
  <2>1. \A j \in 1 .. Len(batch) : j > z => j > a
    BY <1>5
  <2> QED  BY <2>1 DEF WaitingIn
<1>9. ASSUME NEW i \in 1 .. Len(ub)
      PROVE  \E s \in Seqs :
                /\ ub[i].seq_id = {s}
                /\ ub[i].pos \in wait[s] /\ ub[i].pos \notin later[s]
                /\ ub[i].pos \in 0 .. Len(Held[s]) - 1
                /\ ub[i].tok = Held[s][ub[i].pos + 1]
  <2> DEFINE j == a + i
  <2>1. j \in 1 .. Len(batch) /\ ub[i] = batch[j] /\ j <= z /\ j > a
    BY <1>5
  <2> HIDE DEF j
  <2>2. PICK s \in Seqs : /\ batch[j].seq_id = {s}
                          /\ batch[j].pos \in 0 .. Len(Held[s]) - 1
                          /\ batch[j].tok = Held[s][batch[j].pos + 1]
    BY <1>6, <2>1 DEF InOrder
  <2>3. batch[j].pos \in wait[s]
    BY <2>1, <2>2 DEF WaitingIn
  <2>4. batch[j].pos \notin later[s]
    <3> SUFFICES ASSUME NEW m \in 1 .. Len(batch), m > z, batch[m].seq_id = {s},
                        batch[m].pos = batch[j].pos
                 PROVE  FALSE
        BY DEF WaitingIn
    <3>1. j < m
        BY <1>5, <2>1
    <3>2. batch[j].pos < batch[m].pos
        BY <1>6, <2>1, <2>2, <3>1 DEF InOrder
    <3> QED  BY <2>2, <3>2
  <2> QED  BY <2>1, <2>2, <2>3, <2>4
<1>10. ASSUME NEW i \in 1 .. Len(ub), NEW j \in 1 .. Len(ub),
              ub[i].seq_id = ub[j].seq_id, ub[i].pos = ub[j].pos, i < j
       PROVE  FALSE
  <2>1. a + i < a + j
    BY <1>5, <1>10
  <2>2. batch[a + i].pos < batch[a + j].pos
    BY <1>5, <1>6, <1>10, <2>1 DEF InOrder
  <2>3. batch[a + i].pos \in Int
    BY <1>5, <1>6 DEF InOrder
  <2> QED  BY <1>5, <1>10, <2>2, <2>3
<1>11. \A i, j \in 1 .. Len(ub) : ub[i].seq_id = ub[j].seq_id /\ ub[i].pos = ub[j].pos => i = j
    BY <1>10
<1>12. ASSUME NEW s \in Seqs, NEW p \in wait[s]
       PROVE  p \in later[s] \/ \E i \in 1 .. Len(ub) : ub[i].seq_id = {s} /\ ub[i].pos = p
  <2>1. PICK j \in 1 .. Len(batch) : j > a /\ batch[j].seq_id = {s} /\ batch[j].pos = p
    BY DEF WaitingIn
  <2>2. CASE j > z
    BY <2>1, <2>2 DEF WaitingIn
  <2>3. CASE ~ (j > z)
    <3>1. j - a \in 1 .. Len(ub) /\ a + (j - a) = j
        BY <1>5, <2>1, <2>3
    <3>2. ub[j - a] = batch[j]
        BY <1>5, <3>1
    <3> QED  BY <2>1, <3>1, <3>2
  <2> QED  BY <2>2, <2>3
<1> HIDE DEF wait, later
<1>13. cells \in [Cells -> Cell] /\ Exact(cells, Held, wait)
    BY <1>7 DEF SlotInv, KVInv, TypeOK, ContentInv
<1>14. Exact(Occupy(cells, sl, ub), Held, later)
  <2>1. \A i \in 1 .. Len(ub) : \E s \in Seqs :
            /\ ub[i].seq_id = {s}
            /\ ub[i].pos \in wait[s] /\ ub[i].pos \notin later[s]
            /\ ub[i].pos \in 0 .. Len(Held[s]) - 1
            /\ ub[i].tok = Held[s][ub[i].pos + 1]
    BY <1>9
  <2>2. \A s \in Seqs : \A p \in wait[s] :
            p \in later[s] \/ \E i \in 1 .. Len(ub) : ub[i].seq_id = {s} /\ ub[i].pos = p
    BY <1>12
  <2>3. Fitting(cells, sl, ub)
    BY <1>3, <1>4
  <2>4. Arriving(ub, Held, wait, later)
    BY ONLY <1>8, <1>11, <2>1, <2>2 DEF Arriving
  <2> QED  BY <1>13, <2>3, <2>4, ExactOccupy
<1>15. /\ UNCHANGED <<slots, batch, next, i_view, n_batch, clean_kv_cache>>
       /\ at_slots' = "decode" /\ ViewEnd' = ViewEnd
    BY DEF servervars, ViewEnd
<1>16. Held' = Held /\ Waiting' = later
  <2>1. Ubatch' = Ubatch /\ Begun' = Begun
    BY <1>1, <1>15 DEF Ubatch, Begun
  <2>2. Placed' = z
    BY <1>1, <1>4, <1>15, <2>1 DEF Placed
  <2> QED  BY <1>15, <2>2, HeldSame DEF Waiting, later
<1>17. Exact(cells, Held, Waiting)' /\ InOrder(batch, Held)'
    BY <1>2, <1>4, <1>6, <1>14, <1>15, <1>16
<1>18. ASSUME NEW u \in Seqs PROVE TextOK(u)'
  <2>1. TextOK(u) /\ (InBatch(u)' <=> InBatch(u)) /\ slots'[u] = slots[u]
    BY <1>15 DEF SlotInv, ContentInv, InBatch
  <2> QED  BY <1>15, <2>1, TextFrame
<1>19. RoundOK'
    BY <1>1, <1>15 DEF SlotInv, ContentInv, RoundOK, Begun
<1> QED  BY <1>17, <1>18, <1>19 DEF ContentInv

-----------------------------------------------------------------------------
(* The steps that add to the texts.                                        *)

LEMMA TokenFields ==
    ASSUME NEW s, NEW p, NEW t
    PROVE  Token(s, p, t).pos = p /\ Token(s, p, t).seq_id = {s} /\ Token(s, p, t).tok = t
  BY DEF Token

\* A generating slot is at the end of its text.
LEMMA GeneratingText ==
    ASSUME SlotInv, at_slots = "tasks", NEW s \in Generating
    PROVE  /\ s \in Seqs /\ Held[s] \in Seq(Tokens) /\ Held[s] = slots[s].cache_tokens
           /\ slots[s].n_past = Len(Held[s]) /\ Len(Held[s]) \in Nat /\ Len(Held[s]) + 1 < SlotCtx
           /\ slots[s].sampled \in Tokens
           /\ Len(slots[s].prompt) <= Len(Held[s])
           /\ \A p \in 1 .. Len(slots[s].prompt) : Held[s][p] = slots[s].prompt[p]
<1>1. s \in Seqs /\ slots[s].state = "generating"
    BY DEF Generating
<1>2. slots[s] \in SlotType /\ Bounded(s) /\ TextOK(s)
    BY <1>1 DEF SlotInv, StopInv, SlotTypeOK, ContentInv
<1>3. Held[s] = slots[s].cache_tokens /\ Held[s] \in Seq(Tokens) /\ slots[s].prompt \in Seq(Tokens)
    BY <1>1, <1>2 DEF Held, SlotType
<1>4. slots[s].n_past = Len(Held[s]) /\ Len(slots[s].prompt) <= Len(Held[s])
    BY <1>1, <1>2, <1>3 DEF TextOK
<1>5. slots[s].n_past + 1 < SlotCtx
    BY <1>1, NoneFull DEF SlotInv, IsProcessing
<1>6. slots[s].sampled \in Tokens
    BY <1>1, <1>2 DEF Bounded
<1>7. \A p \in 1 .. Len(slots[s].prompt) : p <= Len(Held[s]) => Held[s][p] = slots[s].prompt[p]
    BY <1>1, <1>2, <1>3 DEF TextOK
<1>8. \A p \in 1 .. Len(slots[s].prompt) : p <= Len(Held[s])
    BY <1>3, <1>4
<1> QED  BY <1>1, <1>3, <1>4, <1>5, <1>6, <1>7, <1>8

LEMMA BeginRoundContent ==
    ASSUME SlotInv, BeginRound
    PROVE  ContentInv'
<1>1. /\ at_slots = "tasks" /\ i_view' = 0 /\ n_batch' = MaxBatch /\ next' = 0
      /\ UNCHANGED vars /\ clean_kv_cache' = clean_kv_cache
      /\ \E s \in Seqs : IsProcessing(s)
    BY DEF BeginRound
<1>2. /\ RoundOK /\ batch = <<>> /\ pc = "idle"
    BY <1>1 DEF SlotInv, ContentInv, RoundOK
<1>3. ~ clean_kv_cache
  <2>1. PICK s \in Seqs : slots[s].state # "idle"
    BY <1>1 DEF IsProcessing
  <2> QED  BY <2>1 DEF SlotInv, ContentInv, TextOK
<1>4. PICK b, list, later : b = batch' /\ list = Held' /\ later = Waiting'
    OBVIOUS
<1>5. /\ b \in Seq(Entry) /\ Len(b) = Cardinality(Generating) /\ Len(b) \in Nat
      /\ \A j \in 1 .. Len(b) : \E s \in Generating :
            Rank(s) = j - 1 /\ b[j] = Token(s, slots[s].n_past, slots[s].sampled)
      /\ slots' = [s \in Seqs |-> IF s \in Generating THEN Generated(s) ELSE slots[s]]
      /\ at_slots' \in {"prompt", "view"}
    BY <1>4, RoundFacts DEF SlotInv
<1>6. ASSUME NEW s \in Generating
      PROVE  /\ list[s] = Append(Held[s], slots[s].sampled)
             /\ Len(list[s]) = Len(Held[s]) + 1
             /\ \A p \in 1 .. Len(Held[s]) : list[s][p] = Held[s][p]
             /\ list[s][Len(Held[s]) + 1] = slots[s].sampled
  <2>1. s \in Seqs /\ slots'[s] = Generated(s)
    BY <1>5 DEF Generating
  <2>2. list[s] = slots'[s].cache_tokens
    BY <1>4, <2>1 DEF Held
  <2>3. list[s] = Append(Held[s], slots[s].sampled)
    BY <1>1, <2>1, <2>2, GeneratedFacts, GeneratingText DEF SlotInv
  <2>4. Held[s] \in Seq(Tokens) /\ slots[s].sampled \in Tokens
    BY <1>1, GeneratingText
  <2> QED  BY <2>3, <2>4
<1>7. ASSUME NEW s \in Seqs, s \notin Generating
      PROVE  list[s] = Held[s] /\ slots'[s] = slots[s]
  <2>1. slots'[s] = slots[s]
    BY <1>5, <1>7
  <2> QED  BY <1>4, <2>1 DEF Held
\* What waits now is the token of each generating slot.
<1>8. later = WaitingIn(b, 0)
  <2>1. Waiting' = WaitingIn(batch', i_view')
    BY <1>5 DEF Waiting, Placed
  <2> QED  BY <1>1, <1>4, <2>1
<1>9. ASSUME NEW j \in 1 .. Len(b), NEW s \in Seqs, b[j].seq_id = {s}
      PROVE  s \in Generating /\ Rank(s) = j - 1 /\ b[j].pos = Len(Held[s])
             /\ b[j].tok = slots[s].sampled
  <2>1. PICK u \in Generating : Rank(u) = j - 1 /\ b[j] = Token(u, slots[u].n_past, slots[u].sampled)
    BY <1>5
  <2>2. b[j].seq_id = {u} /\ b[j].pos = slots[u].n_past /\ b[j].tok = slots[u].sampled
    BY <2>1, TokenFields
  <2>3. u = s
    BY <1>9, <2>2, SameSingleton
  <2>4. slots[u].n_past = Len(Held[u])
    BY <1>1, GeneratingText
  <2> QED  BY <2>1, <2>2, <2>3, <2>4
<1>10. ASSUME NEW s \in Generating PROVE Len(Held[s]) \in later[s]
  <2>1. s \in Seqs /\ Len(Held[s]) \in Nat
    BY <1>1, GeneratingText
  <2>2. PICK j \in 1 .. Len(b) : Rank(s) = j - 1
    <3>1. Rank(s) \in 0 .. Cardinality(Generating) - 1
        BY RankFacts
    <3>2. Rank(s) + 1 \in 1 .. Len(b) /\ Rank(s) = (Rank(s) + 1) - 1
        BY <1>5, <3>1
    <3> QED  BY <3>2
  <2>3. PICK u \in Generating : Rank(u) = j - 1 /\ b[j] = Token(u, slots[u].n_past, slots[u].sampled)
    BY <1>5
  <2>4. u = s
    BY <2>2, <2>3, RankInjective
  <2>5. b[j].seq_id = {s} /\ b[j].pos = Len(Held[s])
    <3>1. slots[s].n_past = Len(Held[s])
        BY <1>1, GeneratingText
    <3> QED  BY <2>3, <2>4, <3>1, TokenFields
  <2>6. j > 0
    OBVIOUS
  <2> QED  BY <1>8, <2>1, <2>5, <2>6 DEF WaitingIn
<1>11. ASSUME NEW s \in Seqs, NEW p \in later[s] PROVE s \in Generating /\ p = Len(Held[s])
  <2>1. PICK j \in 1 .. Len(b) : b[j].seq_id = {s} /\ b[j].pos = p
    BY <1>8 DEF WaitingIn
  <2> QED  BY <1>9, <2>1
<1>12. \A s \in Seqs : Held[s] \in Seq(Tokens) /\ Len(Held[s]) \in Nat
    BY DEF SlotInv, StopInv, SlotTypeOK, SlotType, Held
<1>13. Exact(cells, list, later)
  <2> DEFINE keep == [s \in Seqs |-> Len(Held[s])]
  <2>1. Exact(cells, Held, Waiting)
    BY DEF SlotInv, ContentInv
  <2>2. \A s \in Seqs : Waiting[s] = {}
    BY <1>2, NoBatch DEF Waiting
  <2>3. \A s \in Seqs : \A c \in Cells : cells[c].seq_id = {s} => cells[c].pos < keep[s]
    <3> SUFFICES ASSUME NEW s \in Seqs, NEW c \in Cells, cells[c].seq_id = {s}
                 PROVE  cells[c].pos < keep[s]
        OBVIOUS
    <3>1. cells[c].pos \in 0 .. Len(Held[s]) - 1 /\ Len(Held[s]) \in Nat
        BY <1>12, <2>1 DEF Exact, Says
    <3> QED  BY <3>1
  <2>4. ASSUME NEW s \in Seqs
        PROVE  /\ keep[s] \in Nat /\ keep[s] = Len(Held[s]) /\ Len(list[s]) \in Nat
               /\ keep[s] <= Len(list[s])
               /\ \A p \in 0 .. keep[s] - 1 :
                    /\ list[s][p + 1] = Held[s][p + 1]
                    /\ p \in later[s] <=> p \in Waiting[s]
               /\ \A p \in keep[s] .. Len(list[s]) - 1 : p \in later[s]
    <3>1. keep[s] = Len(Held[s]) /\ keep[s] \in Nat
        BY <1>12
    <3>2. \A p \in 0 .. keep[s] - 1 : p \notin later[s]
        BY <1>11, <3>1
    <3> HIDE DEF keep
    <3>3. CASE s \in Generating
      <4>1. Len(list[s]) = keep[s] + 1 /\ \A p \in 1 .. keep[s] : list[s][p] = Held[s][p]
        BY <1>6, <3>1, <3>3
      <4>2. \A p \in 0 .. keep[s] - 1 : list[s][p + 1] = Held[s][p + 1]
        BY <3>1, <4>1
      <4>3. \A p \in keep[s] .. Len(list[s]) - 1 : p = keep[s]
        BY <3>1, <4>1
      <4> QED  BY <1>10, <2>2, <3>1, <3>2, <3>3, <4>1, <4>2, <4>3
    <3>4. CASE s \notin Generating
      <4>1. list[s] = Held[s]
        BY <1>7, <3>4
      <4>2. \A p \in keep[s] .. Len(list[s]) - 1 : FALSE
        BY <3>1, <4>1
      <4> QED  BY <2>2, <3>1, <3>2, <4>1, <4>2
    <3> QED  BY <3>3, <3>4
  <2> HIDE DEF keep
  <2>5. \A s \in Seqs : /\ keep[s] \in Nat
                        /\ Len(Held[s]) \in Nat /\ Len(list[s]) \in Nat
                        /\ keep[s] <= Len(Held[s]) /\ keep[s] <= Len(list[s])
    BY <1>12, <2>4
  <2>6. \A s \in Seqs : \A p \in 0 .. keep[s] - 1 :
            /\ list[s][p + 1] = Held[s][p + 1]
            /\ p \in later[s] <=> p \in Waiting[s]
    BY <2>4
  <2>7. \A s \in Seqs : \A p \in keep[s] .. Len(list[s]) - 1 : p \in later[s]
    BY <2>4
  <2>8. \A s \in Seqs : \A c \in Cells : cells[c].seq_id = {s} =>
            IF cells[c].pos < keep[s] THEN cells[c] = cells[c] ELSE cells[c].seq_id = {}
    BY <2>3
  <2>9. \A c \in Cells : cells[c].seq_id = {} \/ cells[c] = cells[c]
    OBVIOUS
  <2>10. Emptied(cells, cells, keep)
    BY ONLY <2>8, <2>9 DEF Emptied
  <2>11. Continued(Held, Waiting, list, later, keep)
    BY ONLY <2>5, <2>6, <2>7 DEF Continued
  <2> QED  BY <2>1, <2>10, <2>11, ExactChange
<1>14. InOrder(b, list)
  <2>1. ASSUME NEW j \in 1 .. Len(b)
        PROVE  \E s \in Seqs : /\ b[j].seq_id = {s}
                               /\ b[j].pos \in 0 .. Len(list[s]) - 1
                               /\ b[j].tok = list[s][b[j].pos + 1]
    <3>1. PICK s \in Generating : b[j].seq_id = {s}
        BY <1>5, TokenFields
    <3>2. s \in Seqs
        BY DEF Generating
    <3>3. b[j].pos = Len(Held[s]) /\ b[j].tok = slots[s].sampled
        BY <1>9, <3>1, <3>2
    <3>4. Len(Held[s]) \in 0 .. Len(list[s]) - 1
        BY <1>6, <1>12, <3>2
    <3>5. b[j].tok = list[s][b[j].pos + 1]
        BY <1>6, <3>3
    <3> QED  BY <3>1, <3>2, <3>3, <3>4, <3>5
  <2>2. ASSUME NEW i \in 1 .. Len(b), NEW j \in 1 .. Len(b), i < j, b[i].seq_id = b[j].seq_id
        PROVE  FALSE
    <3>1. PICK s \in Generating : b[i].seq_id = {s}
        BY <1>5, TokenFields
    <3>2. s \in Seqs
        BY DEF Generating
    <3>3. Rank(s) = i - 1 /\ Rank(s) = j - 1
        BY <1>9, <2>2, <3>1, <3>2
    <3> QED  BY <2>2, <3>3
  <2> QED  BY <2>1, <2>2 DEF InOrder
<1>15. ASSUME NEW s \in Seqs PROVE TextOK(s)'
  <2>1. InBatch(s)' => s \in Generating
    <3> SUFFICES ASSUME InBatch(s)' PROVE s \in Generating
        OBVIOUS
    <3>1. PICK j \in 1 .. Len(b) : b[j].seq_id = {s}
        BY <1>4 DEF InBatch
    <3> QED  BY <1>9, <3>1
  <2>2. CASE s \notin Generating
    <3>1. TextOK(s) /\ ~ InBatch(s)' /\ slots'[s] = slots[s]
        BY <1>7, <2>1, <2>2 DEF SlotInv, ContentInv
    <3> QED  BY <1>1, <3>1, TextFrame
  <2>3. CASE s \in Generating
    <3>1. slots'[s] = Generated(s)
        BY <1>5, <2>3
    <3>2. /\ Generated(s).state = "generating" /\ Generated(s).prompt = slots[s].prompt
          /\ Generated(s).n_past = slots[s].n_past + 1
          /\ Generated(s).cache_tokens = Append(slots[s].cache_tokens, slots[s].sampled)
        BY <2>3, GeneratedFacts DEF SlotInv
    <3>3. /\ Held[s] = slots[s].cache_tokens /\ slots[s].n_past = Len(Held[s]) /\ Len(Held[s]) \in Nat
          /\ Len(Held[s]) + 1 < SlotCtx /\ Len(slots[s].prompt) <= Len(Held[s])
          /\ \A p \in 1 .. Len(slots[s].prompt) : Held[s][p] = slots[s].prompt[p]
        BY <1>1, <2>3, GeneratingText
    <3>4. Len(slots[s].prompt) \in Nat
        BY DEF SlotInv, StopInv, SlotTypeOK, SlotType
    <3>5. PICK cache : cache = Append(Held[s], slots[s].sampled)
        OBVIOUS
    <3>6. Len(cache) = Len(Held[s]) + 1 /\ \A p \in 1 .. Len(Held[s]) : cache[p] = Held[s][p]
        BY <1>6, <2>3, <3>5
    <3>7. \A p \in 1 .. Len(slots[s].prompt) : cache[p] = slots[s].prompt[p]
        BY <3>3, <3>4, <3>6
    <3>8. slots'[s].cache_tokens = cache /\ slots'[s].prompt = slots[s].prompt
            /\ slots'[s].state = "generating" /\ slots'[s].n_past = Len(cache)
        BY <3>1, <3>2, <3>3, <3>5, <3>6
    <3>9. Len(cache) < SlotCtx /\ Len(slots[s].prompt) <= Len(cache)
        BY <3>3, <3>4, <3>6
    <3> QED  BY <1>1, <1>3, <3>7, <3>8, <3>9 DEF TextOK
  <2> QED  BY <2>2, <2>3
<1>16. RoundOK'
    BY <1>1, <1>2, <1>5, SeqsFacts DEF RoundOK, vars
<1>17. Exact(cells, Held, Waiting)' /\ InOrder(batch, Held)'
    BY <1>1, <1>4, <1>13, <1>14 DEF vars
<1> QED  BY <1>15, <1>16, <1>17 DEF ContentInv

\* What seq_rm does to the cells of one slot.
LEMMA RemovedEmpties ==
    ASSUME NEW cs \in [Cells -> Cell], Owned(cs), NEW s \in Seqs, NEW k \in Nat, NEW new,
           \A c \in Cells : new[c] = Removed(cs[c], s, k, -1),
           NEW keep, keep[s] = k,
           \A u \in Seqs : u # s =>
                \A c \in Cells : cs[c].seq_id = {u} => cs[c].pos < keep[u]
    PROVE  Emptied(cs, new, keep)
<1>1. Max({k, 0}) = k
    BY MaxPair
<1>2. ASSUME NEW c \in Cells PROVE InRange(cs[c].pos, k, -1) <=> cs[c].pos >= k
  <2>1. cs[c].pos \in Int
    BY DEF Cell
  <2> QED  BY <1>1, <2>1 DEF InRange
<1>3. ~ (s < 0)
    BY DEF Seqs
<1>4. ASSUME NEW c \in Cells, ~ (cs[c].pos >= k /\ s \in cs[c].seq_id)
      PROVE  new[c] = cs[c]
    BY <1>2, <1>3, <1>4 DEF Removed
<1>5. ASSUME NEW c \in Cells, cs[c].pos >= k, s \in cs[c].seq_id
      PROVE  new[c].seq_id = {}
  <2>1. ~ IsEmpty(cs[c])
    BY <1>5 DEF IsEmpty
  <2>2. PICK u \in Seqs : cs[c].seq_id = {u}
    BY <2>1 DEF Owned
  <2>3. cs[c].seq_id \ {s} = {}
    BY <1>5, <2>2
  <2>4. new[c] = Freed(cs[c])
    BY <1>2, <1>3, <1>5, <2>3 DEF Removed
  <2>5. cs[c] \in Cell
    OBVIOUS
  <2> QED  BY <2>4, <2>5, FreedIsEmpty DEF IsEmpty
<1>6. \A c \in Cells : new[c].seq_id = {} \/ new[c] = cs[c]
    BY <1>4, <1>5
<1>7. ASSUME NEW u \in Seqs, NEW c \in Cells, cs[c].seq_id = {u}
      PROVE  IF cs[c].pos < keep[u] THEN new[c] = cs[c] ELSE new[c].seq_id = {}
  <2>1. CASE u = s
    <3>1. cs[c].pos \in Int /\ s \in cs[c].seq_id
        BY <1>7, <2>1 DEF Cell
    <3>2. CASE cs[c].pos < k
      <4>1. ~ (cs[c].pos >= k)
        BY <3>1, <3>2
      <4> QED  BY <1>4, <2>1, <3>2, <4>1
    <3>3. CASE ~ (cs[c].pos < k)
      <4>1. cs[c].pos >= k
        BY <3>1, <3>3
      <4> QED  BY <1>5, <2>1, <3>1, <3>3, <4>1
    <3> QED  BY <3>2, <3>3
  <2>2. CASE u # s
    <3>1. s \notin cs[c].seq_id /\ cs[c].pos < keep[u]
        BY <1>7, <2>2
    <3> QED  BY <1>4, <3>1
  <2> QED  BY <2>1, <2>2
<1> QED  BY <1>6, <1>7 DEF Emptied

LEMMA BatchPromptContent ==
    ASSUME SlotInv, NEW keep \in Keeps, BatchPrompt(keep)
    PROVE  ContentInv'
<1>1. /\ at_slots = "prompt" /\ slots[next].state \in {"started", "processing_prompt"}
      /\ slots[next].prompt # <<>>
      /\ RemoveSeq(next, Prepared(slots[next], keep).n_past, -1)
      /\ UNCHANGED <<pc, todo, ret, i_view, n_batch, clean_kv_cache>>
      /\ NextSlot
    BY DEF BatchPrompt
<1>2. PICK s \in Seqs, sl \in SlotType, list \in Seq(Tokens) : BatchedAs(keep, s, sl, list)
    BY BatchedFacts DEF SlotInv
<1>3. PICK k, b, texts, later : k = sl.n_past /\ b = batch' /\ texts = Held' /\ later = Waiting'
    OBVIOUS
<1> DEFINE m == Len(list) - k
<1>4. /\ s = next /\ sl = Prepared(slots[s], keep)
      /\ k < Len(sl.prompt) /\ Len(sl.prompt) < SlotCtx
      /\ k <= Len(sl.cache_tokens) /\ k <= Len(list) /\ Len(list) <= Len(sl.prompt)
      /\ \A i \in 1 .. k : list[i] = sl.cache_tokens[i]
      /\ \A i \in k + 1 .. Len(list) : list[i] = sl.prompt[i]
      /\ slots' = [slots EXCEPT ![s] =
            [sl EXCEPT !.cache_tokens = list, !.n_past = Len(list),
                       !.state = IF Len(list) = Len(sl.prompt) THEN "done_prompt"
                                 ELSE "processing_prompt",
                       !.i_batch = IF Len(list) = Len(sl.prompt) THEN Len(batch') - 1
                                   ELSE sl.i_batch]]
      /\ b \in Seq(Entry) /\ Len(b) = Len(batch) + m
      /\ \A j \in 1 .. Len(batch) : b[j] = batch[j]
      /\ \A j \in 1 .. m : b[Len(batch) + j] = Token(s, k + j - 1, list[k + j])
    BY <1>2, <1>3 DEF BatchedAs
<1>5. /\ k \in Nat /\ sl.prompt \in Seq(Tokens) /\ Len(sl.prompt) \in Nat
      /\ Len(list) \in Nat /\ m \in Nat /\ Len(b) \in Nat
  <2>1. k \in Nat /\ sl.prompt \in Seq(Tokens) /\ Len(list) \in Nat
    BY <1>3 DEF SlotType
  <2> QED  BY <1>4, <2>1
<1>6. /\ slots \in [Seqs -> SlotType] /\ batch \in Seq(Entry) /\ Len(batch) \in Nat /\ i_view = 0
      /\ next \in Seqs
    BY <1>1 DEF SlotInv, StopInv, SlotTypeOK
<1>7. /\ RoundOK /\ TextOK(s) /\ InOrder(batch, Held) /\ Exact(cells, Held, Waiting)
    BY DEF SlotInv, ContentInv
<1>8. at_slots' \in {"prompt", "view"} /\ (at_slots' = "prompt" => next' = next + 1)
  <2>1. at_slots' \in {"prompt", "view"}
    BY <1>1, <1>6, NextSlotFacts
  <2> QED  BY <1>1, <2>1 DEF NextSlot
\* The slot.
<1>9. /\ sl.cache_tokens = Held[s] /\ slots[s].cache_tokens = Held[s] /\ sl.state = "processing_prompt"
      /\ \/ sl = slots[s]
         \/ \A p \in 1 .. k : sl.cache_tokens[p] = sl.prompt[p]
  <2>1. slots[s].state \in {"started", "processing_prompt"} /\ slots[s].prompt # <<>> /\ keep \in Int
    BY <1>1, <1>4, SlotAssumption
  <2>2. Held[s] = slots[s].cache_tokens
    BY DEF Held
  <2> QED  BY <1>3, <1>4, <2>1, <2>2, PreparedFacts DEF SlotInv
<1>10. \A p \in 1 .. k : list[p] = sl.prompt[p] /\ list[p] = Held[s][p]
  <2>1. CASE sl = slots[s]
    <3>1. \A p \in 1 .. Len(sl.prompt) : p <= Len(sl.cache_tokens) => sl.cache_tokens[p] = sl.prompt[p]
        BY <1>7, <1>9, <2>1 DEF TextOK
    <3>2. ASSUME NEW p \in 1 .. k PROVE p \in 1 .. Len(sl.prompt) /\ p <= Len(sl.cache_tokens)
      <4>1. Len(sl.cache_tokens) \in Nat
        BY DEF SlotType
      <4> QED  BY <1>4, <1>5, <4>1
    <3> QED  BY <1>4, <1>9, <3>1, <3>2
  <2>2. CASE \A p \in 1 .. k : sl.cache_tokens[p] = sl.prompt[p]
    BY <1>4, <1>9, <2>2
  <2> QED  BY <1>9, <2>1, <2>2
<1>11. \A p \in 1 .. Len(list) : list[p] = sl.prompt[p]
  <2> SUFFICES ASSUME NEW p \in 1 .. Len(list) PROVE list[p] = sl.prompt[p]
    OBVIOUS
  <2>1. p \in 1 .. k \/ p \in k + 1 .. Len(list)
    BY <1>5
  <2> QED  BY <1>4, <1>10, <2>1
<1>12. /\ slots'[s].state = IF Len(list) = Len(sl.prompt) THEN "done_prompt" ELSE "processing_prompt"
       /\ slots'[s].prompt = sl.prompt /\ slots'[s].cache_tokens = list
       /\ slots'[s].n_past = Len(list)
       /\ \A u \in Seqs : u # s => slots'[u] = slots[u]
    BY <1>4, <1>6 DEF SlotType
<1>13. /\ texts[s] = list
       /\ \A u \in Seqs : u # s => texts[u] = Held[u]
    BY <1>3, <1>12 DEF Held
\* Nothing of the slot was in the batch, and all that comes in waits.
<1>14. \A j \in 1 .. Len(batch) : batch[j].seq_id # {s}
  <2>1. ~ InBatch(s)
    <3>1. s \in Int /\ ~ (s < next) /\ slots[s].state # "generating"
        BY <1>1, <1>4 DEF Seqs
    <3> QED  BY <1>1, <1>7, <3>1 DEF TextOK
  <2> QED  BY <2>1 DEF InBatch
<1>15. ASSUME NEW j \in 1 .. Len(b)
       PROVE  \/ j \in 1 .. Len(batch) /\ b[j] = batch[j]
              \/ /\ j - Len(batch) \in 1 .. m /\ b[j].seq_id = {s}
                 /\ b[j].pos = k + (j - Len(batch)) - 1
                 /\ b[j].tok = list[k + (j - Len(batch))]
  <2>1. CASE j <= Len(batch)
    <3>1. j \in 1 .. Len(batch)
        BY <2>1
    <3> QED  BY <1>4, <3>1
  <2>2. CASE ~ (j <= Len(batch))
    <3>1. PICK i : i = j - Len(batch)
        OBVIOUS
    <3>2. i \in 1 .. m /\ Len(batch) + i = j
        BY <1>4, <1>5, <1>6, <2>2, <3>1
    <3>3. b[j] = Token(s, k + i - 1, list[k + i])
        BY <1>4, <3>2
    <3> QED  BY <3>1, <3>2, <3>3, TokenFields
  <2> QED  BY <2>1, <2>2
<1>16. Waiting = WaitingIn(batch, 0) /\ later = WaitingIn(b, 0)
  <2>1. Waiting = WaitingIn(batch, i_view)
    BY <1>1 DEF Waiting, Placed
  <2>2. Waiting' = WaitingIn(batch', i_view')
    BY <1>8 DEF Waiting, Placed
  <2> QED  BY <1>1, <1>3, <1>6, <2>1, <2>2
<1>17. ASSUME NEW u \in Seqs, u # s PROVE later[u] = Waiting[u]
  <2>1. ASSUME NEW p \in later[u] PROVE p \in Waiting[u]
    <3>1. PICK j \in 1 .. Len(b) : b[j].seq_id = {u} /\ b[j].pos = p /\ p \in Nat
        BY <1>16, <2>1 DEF WaitingIn
    <3>2. b[j].seq_id # {s}
        BY <1>17, <3>1, SameSingleton
    <3>3. j \in 1 .. Len(batch) /\ b[j] = batch[j]
        BY <1>15, <3>2
    <3>4. j > 0
        OBVIOUS
    <3> QED  BY <1>16, <3>1, <3>3, <3>4 DEF WaitingIn
  <2>2. ASSUME NEW p \in Waiting[u] PROVE p \in later[u]
    <3>1. PICK j \in 1 .. Len(batch) : batch[j].seq_id = {u} /\ batch[j].pos = p /\ p \in Nat
        BY <1>16, <2>2 DEF WaitingIn
    <3>2. j \in 1 .. Len(b) /\ b[j] = batch[j] /\ j > 0
        BY <1>4, <1>5, <1>6
    <3> QED  BY <1>16, <3>1, <3>2 DEF WaitingIn
  <2> QED  BY <2>1, <2>2
<1>18. Waiting[s] = {}
    BY <1>14, <1>16 DEF WaitingIn
<1>19. ASSUME NEW p PROVE p \in later[s] <=> p \in k .. Len(list) - 1
  <2>1. ASSUME p \in later[s] PROVE p \in k .. Len(list) - 1
    <3>1. PICK j \in 1 .. Len(b) : b[j].seq_id = {s} /\ b[j].pos = p
        BY <1>16, <2>1 DEF WaitingIn
    <3>2. ~ (j \in 1 .. Len(batch) /\ b[j] = batch[j])
        BY <1>14, <3>1
    <3>3. j - Len(batch) \in 1 .. m /\ p = k + (j - Len(batch)) - 1
        BY <1>15, <3>1, <3>2
    <3> QED  BY <1>5, <3>3
  <2>2. ASSUME p \in k .. Len(list) - 1 PROVE p \in later[s]
    <3>1. PICK i : i = p - k + 1
        OBVIOUS
    <3>2. i \in 1 .. m /\ p = k + i - 1 /\ Len(batch) + i \in 1 .. Len(b) /\ p \in Nat
        BY <1>4, <1>5, <1>6, <2>2, <3>1
    <3>3. b[Len(batch) + i] = Token(s, k + i - 1, list[k + i])
        BY <1>4, <3>2
    <3>4. b[Len(batch) + i].seq_id = {s} /\ b[Len(batch) + i].pos = p /\ Len(batch) + i > 0
        BY <1>6, <3>2, <3>3, TokenFields
    <3> QED  BY <1>16, <3>2, <3>4 DEF WaitingIn
  <2> QED  BY <2>1, <2>2
\* The cells.
<1>20. cells \in [Cells -> Cell]
    BY DEF SlotInv, KVInv, TypeOK
<1>21. \A u \in Seqs : Len(Held[u]) \in Nat
    BY <1>6 DEF Held, SlotType
<1> DEFINE kept == [u \in Seqs |-> IF u = s THEN k ELSE Len(Held[u])]
<1>22. kept[s] = k /\ \A u \in Seqs : u # s => kept[u] = Len(Held[u])
    OBVIOUS
<1> HIDE DEF kept
<1>23. PICK new : new = cells'
    OBVIOUS
<1>24. Emptied(cells, new, kept)
  <2>1. \A c \in Cells : new[c] = Removed(cells[c], s, k, -1)
    BY <1>1, <1>3, <1>4, <1>23 DEF RemoveSeq
  <2>2. Owned(cells) /\ Says(cells, Held, Waiting)
    BY <1>7 DEF Exact
  <2>3. \A u \in Seqs : u # s => \A c \in Cells : cells[c].seq_id = {u} => cells[c].pos < kept[u]
    <3> SUFFICES ASSUME NEW u \in Seqs, u # s, NEW c \in Cells, cells[c].seq_id = {u}
                 PROVE  cells[c].pos < kept[u]
        OBVIOUS
    <3>1. cells[c].pos \in 0 .. Len(Held[u]) - 1
        BY <2>2 DEF Says
    <3> QED  BY <1>21, <1>22, <3>1
  <2> QED  BY <1>5, <1>20, <1>22, <2>1, <2>2, <2>3, RemovedEmpties
<1>25. Continued(Held, Waiting, texts, later, kept)
  <2>1. ASSUME NEW u \in Seqs
        PROVE  /\ kept[u] \in Nat
               /\ Len(Held[u]) \in Nat /\ Len(texts[u]) \in Nat
               /\ kept[u] <= Len(Held[u]) /\ kept[u] <= Len(texts[u])
               /\ \A p \in 0 .. kept[u] - 1 : /\ texts[u][p + 1] = Held[u][p + 1]
                                              /\ p \in later[u] <=> p \in Waiting[u]
               /\ \A p \in kept[u] .. Len(texts[u]) - 1 : p \in later[u]
    <3>1. CASE u = s
      <4>1. kept[u] = k /\ texts[u] = list /\ k <= Len(Held[u])
        BY <1>4, <1>9, <1>13, <1>22, <3>1
      <4>2. \A p \in 0 .. k - 1 : list[p + 1] = Held[u][p + 1]
        <5> SUFFICES ASSUME NEW p \in 0 .. k - 1 PROVE list[p + 1] = Held[u][p + 1]
            OBVIOUS
        <5>1. p + 1 \in 1 .. k
            BY <1>5
        <5> QED  BY <1>10, <3>1, <5>1
      <4>3. \A p \in 0 .. k - 1 : p \notin k .. Len(list) - 1
        BY <1>5
      <4>4. \A p \in 0 .. k - 1 : p \in later[u] <=> p \in Waiting[u]
        BY <1>18, <1>19, <3>1, <4>3
      <4>5. \A p \in k .. Len(list) - 1 : p \in later[u]
        BY <1>19, <3>1
      <4> QED  BY <1>4, <1>5, <1>21, <4>1, <4>2, <4>4, <4>5
    <3>2. CASE u # s
      <4>1. kept[u] = Len(Held[u]) /\ texts[u] = Held[u] /\ later[u] = Waiting[u] /\ Len(Held[u]) \in Nat
        BY <1>13, <1>17, <1>21, <1>22, <3>2
      <4>2. \A p \in Len(Held[u]) .. Len(Held[u]) - 1 : FALSE
        BY <4>1
      <4> QED  BY <4>1, <4>2
    <3> QED  BY <3>1, <3>2
  <2>2. \A u \in Seqs : /\ kept[u] \in Nat
                        /\ Len(Held[u]) \in Nat /\ Len(texts[u]) \in Nat
                        /\ kept[u] <= Len(Held[u]) /\ kept[u] <= Len(texts[u])
    BY <2>1
  <2>3. \A u \in Seqs : \A p \in 0 .. kept[u] - 1 : /\ texts[u][p + 1] = Held[u][p + 1]
                                                    /\ p \in later[u] <=> p \in Waiting[u]
    BY <2>1
  <2>4. \A u \in Seqs : \A p \in kept[u] .. Len(texts[u]) - 1 : p \in later[u]
    BY <2>1
  <2> QED  BY ONLY <2>2, <2>3, <2>4 DEF Continued
<1>26. Exact(new, texts, later)
    BY <1>7, <1>24, <1>25, ExactChange
\* The batch.
<1>27. InOrder(b, texts)
  <2>1. ASSUME NEW j \in 1 .. Len(b)
        PROVE  \E u \in Seqs : /\ b[j].seq_id = {u}
                               /\ b[j].pos \in 0 .. Len(texts[u]) - 1
                               /\ b[j].tok = texts[u][b[j].pos + 1]
    <3>1. CASE j \in 1 .. Len(batch) /\ b[j] = batch[j]
      <4>1. PICK u \in Seqs : /\ batch[j].seq_id = {u}
                              /\ batch[j].pos \in 0 .. Len(Held[u]) - 1
                              /\ batch[j].tok = Held[u][batch[j].pos + 1]
        BY <1>7, <3>1 DEF InOrder
      <4>2. texts[u] = Held[u]
        BY <1>13, <1>14, <3>1, <4>1
      <4> QED  BY <3>1, <4>1, <4>2
    <3>2. CASE /\ j - Len(batch) \in 1 .. m /\ b[j].seq_id = {s}
               /\ b[j].pos = k + (j - Len(batch)) - 1
               /\ b[j].tok = list[k + (j - Len(batch))]
      <4>1. PICK i : i = j - Len(batch)
        OBVIOUS
      <4>2. i \in 1 .. m /\ b[j].pos = k + i - 1 /\ b[j].tok = list[k + i]
        BY <3>2, <4>1
      <4>3. b[j].pos \in 0 .. Len(list) - 1 /\ b[j].pos + 1 = k + i
        BY <1>5, <4>2
      <4> QED  BY <1>13, <3>2, <4>2, <4>3
    <3> QED  BY <1>15, <3>1, <3>2
  <2>2. ASSUME NEW i \in 1 .. Len(b), NEW j \in 1 .. Len(b), i < j, b[i].seq_id = b[j].seq_id
        PROVE  b[i].pos < b[j].pos
    <3>1. CASE j \in 1 .. Len(batch) /\ b[j] = batch[j]
      <4>1. i \in 1 .. Len(batch)
        BY <1>6, <2>2, <3>1
      <4>2. b[i] = batch[i]
        BY <1>4, <4>1
      <4> QED  BY <1>7, <2>2, <3>1, <4>1, <4>2 DEF InOrder
    <3>2. CASE /\ j - Len(batch) \in 1 .. m /\ b[j].seq_id = {s}
               /\ b[j].pos = k + (j - Len(batch)) - 1
      <4>1. ~ (i \in 1 .. Len(batch) /\ b[i] = batch[i])
        BY <1>14, <2>2, <3>2
      <4>2. b[i].pos = k + (i - Len(batch)) - 1
        BY <1>15, <4>1
      <4> QED  BY <1>5, <1>6, <2>2, <3>2, <4>2
    <3> QED  BY <1>15, <3>1, <3>2
  <2> QED  BY <2>1, <2>2 DEF InOrder
<1>28. ASSUME NEW u \in Seqs PROVE TextOK(u)'
  <2>1. CASE u = s
    <3>1. ~ clean_kv_cache'
      <4>1. slots[s].state # "idle"
        BY <1>1, <1>4
      <4> QED  BY <1>1, <1>7, <4>1 DEF TextOK
    <3>2. at_slots' = "prompt" => s < next'
        BY <1>4, <1>8 DEF Seqs
    <3>3. \A p \in 1 .. Len(sl.prompt) : p <= Len(list) => list[p] = sl.prompt[p]
        BY <1>5, <1>11
    <3>4. Len(list) < SlotCtx
        BY <1>4, <1>5, SeqsFacts
    <3>5. slots'[s].state = "done_prompt" => Len(sl.prompt) <= Len(list)
        BY <1>5, <1>12
    <3>6. slots'[s].state \in {"processing_prompt", "done_prompt"}
        BY <1>12
    <3> QED  BY <1>12, <2>1, <3>1, <3>2, <3>3, <3>4, <3>5, <3>6 DEF TextOK
  <2>2. CASE u # s
    <3>1. TextOK(u) /\ slots'[u] = slots[u]
        BY <1>12, <2>2 DEF SlotInv, ContentInv
    <3>2. InBatch(u)' => InBatch(u)
      <4> SUFFICES ASSUME InBatch(u)' PROVE InBatch(u)
        OBVIOUS
      <4>1. PICK j \in 1 .. Len(b) : b[j].seq_id = {u}
        BY <1>3 DEF InBatch
      <4>2. b[j].seq_id # {s}
        BY <2>2, <4>1, SameSingleton
      <4>3. j \in 1 .. Len(batch) /\ b[j] = batch[j]
        BY <1>15, <4>2
      <4> QED  BY <4>1, <4>3 DEF InBatch
    <3>3. u < next => u < next + 1
        BY <1>6 DEF Seqs
    <3> QED  BY <1>1, <1>8, <3>1, <3>2, <3>3, TextFrame
  <2> QED  BY <2>1, <2>2
<1>29. RoundOK'
  <2>1. has_shift' = has_shift
    BY <1>1 DEF RemoveSeq
  <2>2. pc = "idle"
    BY <1>1, <1>7 DEF RoundOK
  <2> QED  BY <1>1, <1>7, <1>8, <2>1, <2>2 DEF RoundOK
<1>30. Exact(cells, Held, Waiting)' /\ InOrder(batch, Held)'
    BY <1>3, <1>23, <1>26, <1>27
<1> QED  BY <1>28, <1>29, <1>30 DEF ContentInv

-----------------------------------------------------------------------------
(* The cache is used as its own specification allows.                      *)

\* A prompt's tokens come in behind what seq_rm leaves.
LEMMA PromptCache ==
    ASSUME SlotInv, NEW keep \in Keeps, BatchPrompt(keep)
    PROVE  KVInv' /\ RowsInv'
<1>1. PICK s \in Seqs, sl \in SlotType, list \in Seq(Tokens) : BatchedAs(keep, s, sl, list)
    BY BatchedFacts DEF SlotInv
<1>2. PICK k \in Nat : k = sl.n_past
    BY DEF SlotType
<1>3. /\ at_slots = "prompt" /\ UNCHANGED <<pc, todo, ret>>
      /\ RemoveSeq(s, k, -1)
    BY <1>1, <1>2 DEF BatchPrompt, BatchedAs
<1>4. pc = "idle"
    BY <1>3 DEF SlotInv, ContentInv, RoundOK
<1>5. SeqRm(s, k, -1)
    BY <1>3, <1>4 DEF SeqRm
<1> QED  BY <1>5, SeqRmOK, SeqRmRows DEF SlotInv

\* The views are batches llama_decode can take.
LEMMA ViewCache ==
    ASSUME SlotInv, BeginView
    PROVE  KVInv' /\ RowsInv'
<1>1. PICK b : b = SubSeq(batch, i_view + 1, ViewEnd)
    OBVIOUS
<1>2. DecodeBegin(b) /\ i_view < Len(batch)
    BY <1>1 DEF BeginView
<1>3. PICK e : e = ViewEnd
    OBVIOUS
<1>4. /\ i_view \in Nat /\ Len(batch) \in Nat /\ batch \in Seq(Entry)
      /\ e \in Nat /\ i_view < e /\ e <= Len(batch)
    BY <1>2, <1>3, ViewEndFacts DEF SlotInv
<1>5. /\ b \in Seq(Entry) /\ Len(b) = e - i_view
      /\ \A i \in 1 .. e - i_view : b[i] = batch[i_view + i] /\ i_view + i \in 1 .. Len(batch)
  <2>1. \A i \in i_view + 1 .. e : batch[i] \in Entry
    BY <1>4
  <2> QED  BY <1>1, <1>3, <1>4, <2>1
<1>6. b # <<>>
    BY <1>4, <1>5
<1>7. ASSUME NEW i \in 1 .. Len(b) PROVE b[i].pos \in 0 .. MaxPos /\ b[i].seq_id # {}
  <2>1. PICK j \in 1 .. Len(batch) : b[i] = batch[j]
    BY <1>5
  <2>2. PICK s \in Seqs : batch[j].seq_id = {s} /\ batch[j].pos \in 0 .. Len(Held[s]) - 1
    BY DEF SlotInv, ContentInv, InOrder
  <2>3. Len(Held[s]) < SlotCtx /\ Len(Held[s]) \in Nat
    BY DEF SlotInv, ContentInv, TextOK, Held, StopInv, SlotTypeOK, SlotType
  <2>4. MaxPos \in Int /\ MaxPos >= SlotCtx /\ SlotCtx \in Int
    BY SlotAssumption, CacheAssumption, SeqsFacts
  <2> QED  BY <2>1, <2>2, <2>3, <2>4
<1> QED  BY <1>2, <1>5, <1>6, <1>7, BatchBeginOK, DecodeBeginRows DEF SlotInv

LEMMA SlotStep ==
    ASSUME SlotInv, FailsWhole, NeverGivesUp, StartsClean' \/ ~ EarlyTasks, [SlotNext]_slotvars
    PROVE  SlotInv'
<1>1. StopInv'
    BY StopStep DEF SlotInv
<1>2. ASSUME UNCHANGED vars PROVE KVInv' /\ RowsInv'
    BY <1>2, StutterOK, StutterRows DEF SlotInv
<1>3. ASSUME NEW s \in Seqs, NEW prompt \in Prompts, Launch(s, prompt) PROVE SlotInv'
    BY <1>1, <1>2, <1>3, LaunchContent DEF SlotInv, Launch
<1>4. ASSUME NEW s \in Seqs, CancelTask(s) PROVE SlotInv'
    BY <1>1, <1>2, <1>4, CancelContent DEF SlotInv, CancelTask
<1>5. CASE IdleRound
    BY <1>1, <1>5, ClearOK, ClearRows, IdleContent DEF SlotInv, IdleRound
<1>6. CASE BeginRound
    BY <1>1, <1>2, <1>6, BeginRoundContent DEF SlotInv, BeginRound
<1>7. CASE SkipSlot
    BY <1>1, <1>2, <1>7, SkipContent DEF SlotInv, SkipSlot
<1>8. CASE EmptyPrompt
    BY <1>1, <1>2, <1>8, EmptyContent DEF SlotInv, EmptyPrompt
<1>9. ASSUME NEW keep \in Keeps, BatchPrompt(keep) PROVE SlotInv'
    BY <1>1, <1>9, PromptCache, BatchPromptContent DEF SlotInv
<1>10. CASE BeginView
    BY <1>1, <1>10, ViewCache, BeginViewContent DEF SlotInv
<1>11. CASE DecodeView
  <2>1. DecodeStep /\ at_slots = "decode" /\ UNCHANGED servervars
    BY <1>11 DEF DecodeView
  <2>2. KVInv' /\ RowsInv'
    BY <2>1, StepOK, RowsStep DEF Next, SlotInv
  <2>3. ContentInv'
    BY <2>1, LoopContent, MoveContent, NoCellsContent, ComputeContent, FindContent DEF DecodeStep
  <2> QED  BY <1>1, <2>2, <2>3 DEF SlotInv
<1>12. CASE Sample
    BY <1>1, <1>2, <1>12, SampleContent DEF SlotInv, Sample
<1>13. CASE Retry
    BY <1>1, <1>2, <1>13, RetryContent DEF SlotInv, Retry
<1>14. CASE EndRound
    BY <1>1, <1>2, <1>14, EndRoundContent DEF SlotInv, EndRound
<1>15. CASE UNCHANGED slotvars
  <2>1. UNCHANGED vars /\ UNCHANGED servervars
    BY <1>15 DEF slotvars
  <2>2. KVInv' /\ RowsInv'
    BY <1>2, <2>1
  <2>3. ContentInv'
    <3>1. Held' = Held
        BY <2>1 DEF Held, servervars
    <3>2. Waiting' = Waiting
        BY <2>1 DEF Waiting, WaitingIn, Placed, Begun, Ubatch, ViewEnd, vars, servervars
    <3>3. Exact(cells, Held, Waiting)' /\ InOrder(batch, Held)'
        BY <2>1, <3>1, <3>2, ContentFrame DEF SlotInv, vars, servervars
    <3>4. \A s \in Seqs : TextOK(s)'
        BY <2>1, TextFrame DEF SlotInv, ContentInv, InBatch, servervars
    <3>5. RoundOK'
        BY <2>1 DEF SlotInv, ContentInv, RoundOK, Begun, ViewEnd, vars, servervars
    <3> QED  BY <3>3, <3>4, <3>5 DEF ContentInv
  <2> QED  BY <1>1, <2>2, <2>3 DEF SlotInv
<1> QED
    BY <1>3, <1>4, <1>5, <1>6, <1>7, <1>8, <1>9, <1>10, <1>11, <1>12, <1>13, <1>14, <1>15
    DEF SlotNext

(***************************************************************************)
(* The cells, the texts of the slots and the batch agree at every step     *)
(* update_slots takes, with both searches and any n_ubatch, as long as a   *)
(* view that fails fails whole, no task comes before the cache is cleared  *)
(* first, and no view is given up (Orderly): a cell belongs to one slot    *)
(* and holds the token of its text at its position, and every token of a   *)
(* text that does not wait in the batch has its cell.                      *)
(***************************************************************************)
THEOREM CellsFollowTexts == SlotSpec /\ []Orderly => []SlotInv
<1>1. SlotInit => SlotInv
    BY InitOK, InitRows, StopInit, ContentInit DEF SlotInv, SlotInit
<1>2. SlotInv /\ Orderly /\ Orderly' /\ [SlotNext]_slotvars => SlotInv'
    BY SlotStep DEF Orderly
<1> QED  BY <1>1, <1>2, PTL DEF SlotSpec

\* With a free cell, the contiguous search places a single token.
LEMMA SingleFits ==
    ASSUME ~ Scatter, SlotInv, at_slots = "decode", NoCells
    PROVE  n_batch > 1
<1> SUFFICES ASSUME ~ (n_batch > 1) PROVE FALSE
    OBVIOUS
<1>1. pc = "find" /\ Found(SearchHead(Len(Ubatch)), Len(Ubatch)) = {}
    BY DEF NoCells
<1>2. Len(Ubatch) = 1
  <2>1. PICK m : m = Len(Ubatch)
    OBVIOUS
  <2>2. /\ i_view \in Nat /\ Begun \in Nat /\ ViewEnd \in Nat /\ m \in Nat \ {0}
        /\ i_view <= Begun /\ ViewEnd - i_view <= n_batch /\ Begun + m <= ViewEnd
    BY <1>1, <2>1, ViewFacts
  <2>3. n_batch \in Nat
    BY ViewEndFacts DEF SlotInv
  <2>4. m = 1
    BY <2>2, <2>3
  <2> QED  BY <2>1, <2>4
<1>3. FreeCells(cells) # {}
  <2>1. \A c \in Cells : CellOK(cells[c])
    BY CellsOK DEF SlotInv, KVInv
  <2>2. \A s \in Seqs : Len(Held[s]) \in Nat /\ Len(Held[s]) < SlotCtx
    <3> SUFFICES ASSUME NEW s \in Seqs PROVE Len(Held[s]) \in Nat /\ Len(Held[s]) < SlotCtx
        OBVIOUS
    <3>1. TextOK(s) /\ slots[s].cache_tokens \in Seq(Tokens)
        BY DEF SlotInv, ContentInv, StopInv, SlotTypeOK, SlotType
    <3> QED  BY <3>1 DEF Held, TextOK
  <2>3. Exact(cells, Held, Waiting)
    BY DEF SlotInv, ContentInv
  <2> QED  BY <2>1, <2>2, <2>3, RoomLeft
<1>4. PICK c \in Cells : c \in FreeCells(cells)
    BY <1>3 DEF FreeCells
<1>5. c \in Fits(FreeCells(cells), 1) /\ ~ (1 > Size)
  <2>1. Size \in Nat /\ c \in 0 .. Size - 1
    BY CellsAssumption DEF Cells
  <2>2. c .. (c + 1 - 1) = {c}
    BY <2>1
  <2> QED  BY <1>4, <2>1, <2>2 DEF Fits
<1>6. Fits(FreeCells(cells), 1) # {}
    BY <1>5
<1> QED  BY <1>1, <1>2, <1>5, <1>6 DEF Found

LEMMA RoomStep ==
    ASSUME ~ Scatter, SlotInv, NeverGivesUp, [SlotNext]_slotvars
    PROVE  NeverGivesUp'
<1>1. CASE DecodeView
  <2>1. at_slots = "decode" /\ DecodeStep /\ UNCHANGED servervars
    BY <1>1 DEF DecodeView
  <2>2. CASE NoCells
    <3>1. n_batch > 1 /\ n_batch' = n_batch /\ n_batch \in Nat
        BY <2>1, <2>2, SingleFits, ViewEndFacts DEF servervars, SlotInv
    <3> QED  BY <3>1 DEF NeverGivesUp
  <2>3. CASE Compute
    BY <2>3 DEF Compute, NeverGivesUp
  <2>4. CASE Update \/ FindCells \/ Scan \/ MoveGap \/ MoveCell \/ Copy
    <3>1. pc' # "idle"
        BY <2>4 DEF Update, FindCells, Scan, MoveGap, MoveCell, Copy, ScanDone
    <3> QED  BY <3>1 DEF NeverGivesUp
  <2> QED  BY <2>1, <2>2, <2>3, <2>4 DEF DecodeStep
<1>2. CASE BeginView
    BY <1>2 DEF BeginView, DecodeBegin, NeverGivesUp
<1>3. CASE \/ \E s \in Seqs, prompt \in Prompts : Launch(s, prompt)
           \/ \E s \in Seqs : CancelTask(s)
           \/ IdleRound \/ BeginRound \/ SkipSlot \/ EmptyPrompt
           \/ \E keep \in Keeps : BatchPrompt(keep)
           \/ Sample \/ Retry \/ EndRound
  <2>1. at_slots' # "decode"
    BY <1>3 DEF Launch, CancelTask, IdleRound, BeginRound, SkipSlot, NextSlot, EmptyPrompt,
                BatchPrompt, Sample, Retry, EndRound
  <2> QED  BY <2>1 DEF NeverGivesUp
<1>4. CASE UNCHANGED slotvars
    BY <1>4 DEF slotvars, vars, servervars, NeverGivesUp
<1> QED  BY <1>1, <1>2, <1>3, <1>4 DEF SlotNext

(***************************************************************************)
(* No request is dropped for want of cells with the contiguous search, as  *)
(* long as a view that fails fails whole and no task comes before the      *)
(* first clear: a slot's text is shorter than its share of the cells and   *)
(* each of its tokens has one cell, so that a view of a single token finds *)
(* one, however the cells are strewn.  (The scatter search asks for        *)
(* n_ubatch cells whatever the view has.)                                  *)
(***************************************************************************)
THEOREM AlwaysRoom ==
    ASSUME ~ Scatter
    PROVE  SlotSpec /\ []FailsWhole /\ []StartsClean => []NeverGivesUp
<1>1. SlotInit => SlotInv /\ NeverGivesUp
    BY InitOK, InitRows, StopInit, ContentInit DEF SlotInv, SlotInit, NeverGivesUp
<1>2. /\ SlotInv /\ NeverGivesUp
      /\ FailsWhole /\ StartsClean'
      /\ [SlotNext]_slotvars
      => (SlotInv /\ NeverGivesUp)'
    BY SlotStep, RoomStep
<1> QED  BY <1>1, <1>2, PTL DEF SlotSpec

\* A setting under which none of this is left to chance: the contiguous search,
\* a ubatch as long as a batch, and no task before the first round.
OneUbatch == NUbatch = MaxBatch /\ ~ Scatter /\ ~ EarlyTasks

\* A view that is one ubatch fails whole.
LEMMA OneUbatchFailsWhole ==
    ASSUME NUbatch = MaxBatch, SlotInv
    PROVE  FailsWhole
<1> SUFFICES ASSUME at_slots = "decode", pc = "find" PROVE Len(todo) = ViewEnd - i_view
    BY DEF FailsWhole
<1>1. /\ i_view \in Nat /\ Begun \in Nat /\ ViewEnd \in Nat /\ i_view <= Begun
      /\ ViewEnd - i_view <= n_batch /\ n_batch <= MaxBatch /\ Len(todo) = ViewEnd - Begun
    BY ViewFacts
<1>2. i_view < Begun => NUbatch < ViewEnd - i_view
    BY DEF SlotInv, ContentInv, RoundOK
<1>3. n_batch \in Nat /\ MaxBatch \in Nat
    BY ViewEndFacts, SeqsFacts DEF SlotInv
<1> QED  BY <1>1, <1>2, <1>3

LEMMA OneUbatchHolds == ASSUME OneUbatch PROVE SlotSpec => [](SlotInv /\ NeverGivesUp)
<1>1. SlotInit => SlotInv /\ NeverGivesUp
    BY InitOK, InitRows, StopInit, ContentInit DEF SlotInv, SlotInit, NeverGivesUp
<1>2. SlotInv /\ NeverGivesUp /\ [SlotNext]_slotvars => (SlotInv /\ NeverGivesUp)'
    BY OneUbatchFailsWhole, SlotStep, RoomStep DEF OneUbatch
<1> QED  BY <1>1, <1>2, PTL DEF SlotSpec

-----------------------------------------------------------------------------
(* What a token attends to.                                                *)

\* A set of cells with one cell for each position below k has k of them.
LEMMA OnePerPosition ==
    ASSUME NEW S, NEW cs, NEW k \in Nat,
           \A c \in S : cs[c].pos \in 0 .. k - 1,
           \A p \in 0 .. k - 1 : \E c \in S : cs[c].pos = p,
           \A c, d \in S : cs[c].pos = cs[d].pos => c = d
    PROVE  Cardinality(S) = k
<1> DEFINE f == [i \in 1 .. k |-> CHOOSE c \in S : cs[c].pos = i - 1]
<1>1. \A i \in 1 .. k : f[i] \in S /\ cs[f[i]].pos = i - 1
  <2> TAKE i \in 1 .. k
  <2>1. i - 1 \in 0 .. k - 1
    OBVIOUS
  <2>2. \E c \in S : cs[c].pos = i - 1
    BY <2>1
  <2> QED  BY <2>2
<1> HIDE DEF f
<1>2. \A i, j \in 1 .. k : f[i] = f[j] => i = j
  <2> SUFFICES ASSUME NEW i \in 1 .. k, NEW j \in 1 .. k, f[i] = f[j] PROVE i = j
    OBVIOUS
  <2>1. i - 1 = j - 1
    BY <1>1
  <2> QED  BY <2>1
<1>3. \A c \in S : \E i \in 1 .. k : f[i] = c
  <2> TAKE c \in S
  <2>1. PICK i \in 1 .. k : i - 1 = cs[c].pos
    <3>1. cs[c].pos + 1 \in 1 .. k /\ (cs[c].pos + 1) - 1 = cs[c].pos
        OBVIOUS
    <3> QED  BY <3>1
  <2>2. f[i] \in S /\ cs[f[i]].pos = cs[c].pos
    BY <1>1, <2>1
  <2>3. f[i] = c
    BY <2>2
  <2> QED  BY <2>3
<1> QED  BY <1>1, <1>2, <1>3, ImageCardinality

\* The text of a slot that has started on its prompt is what it holds.
LEMMA TextIsHeld ==
    ASSUME SlotInv, NEW s \in Seqs, slots[s].state # "started",
           NEW k \in 1 .. Len(Held[s])
    PROVE  Text(s)[k] = Held[s][k]
<1>1. PICK prompt, cache : prompt = slots[s].prompt /\ cache = slots[s].cache_tokens
    OBVIOUS
<1>2. prompt \in Seq(Tokens) /\ cache \in Seq(Tokens) /\ Held[s] = cache
    BY <1>1 DEF SlotInv, StopInv, SlotTypeOK, SlotType, Held
<1>3. Len(prompt) \in Nat /\ Len(cache) \in Nat /\ k \in 1 .. Len(cache)
    BY <1>2
<1>4. \A p \in 1 .. Len(prompt) : p <= Len(cache) => cache[p] = prompt[p]
    BY <1>1 DEF SlotInv, ContentInv, TextOK
<1> DEFINE rest == SubSeq(cache, Len(prompt) + 1, Len(cache))
<1>5. Text(s) = prompt \o rest
    BY <1>1 DEF Text
<1>6. CASE k <= Len(prompt)
  <2>1. rest \in Seq(Tokens)
    BY <1>2, <1>3
  <2> HIDE DEF rest
  <2>2. (prompt \o rest)[k] = prompt[k]
    BY <1>2, <1>3, <1>6, <2>1
  <2> QED  BY <1>2, <1>3, <1>4, <1>5, <1>6, <2>2
<1>7. CASE k > Len(prompt)
  <2>1. /\ rest \in Seq(Tokens) /\ Len(rest) = Len(cache) - Len(prompt)
        /\ \A i \in 1 .. Len(cache) - Len(prompt) : rest[i] = cache[Len(prompt) + i]
    <3>1. \A i \in Len(prompt) + 1 .. Len(cache) : cache[i] \in Tokens
        BY <1>2, <1>3
    <3> QED  BY <1>2, <1>3, <1>7, <3>1
  <2> HIDE DEF rest
  <2>2. k - Len(prompt) \in 1 .. Len(rest)
    BY <1>3, <1>7, <2>1
  <2>3. (prompt \o rest)[k] = rest[k - Len(prompt)]
    BY <1>2, <1>3, <1>7, <2>1, <2>2
  <2>4. rest[k - Len(prompt)] = cache[k]
    <3>1. Len(prompt) + (k - Len(prompt)) = k
        BY <1>3
    <3> QED  BY <2>1, <2>2, <3>1
  <2> QED  BY <1>2, <1>5, <2>3, <2>4
<1> QED  BY <1>3, <1>6, <1>7

\* A token in the view attends to one cell for each position up to its own.
LEMMA AttendedCells ==
    ASSUME SlotInv, pc = "compute", NEW i \in 1 .. Len(Ubatch), NEW s \in Seqs,
           Ubatch[i].seq_id = {s}
    PROVE  /\ InBatch(s)
           /\ Ubatch[i].pos \in 0 .. Len(Held[s]) - 1
           /\ \A c \in Attended(Ubatch[i]) :
                    /\ c \in Cells /\ ~ IsEmpty(cells[c])
                    /\ cells[c].seq_id = {s} /\ cells[c].pos \in 0 .. Ubatch[i].pos
           /\ \A p \in 0 .. Ubatch[i].pos : \E c \in Attended(Ubatch[i]) : cells[c].pos = p
<1>1. PICK e : e = Ubatch[i]
    OBVIOUS
<1>2. at_slots = "decode"
    BY DEF SlotInv, ContentInv, RoundOK
<1>3. PICK j : j = Begun + i
    OBVIOUS
<1>4. /\ e = batch[j] /\ j \in 1 .. Len(batch) /\ j <= Placed /\ Placed \in Nat
      /\ Len(batch) \in Nat
  <2>1. Len(batch) \in Nat
    BY ViewEndFacts DEF SlotInv
  <2>2. Placed = Begun + Len(Ubatch)
    BY <1>2 DEF Placed
  <2>3. PICK a, u : a = Begun /\ u = Len(Ubatch)
    OBVIOUS
  <2>4. a \in Nat /\ u \in Nat /\ \A k \in 1 .. u : Ubatch[k] = batch[a + k] /\ a + k \in 1 .. Len(batch)
    BY <1>2, <2>3, ViewFacts
  <2>5. i \in 1 .. u
    BY <2>3
  <2> QED  BY <1>1, <1>3, <2>1, <2>2, <2>3, <2>4, <2>5
<1>5. /\ InOrder(batch, Held) /\ Exact(cells, Held, Waiting)
      /\ cells \in [Cells -> Cell] /\ VisibleToGraph /\ n \in 0 .. Size
    BY DEF SlotInv, ContentInv, KVInv, TypeOK, RowsInv
<1>6. e.seq_id = {s}
    BY <1>1
<1>7. e.pos \in 0 .. Len(Held[s]) - 1
  <2>1. PICK u \in Seqs : batch[j].seq_id = {u} /\ batch[j].pos \in 0 .. Len(Held[u]) - 1
    BY <1>4, <1>5 DEF InOrder
  <2>2. u = s
    BY <1>4, <1>6, <2>1
  <2> QED  BY <1>4, <2>1, <2>2
<1>8. Len(Held[s]) \in Nat
    BY DEF SlotInv, StopInv, SlotTypeOK, SlotType, Held
<1>9. ASSUME NEW c \in Attended(e)
      PROVE  /\ c \in Cells /\ ~ IsEmpty(cells[c])
             /\ cells[c].seq_id = {s} /\ cells[c].pos \in 0 .. e.pos
  <2>1. c \in Cells /\ s \in cells[c].seq_id /\ cells[c].pos <= e.pos
    BY <1>5, <1>6, CellsAssumption DEF Attended, Cells
  <2>2. ~ IsEmpty(cells[c])
    BY <2>1 DEF IsEmpty
  <2>3. cells[c].seq_id = {s}
    BY <1>5, <2>1, <2>2 DEF Exact, Owned
  <2>4. cells[c].pos \in 0 .. Len(Held[s]) - 1
    BY <1>5, <2>1, <2>3 DEF Exact, Says
  <2> QED  BY <1>7, <1>8, <2>1, <2>2, <2>3, <2>4
<1>10. ASSUME NEW p \in 0 .. e.pos PROVE \E c \in Attended(e) : cells[c].pos = p
  <2>1. p \in 0 .. Len(Held[s]) - 1 /\ p <= e.pos /\ p \in Nat /\ e.pos \in Nat
    BY <1>7, <1>8
  <2>2. p \notin Waiting[s]
    <3> SUFFICES ASSUME p \in Waiting[s] PROVE FALSE
        OBVIOUS
    <3>1. PICK l \in 1 .. Len(batch) : l > Placed /\ batch[l].seq_id = {s} /\ batch[l].pos = p
        BY DEF Waiting, WaitingIn
    <3>2. j < l
        BY <1>4, <3>1
    <3>3. batch[j].pos < batch[l].pos
        BY <1>4, <1>5, <1>6, <3>1, <3>2 DEF InOrder
    <3> QED  BY <1>4, <2>1, <3>1, <3>3
  <2>3. PICK c \in Cells : cells[c].seq_id = {s} /\ cells[c].pos = p
    BY <1>5, <2>1, <2>2 DEF Exact, Holds
  <2>4. c \in NonEmpty(cells)
    BY <2>3 DEF NonEmpty, IsEmpty
  <2>5. c \in 0 .. n - 1
    BY <1>5, <2>4, CellsAssumption DEF VisibleToGraph, Cells
  <2>6. c \in Attended(e)
    BY <1>6, <2>1, <2>3, <2>5 DEF Attended
  <2> QED  BY <2>3, <2>6
<1>11. InBatch(s)
    BY <1>4, <1>6 DEF InBatch
<1> QED  BY <1>1, <1>7, <1>9, <1>10, <1>11

LEMMA InvIsExact == SlotInv => AttentionExact
<1> SUFFICES ASSUME SlotInv, pc = "compute", NEW s \in Seqs, NEW i \in DOMAIN Ubatch,
                    Ubatch[i].seq_id = {s}
             PROVE  /\ Cardinality(Attended(Ubatch[i])) = Ubatch[i].pos + 1
                    /\ \A p \in 0 .. Ubatch[i].pos : \E c \in Attended(Ubatch[i]) :
                            cells[c].pos = p /\ Written[c] = Text(s)[p + 1]
    BY DEF AttentionExact
<1>1. i \in 1 .. Len(Ubatch)
    BY UbatchOK DEF SlotInv
<1>2. PICK e, S : e = Ubatch[i].pos /\ S = Attended(Ubatch[i])
    OBVIOUS
<1>3. /\ InBatch(s) /\ e \in 0 .. Len(Held[s]) - 1
      /\ \A c \in S : /\ c \in Cells /\ ~ IsEmpty(cells[c])
                      /\ cells[c].seq_id = {s} /\ cells[c].pos \in 0 .. e
      /\ \A p \in 0 .. e : \E c \in S : cells[c].pos = p
    BY <1>1, <1>2, AttendedCells
<1>4. Len(Held[s]) \in Nat
    BY DEF SlotInv, StopInv, SlotTypeOK, SlotType, Held
<1>5. Cardinality(S) = e + 1
  <2>1. e + 1 \in Nat /\ (e + 1) - 1 = e
      BY <1>3, <1>4
  <2>2. \A c, d \in S : cells[c].pos = cells[d].pos => c = d
      BY <1>3 DEF SlotInv, ContentInv, Exact, OneEach
  <2> QED  BY <1>3, <2>1, <2>2, OnePerPosition
<1>6. ASSUME NEW p \in 0 .. e
      PROVE  \E c \in S : cells[c].pos = p /\ Written[c] = Text(s)[p + 1]
  <2>1. PICK c \in S : cells[c].pos = p
      BY <1>3
  <2>2. c \in Cells /\ ~ IsEmpty(cells[c]) /\ cells[c].seq_id = {s}
      BY <1>3
  <2>3. Written[c] = cells[c].tok
      BY <2>2, WrittenMatches DEF SlotInv
  <2>4. cells[c].tok = Held[s][p + 1]
      BY <2>1, <2>2 DEF SlotInv, ContentInv, Exact, Says
  <2>5. p + 1 \in 1 .. Len(Held[s])
      BY <1>3, <1>4
  <2>6. slots[s].state # "started"
      BY <1>3 DEF SlotInv, ContentInv, TextOK
  <2>7. Text(s)[p + 1] = Held[s][p + 1]
      BY <2>5, <2>6, TextIsHeld
  <2> QED  BY <2>1, <2>3, <2>4, <2>7
<1> QED  BY <1>2, <1>5, <1>6

(***************************************************************************)
(* Every token the server decodes attends to exactly one cell for each     *)
(* position up to its own, and the K/V rows there are those of the text    *)
(* its slot is at, for every size of the cache, number of slots, n_batch,  *)
(* n_ubatch and set of prompts and with both searches, whatever is reused, *)
(* cancelled, spread over several rounds, packed by a defragmentation or   *)
(* tried again with shorter views: as long as a view that fails fails      *)
(* whole, no view is given up, and no task comes before the first clear.   *)
(***************************************************************************)
THEOREM AttentionIsExact == SlotSpec /\ []Orderly => []AttentionExact
<1> QED  BY InvIsExact, CellsFollowTexts, PTL

(***************************************************************************)
(* With the contiguous search, n_ubatch = n_batch and no task before the   *)
(* first round (OneUbatch) nothing else is needed: every token attends to  *)
(* its own text, and no request is given up.                               *)
(***************************************************************************)
THEOREM OneUbatchIsSafe ==
    ASSUME OneUbatch PROVE SlotSpec => [](AttentionExact /\ NeverGivesUp)
<1> QED  BY InvIsExact, OneUbatchHolds, PTL
=============================================================================
