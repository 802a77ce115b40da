------------------------------- MODULE Server -------------------------------
(***************************************************************************)
(* The task queue, the slots and the response queue of                     *)
(* examples/server/server.cpp, with the threads that share them: one HTTP  *)
(* thread per request and the main thread, which alone owns the slots, the *)
(* batch and send_buffer.                                                  *)
(*                                                                         *)
(* Each action is one critical section of mutex_tasks or mutex_results, or *)
(* a piece of main-thread work between two of them.  main.pc is where the  *)
(* main thread is:                                                         *)
(*                                                                         *)
(*   pick --> process --> pick ... --> update --> prompt --> decode        *)
(*    ^                                  |          |     / ^       \      *)
(*    +-- wait <-------------------------+----------+  sample      fail    *)
(*          ^--------------------------------- commit <-+------------+     *)
(*                                                                         *)
(* and hpc[r] where the HTTP thread of request r is:                       *)
(*                                                                         *)
(*   new --> added --> posted --> recv --> complete --> done               *)
(*                                  \--> cancel --^                        *)
(*                                                                         *)
(* Tokens are counted, not named: a prompt is a number of tokens left to   *)
(* evaluate, and sampling decides freely when to stop, no later than after *)
(* MaxNew tokens.  What the slots keep in the KV cache is SlotCache's.     *)
(* Task ids come from a counter under mutex_tasks; here the i-th task of   *)
(* request r has the id <<r, i>>, and the ids of the other tasks, which    *)
(* nothing reads, are left out.                                            *)
(***************************************************************************)
EXTENDS Integers, Sequences, FiniteSets, SequencesExt

CONSTANTS
    Requests,     \* the HTTP requests
    Body,         \* what each of them asks for
    NSlots,       \* params.n_parallel
    NBatch,       \* llama_n_batch
    MaxNew,       \* tokens a slot generates at most (n_predict or its context)
    ContBatching, \* params.cont_batching
    DecodeFails,  \* llama_decode may fail for good, of any view of a batch
    LaunchFails   \* common_sampler_init may return null

Slots == 0 .. NSlots - 1

\* A request carries one task per prompt, and may ask for a slot by id.
BodyType == [prompts : Seq(Nat), id_slot : Int, stream : BOOLEAN]

ASSUME ServerAssumption ==
    /\ NSlots \in Nat \ {0}
    /\ NBatch \in Nat \ {0}
    /\ MaxNew \in Nat \ {0}
    /\ ContBatching \in BOOLEAN /\ DecodeFails \in BOOLEAN /\ LaunchFails \in BOOLEAN
    /\ \A r \in Requests : Body[r] \in BodyType /\ Body[r].prompts # <<>>

Ids(r) == {<<r, i>> : i \in DOMAIN Body[r].prompts}
AllIds == UNION {Ids(r) : r \in Requests}
NoId   == <<>>

VARIABLES
    queue_tasks,           \* server_queue: a deque
    queue_tasks_deferred,  \* server_queue: tasks waiting for a slot
    waiting_task_ids,      \* server_response: ids somebody waits for
    queue_results,         \* server_response: results to be received
    send_buffer,           \* server_response: results not yet committed
    slots,                 \* the slots
    lru,                   \* the slots, from the least to the most recently used
    main,                  \* the main thread: pc, the task in hand, a slot index, batch.n_tokens,
                           \* the start of the view being decoded and the length of views
    hpc,                   \* the HTTP thread of each request
    to_cancel,             \* the ids cancel_tasks has not gone through yet
    n_finished,            \* final results the HTTP thread has received
    closed                 \* the client has closed the connection

queuevars  == <<queue_tasks, queue_tasks_deferred>>
resultvars == <<waiting_task_ids, queue_results>>
mainvars   == <<slots, lru, main, send_buffer>>
httpvars   == <<hpc, to_cancel, n_finished, closed>>
vars == <<queue_tasks, queue_tasks_deferred, waiting_task_ids, queue_results,
          send_buffer, slots, lru, main, hpc, to_cancel, n_finished, closed>>

\* A task: id_target is set in cancel tasks only, id in completions only.
Completion(id) == [type |-> "completion", id |-> id, id_target |-> NoId]
Cancel(id)     == [type |-> "cancel", id |-> NoId, id_target |-> id]
NextResponse   == [type |-> "next", id |-> NoId, id_target |-> NoId]

Partial(id) == [id |-> id, stop |-> FALSE]
Final(id)   == [id |-> id, stop |-> TRUE]

Task   == {Completion(id) : id \in AllIds} \cup {Cancel(id) : id \in AllIds} \cup {NextResponse}
Result == [id : AllIds, stop : BOOLEAN]

\* What llama_batch_init has room for.
BatchSize == IF NBatch > NSlots THEN NBatch ELSE NSlots

SlotStates == {"idle", "started", "processing_prompt", "done_prompt", "generating"}

Slot == [state : SlotStates, id_task : AllIds \cup {NoId}, left : Nat, n_decoded : Nat,
         i_batch : -1 .. BatchSize - 1]

IsProcessing(s) == slots[s].state # "idle"

Prompt(id) == Body[id[1]].prompts[id[2]]
Stream(id) == Body[id[1]].stream
IdSlot(id) == Body[id[1]].id_slot

TypeOK ==
    /\ queue_tasks \in Seq(Task)
    /\ queue_tasks_deferred \in Seq(Task)
    /\ waiting_task_ids \subseteq AllIds
    /\ queue_results \in Seq(Result)
    /\ send_buffer \in Seq(Result)
    /\ slots \in [Slots -> Slot]
    /\ lru \in [1 .. NSlots -> Slots]
    /\ main \in [pc : {"pick", "process", "update", "prompt", "decode", "sample", "fail",
                       "commit", "wait"},
                 task : Task, i : Slots, n_tokens : 0 .. BatchSize,
                 view : 0 .. BatchSize, n_batch : 1 .. NBatch]
    /\ hpc \in [Requests -> {"new", "added", "posted", "recv", "cancel", "complete", "done"}]
    /\ to_cancel \in [Requests -> SUBSET AllIds]
    /\ n_finished \in [Requests -> Nat]
    /\ closed \in [Requests -> BOOLEAN]

Init ==
    /\ queue_tasks = <<>>
    /\ queue_tasks_deferred = <<>>
    /\ waiting_task_ids = {}
    /\ queue_results = <<>>
    /\ send_buffer = <<>>
    /\ slots = [s \in Slots |-> [state |-> "idle", id_task |-> NoId, left |-> 0,
                                 n_decoded |-> 0, i_batch |-> -1]]
    /\ lru = [k \in 1 .. NSlots |-> k - 1]
    /\ main = [pc |-> "pick", task |-> NextResponse, i |-> 0, n_tokens |-> 0,
               view |-> 0, n_batch |-> NBatch]
    /\ hpc = [r \in Requests |-> "new"]
    /\ to_cancel = [r \in Requests |-> {}]
    /\ n_finished = [r \in Requests |-> 0]
    /\ closed = [r \in Requests |-> FALSE]

-----------------------------------------------------------------------------
(* server_queue and server_response.                                       *)

\* The elements of q that are in S, in their order (SelectSeq, without recursion).
Kept(q, S) ==
    LET at == {k \in DOMAIN q : q[k] \in S}
    IN  [i \in 1 .. Cardinality(at) |->
            q[CHOOSE k \in at : Cardinality({j \in at : j <= k}) = i]]

\* cleanup_pending_task: it compares id_target, which completions do not have.
CleanedUp(q, ids) == Kept(q, {t \in Task : t.id_target \notin ids})

\* Mutant of PopDeferred: pop_front is forgotten.
PopKeepsDeferred ==
    /\ queue_tasks' = IF queue_tasks_deferred = <<>> THEN queue_tasks
                      ELSE Append(queue_tasks, Head(queue_tasks_deferred))
    /\ UNCHANGED queue_tasks_deferred

\* pop_deferred_task, called by release: one deferred task goes to the queue.
PopDeferred ==
    IF queue_tasks_deferred = <<>>
    THEN UNCHANGED queuevars
    ELSE /\ queue_tasks' = Append(queue_tasks, Head(queue_tasks_deferred))
         /\ queue_tasks_deferred' = Tail(queue_tasks_deferred)

\* Mutants of Commit: every result is kept; the results not yet received are
\* overwritten.
CommitAll ==
    /\ queue_results' = queue_results \o send_buffer
    /\ send_buffer' = <<>>

CommitOverwrites ==
    /\ queue_results' = Kept(send_buffer, {res \in Result : res.id \in waiting_task_ids})
    /\ send_buffer' = <<>>

\* send_commit: results nobody waits for are dropped.
Commit ==
    /\ queue_results' = queue_results
            \o Kept(send_buffer, {res \in Result : res.id \in waiting_task_ids})
    /\ send_buffer' = <<>>

\* server_slot::release of slot s, as the slots see it.
Released(sl, s) == [sl EXCEPT ![s].state = "idle"]

Used(s) == Append(Kept(lru, Slots \ {s}), s)

\* Mutant of Release: callback_on_release is not called.
ReleaseSilently(s) ==
    /\ IF IsProcessing(s) THEN slots' = Released(slots, s) /\ lru' = Used(s)
                          ELSE UNCHANGED <<slots, lru>>
    /\ UNCHANGED queuevars

\* release when the slot may be idle: an idle slot is left alone.
Release(s) ==
    IF IsProcessing(s)
    THEN /\ slots' = Released(slots, s)
         /\ lru' = Used(s)
         /\ PopDeferred
    ELSE UNCHANGED <<slots, lru, queue_tasks, queue_tasks_deferred>>

-----------------------------------------------------------------------------
(* The HTTP threads.                                                       *)

\* handle_completions_impl: the tasks are announced to server_response...
AddWaiting(r) ==
    /\ hpc[r] = "new"
    /\ hpc' = [hpc EXCEPT ![r] = "added"]
    /\ waiting_task_ids' = waiting_task_ids \cup Ids(r)
    /\ UNCHANGED <<queuevars, queue_results, mainvars, to_cancel, n_finished, closed>>

\* ...before they are posted, all of them at once.
PostTasks(r) ==
    /\ hpc[r] = "added"
    /\ hpc' = [hpc EXCEPT ![r] = IF Body[r].stream THEN "posted" ELSE "recv"]
    /\ queue_tasks' = queue_tasks
            \o [i \in DOMAIN Body[r].prompts |-> Completion(<<r, i>>)]
    /\ UNCHANGED <<queue_tasks_deferred, resultvars, mainvars, to_cancel, n_finished, closed>>

\* A stream is received by the content provider, which httplib calls once the
\* header is written and the socket is writable.  IF it is not, THEN only the
\* completion callback runs.
StartStream(r) ==
    /\ hpc[r] = "posted"
    /\ hpc' = [hpc EXCEPT ![r] = IF closed[r] THEN "complete" ELSE "recv"]
    /\ UNCHANGED <<queuevars, resultvars, mainvars, to_cancel, n_finished, closed>>

\* recv_with_timeout finds a result of one of its tasks; IF the connection is
\* closed THEN the result is dropped and the tasks are cancelled.
Receive(r) ==
    /\ hpc[r] = "recv"
    /\ \E k \in DOMAIN queue_results :
        LET res == queue_results[k]
            fin == n_finished[r] + IF res.stop THEN 1 ELSE 0
        IN  /\ res.id \in Ids(r)
            /\ \A j \in 1 .. k - 1 : queue_results[j].id \notin Ids(r)
            /\ queue_results' = RemoveAt(queue_results, k)
            /\ IF closed[r]
               THEN /\ hpc' = [hpc EXCEPT ![r] = "cancel"]
                    /\ to_cancel' = [to_cancel EXCEPT ![r] = Ids(r)]
                    /\ UNCHANGED n_finished
               ELSE /\ n_finished' = [n_finished EXCEPT ![r] = fin]
                    /\ hpc' = [hpc EXCEPT ![r] =
                                IF fin = Cardinality(Ids(r)) THEN "complete" ELSE "recv"]
                    /\ UNCHANGED to_cancel
    /\ UNCHANGED <<queuevars, waiting_task_ids, mainvars, closed>>

\* recv_with_timeout times out.  With the connection open it is called again;
\* with the connection closed the tasks are cancelled.
Timeout(r) ==
    /\ hpc[r] = "recv"
    /\ \A k \in DOMAIN queue_results : queue_results[k].id \notin Ids(r)
    /\ closed[r]
    /\ hpc' = [hpc EXCEPT ![r] = "cancel"]
    /\ to_cancel' = [to_cancel EXCEPT ![r] = Ids(r)]
    /\ UNCHANGED <<queuevars, resultvars, mainvars, n_finished, closed>>

\* cancel_tasks: one id after the other is taken out of server_response...
RemoveWaiting(r) ==
    /\ hpc[r] = "cancel"
    /\ \E id \in to_cancel[r] :
        /\ to_cancel' = [to_cancel EXCEPT ![r] = @ \ {id}]
        /\ waiting_task_ids' = waiting_task_ids \ {id}
        /\ queue_results' = Kept(queue_results, {res \in Result : res.id # id})
    /\ UNCHANGED <<queuevars, mainvars, hpc, n_finished, closed>>

\* ...then all cancel tasks are posted to the front of the queue.
PostCancel(r) ==
    LET n == Len(Body[r].prompts)
    IN  /\ hpc[r] = "cancel"
        /\ to_cancel[r] = {}
        /\ hpc' = [hpc EXCEPT ![r] = "complete"]
        /\ queue_tasks' = [i \in 1 .. n |-> Cancel(<<r, n + 1 - i>>)] 
                \o CleanedUp(queue_tasks, Ids(r))
        /\ queue_tasks_deferred' = CleanedUp(queue_tasks_deferred, Ids(r))
        /\ UNCHANGED <<resultvars, mainvars, to_cancel, n_finished, closed>>

\* remove_waiting_task_ids, at the end of every request.
Complete(r) ==
    /\ hpc[r] = "complete"
    /\ hpc' = [hpc EXCEPT ![r] = "done"]
    /\ waiting_task_ids' = waiting_task_ids \ Ids(r)
    /\ UNCHANGED <<queuevars, queue_results, mainvars, to_cancel, n_finished, closed>>

\* The client goes away.
Disconnect(r) ==
    /\ hpc[r] \in {"added", "posted", "recv"}
    /\ ~ closed[r]
    /\ closed' = [closed EXCEPT ![r] = TRUE]
    /\ UNCHANGED <<queuevars, resultvars, mainvars, hpc, to_cancel, n_finished>>

HttpStep(r) ==
    \/ PostTasks(r)
    \/ StartStream(r)
    \/ Receive(r)
    \/ Timeout(r)
    \/ RemoveWaiting(r)
    \/ PostCancel(r)
    \/ Complete(r)

-----------------------------------------------------------------------------
(* The main thread: server_queue::start_loop.                              *)

\* Take the next task, or go and update the slots when there is none.
Pick ==
    /\ main.pc = "pick"
    /\ IF queue_tasks = <<>>
       THEN main' = [main EXCEPT !.pc = "update"] /\ UNCHANGED queue_tasks
       ELSE /\ main' = [main EXCEPT !.pc = "process", !.task = Head(queue_tasks)]
            /\ queue_tasks' = Tail(queue_tasks)
    /\ UNCHANGED <<queue_tasks_deferred, resultvars, slots, lru, send_buffer, httpvars>>

\* The slot a task gets: the one it names, or the idle one used longest ago.
\* The comparison with the current time in get_available_slot is taken to
\* succeed: a slot released in the same microsecond would be passed over.
Candidates(id) ==
    LET idle == {k \in 1 .. NSlots : ~ IsProcessing(lru[k])}
    IN  IF IdSlot(id) # -1 THEN {s \in Slots : s = IdSlot(id) /\ ~ IsProcessing(s)}
        ELSE {lru[k] : k \in {j \in idle : \A i \in idle : j <= i}}

\* process_single_task of a completion: no slot, no slot of that id and a
\* busy slot all defer the task.
Defer ==
    /\ main.pc = "process" /\ main.task.type = "completion"
    /\ Candidates(main.task.id) = {}
    /\ queue_tasks_deferred' = Append(queue_tasks_deferred, main.task)
    /\ main' = [main EXCEPT !.pc = "pick"]
    /\ UNCHANGED <<queue_tasks, resultvars, slots, lru, send_buffer, httpvars>>

\* launch_slot_with_task.  If the sampler cannot be made, the slot has been
\* reset and given the task's id, but it stays idle and the task is gone.
Launch ==
    /\ main.pc = "process" /\ main.task.type = "completion"
    /\ \E s \in Candidates(main.task.id), ok \in IF LaunchFails THEN BOOLEAN ELSE {TRUE} :
        slots' = [slots EXCEPT ![s].id_task = main.task.id,
                               ![s].left = Prompt(main.task.id),
                               ![s].state = IF ok THEN "started" ELSE "idle"]
    /\ main' = [main EXCEPT !.pc = "pick"]
    /\ UNCHANGED <<queuevars, resultvars, lru, send_buffer, httpvars>>

\* process_single_task of a cancellation: the first slot with that task.
ProcessCancel ==
    LET hit == {s \in Slots : slots[s].id_task = main.task.id_target}
    IN  /\ main.pc = "process" /\ main.task.type = "cancel"
        /\ IF hit = {} THEN UNCHANGED <<slots, lru, queuevars>>
           ELSE Release(CHOOSE s \in hit : \A x \in hit : s <= x)
        /\ main' = [main EXCEPT !.pc = "pick"]
        /\ UNCHANGED <<resultvars, send_buffer, httpvars>>

ProcessNext ==
    /\ main.pc = "process" /\ main.task.type = "next"
    /\ main' = [main EXCEPT !.pc = "pick"]
    /\ UNCHANGED <<queuevars, resultvars, slots, lru, send_buffer, httpvars>>

\* The end of a round: go on at once, or wait for the queue to fill.
Wait ==
    /\ main.pc = "wait"
    /\ queue_tasks # <<>>
    /\ main' = [main EXCEPT !.pc = "pick"]
    /\ UNCHANGED <<queuevars, resultvars, slots, lru, send_buffer, httpvars>>

-----------------------------------------------------------------------------
(* The main thread: server_context::update_slots.                          *)

\* Mutant of AskForRound: only a generating slot asks for another round.
AskIfGenerating ==
    queue_tasks' = IF \E s \in Slots : slots[s].state = "generating"
                   THEN Append(queue_tasks, NextResponse) ELSE queue_tasks

AskForRound == queue_tasks' = Append(queue_tasks, NextResponse)

\* If all slots are idle return, else post a task that will bring the
\* main thread back here, and put a token of every generating slot in the batch.
Update ==
    LET gen   == {s \in Slots : slots[s].state = "generating"}
        Rank(s) == Cardinality({x \in gen : x < s})
    IN  /\ main.pc = "update"
        /\ IF \A s \in Slots : ~ IsProcessing(s)
           THEN /\ main' = [main EXCEPT !.pc = "wait"]
                /\ UNCHANGED <<queue_tasks, slots>>
           ELSE /\ AskForRound
                /\ slots' = [s \in Slots |-> IF s \in gen
                                             THEN [slots[s] EXCEPT !.i_batch = Rank(s)]
                                             ELSE slots[s]]
                /\ main' = [main EXCEPT !.n_tokens = Cardinality(gen), !.i = 0,
                                !.pc = IF ContBatching \/ gen = {} THEN "prompt" ELSE "decode"]
        /\ UNCHANGED <<queue_tasks_deferred, resultvars, lru, send_buffer, httpvars>>

\* The loop over the prompts ends after the last slot or at a full batch; an
\* empty batch ends update_slots at once.
PromptsEnd(i, n) == i = NSlots \/ n >= NBatch
AfterPrompts(n)  == IF n = 0 THEN "wait" ELSE "decode"

PromptStep(n) ==
    main' = [main EXCEPT !.n_tokens = n,
                         !.i = IF PromptsEnd(@ + 1, n) THEN 0 ELSE @ + 1,
                         !.pc = IF PromptsEnd(main.i + 1, n) THEN AfterPrompts(n) ELSE "prompt"]

\* A slot without a prompt to evaluate.
PromptNone ==
    /\ main.pc = "prompt"
    /\ slots[main.i].state \notin {"started", "processing_prompt"}
    /\ PromptStep(main.n_tokens)
    /\ UNCHANGED <<queuevars, resultvars, slots, lru, send_buffer, httpvars>>

\* An empty prompt: the slot is released and an empty final response is sent.
\* The loop goes on without the test for a full batch.
PromptEmpty ==
    LET s == main.i
    IN  /\ main.pc = "prompt"
        /\ slots[s].state = "started" /\ slots[s].left = 0
        /\ Release(s)
        /\ send_buffer' = Append(send_buffer, Final(slots[s].id_task))
        /\ main' = IF s + 1 = NSlots
                   THEN [main EXCEPT !.i = 0, !.pc = AfterPrompts(main.n_tokens)]
                   ELSE [main EXCEPT !.i = s + 1]
        /\ UNCHANGED <<resultvars, httpvars>>

\* Mutant of Room: what is in the batch already is not counted.
WholeBatch == NBatch

Room == IF NBatch > main.n_tokens THEN NBatch - main.n_tokens ELSE 0

\* Evaluate as much of the prompt as fits; a prompt just started may reuse
\* cached tokens, all but one of them at most.
PromptTokens ==
    LET s == main.i
    IN  /\ main.pc = "prompt"
        /\ slots[s].state \in {"started", "processing_prompt"}
        /\ slots[s].left > 0
        /\ \E left \in IF slots[s].state = "started" THEN 1 .. slots[s].left ELSE {slots[s].left} :
            LET add == IF left <= Room THEN left ELSE Room
                n   == main.n_tokens + add
            IN  /\ slots' = [slots EXCEPT ![s] =
                       IF add = left
                       THEN [@ EXCEPT !.state = "done_prompt", !.left = 0, !.n_decoded = 0,
                                      !.i_batch = n - 1]
                       ELSE [@ EXCEPT !.state = "processing_prompt", !.left = left - add]]
                /\ PromptStep(n)
        /\ UNCHANGED <<queuevars, resultvars, lru, send_buffer, httpvars>>

\* llama_decode of a view: it is evaluated, or finds no cells and is tried again
\* with half the length, or fails for good.
Decode ==
    /\ main.pc = "decode"
    /\ \/ main' = [main EXCEPT !.pc = "sample", !.i = 0]
       \/ main.n_batch > 1 /\ main' = [main EXCEPT !.n_batch = @ \div 2]
       \/ DecodeFails /\ main' = [main EXCEPT !.pc = "fail", !.i = 0]
    /\ UNCHANGED <<queuevars, resultvars, slots, lru, send_buffer, httpvars>>

\* A failure for good: every slot is released and no result is sent; what the
\* views before have brought is committed.
Fail ==
    /\ main.pc = "fail"
    /\ Release(main.i)
    /\ main' = IF main.i + 1 = NSlots THEN [main EXCEPT !.i = 0, !.pc = "commit"]
                                      ELSE [main EXCEPT !.i = @ + 1]
    /\ UNCHANGED <<resultvars, send_buffer, httpvars>>

ViewEnd == IF main.view + main.n_batch < main.n_tokens THEN main.view + main.n_batch
                                                       ELSE main.n_tokens

\* The loop over the slots of a view; behind the last slot the next view is
\* decoded, and behind the last view the results are committed.
NextSlot ==
    main' = IF main.i + 1 < NSlots THEN [main EXCEPT !.i = @ + 1]
            ELSE IF ViewEnd < main.n_tokens
            THEN [main EXCEPT !.i = 0, !.pc = "decode", !.view = ViewEnd]
            ELSE [main EXCEPT !.i = 0, !.pc = "commit"]

\* The view has a token of slot s to sample from: i_batch may be stale, but
\* then the slot is in another state.
Sampled(s) ==
    /\ slots[s].i_batch \in main.view .. ViewEnd - 1
    /\ slots[s].state \in {"done_prompt", "generating"}

SampleNone ==
    /\ main.pc = "sample"
    /\ ~ Sampled(main.i)
    /\ NextSlot
    /\ UNCHANGED <<queuevars, resultvars, slots, lru, send_buffer, httpvars>>

\* Sample a token and process it: a stream gets a partial result, unless the
\* text ends in the middle of a character; the last token releases the slot
\* and sends the final result.
Sample ==
    LET s  == main.i
        id == slots[s].id_task
        n  == slots[s].n_decoded + 1
        sl == [slots EXCEPT ![s].state = "generating", ![s].i_batch = -1, ![s].n_decoded = n]
    IN  /\ main.pc = "sample"
        /\ Sampled(s)
        /\ \E incomplete \in IF Stream(id) THEN BOOLEAN ELSE {FALSE},
              stop \in IF n >= MaxNew THEN {TRUE} ELSE BOOLEAN :
            LET partial == IF Stream(id) /\ ~ incomplete THEN <<Partial(id)>> ELSE <<>>
                final   == IF stop THEN <<Final(id)>> ELSE <<>>
            IN  /\ send_buffer' = send_buffer \o partial \o final
                /\ IF stop
                   THEN /\ slots' = Released(sl, s)
                        /\ lru' = Used(s)
                        /\ PopDeferred
                   ELSE /\ slots' = sl
                        /\ UNCHANGED <<lru, queuevars>>
        /\ NextSlot
        /\ UNCHANGED <<resultvars, httpvars>>

\* The end of update_slots, and of its view and n_batch.
SendCommit ==
    /\ main.pc = "commit"
    /\ Commit
    /\ main' = [main EXCEPT !.pc = "wait", !.view = 0, !.n_batch = NBatch]
    /\ UNCHANGED <<queuevars, waiting_task_ids, slots, lru, httpvars>>

MainStep ==
    \/ Pick \/ Defer \/ Launch \/ ProcessCancel \/ ProcessNext \/ Wait
    \/ Update \/ PromptNone \/ PromptEmpty \/ PromptTokens
    \/ Decode \/ Fail \/ SampleNone \/ Sample \/ SendCommit

\* Nothing left to do: every request is over and the main thread waits.
Quiet ==
    /\ main.pc = "wait" /\ queue_tasks = <<>>
    /\ \A r \in Requests : hpc[r] \in {"done", "recv"}
    /\ UNCHANGED vars

Next ==
    \/ \E r \in Requests : AddWaiting(r) \/ HttpStep(r) \/ Disconnect(r)
    \/ MainStep
    \/ Quiet

Spec == Init /\ [][Next]_vars

(***************************************************************************)
(* The main thread runs whenever it can, and so does every HTTP thread     *)
(* once its request has come in; clients owe nothing.                      *)
(***************************************************************************)
FairSpec == Spec /\ WF_vars(MainStep) /\ \A r \in Requests : WF_vars(HttpStep(r))
=============================================================================
