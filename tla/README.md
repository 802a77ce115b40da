# A verification project for JittorInfer

JittorInfer is a C++ inference engine for language models, descended from
llama.cpp: a model is loaded, a *context* owns a KV cache, `llama_decode`
evaluates a batch of tokens of several sequences against that cache, and an HTTP
server multiplexes requests over a fixed number of *slots*, one sequence each.

This directory holds TLA+ modules that model the parts of the engine whose
correctness depends on state, order and concurrency, TLC configurations that
check them on small instances, and proofs, checked by TLAPS, of what holds for
every instance. Everything is translated from the sources under `src/`;
`PROJECT.json` maps each definition to its lines.

## Running

    tlc -workers 2 -config kv_api.cfg MCKVCache     # one run: the cfgs are named in section 4
    tlapm KVCacheProofs.tla                         # the proofs of one module

## 1. Inventory

### The KV cache (`src/src/llama-kv-cache.{h,cpp}`)

*State.* `cells[size]`, each with a position `pos`, an accumulated shift `delta`
and a set of sequences `seq_id` (a `bitset<32>`); `head`, where the next search
starts; `used`, the number of populated cells; `n`, the extent of the cache the
current graph attends to; the flags `has_shift` and `do_defrag`; the K and V
tensors, one row per cell and layer.

*Operations.* `clear`, `seq_rm`, `seq_cp`, `seq_add`, `find_slot`,
`find_scatter_slot`, `cell_max`, `max_pos`, `defrag` (a request), and a read-only
*view* for debugging. Recurrent caches are ruled out by an assertion of
`llama_decode`.

*Hard.* `used` is kept by increments and decrements in five functions, under
guards on `pos`, while other functions test `seq_id`; the searches move the head as
they go; sequences share cells.

*Correct if* `used` is the number of populated cells and a cell has a position
exactly when it belongs to a sequence; a search finds room whenever there is some
and ends; no operation overwrites the cell of another token.

### `llama_decode` and defragmentation (`llama-execute-decode.cpp`, `llama-execute-kvupdate.cpp`, `llama-graph-defrag.cpp`, `llama-batch.cpp`)

*State.* The batch being split into ubatches (`sbatch`), the slots found
(`kv_slots`), a `kv_slot_restorer`, the output buffer and its index map.

*Operations.* Per ubatch: apply pending updates (defragment), find cells, set
`n`, build and compute the graph, move the head. At the end: gather outputs,
decide whether to defragment before the next decode.

*Interactions.* Called by the server, the MPI server and the command-line
programs; calls the cache, the graph builders and the backend scheduler.

*Hard.* Defragmentation moves the *cells* in its loops and the *rows* later,
through a plan that a limit on graph nodes may cut short; failure in the middle
of a batch; padding of scattered ubatches; a head heuristic.

*Correct if* before every graph each populated cell's row is its token's row;
defragmentation neither loses nor duplicates a token and its assertion holds;
every populated cell is within the `n` cells that are attended to; a failed
decode leaves the cache as it was (it does not); outputs come back at the batch
index that asked for them.

### The server (`src/examples/server/server.cpp`)

*State.* `server_queue`: `queue_tasks`, `queue_tasks_deferred` under
`mutex_tasks`. `server_response`: `waiting_task_ids`, `queue_results` under
`mutex_results`, and `send_buffer`, owned by the main thread. `server_slot`s: a
state machine idle -> started -> processing_prompt -> done_prompt -> generating, the
task, `prompt_tokens`, `cache_tokens`, `n_past`, `i_batch`. The batch.

*Operations.* An HTTP thread per request registers the ids, posts the tasks,
receives results, notices a closed connection and cancels. The main thread takes
tasks, launches, defers or cancels, and when the queue is empty runs
`update_slots`: add the tokens of generating slots, evaluate prompts, decode,
sample, release, commit results.

*Hard.* All interleavings of the threads; deferred tasks brought back one per
release; cancellation racing with completion; clients that leave; failures of the
decode and of the sampler; early returns between `send` and `send_commit`; reuse
of cached prompts; context shift and truncation.

*Correct if* a task is run at most once and answered at most once; no task or
result of a waiting request is lost; nothing is left behind; a busy slot is always
served and a deferred task is not stranded; every request ends; `cache_tokens`
describes the cache.

### The MPI server (`src/examples/mpi_server/server.cpp`)

The server with follower ranks: rank 0 broadcasts each cache operation and decode
and the followers replay them (lines 935-989, 1915-1931); decodes contain
collective calls, and idle ranks take part through `llama_empty_run`. *Correct
if* all ranks perform the same sequence of collective operations and hold equal
cells, whatever fails.

### The CPU threadpool (`ggml/src/ggml-cpu/ggml-cpu.c`)

*State.* `n_graph`, `n_threads_cur`, `n_barrier`, `n_barrier_passed`,
`current_chunk`, `stop`, `pause`, `abort`: atomics, read by polling workers without
the mutex; one mutex with one condition variable; a `last_graph` per worker.

*Operations.* The main thread resets the pool, announces a graph, computes it as
thread 0, pauses, resumes and frees the pool. A worker polls, sleeps, computes. The
threads meet at a barrier after each node, and inside a `mul_mat`.

*Hard.* Everything: relaxed accesses, a barrier of two counters that is used again at
once, numbers of threads that change from graph to graph, one condition variable
for three conditions, work shared out by a counter that one thread resets.

*Correct if* no thread starts on a node before all have finished the one before, no
part is computed twice or left out, every call returns, and no worker is still in a
graph when the next is set up.

### The allocator (`ggml/src/ggml-alloc.c`)

*State.* A list of free blocks per buffer and the largest offset needed; for each
tensor the uses and views to come and whether it owns memory; the plan remembered
(`node_allocs`, `leaf_allocs`) and the buffer.

*Operations.* Best fit with split and merge; plan a graph (allocate, take over a
parent's memory in place, free with the last use); use the plan for later graphs, or make a
new one.

*Hard.* Memory is handed on between parents, children and views under counts that two
loops keep; plans outlive the graph they were made for.

*Correct if* live tensors do not overlap, no source is overwritten before it is read,
outputs survive, and everything lies inside the buffer.

### Backend scheduler and CANN

- Backend scheduler (`ggml-backend.cpp`): splits, copies of inputs that rotate with
  events. *Correct if* a copy is not overwritten while a graph still reads it.
- CANN backend: memory pools and a cache of captured graphs.

### Others

The model loader (formats, mmap, an asynchronous upload ring), graph builders and
kernels (numeric), vocabulary and unicode (tables), sampling, chat templates and
argument parsing, gguf and quantization, command-line programs, vendored
libraries. `PROJECT.json` lists each with its status.

## 2. Plan

Done, in this order:

1. `KVCells`, `KVCache`: the cache and the decode loop; proofs.
2. `SlotSearch`: the search loops against their definitions.
3. `Server`: queues, slots and HTTP threads; proofs.
4. `SlotCache`: the slots composed with `KVCache`: what the server believes the cache
   to hold, against what it holds; proofs.
5. `Rounds`, `Barrier`, `Threadpool`: the barrier, its abstract specification, and the pool
   that uses it; proofs.
6. `DynAlloc`, `GraphAlloc`: the heap, and the planner that uses it; proofs.

Left:

7. `MpiLockstep`: rank 0 broadcasts cache operations and decodes, the followers replay them.
   It would compose `SlotCache` with a second `KVCache` per follower. One thing it
   would show can be read off the code: the clear of the first idle round
   (server.cpp of `mpi_server`, as in `server`) is not broadcast, so that the caches of
   the ranks differ if requests were served before it.
8. `Outputs`: batch splitting and output mapping, checked against the batch's order.
9. `SchedCopies`, `UploadRing`: rotating copies and their events.

Theorems to add go with these modules; the safety properties of the modules above are proved.

## 3. The modules

`M` EXTENDS what it is indented under; `MC*` modules instantiate the one above them.

    KVCells                cells, and what the searches return
      SlotSearch           the search loops                      MCSlotSearch
      KVCache              the cache and llama_decode
        KVCacheProps                                             MCKVCache
        SlotCache          the slots of the server on top of it
          SlotCacheProps                                         MCSlotCache
    Server                 queues, slots, threads
      ServerProps                                                MCServer
    Rounds                 what a barrier promises
    Barrier                ggml_barrier, implements Rounds
      Threadpool           the pool, uses Barrier's steps
        ThreadpoolProps    implements Rounds                     MCThreadpool
    DynAlloc               the heap
      GraphAlloc           the planner, uses DynAlloc's operations
        GraphAllocProps                                          MCGraphAlloc

Proofs: `KVCellsProofs`, `SlotSearchProofs`, `KVCacheProofs`, `SlotCacheProofs`, `ServerProofs`, `BarrierProofs`,
`ThreadpoolProofs`, `AllocProofs`.
Operators whose comment begins "Mutant of" are the code with a plausible bug; nothing
refers to them, and with one in place of the original the named property fails.

### `KVCells` - cells and what the searches return

Definitions without state: `Freed`, `CellMax`, `Occupy`, and the results of the searches.
`FirstFit` and `FailHead` give the position and the head `find_slot` ends with,
`ScatterSlots` the cells of `find_scatter_slot`. A cell carries, besides the fields of
the struct, `tok`, the token whose row it stands for; it lets the tensors be
compared with the cells.

### `KVCache` - the cache and `llama_decode`

| variable | code |
| --- | --- |
| `cells`, `head`, `used`, `n`, `has_shift`, `do_defrag` | the fields of `llama_kv_cache` |
| `rows` | the K/V tensors, the token of the row at each cell |
| `pc` | where a running `llama_decode` is |
| `todo` | the tokens of the batch left in `sbatch` |
| `slot` | `lctx.kv_slots`, or the range from the head |
| `saved` | what `kv_slot_restorer` has recorded |
| `df` | `i0`, `i1`, `nh`, `nf`, `cont`, `n_moves`, `n_kv`, `n_used`, `ids` of `llama_kv_cache_defrag_impl`, and `i` of `build_defrag` |

A context belongs to one thread, so an API call is one step; `llama_decode` is many,
since it is its intermediate states that the properties are about.

| action | code |
| --- | --- |
| `Clear`, `SeqRm`, `SeqCp`, `SeqAdd` | the operations of the API, with their ranges and early returns |
| `DecodeBegin`, `Update`, `FindCells`, `NoCells`, `Compute` | `llama_decode_impl` and `llama_prepare_ubatch`, one ubatch at a time |
| `Scan`, `MoveGap`, `MoveCell` | the outer and the inner loop of the defragmentation, one turn each |
| `Copy` | one turn of the loop of `build_defrag` |
| `Aborted` | a failed `GGML_ASSERT`: the process is over |

Callers append: the i-th token of a batch goes to the end of its sequence, as in all
callers of the repository.

### `SlotSearch`

`find_slot` and `find_scatter_slot` turn by turn, from any head and any occupancy:
`Wrap`, `Test`, `Collect`. It closes the gap that `KVCache` opens by taking the
searches' results from `KVCells`; `SlotSearchProofs` closes it for every size.

### `Server` - queues, slots and threads

| variable | code |
| --- | --- |
| `queue_tasks`, `queue_tasks_deferred`, `waiting_task_ids`, `queue_results`, `send_buffer` | the same names |
| `slots` | `state`, `id_task`, `i_batch`, `n_decoded`, and `left`, the prompt tokens left to evaluate |
| `lru` | the order of `t_last_used` |
| `main` | the main thread: its place, the task in hand, the slot a loop is at, `batch.n_tokens`, the start `i` of the view being decoded and `n_batch`, the length of the views |
| `hpc`, `to_cancel`, `n_finished` | the HTTP thread of each request: its place, the ids `cancel_tasks` has left, the final results it has |
| `closed` | the client has left |

Each action is one critical section of a mutex or main-thread work between two
of them. `HttpStep` collects the steps of a request's thread (`AddWaiting` is its arrival),
`MainStep` those of `start_loop`, `process_single_task` and `update_slots`; `Disconnect` is
the client.

Tokens are counted, not named: a prompt is a number, a new prompt may reuse any
part of its cached prefix but the last token, a generating slot may stop after any
token up to `MaxNew`. A batch is decoded view by view: each view is evaluated and its slots sampled, or tried
again with half the length, or, with `DecodeFails`, fails for good, in which case what the views before it have
brought is still committed. That is every behaviour the cache can cause and more.

### `SlotCache` - the slots on top of the cache

The other half of `update_slots`: here tokens have names and the queues are gone. Any idle
slot is given any prompt, any busy slot is cancelled, between two rounds.

| variable | code |
| --- | --- |
| all of `KVCache`'s | the context; slot s is sequence s |
| `slots` | `state`, `prompt_tokens`, `n_past`, `cache_tokens`, `sampled`, `i_batch` |
| `at_slots`, `next` | where `update_slots` is, and the slot the loop over the prompts is at |
| `batch`, `i_view`, `n_batch` | the batch, the start of the current view and its length |
| `clean_kv_cache` | the flag of that name |

| action | code |
| --- | --- |
| `Launch`, `CancelTask` | `process_single_task` |
| `IdleRound` | all slots idle: `kv_cache_clear` |
| `BeginRound` | the test for a context shift, and the sampled tokens of the generating slots |
| `SkipSlot`, `EmptyPrompt`, `BatchPrompt` | one turn of the loop over the prompts: truncation, common prefix, `seq_rm`, the tokens that fit |
| `BeginView`, `DecodeView` | `llama_decode` of a view: `KVCache`'s own steps |
| `Sample` | the loop over the slots with output in the view, `process_token` |
| `Retry` | no cells: halve `n_batch`, or give up with single tokens |
| `EndRound` | the batch is through |

A context shift cannot be followed further, since the next `llama_decode` fails an
assertion; "shift" is the place where it would be made, and `NeverShifts` that it is
not. `ReusesComputed` compares `cache_tokens` with the cells, `AttentionExact` the cells a token
attends to with the text of its slot.

### `Rounds`, `Barrier` - the barrier and what it promises

`Rounds` is abstract: threads arrive, and leave a round when all have arrived in it.
`Barrier` is `ggml_barrier`, one access to a counter per step; `at` is where a thread is in
it, `n_threads` and `n_passed` are its locals, the first loaded once on entry (`LoadThreads`), and `round`, a history
variable, counts what it has left. Standing alone it has a fixed team; `Threadpool` uses `BarrierStep` and
`BarrierReturn` with the thread count of the moment. Every relaxed access lies between two seq_cst increments of its thread, which is why
interleaving the accesses is enough.

### `Threadpool` - graphs handed to threads

| variable | code |
| --- | --- |
| `cgraph`, `n_graph`, `n_threads_cur`, `current_chunk`, `stop`, `pause`, `abort` | the fields of `ggml_threadpool`; `abort` counts nodes from 1, 0 is -1 |
| `pc`, `ret` | where each thread is, and what it does after the barrier it is in |
| `last_graph`, `seen` | `state->last_graph` and the local `new_graph` |
| `graph`, `nth`, `node`, `chunk` | locals of the running computation |
| `prepared`, `computed` | history: who has converted its share of `src1`, how often each part has been computed |
| `paused` | bounds the pauses |

| actions | code |
| --- | --- |
| `BeginGraph`, `ResetGraph`, `SetThreads`, `AnnounceGraph`, `Signal` | `ggml_graph_compute` and `ggml_graph_compute_kickoff`, store by store: polling workers see each; `Teams` is the number of threads asked for, cut to those of the pool |
| `Pause`, `Resume`, `SetStop`, `ClearPause`, `Join` | `ggml_threadpool_pause`, `_resume`, `_free` |
| `Top`, `StopCheck`, `ActiveCheck`, `PollFlags`, `PollGraph`, `PollMine`, `LockAndCheck` | a worker, load by load; `LockAndCheck` is the critical section |
| `RunGraph`, `NodeLoop`, `WorkPlain`, `AfterNode` | `ggml_graph_compute_thread` |
| `WorkMulMat`, `WorkChunk`, `NoChunkLeft` | `ggml_compute_forward_mul_mat` around its barrier |
| `InBarrier`, `OutOfBarrier`, `NoBarrier` | `ggml_barrier` |

A wait on the condition variable is "sleep" or "resting" until a broadcast; wake-ups without one
are left out, as they only repeat a check. `PollGraph` and `PollMine` may go on polling or give
up at any turn.

### `DynAlloc`, `GraphAlloc` - the allocator

`DynAlloc` is `ggml_dyn_tallocr`: `free_blocks` (the array is sorted and its blocks do not touch,
so it is a set), `max_size`, and `live`, the blocks handed out (history). `Alloc` is best fit with its
preference for anything but the last block, `FreeTensor` the merge with either neighbour or both. An action whose
assertion fails is not enabled; that "out of free blocks" does not happen is the invariant `BlocksSuffice`, and that the
limit is not reached shows in that `galloc` has no deadlock.

`GraphAlloc` builds any graph of `NNodes` nodes (`BuildNode`), then plans it:

| variable | code |
| --- | --- |
| `graph`, `n_tokens` | the graph, and what its sizes depend on |
| `n_children`, `n_views`, `allocated`, `offset` | the fields of `hash_node` |
| `node_allocs`, `buffer_size` | the plan remembered (leafs included) and the buffer |
| `addr` | the `data` of the tensors of the current graph |
| `pc`, `i`, `j` | where the allocator is |

`AllocateLeaf`, `CountChildren`, `VisitNode`, `UpdateParent` are the loops of `ggml_gallocr_alloc_graph_impl`;
`AllocateNode` takes over a parent's memory where `Reusable` allows; `AllocGraph` decides with
`NeedsRealloc` whether the last plan still does, as far as sizes go; `ReserveDone` keeps the plan and grows the buffer, or,
with `AllocFails`, keeps the plan and loses the buffer, upon which `ggml_backend_sched_alloc_splits` tries once more
(`Retry`). `NextGraph` is the caller, with the same graph for another number of tokens or, without `SameTopology`, any
graph of as many tensors. Operations are of four kinds: "map" may work in place, with one operand or two, the
second of which may be repeated, "mul_mat" may not, a view writes nothing. Any node may be read by any later one, views and
outputs too.

## 4. The runs

Passing:

| run | question | instance |
| --- | --- | --- |
| `kv_api` | Do the counts, rows and extent stay right under every order of API calls and decodes? | 3 cells, 2 sequences, positions to 2, all ranges, shifts by -1, ubatches of 2 |
| `kv_defrag` | Does a defragmentation keep every token, agree with its rows and with padded, scattered ubatches, fit its graph and end? | 5 cells, scatter search, positions to 5, ubatches of 2, two runs of moves, with fairness |
| `slot_search` | Do the loops compute what `KVCells` says, and end? | all 2^7 occupancies of 7 cells, all heads and lengths |
| `slot_cache` | Does each token attend to exactly its text, whatever was cached, cancelled or tried again? Is no request dropped, no context shifted? | 8 cells, 2 slots of 4, batches of 2, contiguous search, three prompts: empty, short, and one that has to be truncated |
| `server_queue` | Is every task in one place, no result lost, no work left undone, every request answered or cancelled? | a request of two prompts and a stream on one slot, with fairness |
| `server_slots` | And for tasks that name their slot, without continuous batching, with an empty prompt and views that fail after others have been sampled? Does the batch stay in its memory? | two tasks for slot 0, the second an empty prompt, and a stream for any of two slots; two tokens each, batches of 2 |
| `threadpool` | Is every part computed once and in time, are the barriers those of `Rounds`, does every call return? | 3 threads, asked to be 4, for a graph of two mul_mats, then 2 threads, or 1, for a plain node and a mul_mat; 3 chunks, a pause, an abort |
| `galloc` | Do no two live tensors overlap, does the array of free blocks suffice, does every source survive until it is read, does every output survive, in this graph and in the next, with buffers refused in between? | every graph of 3 nodes over two inputs, two shapes, two outputs, replayed for one and two tokens; 3 free blocks |

Violations, one property each, which states what a comment of the code says (section 6):
`slot_retry`, `slot_clear`, `server_cancel`, `tp_threads`.

### Further instances

Configurations beside the runs, for settings the runs leave out. They are not among the runs of `PROJECT.json` and
are checked in the same way, for example by `tlc -config slot_scatter.cfg MCSlotCache`.

| instance | module | what it shows |
| --- | --- | --- |
| `slot_scatter` | `MCSlotCache` | `AttentionExact` in the mode most of `configs/` ask for: scatter search, defragmentation, batches of 4 in ubatches of 2. It holds: 56581 states, in which no decode fails |
| `galloc_other` | `MCGraphAlloc` | `OwnersMatchHeap` while a graph is planned after one of another topology, for every two graphs of 2 nodes over one input. It holds |
| `slot_full` | `MCSlotCache` | `GivesUpWhenFull` is violated (section 6, 7) |
| `slot_dropped` | `MCSlotCache` | `ReusesComputed` is violated by another way than in `slot_clear` (section 6, 8) |
| `server_empty` | `MCServer` | `Answered` is violated by an empty prompt (section 6, 5) |
| `server_stream` | `MCServer` | `FinishedLeavesNothing` is violated (section 6, 6) |
| `galloc_outputs` | `MCGraphAlloc` | `EveryOutputSurvives` is violated (section 6, 9) |
| `galloc_topology` | `MCGraphAlloc` | `SourcesIntact` is violated when the topology changes (section 6, 10) |
| `galloc_fail` | `MCGraphAlloc` | `AlwaysInBuffer` is violated when a buffer is refused (section 6, 11) |

### Bounds

`MaxPos`, `MaxNew`, `Shifts`, `Pauses`, `Limit`, `NNodes`, `MaxOutputs` and the sets of prompts and
graphs bound the models; the other constants are parameters of the program.

- *Cache.* Two sequences share a cell and free half of it; three cells have a free one between
  two, or a wrap; a batch of two ubatches fails at the second. Defragmentation
  needs a hole of two cells filled from two runs with a gap between them: five cells have
  them, and positions up to 5 leave tokens to decode after the removals. Two tokens tell
  one row from another. For the searches seven cells have room for two holes on either
  side of the head.
- *Slots.* Four positions are the least the program allows a slot. The long prompt is truncated to
  three tokens and spread over two rounds; the others share a prefix with it or none; with two slots the
  tokens of one are strewn over the cells the other needs, so that views fail and are halved.
  In `slot_cache` `NUbatch` is `MaxBatch`, which the defaults give contexts of up to 512 tokens (`llama-params.cpp:39-41`,
  `n_batch` being cut to `n_ctx`): with smaller ubatches a view can fail at its second ubatch, and then
  `AttentionExact` does not hold. `slot_retry` is that case: two ubatches of two to a view, ten cells, which
  one slot's tokens leave with room for one pair but not for two. In the instance `slot_scatter` the two texts leave two
  cells free, one ubatch, so that no decode fails; with ubatches of four, `slot_full`, or of five, `slot_dropped`, one does.
- *Server.* One slot and two tasks make a deferral, a request of two prompts one that
  is answered partly; two slots and two tasks for one of them make a release that
  brings back a task which must be deferred again, and two prompts in a batch too small for both. Two tokens
  to a slot let it generate in the next round: without continuous batching prompts then wait. With batches of two,
  halved, the first slot's view can be sampled and the second's fail.
- *Pool.* Three threads are the least with two workers that differ: one left out of the second graph, one
  not, or both. Two mul_mats in a row share the counter and the work buffer. With
  three chunks three threads take one each, and two have to use the counter. A fourth thread is asked for so that the
  clamp has something to do.
- *Allocator.* Three nodes on two inputs are enough for a view of a node that is read after the
  node, an output in the middle, an input that is freed between two others, and a returned block with
  free neighbours on both sides; the shape that grows makes a plan that no longer fits. With three free blocks at most an
  array whose blocks were not merged would be full.

`Quiet`, `Done`, `Aborted` and `Freed` are the states in which the program has stopped or
waits for its clients; any other state without a successor is reported as a deadlock. No run
turns that check off. The instances `galloc_other` and `galloc_topology` do: with another topology `needs_realloc` may fail its assertion against
misuse (`Misused`), which ends the program.

### Fairness

`KVCache` (`kv_defrag`): a call, once made, runs on: one thread, no blocking.

`Server` (`server_queue`): weak fairness of the main thread and of each HTTP thread, as the
operating system gives it; nothing is assumed of clients. The HTTP thread's time-out
step, which is how it notices a closed connection, is fair although `recv_with_timeout`
starts its wait anew at each notification: with finitely many requests the notifications
end, so one wait runs its full time. Under endless load by other requests that argument
fails, and so might the property.

`Threadpool`: weak fairness of a call the main thread has begun, and of each worker: threads that the
system schedules. A worker may poll for ever without sleeping, or sleep at once; the program
need not make another call.

## 5. The proofs

All of them are for every value of the constants that the named assumptions of the modules allow.

**The cache** (`KVCellsProofs`, `KVCacheProofs`): for every size, number of sequences, ubatch size,
padding, search mode, threshold, limit of moves and set of shifts,

- `TypeCorrect`: `Spec => []TypeOK`;
- `UsedCountIsRight`: `Spec => []UsedMatchesCells`;
- `DefragNeverFails`: `Spec => []NoDefragBug`.

All three come from `KVInvariant`, `Spec => []KVInv`. `UsedMatchesCells` alone is not
inductive: defragmentation takes `used` for the number of cells to pack and moves
cells into holes, so that its moves neither overwrite a populated cell nor run
out of sources depends on where its two loops are. `KVInv` adds

- `TodoOK`: the tokens of a batch have a position and a sequence;
- `ScanOK`: cells below `i0` are populated, no populated cell is at or above `n_kv`, and `n_used` is
  still `used`;
- `MoveOK`: the first `nf` cells of the hole are filled and the others empty, the cells above have
  not been placed, and the sources still ahead of `i1` are exactly as many as
  the cells still to fill.

That there are enough sources when a hole is met (`EnoughSources`) is a counting
argument: the cells below the hole are all populated, the hole ends at a populated cell or
at `n_used`, and `n_used` cells are populated in all; so at least as many populated cells lie
above the hole as it has cells. One lemma per action shows that `KVInv` is preserved, `StepOK`
puts them together. Assumed: a positive size, at most 32 sequences, positive ubatch size and
padding, at least one run of moves (`max_nodes > 8 * n_layer` in the code). `KVCellsProofs` has
the lemmas about minima and maxima, about the searches (`FirstFitFits`: what `find_slot` returns are
free cells inside the cache) and about `Occupy` (k free cells given to k tokens are
k more populated cells).

**The searches** (`SlotSearchProofs`): for every size, occupancy, head and number of cells asked for,

- `FindSlotComplete`: `Spec => []FindSlotIsComplete`;
- `ScatterComplete`: `Spec => []ScatterIsComplete`.

So what `KVCache` takes a search to return is what its loop does. `SearchInv` follows the contiguous search through
three parts: from the head to the end (`Ahead`), from 0 to the head it started with (`Behind`), and once more from 0
after a full turn (`Last`), since the wrap skips the test for one. What has been passed over
holds no fit (`NoFit`). Behind its start the search stops only at 0 and after occupied cells
(`OnPath`), which decides where it gives up: `GivesUpInTurn`, `GivesUpInLast`. The
scatter search has, after each cell, the free cells of its turn so far (`Collected`), and there is
only one way to list `want` of them in order (`ScatterSlotsUnique`). That the loops end is model-checked.

**The rows** (`KVCacheProofs`, on top of `KVInv`): for the same constants,

- `RowsFollow`: `Spec => []RowsFollowCells`;
- `GraphSeesAll`: `Spec => []VisibleToGraph`;
- `OnlyAdds`: `Spec => DecodeOnlyAdds`;
- `CopiesFit`: `Spec => []CopiesFitTheGraph`.

The first two come from `RowsInv`, which says where the row of a cell is while it is not at the cell:
`RowsPlanned`, at the source of a planned move that has not been copied; `SlotOK`, still to be written, for a
slot just found, whose cells are different and free, the padding of a short ubatch in scatter
mode included. Copies are made in runs, in the order of their sources, and read the tensor they write.
That no copy overwrites a row still to be copied is `MapOK`: every source lies at or above
`n_used`, every destination below it, and no two moves share one. Sources lie there because the
search for the `nh`-th source from the end cannot reach below `n_used` (`SourceAboveUsed`): there are as
many sources as cells from the hole to `n_used`, and none in the hole. `DecodeOnlyAdds` is a count of cells,
which a move permutes (`MoveKeeps`) and `Occupy` extends by the tokens of the ubatch (`OccupyAdds`).
For `CopiesFitTheGraph`, `RunsInv` says that a run that is being continued ends at the cell below `i1` and
the last filled cell of the hole; so a move either extends a run or has been counted, and can only join
the run after it.

**The slots** (`SlotCacheProofs`):

- `TruncatedFits`: for every prompt that is too long, every `n_keep`, and every context of at least four
  tokens, the truncated prompt is shorter than the context: the assertion of `update_slots`
  holds. It is arithmetic on `(n - k - b) \div b` with `b = (ctx - k) \div 2`.
- `ServerNeverShifts`: `SlotSpec => []NeverShifts`, from `StopInv`, which follows each slot through
  a round: a slot that generates is below the end of its context, except for the one
  token it waits for in this round (`Awaited`), after which `process_token` stops it. That a
  slot always gets that far is in the ranks of the generating slots in the batch
  (`RankFacts`, `RankOnto`). The cache itself is not needed: whatever `llama_decode` returns,
  a slot is sampled, tried again, or released.
- `AttentionIsExact`: `SlotSpec /\ []Orderly => []AttentionExact`, with both searches, every `n_ubatch` and every `n_batch`;
- `AlwaysRoom`: `ASSUME ~ Scatter PROVE SlotSpec /\ []FailsWhole /\ []StartsClean => []NeverGivesUp`;
- `OneUbatchIsSafe`: `ASSUME OneUbatch PROVE SlotSpec => [](AttentionExact /\ NeverGivesUp)`.

`Orderly` is what the first needs of a behaviour, and what the code does not guarantee: `FailsWhole`, a view for which no
cells are found has none of its ubatches in the cache (else the retry adds the same tokens again: `slot_retry`);
`StartsClean`, no task is served before the first clear (else the cells of its prompt are cleared behind its back: `slot_clear`);
`NeverGivesUp`, no batch is dropped (else its tokens stay in `cache_tokens`: `slot_dropped`). With the contiguous search the
third follows from the others (`AlwaysRoom`); with the scatter search, which asks for `n_ubatch` cells whatever the view has, it does not
(`slot_full`). `OneUbatch` is the setting in which all three hold of themselves: the contiguous search, `n_ubatch = n_batch`, no task
before the first round. It is that of neither the configurations with `enable_ge`, which forces the scatter search, nor those whose `n_batch` is above
`n_ubatch`: for these `AttentionExact` is as good as `Orderly`.

The first two come from `CellsFollowTexts`, `SlotSpec /\ []Orderly => []SlotInv`, which joins `KVInv`, `RowsInv` and `StopInv` with
`ContentInv`:

- `Exact`, cells against texts (`Held`: `cache_tokens` of each slot): a cell belongs to one slot (`Owned`), a slot has one
  cell for a position (`OneEach`), with the token of its text there (`Says`), and what has no cell waits in the batch
  (`Holds`, `Waiting`). update_slots appends to `cache_tokens` when it fills the batch, long before the cells are
  found, and a view's cells are there from `FindCells` on although `i_view` moves only in `Sample`: `Placed` says which
  tokens wait;
- `InOrder`: what is in the batch are tokens of the texts, those of one slot in their order, so that all before a token are in cells when its
  view is computed;
- `TextOK`: `cache_tokens` agrees with the prompt as far as both go, unless the slot has not begun with its prompt, and is
  shorter than the slot's context;
- `RoundOK`: where `llama_decode` is when the server is not in it, and that a view for which there were no cells had more than one token.

Three lemmas about cells carry it: `ExactOccupy` (tokens that wait are put into empty cells), `ExactMove` (defragmentation moves a
cell) and `ExactChange` (`seq_rm` and `clear` cut the texts, the batch carries them on). `NeverGivesUp` is a count: texts
shorter than `SlotCtx`, one cell for a token, so a cell is free (`RoomLeft`), which is all that a view of one token needs.

**The queues of the server** (`ServerProofs`): for every set of requests with any number of prompts, streams or not,
every number of slots, batch size and length of the answers, and whatever the clients do,

- `ServerTypeCorrect`: `Spec => []TypeOK`;
- `ServerOnePlace`: `Spec => []TaskInOnePlace`;
- `ServerLosesNoTask`: `ASSUME ~ DecodeFails, ~ LaunchFails PROVE Spec => []TasksConserved`;
- `ServerLeavesNoResults`: `Spec => []ResultsHaveReaders`;
- `ServerGoesOn`: `Spec => []GenerationGoesOn`;
- `ServerStrandsNothing`: `Spec => []NothingStranded`, when no request names a slot and samplers can be made.

The assumptions are the cases in which the code does lose or strand tasks: a decode that fails for good
releases the slots without an answer, a sampler that cannot be made drops the task, and a named slot may be busy when
the release of another brings its task back. `server_slots` checks `NothingStranded` with named slots on its instance only.

The properties count elements of queues, so the proofs begin with what `Append`, `Tail`, `\o`, `RemoveAt` and the
filter `Kept` do to a count, and `Kept` is written without recursion for their sake (`KeptPicks`: it lists what is kept in
order). Then

- `TypeInv` is `TypeOK` with what the steps rely on: a deferred task is a completion, a slot at work has a task, `lru` lists
  every slot once, `batch.n_tokens` is at most the number of generating slots or `n_batch`;
- `RoundInv` follows the one `NEXT_RESPONSE` task: it is posted by `Update` and gone when the queue has been drained, so that the main
  thread, working on a round, has exactly one pending;
- `StrandInv`: while a task is deferred, a slot is at work, a completion is queued, or one is in hand: there is always a release
  or a launch to come;
- `PlacesInv`: no task has more than one place, and one not posted has none. For each action there is a lemma on `Places`
  (`MainPlaces`, `HttpPlaces`): a step moves a task, posts it, receives its final result, or drops it for one of the reasons in
  `Excused`;
- `CancelInv`, `WaitInv`: no cancellation of a task precedes the end of its request, and a request that can still receive waits for
  all its ids. So for a request that waits no task is `Excused`, and `ConservedInv` is a balance: each final result received takes one
  task out of `Lot`;
- `OrderInv`: nothing about a task comes after its final result, committed or not; since a result is sent for a
  running task only, which has no other place;
- `FinishedInv`: of as many tasks as final results have been received nothing will be heard again (`Dead`). The first result in the
  queue is taken, and by `OrderInv` it is the last of its task if it is final;
- `ReadInv`: a request that is about to end has left results behind for no task, or is a stream that was never begun.

**The barrier** (`BarrierProofs`): `BarrierIsRounds`, `BarrierSpec => R!Spec`: for every finite team of
more than one thread `ggml_barrier` implements `Rounds`. `BarrierInv` says what the counters mean: `round`
is `n_barrier_passed` for everyone but those who have not noticed the release, `n_barrier` counts the threads
that wait for the current barrier, and while one thread resets the counters all others wait.

**The pool** (`ThreadpoolProofs`): for every number of threads, every sequence of graphs, every number of
chunks, with polling or sleeping workers, aborts, pauses and `free`,

- `PoolTypeCorrect`: `Spec => []TypeOK`;
- `PartsComputedOnce`: `Spec => []EveryPartOnce`;
- `InputsAlwaysReady`: `Spec => []InputsReady`;
- `WorkersStayOut`: `Spec => []NoWorkerAccesses`;
- `PoolIsRounds`: `Spec => PoolImplementsRounds`: for the threads that are in every team (`Regulars`), the barriers of
  the pool are the rounds of `Rounds`, across nodes and graphs.

All five assume `NeverMoreThreads`: no graph is computed by more threads than the one before, after the clamp to the threads of
the pool (`Teams`). `WorkersStayOut` is false without it, as `tp_threads` shows (section 6, 4). llama.cpp passes `n_threads` and
`n_threads_batch`, which are the same unless the user asks for more. `PoolIsRounds` needs `SomeTeam` besides, that some graph may be
given to more than one thread: otherwise there are no barriers.

None of these is inductive: what a thread may do depends on where all the others are. `PoolInv` measures how far a
thread is by its *stage*, counted in barriers: node k begins with stage 2k, and behind the barrier inside a
`mul_mat` comes stage 2k + 1; who has not begun yet is at the first stage of the graph, who is done at 0. It says that

- all threads of the team are at the same stage (`Lockstep`), where one that is still in the wait of a complete
  barrier has, in effect, left it. That the main thread is done, stage 0, thus says that all workers are;
- `MainInv`, `ThreadsInv`: a thread in the graph is in the team and knows the graph and the number of threads, and a worker
  that is about to decide whether a graph is for it has seen the current one, or is not in its team;
- `n_barrier` is the number of threads waiting at the barrier of this stage, nobody is ahead of `n_barrier_passed`,
  and while the last to arrive resets the counters all others wait (`MeetInv`);
- `DataInv`, what has been computed at this stage: before the barrier inside a `mul_mat` the shares of `src1` of
  those that wait there; behind it each chunk below `current_chunk` but those in somebody's hands, of which no two
  are the same; of other nodes the parts of the threads that are past them.

The last thread at a barrier moves the whole team to the next stage in one step, whatever node each was at. `RoundInv` adds, for
the refinement, that `round` is `n_barrier_passed` for everyone but those who have not noticed the release.

**The heap** (`AllocProofs`): `HeapIsTiled`, `HeapSpec => []HeapTiled`: for every alignment, limit and
set of sizes, and every order of allocations and releases, live and free blocks tile the
address space, no two free blocks touch, and everything handed out lies below `max_size`. `HeapInv` adds that
nothing lies beyond the limit. The lemmas follow the code: a block is split in two (`Split`), a
released block is merged with its neighbours (`MergedFacts`, `MergedApart`).

**The planner** (`AllocProofs`): for every number of leafs and nodes, every graph `BuildNode` can build from
them, every set of shapes and every sequence of numbers of tokens,

- `SourcesAreIntact`: `ASSUME RepeatedAlike, SameTopology PROVE Spec => []SourcesIntact`;
- `OutputsKept`: `ASSUME SameTopology PROVE Spec => []OutputsSurvive`;
- `TensorsInBuffer`: `ASSUME SameTopology PROVE Spec => []BufferHolds`;
- `OwnersAgree`: `Spec => []OwnersMatchHeap`;
- `PlannedHeapIsTiled`: `Spec => []HeapTiled`;
- `BlocksAlwaysSuffice`: `Spec => []BlocksSuffice`.

The last three hold for graphs of any topology one after another, since they are about planning. The first three are about what
is computed at the offsets planned, and need the next graph to be the same but for its sizes: `galloc_topology` is a graph that is not.
`OutputsSurvive` excepts the outputs that are views of a tensor that is none and that a node reads (`ReadAway`): those the code
frees (`galloc_outputs`). `BufferHolds` is about a buffer that exists: `galloc_fail`. `BlocksSuffice` is a count: when the
block given back touches no free one, each free block in front of it ends at another block handed out and each behind it begins
at one, as no two free blocks touch; so there are fewer free blocks than blocks handed out.

They come from `GraphInvHolds`, `Spec => []GraphInv`, which holds

- `GraphOK`: a tensor comes after its sources, a view of a view is a view of the tensor viewed, no leaf goes unread;
- `WalkOK`: where the allocator is;
- `Counts`: `n_children` is the number of uses to come, and `n_views` that of the views with a use to come, or with none at all;
- `Kept`: a tensor visited that is an output, or whose counts are not zero, owns its memory, unless the node just visited has taken it
  over, being the last to read it (`Taken`);
- `Owned`: owners and blocks handed out correspond, one to one, and nothing visited ends above `max_size`;
- `OwnersAlone`: what was given memory after an owner has it elsewhere; for leafs, in either order (`LeafsApart`);
- `SourcesKept`: `SourcesIntact` for the nodes visited, in offsets and padded sizes;
- `PlanOK`: the same for what is remembered, with the sizes of the graph planned, and the graph of the moment fits in.

`SourcesIntact` says nothing while a graph is walked, hence the last two. That a node's sources are untouched until it is visited is in
`OwnersAlone` and `Kept` together: its sources are owners (`SourceOwned`), and whatever came after an owner lies elsewhere. That the owner
table is right when a view's last use frees the tensor viewed is in `Counts` (`CountsGoDown`: of the uses pending exactly one goes, of the
views that are still used at most one). Two results on the way: the code's guess that a parent of a node
may still want memory, *must be a leaf* in its comment, never comes true (`NodeIsWanted`), and no later graph can find
a leaf too small unnoticed, since `needs_realloc` looks at what nodes read and every leaf is read (`NoReallocInv`).

`RepeatedAlike` is about memory that a later graph shares as the planned one did: if the plan has a node overwrite a repeated operand of the same
size, that operand must not shrink alone. In llama.cpp's graphs a repeated operand has the tokens as a dimension as the
result has, or does not have them and is as large as the result for one token at most. Without the assumption TLC
finds a graph of two leafs and three nodes in which a node overwrites what it still has to repeat. `MCGraphAlloc` assumes it of the
shapes of the run.

*Only model-checked:* the liveness properties (`Answered`, `ComesToRest`, the ends of the searches and of a
defragmentation, the return of every `ggml_graph_compute`), which are beyond the prover, and what the assumptions above leave out.
Induction is used where it is over the model's own sets and numbers: the provers do not instantiate
the library's induction theorems, but a least element of a set that is well ordered (`LeastNat`) is a fact of
first order.

## 6. Where the code and its documentation disagree

1 to 4 are shown by a run, 5 to 11 by an instance of section 4:

1. **A view tried again is in the cache twice** (`slot_retry`). When the second ubatch of a view finds no
   cells, the tokens of the first stay in the cache: the comment on `llama_decode` promises that it is
   restored, but `llama_kv_slot_restorer` records slots that nothing reads. The server
   halves the view and decodes the same tokens again; from then on the slot has two cells for one position, and
   its tokens attend to both. It takes `n_ubatch` below `n_batch` and a fragmented cache.
2. **A cleared cache keeps its `cache_tokens`** (`slot_clear`). The first round that finds all slots
   idle clears the cache; if a request was served before it, its slot still lists the tokens, and the next
   prompt takes a prefix for computed that is gone. It needs a request to arrive before `start_loop`, which the
   HTTP threads allow; `EarlyTasks` says whether one does, and `slot_cache` assumes not.
3. **Cancelling does not remove a queued task** (`server_cancel`): it looks for tasks with that
   `id_target`, which completions do not have. The task runs to its end for a client that has left.
4. **A worker may still compute when the next graph is set up** (`tp_threads`). A worker left out of
   graph 1 that polls reads `n_graph`, is delayed, reads the `n_threads_cur` of graph 2, and takes part in it with
   `last_graph` one behind; afterwards it finds graph 2 new again, and runs it a second time while the main thread
   resets the pool for graph 3. It takes graphs with 2, 3 and 3 threads. In `threadpool`, where no
   worker is left out and wanted again, `NoWorkerAccesses` holds. The build with OpenMP has none of this.
5. **A lone empty prompt is not answered** (`server_empty`). The slot is released and the empty response put into
   `send_buffer`, but a round with an empty batch returns before the commit; the answer waits for another request's round.
6. **A stream that never began leaves its results behind** (`server_stream`). If the client leaves before the content provider has
   run, nothing cancels the tasks, and `remove_waiting_task_ids`, unlike `remove_waiting_task_id`, does not clean up
   `queue_results`. `ResultsHaveReaders` shows that nothing else is left behind.
7. **Requests are dropped with cells free** (`slot_full`). The scatter search needs `n_ubatch` free cells for a single token as well, so
   halving the views never helps; "the KV cache is full", says the comment where the server gives up.
8. **A batch that is given up is believed to be in the cache** (`slot_dropped`): its tokens stay in `cache_tokens`, and the next prompt
   that begins with them does not decode them.
9. **An output that is a view is freed** (`galloc_outputs`) with the last use of it, as part of the tensor it views, and the next node may
   be put there; `ggml-alloc.h` says that outputs are never freed or overwritten.
10. **Another topology is not noticed** (`galloc_topology`) by `ggml_gallocr_needs_realloc`, which compares counts and sizes, although
    `ggml-alloc.h` promises a reallocation. The callers in the repository that keep a plan build the same graph for each batch.
11. **A refused buffer is forgotten** (`galloc_fail`). The plan is stored before the buffer is allocated; the second attempt of
    `ggml_backend_sched_alloc_splits` ignores that it fails too, then finds the graph to fit the plan and puts its tensors into a buffer that
    is `NULL`, where `ggml-alloc.h` promises `false`.

Seen while modelling, not run:

- **A shift is never applied.** `llama.h` says lazily at the next decode; `llama_kv_cache_update` asserts
  there is none. The server never gets there (`NeverShifts`); other callers of `seq_add` may.
- **The debugging view** reads the capacity of the bitset for the number of sequences in a cell, so that
  an empty cache counts 32 tokens per cell.
- **A task for a slot that does not exist** is deferred for ever, and **a task whose sampler cannot be made**
  is dropped without an answer. `Defer` and `Launch` do what the code does; the instances avoid both so that
  the properties speak of the other tasks.
- **The sizes of leafs that no node reads** are not looked at by `ggml_gallocr_needs_realloc`. Callers build graphs with every leaf read.

## 7. Not modelled

- `llama_decode`: `split_equal` and embeddings, the output map, `llama_empty_run`, encoders, recurrent caches.
- `SlotCache`: decodes that fail for good, slots that share a prompt (there is no `seq_cp` in the server), speculative
  decoding.
- The pool: the OpenMP build, `mul_mat_id`, priorities and affinity, the kernels' arithmetic.
- The allocator: several buffers, tensors of size 0, the linear allocator of weights.
- Start-up and shutdown of the server; time stamps, metrics and logging.
- Numeric content (kernels, quantization, sampling distributions), text (tokenizer, templates, JSON), file formats
  and vendor drivers: no state to explore, or pure functions of large tables.
- What section 2 lists from 7 on is planned.
