------------------------------ MODULE Threadpool ------------------------------
(***************************************************************************)
(* The CPU thread pool of ggml-cpu.c (the build without OpenMP): the main  *)
(* thread hands a graph to the workers, all of them compute it node by     *)
(* node with a barrier after each, and the workers go back to polling or   *)
(* sleeping for the next.                                                  *)
(*                                                                         *)
(*   main    idle -> reset -> cur -> graph -> signal -> run ... -> idle    *)
(*           idle -> unpause -> join -> freed                      *)
(*   worker  top -> stop -> active -> flags <-> load -> mine -> run        *)
(*                             \--> lock <-> sleep                         *)
(*   both    run -> loop -> work -> barrier -> chunk -> after -> barrier   *)
(*                                                                         *)
(* Thread 0 is the main thread.  A step is one access to shared state, or  *)
(* a critical section of the mutex; the main thread's longer section, in   *)
(* which polling workers see every store, is held from "graph" to          *)
(* "signal".                                                               *)
(*                                                                         *)
(* A node is "plain" (each thread computes its share) or "mul_mat": the    *)
(* threads convert their share of src1 into the work buffer, meet, and     *)
(* take chunks of the product from the counter current_chunk.              *)
(***************************************************************************)
EXTENDS Integers, Sequences, SequencesExt, FiniteSetsExt, Barrier

CONSTANTS
    N,            \* n_threads_max
    Graphs,       \* the graphs computed: their nodes, and the n_threads a plan may ask for
    NChunks,      \* chunks of a mul_mat
    Aborts,       \* the caller has set an abort callback
    Pauses        \* how often the pool is paused (bounds the model)

Threads == 0 .. N - 1
Workers == Threads \ {0}
NNodes  == Max({Len(g.nodes) : g \in Range(Graphs)})
Nodes   == 1 .. NNodes

ASSUME PoolAssumption ==
    /\ N \in Nat \ {0}
    /\ Team = Threads
    /\ Graphs \in Seq([nodes : Seq({"plain", "mul_mat"}), n_threads : SUBSET (Nat \ {0})])
    /\ Graphs # <<>>
    /\ NChunks \in Nat \ {0}
    /\ Aborts \in BOOLEAN
    /\ Pauses \in Nat \ {0}

VARIABLES
    cgraph,         \* the graph to compute
    n_graph,        \* incremented for each graph
    n_threads_cur,  \* threads used in the current graph
    current_chunk,  \* the next chunk of the mul_mat at hand
    stop,
    pause,
    abort,          \* the node to stop before; 0 when there is none
    pc,             \* where each thread is
    ret,            \* what a thread in a barrier goes on with
    last_graph,     \* the graph a worker has seen last
    seen,           \* the local new_graph of a poll
    graph,          \* the local cgraph of the running computation
    nth,            \* and its params.nth
    node,           \* node_n, counted from 1
    chunk,          \* the local current_chunk of mul_mat
    prepared,       \* who has converted its share, per node (history)
    computed,       \* how often each part of a node was computed (history)
    paused          \* how often the pool was paused, or created so

poolvars == <<cgraph, n_graph, n_threads_cur, current_chunk, stop, pause, abort>>
workvars == <<graph, nth, node, chunk, prepared, computed>>
pollvars == <<last_graph, seen>>
vars == <<cgraph, n_graph, n_threads_cur, current_chunk, stop, pause, abort, pc, ret,
          last_graph, seen, graph, nth, node, chunk, prepared, computed, paused,
          n_barrier, n_barrier_passed, at, n_threads, n_passed, round>>

MainPcs   == {"idle", "reset", "cur", "graph", "signal", "unpause", "join", "freed"}
WorkerPcs == {"top", "stop", "active", "flags", "load", "mine", "lock", "sleep", "resting",
              "exited"}
GraphPcs  == {"run", "loop", "work", "chunk", "after", "barrier"}

AllParts == 0 .. Max({N, NChunks}) - 1

TypeOK ==
    /\ BarrierTypeOK /\ n_barrier <= N
    /\ cgraph \in 0 .. Len(Graphs) /\ n_graph \in 0 .. Len(Graphs)
    /\ n_threads_cur \in 1 .. N
    /\ current_chunk \in Nat
    /\ stop \in BOOLEAN /\ pause \in BOOLEAN
    /\ abort \in 0 .. NNodes + 1
    /\ pc \in [Threads -> MainPcs \cup WorkerPcs \cup GraphPcs]
    /\ ret \in [Threads -> {"chunk", "next", "final"}]
    /\ last_graph \in [Threads -> 0 .. Len(Graphs)]
    /\ seen \in [Threads -> 0 .. Len(Graphs)]
    /\ graph \in [Threads -> 0 .. Len(Graphs)]
    /\ nth \in [Threads -> 1 .. N]
    /\ node \in [Threads -> 1 .. NNodes + 1]
    /\ chunk \in [Threads -> Nat]
    /\ prepared \in [Nodes -> SUBSET Threads]
    /\ computed \in [Nodes -> [AllParts -> Nat]]
    /\ paused \in 0 .. Pauses

NothingComputed == [k \in Nodes |-> [p \in AllParts |-> 0]]

\* ggml_threadpool_new_impl.
Init ==
    /\ BarrierInit
    /\ cgraph = 0
    /\ n_graph = 0
    /\ n_threads_cur = N
    /\ current_chunk = 0
    /\ stop = FALSE
    /\ pause \in BOOLEAN
    /\ abort = 0
    /\ pc = [t \in Threads |-> IF t = 0 THEN "idle" ELSE "top"]
    /\ ret = [t \in Threads |-> "final"]
    /\ last_graph = [t \in Threads |-> 0]
    /\ seen = [t \in Threads |-> 0]
    /\ graph = [t \in Threads |-> 0]
    /\ nth = [t \in Threads |-> 1]
    /\ node = [t \in Threads |-> 1]
    /\ chunk = [t \in Threads |-> 0]
    /\ prepared = [k \in Nodes |-> {}]
    /\ computed = NothingComputed
    /\ paused = IF pause THEN 1 ELSE 0

\* The numbers of threads graph g may be computed with: no more than there are.
Teams(g) == {Min({n, N}) : n \in Graphs[g].n_threads}

Step(t, from, to) == pc[t] = from /\ pc' = [pc EXCEPT ![t] = to]

MutexFree == pc[0] \notin {"graph", "signal", "unpause"}

\* Mutant of Broadcast: only those who wait for work are woken.
BroadcastToSleepers(to) ==
    pc' = [t \in Threads |-> IF t = 0 THEN to ELSE IF pc[t] = "sleep" THEN "lock" ELSE pc[t]]

\* ggml_cond_broadcast, with the main thread going on: sleepers look for work
\* again, those resting in a pause start their loop again.
Broadcast(to) ==
    pc' = [t \in Threads |-> IF t = 0 THEN to
                             ELSE IF pc[t] = "sleep" THEN "lock"
                             ELSE IF pc[t] = "resting" THEN "top" ELSE pc[t]]

-----------------------------------------------------------------------------
(* The main thread: ggml_graph_compute and ggml_graph_compute_kickoff.     *)

\* A call, if the program has another graph to compute.
BeginGraph ==
    /\ Step(0, "idle", "reset")
    /\ n_graph < Len(Graphs)
    /\ UNCHANGED <<poolvars, ret, pollvars, workvars, paused, barriervars>>

\* "No worker threads should be accessing the parameters below at this stage".
ResetGraph ==
    /\ Step(0, "reset", "cur")
    /\ cgraph' = n_graph + 1
    /\ current_chunk' = 0
    /\ abort' = 0
    /\ prepared' = [k \in Nodes |-> {}]
    /\ computed' = NothingComputed
    /\ UNCHANGED <<n_graph, n_threads_cur, stop, pause, ret, pollvars, graph, nth, node,
                   chunk, paused, barriervars>>

\* Take the mutex and set the number of threads...
SetThreads ==
    /\ Step(0, "cur", "graph")
    /\ n_threads_cur' \in Teams(cgraph)
    /\ UNCHANGED <<cgraph, n_graph, current_chunk, stop, pause, abort, ret, pollvars, workvars,
                   paused, barriervars>>

\* ...announce the graph...
AnnounceGraph ==
    /\ Step(0, "graph", "signal")
    /\ n_graph' = n_graph + 1
    /\ UNCHANGED <<cgraph, n_threads_cur, current_chunk, stop, pause, abort, ret, pollvars,
                   workvars, paused, barriervars>>

\* Mutant of Signal: the workers are woken only if the pool was paused.
SignalIfPaused ==
    /\ pc[0] = "signal"
    /\ pause' = FALSE
    /\ IF pause THEN Broadcast("run") ELSE Step(0, "signal", "run")
    /\ UNCHANGED <<cgraph, n_graph, n_threads_cur, current_chunk, stop, abort, ret, pollvars,
                   workvars, paused, barriervars>>

\* ...resume a paused pool, wake everyone, and release the mutex.
Signal ==
    /\ pc[0] = "signal"
    /\ pause' = FALSE
    /\ Broadcast("run")
    /\ UNCHANGED <<cgraph, n_graph, n_threads_cur, current_chunk, stop, abort, ret, pollvars,
                   workvars, paused, barriervars>>

\* ggml_threadpool_pause, when another pool is set, and ggml_threadpool_resume.
Pause ==
    /\ pc[0] = "idle" /\ paused < Pauses
    /\ ~ pause /\ pause' = TRUE
    /\ paused' = paused + 1
    /\ Broadcast("idle")
    /\ UNCHANGED <<cgraph, n_graph, n_threads_cur, current_chunk, stop, abort, ret, pollvars,
                   workvars, barriervars>>

Resume ==
    /\ pc[0] = "idle"
    /\ pause /\ pause' = FALSE
    /\ Broadcast("idle")
    /\ UNCHANGED <<cgraph, n_graph, n_threads_cur, current_chunk, stop, abort, ret, pollvars,
                   workvars, paused, barriervars>>

\* ggml_threadpool_free: two stores under the mutex, then the joins.
SetStop ==
    /\ Step(0, "idle", "unpause")
    /\ stop' = TRUE
    /\ UNCHANGED <<cgraph, n_graph, n_threads_cur, current_chunk, pause, abort, ret, pollvars,
                   workvars, paused, barriervars>>

ClearPause ==
    /\ pc[0] = "unpause"
    /\ pause' = FALSE
    /\ Broadcast("join")
    /\ UNCHANGED <<cgraph, n_graph, n_threads_cur, current_chunk, stop, abort, ret, pollvars,
                   workvars, paused, barriervars>>

Join ==
    /\ Step(0, "join", "freed")
    /\ \A w \in Workers : pc[w] = "exited"
    /\ UNCHANGED <<poolvars, ret, pollvars, workvars, paused, barriervars>>

-----------------------------------------------------------------------------
(* The workers: ggml_graph_compute_secondary_thread.                       *)

Active(w) == w < n_threads_cur

\* while (threadpool->pause), read without the mutex and again with it.
Top(w) ==
    /\ pc[w] = "top"
    /\ IF ~ pause THEN Step(w, "top", "stop")
       ELSE MutexFree /\ Step(w, "top", "resting")
    /\ UNCHANGED <<poolvars, ret, pollvars, workvars, paused, barriervars>>

\* if (threadpool->stop) break
StopCheck(w) ==
    /\ Step(w, "stop", IF stop THEN "exited" ELSE "active")
    /\ UNCHANGED <<poolvars, ret, pollvars, workvars, paused, barriervars>>

\* Unused threads skip polling.
ActiveCheck(w) ==
    /\ Step(w, "active", IF Active(w) THEN "flags" ELSE "lock")
    /\ UNCHANGED <<poolvars, ret, pollvars, workvars, paused, barriervars>>

\* A turn of the polling loop: the flags end it...
PollFlags(w) ==
    /\ Step(w, "flags", IF stop \/ pause THEN "lock" ELSE "load")
    /\ UNCHANGED <<poolvars, ret, pollvars, workvars, paused, barriervars>>

\* ...n_graph is compared with the last graph (no news: on to the next turn,
\* or to sleep once all rounds are used up)...
PollGraph(w) ==
    /\ IF n_graph # last_graph[w]
       THEN Step(w, "load", "mine")
       ELSE Step(w, "load", "flags") \/ Step(w, "load", "lock")
    /\ seen' = [seen EXCEPT ![w] = n_graph]
    /\ UNCHANGED <<poolvars, ret, last_graph, workvars, paused, barriervars>>

\* ...and a new graph is this worker's if it is active.
PollMine(w) ==
    /\ IF Active(w) THEN Step(w, "mine", "run")
       ELSE Step(w, "mine", "flags") \/ Step(w, "mine", "lock")
    /\ last_graph' = [last_graph EXCEPT ![w] = seen[w]]
    /\ UNCHANGED <<poolvars, ret, seen, workvars, paused, barriervars>>

\* The second part of check_for_work, under the mutex: go back on a flag, take
\* a new graph, or sleep.
LockAndCheck(w) ==
    /\ pc[w] = "lock" /\ MutexFree
    /\ IF stop \/ pause
       THEN Step(w, "lock", "top") /\ UNCHANGED last_graph
       ELSE /\ last_graph' = [last_graph EXCEPT ![w] = n_graph]
            /\ Step(w, "lock", IF n_graph # last_graph[w] /\ Active(w) THEN "run" ELSE "sleep")
    /\ UNCHANGED <<poolvars, ret, seen, workvars, paused, barriervars>>

WorkerStep(w) ==
    \/ Top(w)
    \/ StopCheck(w)
    \/ ActiveCheck(w)
    \/ PollFlags(w)
    \/ PollGraph(w)
    \/ PollMine(w)
    \/ LockAndCheck(w)

-----------------------------------------------------------------------------
(* ggml_graph_compute_thread, run by the main thread and the workers.      *)

\* Read the plan.
RunGraph(t) ==
    /\ Step(t, "run", "loop")
    /\ graph' = [graph EXCEPT ![t] = cgraph]
    /\ nth' = [nth EXCEPT ![t] = n_threads_cur]
    /\ node' = [node EXCEPT ![t] = 1]
    /\ UNCHANGED <<poolvars, ret, pollvars, chunk, prepared, computed, paused, barriervars>>

Kinds(t) == Graphs[graph[t]].nodes

\* The condition of the loop over the nodes; after it, the last barrier.
NodeLoop(t) ==
    /\ pc[t] = "loop"
    /\ IF node[t] <= Len(Kinds(t)) /\ abort # node[t]
       THEN Step(t, "loop", "work") /\ UNCHANGED ret
       ELSE Step(t, "loop", "barrier") /\ ret' = [ret EXCEPT ![t] = "final"]
    /\ UNCHANGED <<poolvars, pollvars, workvars, paused, barriervars>>

Compute(k, p) == computed' = [computed EXCEPT ![k][p] = @ + 1]

\* A plain node: the thread's share of it.
WorkPlain(t) ==
    /\ Step(t, "work", "after")
    /\ Kinds(t)[node[t]] = "plain"
    /\ Compute(node[t], t)
    /\ UNCHANGED <<poolvars, ret, pollvars, graph, nth, node, chunk, prepared, paused, barriervars>>

\* Mutant of FirstChunk: the threads' own chunks are handed out again.
FirstChunkFromZero(t) == 0

\* Every thread starts at the chunk of its own number.
FirstChunk(t) == nth[t]

\* mul_mat up to its barrier: the share of src1; thread 0 sets the counter.
WorkMulMat(t) ==
    /\ Step(t, "work", "barrier")
    /\ Kinds(t)[node[t]] = "mul_mat"
    /\ prepared' = [prepared EXCEPT ![node[t]] = @ \cup {t}]
    /\ current_chunk' = IF t = 0 THEN FirstChunk(t) ELSE current_chunk
    /\ ret' = [ret EXCEPT ![t] = "chunk"]
    /\ UNCHANGED <<cgraph, n_graph, n_threads_cur, stop, pause, abort, pollvars, graph, nth, node,
                   chunk, computed, paused, barriervars>>

\* One turn of the loop over the chunks: compute it and fetch the next.
WorkChunk(t) ==
    /\ pc[t] = "chunk" /\ chunk[t] < NChunks
    /\ Compute(node[t], chunk[t])
    /\ IF nth[t] >= NChunks
       THEN Step(t, "chunk", "after") /\ UNCHANGED <<chunk, current_chunk>>
       ELSE /\ chunk' = [chunk EXCEPT ![t] = current_chunk]
            /\ current_chunk' = current_chunk + 1
            /\ UNCHANGED pc
    /\ UNCHANGED <<cgraph, n_graph, n_threads_cur, stop, pause, abort, ret, pollvars, graph,
                   nth, node, prepared, paused, barriervars>>

NoChunkLeft(t) ==
    /\ Step(t, "chunk", "after")
    /\ chunk[t] >= NChunks
    /\ UNCHANGED <<poolvars, ret, pollvars, workvars, paused, barriervars>>

\* Mutant of AbortAt: the others stop at this node, which they have begun.
AbortHere(t) == node[t]

AbortAt(t) == node[t] + 1

\* After a node: the main thread asks the abort callback; the last node has
\* no barrier of its own.
AfterNode(t) ==
    /\ pc[t] = "after"
    /\ \/ abort' = abort
       \/ t = 0 /\ Aborts /\ abort' = AbortAt(t)
    /\ IF node[t] < Len(Kinds(t))
       THEN /\ Step(t, "after", "barrier")
            /\ ret' = [ret EXCEPT ![t] = "next"]
            /\ UNCHANGED node
       ELSE /\ Step(t, "after", "loop")
            /\ node' = [node EXCEPT ![t] = @ + 1]
            /\ UNCHANGED ret
    /\ UNCHANGED <<cgraph, n_graph, n_threads_cur, current_chunk, stop, pause, pollvars, graph, nth,
                   chunk, prepared, computed, paused, barriervars>>

\* What a thread goes on with behind a barrier.
Return(t) ==
    /\ pc' = [pc EXCEPT ![t] = CASE ret[t] = "chunk" -> "chunk"
                                 [] ret[t] = "next"  -> "loop"
                                 [] OTHER            -> IF t = 0 THEN "idle" ELSE "top"]
    /\ chunk' = [chunk EXCEPT ![t] = IF ret[t] = "chunk" THEN t ELSE @]
    /\ node' = [node EXCEPT ![t] = IF ret[t] = "next" THEN @ + 1 ELSE @]
    /\ UNCHANGED <<poolvars, ret, pollvars, graph, nth, prepared, computed, paused>>

InBarrier(t) ==
    /\ pc[t] = "barrier"
    /\ BarrierStep(t, n_threads_cur)
    /\ UNCHANGED <<poolvars, pc, ret, pollvars, workvars, paused>>

OutOfBarrier(t) ==
    /\ pc[t] = "barrier"
    /\ BarrierReturn(t)
    /\ Return(t)

\* A thread alone does not wait.
NoBarrier(t) ==
    /\ pc[t] = "barrier" /\ n_threads_cur = 1 /\ at[t] = "out"
    /\ Return(t)
    /\ UNCHANGED barriervars

GraphStep(t) ==
    \/ RunGraph(t)
    \/ NodeLoop(t)
    \/ WorkPlain(t)
    \/ WorkMulMat(t)
    \/ WorkChunk(t)
    \/ NoChunkLeft(t)
    \/ AfterNode(t)
    \/ InBarrier(t)
    \/ OutOfBarrier(t)
    \/ NoBarrier(t)

\* A call of the main thread that has begun, step by step.
MainStep ==
    \/ ResetGraph
    \/ SetThreads
    \/ AnnounceGraph
    \/ Signal
    \/ ClearPause
    \/ Join
    \/ GraphStep(0)

Freed == pc[0] = "freed" /\ UNCHANGED vars

Next ==
    \/ BeginGraph
    \/ Pause
    \/ Resume
    \/ SetStop
    \/ MainStep
    \/ \E w \in Workers : WorkerStep(w) \/ GraphStep(w)
    \/ Freed

Spec == Init /\ [][Next]_vars

\* Every thread that can go on does.
FairSpec ==
    /\ Spec
    /\ WF_vars(MainStep)
    /\ \A w \in Workers : WF_vars(WorkerStep(w) \/ GraphStep(w))
=============================================================================
