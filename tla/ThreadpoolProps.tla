--------------------------- MODULE ThreadpoolProps ---------------------------
(***************************************************************************)
(* What the threads of a pool owe to the graph, to each other and to the   *)
(* thread that calls.                                                      *)
(***************************************************************************)
EXTENDS Threadpool

\* The parts node k of graph g is computed in, with n threads.
Parts(g, k, n) == IF Graphs[g].nodes[k] = "mul_mat" THEN 0 .. NChunks - 1 ELSE 0 .. n - 1

Whole(g, k, n) == \A p \in Parts(g, k, n) : computed[k][p] = 1

(***************************************************************************)
(* No part of a node is computed twice, and a call that returns without    *)
(* having been aborted has computed every part of every node.  The chunks  *)
(* of a mul_mat are handed out by a counter that one thread sets.          *)
(***************************************************************************)
EveryPartOnce ==
    /\ \A k \in Nodes, p \in AllParts : computed[k][p] <= 1
    /\ pc[0] = "idle" /\ n_graph > 0 /\ abort = 0 =>
           \A k \in DOMAIN Graphs[n_graph].nodes : Whole(n_graph, k, n_threads_cur)

(***************************************************************************)
(* A thread computes on what the others have finished: at a node, all      *)
(* earlier nodes are complete; at the product of a mul_mat, all threads    *)
(* have converted their share of src1, and none already converts the src1  *)
(* of a later node into the same work buffer.                              *)
(***************************************************************************)
InputsReady ==
    \A t \in Threads :
        /\ pc[t] \in {"work", "chunk"} =>
               \A k \in 1 .. node[t] - 1 : Whole(graph[t], k, nth[t])
        /\ pc[t] = "chunk" /\ chunk[t] < NChunks =>
               /\ prepared[node[t]] = 0 .. nth[t] - 1
               /\ \A k \in node[t] + 1 .. Len(Kinds(t)) : prepared[k] = {}

\* Where a worker may still be when the call it worked for has returned: in the
\* wait of the last barrier, or anywhere outside the graph.
Outside(w) ==
    \/ pc[w] \in WorkerPcs
    \/ pc[w] = "barrier" /\ ret[w] = "final" /\ at[w] = "wait" /\ n_passed[w] # n_barrier_passed

(***************************************************************************)
(* ggml-cpu.c:15505, where the graph, the plan and the counters are reset: *)
(* "No worker threads should be accessing the parameters below at this     *)
(* stage".                                                                 *)
(***************************************************************************)
NoWorkerAccesses == pc[0] = "reset" => \A w \in Workers : Outside(w)

\* The threads that take part in every graph that is not the main thread's alone.
Regulars == 0 .. Min((UNION {Teams(g) : g \in DOMAIN Graphs}) \ {1}) - 1

RR == INSTANCE Rounds WITH
        Team    <- Regulars,
        round   <- [t \in Regulars |-> round[t]],
        arrived <- {t \in Regulars : Arrived(t)}

(***************************************************************************)
(* The barriers of the pool implement the rounds of Rounds, for as long as *)
(* the pool lives: within a node, from node to node, and from graph to     *)
(* graph, with the stragglers of one graph still leaving its last barrier  *)
(* when the next begins, and with other threads joining and leaving.       *)
(***************************************************************************)
PoolImplementsRounds == RR!Spec

\* Every ggml_graph_compute returns: a worker is woken from whatever it waits
\* for, and no thread waits at a barrier that nobody completes.
GraphReturns == pc[0] = "reset" ~> pc[0] = "idle"

\* Every ggml_threadpool_free returns: polling, sleeping and resting workers
\* all see the flag.
FreeReturns == pc[0] = "unpause" ~> pc[0] = "freed"
=============================================================================
