--------------------------- MODULE ThreadpoolProofs ---------------------------
(***************************************************************************)
(* What the threads of the CPU pool owe to each other, for every number of *)
(* threads, every sequence of graphs whose number of threads never grows,  *)
(* and every interleaving.                                                 *)
(*                                                                         *)
(* The stage of a thread is how far it is in the graph, counted in         *)
(* barriers: node k begins with stage 2k, and behind the barrier inside a  *)
(* mul_mat comes stage 2k + 1.  A thread that has not begun yet is at      *)
(* stage 2, with the first node; one that is done is at stage 0.  A thread *)
(* that is still in the wait of a barrier that is complete has, in         *)
(* effect, left it.  The invariant says that all threads of the graph are  *)
(* at the same stage (Lockstep), what each may do there (ThreadInv), that  *)
(* the counters of the barrier move all of them on together (MeetInv), and *)
(* what has been computed at that stage (DataInv).                         *)
(***************************************************************************)
EXTENDS ThreadpoolProps, FiniteSetTheorems, WellFoundedInduction, TLAPS

(***************************************************************************)
(* No graph is computed by more threads than the one before it.  llama.cpp *)
(* passes two numbers, n_threads and n_threads_batch, the second of which  *)
(* is the first unless the user asks for more; where they differ, the run  *)
(* tp_threads shows that a worker may begin a graph early.                 *)
(***************************************************************************)
NeverMoreThreads ==
    \A g \in DOMAIN Graphs : g + 1 \in DOMAIN Graphs =>
        \A m \in Teams(g), n \in Teams(g + 1) : n <= m

-----------------------------------------------------------------------------
(* Stages.                                                                 *)

Party == 0 .. n_threads_cur - 1

\* The nodes of the current graph.
NLen == Len(Graphs[cgraph].nodes)
IsMul(k) == Graphs[cgraph].nodes[k] = "mul_mat"

\* In the wait of a barrier that is complete.
Gone(t) == at[t] = "wait" /\ n_passed[t] # n_barrier_passed

InGraph(t) == pc[t] \in GraphPcs /\ ~ (pc[t] = "barrier" /\ ret[t] = "final" /\ Gone(t))

OutStage(t) ==
    IF t = 0 THEN (IF pc[t] = "signal" THEN 2 ELSE 0)
    ELSE IF last_graph[t] # n_graph THEN 2 ELSE 0

\* The last stage of node k, and the stage of a thread about to begin it.
EndStage(k)  == IF IsMul(k) THEN 2 * k + 1 ELSE 2 * k
LoopStage(k) == IF k > NLen /\ k > 1 THEN EndStage(NLen) ELSE 2 * k

BarrierStage(t) ==
    IF ret[t] = "chunk" THEN (IF Gone(t) THEN 2 * node[t] + 1 ELSE 2 * node[t])
    ELSE IF ret[t] = "next" THEN (IF Gone(t) THEN 2 * (node[t] + 1) ELSE EndStage(node[t]))
    ELSE LoopStage(node[t])

Stage(t) ==
    IF ~ InGraph(t) THEN OutStage(t)
    ELSE IF pc[t] = "run" THEN 2
    ELSE IF pc[t] = "barrier" THEN BarrierStage(t)
    ELSE IF pc[t] = "chunk" THEN 2 * node[t] + 1
    ELSE IF pc[t] = "after" THEN EndStage(node[t])
    ELSE LoopStage(node[t])

Lockstep == \A t \in Party : Stage(t) = Stage(0)

-----------------------------------------------------------------------------
(* What holds of the main thread and of each thread.                       *)

MainInv ==
    /\ pc[0] \in MainPcs \cup GraphPcs
    /\ pc[0] = "reset" => n_graph < Len(Graphs)
    /\ cgraph = IF pc[0] \in {"cur", "graph"} THEN n_graph + 1 ELSE n_graph
    /\ pc[0] \in GraphPcs \cup {"signal"} => n_graph > 0
    /\ pc[0] = "graph" => n_threads_cur \in Teams(cgraph)
    /\ pc[0] # "graph" => IF n_graph = 0 THEN n_threads_cur = N
                          ELSE n_threads_cur \in Teams(n_graph)
    /\ n_threads_cur = 1 => at[0] = "out"

\* Where in the graph a thread is, and what it knows of it.
Within(t) ==
    /\ t < n_threads_cur /\ n_graph > 0
    /\ pc[t] # "run" => graph[t] = cgraph /\ nth[t] = n_threads_cur /\ node[t] <= NLen + 1
    /\ pc[t] \in {"work", "chunk", "after"} => node[t] <= NLen /\ abort # node[t]
    /\ pc[t] = "chunk" => IsMul(node[t])
    /\ pc[t] = "barrier" /\ ret[t] = "chunk" =>
            node[t] <= NLen /\ IsMul(node[t]) /\ abort # node[t]
    /\ pc[t] = "barrier" /\ ret[t] = "next" =>
            node[t] < NLen /\ (~ Gone(t) => abort # node[t])
    /\ pc[t] = "barrier" /\ ret[t] = "final" => node[t] = NLen + 1 \/ abort = node[t]

ThreadInv(t) ==
    /\ at[t] # "out" => pc[t] = "barrier"
    /\ InGraph(t) => Within(t)

WorkerInv(w) ==
    /\ pc[w] \in WorkerPcs \cup GraphPcs
    /\ InGraph(w) => last_graph[w] = n_graph
    /\ last_graph[w] <= n_graph /\ seen[w] <= n_graph
    /\ pc[w] = "mine" => /\ last_graph[w] < seen[w]
                         /\ w < n_threads_cur => seen[w] = n_graph

ThreadsInv == (\A t \in Threads : ThreadInv(t)) /\ (\A w \in Workers : WorkerInv(w))

-----------------------------------------------------------------------------
(* The barrier, whose party changes from graph to graph.                   *)

Waiting == {t \in Threads : at[t] = "wait" /\ n_passed[t] = n_barrier_passed}

IsLast(t) == at[t] \in {"reset", "pass"}

MeetInv ==
    /\ \A t \in Threads : at[t] \in {"load", "enter"} => n_threads[t] = n_threads_cur
    /\ \A t \in Threads : at[t] \in {"enter", "reset", "pass"} => n_passed[t] = n_barrier_passed
    /\ \A t \in Threads : n_passed[t] <= n_barrier_passed
    /\ \A t \in Threads : IsLast(t) => \A u \in Party : u # t => u \in Waiting
    /\ (\A t \in Threads : ~ IsLast(t)) => n_barrier = Cardinality(Waiting)
    /\ \A t \in Threads : at[t] = "pass" => n_barrier = 0

\* How often a regular has been through a barrier.
RoundInv ==
    \A t \in Regulars :
        /\ at[t] # "wait" => round[t] = n_barrier_passed
        /\ at[t] = "wait" => round[t] = n_passed[t]
                             /\ n_passed[t] \in {n_barrier_passed, n_barrier_passed - 1}

-----------------------------------------------------------------------------
(* What has been computed.                                                 *)

Blank(k) == prepared[k] = {} /\ \A p \in AllParts : computed[k][p] = 0

Finished(k) ==
    \A p \in AllParts :
        computed[k][p] = IF p \in Parts(cgraph, k, n_threads_cur) THEN 1 ELSE 0

\* A thread is through with node k, which not all are.
Past(t, k) ==
    /\ InGraph(t) /\ pc[t] # "run"
    /\ \/ node[t] > k
       \/ node[t] = k /\ pc[t] = "after"
       \/ node[t] = k /\ pc[t] = "barrier" /\ ret[t] = "next"

\* It has converted its share of src1 and waits for the others.
Converted(t, k) == InGraph(t) /\ node[t] = k /\ pc[t] = "barrier" /\ ret[t] = "chunk"

\* It has chunk p in its hands, or will take it up behind the barrier.
Holds(t, k, p) ==
    \/ InGraph(t) /\ node[t] = k /\ pc[t] = "chunk" /\ chunk[t] = p
    \/ Converted(t, k) /\ t = p

PlainInv(k) ==
    \A p \in AllParts : computed[k][p] = IF p \in Party /\ Past(p, k) THEN 1 ELSE 0

ConvertInv(k) ==
    /\ \A p \in AllParts : computed[k][p] = 0
    /\ prepared[k] = {t \in Party : Converted(t, k)}
    /\ Converted(0, k) => current_chunk = n_threads_cur

ChunkInv(k) ==
    /\ prepared[k] = Party
    /\ current_chunk >= n_threads_cur
    /\ \A t \in Party : InGraph(t) /\ node[t] = k /\ pc[t] = "chunk" => chunk[t] < current_chunk
    /\ \A t, u \in Party : \A p \in AllParts : Holds(t, k, p) /\ Holds(u, k, p) => t = u
    /\ \A t \in Party : Past(t, k) => current_chunk >= NChunks
    /\ \A p \in AllParts :
        computed[k][p] = IF /\ p < NChunks /\ p < current_chunk
                            /\ \A t \in Party : ~ Holds(t, k, p)
                         THEN 1 ELSE 0

\* Node k, when the threads are at stage s.
NodeInv(k, s) ==
    /\ k > NLen \/ 2 * k > s => Blank(k)
    /\ k <= NLen /\ EndStage(k) < s => Finished(k)
    /\ k <= NLen /\ ~ IsMul(k) /\ s = 2 * k => PlainInv(k)
    /\ k <= NLen /\ IsMul(k) /\ s = 2 * k => ConvertInv(k)
    /\ k <= NLen /\ IsMul(k) /\ s = 2 * k + 1 => ChunkInv(k)

DataInv ==
    /\ \A k \in Nodes, p \in AllParts : computed[k][p] <= 1
    /\ Stage(0) # 0 => \A k \in Nodes : NodeInv(k, Stage(0))
    /\ pc[0] \in {"cur", "graph"} => abort = 0 /\ \A k \in Nodes : Blank(k)
    /\ Stage(0) = 0 /\ n_graph > 0 /\ pc[0] \notin {"cur", "graph"} /\ abort = 0 =>
            \A k \in 1 .. NLen : Whole(cgraph, k, n_threads_cur)

PoolInv ==
    /\ TypeOK
    /\ MainInv
    /\ ThreadsInv
    /\ Lockstep
    /\ MeetInv
    /\ DataInv

-----------------------------------------------------------------------------
(* Constants.                                                              *)

\* A finite set of naturals that is not empty has a maximum: of the sets of
\* what is greater than one of its elements, a smallest one is empty.
LEMMA MaxIsMax ==
    ASSUME NEW S, IsFiniteSet(S), S \subseteq Nat, S # {}
    PROVE  Max(S) \in S /\ \A y \in S : y <= Max(S)
<1> DEFINE Above(x) == {y \in S : y > x}
           F == {Above(x) : x \in S}
<1>1. F \subseteq FiniteSubsetsOf(S)
  <2>1. \A x \in S : Above(x) \in SUBSET S /\ IsFiniteSet(Above(x))
    BY FS_Subset
  <2> QED  BY <2>1 DEF FiniteSubsetsOf
<1>2. F # {}
    OBVIOUS
<1>3. PICK T \in F : \A U \in F : ~ (<<U, T>> \in StrictSubsetOrdering(S))
  <2> HIDE DEF F
  <2> QED  BY <1>1, <1>2, FS_StrictSubsetOrderingWellFounded, WFMin
<1>4. PICK x \in S : T = Above(x)
    BY <1>3
<1>5. Above(x) = {}
  <2> SUFFICES ASSUME NEW y \in Above(x) PROVE FALSE
    OBVIOUS
  <2>1. y \in S /\ y > x /\ Above(y) \in F
    OBVIOUS
  <2>2. Above(y) \subseteq Above(x) /\ y \notin Above(y)
    <3>1. x \in Nat /\ y \in Nat /\ ~ (y > y)
        BY <2>1
    <3>2. \A z \in S : z \in Nat /\ (z > y => z > x)
        BY <2>1, <3>1
    <3> QED  BY <3>1, <3>2
  <2>3. Above(y) # Above(x)
    BY <2>2
  <2>4. Above(y) \in SUBSET S /\ Above(x) \in SUBSET S
    OBVIOUS
  <2> HIDE DEF Above, F
  <2>5. <<Above(y), Above(x)>> \in StrictSubsetOrdering(S)
    BY <2>2, <2>3, <2>4 DEF StrictSubsetOrdering
  <2> QED  BY <1>3, <1>4, <2>1, <2>5
<1>6. \A y \in S : x >= y
    BY <1>5
<1> QED  BY <1>6 DEF Max

\* A set of naturals that is not empty has a minimum.
LEMMA MinIsMin ==
    ASSUME NEW S, S \subseteq Nat, S # {}
    PROVE  Min(S) \in S /\ \A y \in S : Min(S) <= y
<1>1. PICK x \in S : \A y \in S : ~ (<<y, x>> \in OpToRel(<, Nat))
    BY NatLessThanWellFounded, WFMin
<1>2. \A y \in S : ~ (y < x)
    BY <1>1 DEF OpToRel
<1>3. \A y \in S : x <= y
    BY <1>2
<1> QED  BY <1>3 DEF Min

LEMMA Constants ==
    /\ N \in Nat /\ N > 1 /\ NChunks \in Nat /\ NChunks > 0
    /\ 0 \in Threads /\ Threads \subseteq Nat /\ Workers \subseteq Threads
    /\ Threads \subseteq AllParts /\ 0 .. NChunks - 1 \subseteq AllParts /\ AllParts \subseteq Nat
    /\ NNodes \in Nat /\ Nodes = 1 .. NNodes
    /\ Len(Graphs) \in Nat /\ DOMAIN Graphs = 1 .. Len(Graphs)
    /\ \A g \in 1 .. Len(Graphs) :
        /\ Teams(g) \subseteq 1 .. N
        /\ Len(Graphs[g].nodes) \in 0 .. NNodes
        /\ DOMAIN Graphs[g].nodes = 1 .. Len(Graphs[g].nodes)
        /\ \A k \in 1 .. Len(Graphs[g].nodes) : Graphs[g].nodes[k] \in {"plain", "mul_mat"}
<1>1. /\ N \in Nat \ {0} /\ NChunks \in Nat \ {0} /\ Team = 0 .. N - 1 /\ Graphs # <<>>
      /\ Graphs \in Seq([nodes : Seq({"plain", "mul_mat"}), n_threads : SUBSET (Nat \ {0})])
    BY PoolAssumption DEF Threads
<1>2. Cardinality(Team) = N
  <2>1. Cardinality(0 .. N - 1) = (N - 1) - 0 + 1
    BY <1>1, FS_Interval
  <2> QED  BY <1>1, <2>1
<1>3. N > 1
    BY <1>2, TeamAssumption
<1>4. /\ Len(Graphs) \in Nat /\ DOMAIN Graphs = 1 .. Len(Graphs) /\ Len(Graphs) > 0
      /\ \A g \in 1 .. Len(Graphs) :
            Graphs[g] \in [nodes : Seq({"plain", "mul_mat"}), n_threads : SUBSET (Nat \ {0})]
  <2> DEFINE G == [nodes : Seq({"plain", "mul_mat"}), n_threads : SUBSET (Nat \ {0})]
  <2>1. Graphs \in Seq(G) /\ Graphs # <<>>
    BY <1>1
  <2> HIDE DEF G
  <2>2. /\ Len(Graphs) \in Nat /\ DOMAIN Graphs = 1 .. Len(Graphs) /\ Len(Graphs) # 0
        /\ \A g \in 1 .. Len(Graphs) : Graphs[g] \in G
    BY <2>1
  <2> QED  BY <2>2 DEF G
<1>15. ASSUME NEW g \in 1 .. Len(Graphs) PROVE Teams(g) \subseteq 1 .. N
  <2>1. Graphs[g].n_threads \subseteq Nat \ {0}
    BY <1>4
  <2>2. ASSUME NEW n \in Nat \ {0} PROVE Min({n, N}) \in 1 .. N
    <3>1. Min({n, N}) \in {n, N} /\ \A y \in {n, N} : Min({n, N}) <= y
        BY <1>1, MinIsMin
    <3> QED  BY <1>1, <3>1
  <2> QED  BY <2>1, <2>2 DEF Teams
<1>5. \A g \in 1 .. Len(Graphs) :
        /\ Teams(g) \subseteq 1 .. N
        /\ Len(Graphs[g].nodes) \in Nat
        /\ DOMAIN Graphs[g].nodes = 1 .. Len(Graphs[g].nodes)
        /\ \A k \in 1 .. Len(Graphs[g].nodes) : Graphs[g].nodes[k] \in {"plain", "mul_mat"}
    BY <1>4, <1>15
<1> DEFINE L == {Len(g.nodes) : g \in Range(Graphs)}
           f == [g \in 1 .. Len(Graphs) |-> Len(Graphs[g].nodes)]
<1>6. L = {f[g] : g \in 1 .. Len(Graphs)}
    BY <1>4 DEF Range
<1>7. IsFiniteSet(L)
  <2>1. IsFiniteSet(1 .. Len(Graphs))
    BY <1>4, FS_Interval
  <2>2. f \in Surjection(1 .. Len(Graphs), L)
    BY <1>6 DEF Surjection
  <2> HIDE DEF L, f
  <2> QED  BY <2>1, <2>2, FS_Surjection
<1>8. L \subseteq Nat /\ L # {} /\ \A g \in 1 .. Len(Graphs) : Len(Graphs[g].nodes) \in L
  <2>1. \A g \in 1 .. Len(Graphs) : f[g] \in Nat /\ f[g] = Len(Graphs[g].nodes)
    BY <1>5
  <2>2. 1 \in 1 .. Len(Graphs)
    BY <1>4
  <2> HIDE DEF L, f
  <2> QED  BY <1>6, <2>1, <2>2
<1>9. NNodes \in Nat /\ \A n \in L : n <= NNodes
  <2> HIDE DEF L
  <2>1. Max(L) \in L /\ \A n \in L : n <= Max(L)
    BY <1>7, <1>8, MaxIsMax
  <2> QED  BY <2>1, <1>8 DEF NNodes, L
<1>10. Max({N, NChunks}) \in Nat /\ N <= Max({N, NChunks}) /\ NChunks <= Max({N, NChunks})
  <2> DEFINE S == {N, NChunks}
  <2>1. IsFiniteSet(S)
    <3>1. IsFiniteSet(0 .. N + NChunks)
      BY <1>1, FS_Interval
    <3>2. S \in SUBSET (0 .. N + NChunks)
      BY <1>1
    <3> QED  BY <3>1, <3>2, FS_Subset
  <2>2. S \subseteq Nat /\ S # {}
    BY <1>1
  <2>3. Max(S) \in S /\ \A y \in S : y <= Max(S)
    BY <2>1, <2>2, MaxIsMax
  <2> QED  BY <2>2, <2>3
<1>11. /\ 0 \in Threads /\ Threads \subseteq Nat /\ Workers \subseteq Threads
       /\ Threads \subseteq AllParts /\ 0 .. NChunks - 1 \subseteq AllParts /\ AllParts \subseteq Nat
  <2> DEFINE M == Max({N, NChunks})
  <2>1. AllParts = 0 .. M - 1 /\ M \in Nat /\ N <= M /\ NChunks <= M
    BY <1>10 DEF AllParts
  <2> HIDE DEF M
  <2> QED  BY <1>1, <2>1 DEF Threads, Workers
<1>12. N \in Nat /\ NChunks \in Nat /\ NChunks > 0
    BY <1>1
<1>13. Len(Graphs) \in Nat /\ DOMAIN Graphs = 1 .. Len(Graphs)
    BY <1>4
<1>14. \A g \in 1 .. Len(Graphs) : Len(Graphs[g].nodes) \in 0 .. NNodes
    BY <1>5, <1>8, <1>9
<1> QED  BY <1>3, <1>5, <1>9, <1>11, <1>12, <1>13, <1>14 DEF Nodes

-----------------------------------------------------------------------------
(* What a step leaves alone.                                               *)

\* A step does not concern thread u.
Same(u) ==
    /\ pc'[u] = pc[u] /\ ret'[u] = ret[u] /\ at'[u] = at[u] /\ n_passed'[u] = n_passed[u]
    /\ graph'[u] = graph[u] /\ nth'[u] = nth[u] /\ node'[u] = node[u] /\ chunk'[u] = chunk[u]
    /\ last_graph'[u] = last_graph[u] /\ seen'[u] = seen[u]

\* A step in the middle of a graph, or between two.
SameGraph == UNCHANGED <<n_barrier_passed, n_graph, cgraph, n_threads_cur>>

\* Thread u is where it was in its work: at most it has gone on, behind a
\* barrier that is complete, to the chunk of its own number.
SameWork(u) ==
    \A k \in Nodes :
        /\ Past(u, k)' <=> Past(u, k)
        /\ Stage(0) = 2 * k => (Converted(u, k)' <=> Converted(u, k))
        /\ \A p \in AllParts : Holds(u, k, p)' <=> Holds(u, k, p)
        /\ InGraph(u)' /\ node'[u] = k /\ pc'[u] = "chunk" =>
                \/ InGraph(u) /\ node[u] = k /\ pc[u] = "chunk" /\ chunk'[u] = chunk[u]
                \/ Converted(u, k) /\ chunk'[u] = u

LEMMA SameThread ==
    ASSUME NEW u, Same(u), SameGraph
    PROVE  /\ InGraph(u)' <=> InGraph(u)
           /\ Stage(u)' = Stage(u)
           /\ SameWork(u)
           /\ abort' = abort /\ ThreadInv(u) => ThreadInv(u)'
           /\ WorkerInv(u) => WorkerInv(u)'
<1>1. Gone(u)' <=> Gone(u)
    BY DEF Same, SameGraph, Gone
<1>2. InGraph(u)' <=> InGraph(u)
    BY <1>1 DEF Same, InGraph
<1>3. NLen' = NLen /\ \A k : IsMul(k)' <=> IsMul(k)
    BY DEF SameGraph, NLen, IsMul
<1>4. Stage(u)' = Stage(u)
    BY <1>1, <1>2, <1>3 DEF Same, SameGraph, Stage, OutStage, BarrierStage, LoopStage, EndStage
<1>5. SameWork(u)
    BY <1>2 DEF Same, SameWork, Past, Converted, Holds
<1>6. ASSUME abort' = abort, ThreadInv(u) PROVE ThreadInv(u)'
    BY <1>1, <1>2, <1>3, <1>6 DEF Same, SameGraph, ThreadInv, Within
<1>7. ASSUME WorkerInv(u) PROVE WorkerInv(u)'
    BY <1>2, <1>7 DEF Same, SameGraph, WorkerInv
<1> QED  BY <1>2, <1>4, <1>5, <1>6, <1>7

\* The team of a graph.
LEMMA PartyFacts ==
    ASSUME TypeOK
    PROVE  Party \subseteq Threads /\ 0 \in Party /\ n_threads_cur \in 1 .. N
    BY Constants DEF TypeOK, Party, Threads

\* A step of one thread, after which it is at the stage where it was.
LEMMA ThreadKeeps ==
    ASSUME PoolInv, NEW t \in Threads, SameGraph, \A u \in Threads \ {t} : Same(u),
           abort' = abort \/ \A u \in Threads \ {t} : ThreadInv(u)',
           t \in Party => Stage(t)' = Stage(t), ThreadInv(t)', t \in Workers => WorkerInv(t)'
    PROVE  /\ ThreadsInv' /\ Lockstep' /\ Stage(0)' = Stage(0)
           /\ \A u \in Threads \ {t} : SameWork(u)
<1>1. ThreadsInv /\ Lockstep /\ TypeOK
    BY DEF PoolInv
<1>2. \A u \in Threads \ {t} : Stage(u)' = Stage(u)
    BY SameThread
<1>3. \A u \in Threads \ {t} : ThreadInv(u)' /\ SameWork(u) /\ (u \in Workers => WorkerInv(u)')
    BY <1>1, SameThread DEF ThreadsInv
<1>4. Party' = Party /\ Party \subseteq Threads /\ 0 \in Threads
    BY <1>1, PartyFacts, Constants DEF SameGraph, Party
<1>5. \A u \in Party : Stage(u)' = Stage(u)
    BY <1>2, <1>4
<1>6. Lockstep' /\ Stage(0)' = Stage(0)
    BY <1>1, <1>4, <1>5, PartyFacts DEF Lockstep
<1>7. ThreadsInv'
    BY <1>3, Constants DEF ThreadsInv
<1> QED  BY <1>3, <1>6, <1>7

LEMMA MainKeeps ==
    ASSUME PoolInv, SameGraph, Same(0)
    PROVE  MainInv'
    BY DEF PoolInv, MainInv, SameGraph, Same

LEMMA MeetKeeps ==
    ASSUME PoolInv, UNCHANGED <<n_barrier, n_barrier_passed, at, n_threads, n_passed>>,
           Party' \subseteq Party,
           \A t \in Threads : at[t] \in {"load", "enter"} => n_threads_cur' = n_threads_cur
    PROVE  MeetInv'
<1>1. MeetInv
    BY DEF PoolInv
<1>2. Waiting' = Waiting /\ \A t \in Threads : IsLast(t)' <=> IsLast(t)
    BY DEF Waiting, IsLast
<1> QED  BY <1>1, <1>2 DEF MeetInv

LEMMA DataKeeps ==
    ASSUME PoolInv, SameGraph, UNCHANGED <<computed, prepared, current_chunk>>,
           Stage(0)' = Stage(0), Stage(0) = 0 => abort' = abort,
           pc'[0] \in {"cur", "graph"} <=> pc[0] \in {"cur", "graph"},
           \A u \in Party : SameWork(u)
    PROVE  DataInv'
<1>1. DataInv /\ TypeOK
    BY DEF PoolInv
<1>2. Party' = Party /\ 0 \in Party
    BY <1>1, PartyFacts DEF SameGraph, Party
<1>3. NLen' = NLen /\ \A k : IsMul(k)' <=> IsMul(k)
    BY DEF SameGraph, NLen, IsMul
<1>4. \A k : EndStage(k)' = EndStage(k) /\ (Blank(k)' <=> Blank(k)) /\ (Finished(k)' <=> Finished(k))
    BY <1>3 DEF EndStage, Blank, Finished, SameGraph
<1>5. ASSUME NEW k \in Nodes
      PROVE  /\ PlainInv(k)' <=> PlainInv(k)
             /\ Stage(0) = 2 * k => (ConvertInv(k)' <=> ConvertInv(k))
             /\ ChunkInv(k) => ChunkInv(k)'
  <2>1. \A u \in Party :
            /\ Past(u, k)' <=> Past(u, k)
            /\ Stage(0) = 2 * k => (Converted(u, k)' <=> Converted(u, k))
            /\ \A p \in AllParts : Holds(u, k, p)' <=> Holds(u, k, p)
            /\ InGraph(u)' /\ node'[u] = k /\ pc'[u] = "chunk" =>
                \/ InGraph(u) /\ node[u] = k /\ pc[u] = "chunk" /\ chunk'[u] = chunk[u]
                \/ Converted(u, k) /\ chunk'[u] = u
    BY DEF SameWork
  <2>2. PlainInv(k)' <=> PlainInv(k)
    BY <1>2, <2>1 DEF PlainInv
  <2>3. ASSUME Stage(0) = 2 * k PROVE ConvertInv(k)' <=> ConvertInv(k)
    <3>1. {u \in Party : Converted(u, k)}' = {u \in Party : Converted(u, k)}
        BY <1>2, <2>1, <2>3
    <3> QED  BY <1>2, <2>1, <2>3, <3>1 DEF ConvertInv, SameGraph
  <2>4. ASSUME ChunkInv(k) PROVE ChunkInv(k)'
    <3>1. n_threads_cur \in Nat /\ current_chunk \in Nat /\ current_chunk >= n_threads_cur
      <4>1. n_threads_cur \in 1 .. N /\ N \in Nat /\ current_chunk \in Nat
        BY <1>1, PartyFacts, Constants DEF TypeOK
      <4> QED  BY <2>4, <4>1 DEF ChunkInv
    <3>2. \A u \in Party : u < current_chunk
        BY <3>1 DEF Party
    <3>3. \A u \in Party : InGraph(u) /\ node[u] = k /\ pc[u] = "chunk" => chunk[u] < current_chunk
        BY <2>4 DEF ChunkInv
    <3>4. \A u \in Party : InGraph(u)' /\ node'[u] = k /\ pc'[u] = "chunk" => chunk'[u] < current_chunk
        BY <2>1, <3>2, <3>3
    <3> QED  BY <1>2, <2>1, <2>4, <3>4 DEF ChunkInv, SameGraph
  <2> QED  BY <2>2, <2>3, <2>4
<1>6. \A k \in Nodes : NodeInv(k, Stage(0)) => NodeInv(k, Stage(0))'
    BY <1>3, <1>4, <1>5 DEF NodeInv
<1>7. pc[0] \in {"cur", "graph"} => Stage(0) = 0
    BY DEF Stage, OutStage, InGraph, GraphPcs
<1>8. \A k \in 1 .. NLen : Whole(cgraph, k, n_threads_cur)' <=> Whole(cgraph, k, n_threads_cur)
    BY DEF SameGraph, Whole
<1>9. (pc[0] \in {"cur", "graph"} => abort = 0 /\ \A k \in Nodes : Blank(k))'
    BY <1>1, <1>4, <1>7 DEF DataInv
<1>10. (Stage(0) = 0 /\ n_graph > 0 /\ pc[0] \notin {"cur", "graph"} /\ abort = 0 =>
            \A k \in 1 .. NLen : Whole(cgraph, k, n_threads_cur))'
    BY <1>1, <1>3, <1>8 DEF DataInv, SameGraph
<1> QED  BY <1>1, <1>6, <1>9, <1>10 DEF DataInv

-----------------------------------------------------------------------------
(* The workers outside the graph.                                          *)

\* A step with which worker w goes on to "to", and which changes nothing but
\* what the worker knows of the graphs.
LEMMA PollKeeps ==
    ASSUME PoolInv, NEW w \in Workers, NEW to \in WorkerPcs \cup {"run"},
           pc[w] \in WorkerPcs, pc' = [pc EXCEPT ![w] = to],
           NEW g \in 0 .. n_graph, last_graph' = [last_graph EXCEPT ![w] = g],
           NEW s \in 0 .. n_graph, seen' = [seen EXCEPT ![w] = s],
           UNCHANGED <<poolvars, ret, workvars, paused, barriervars>>,
           w \in Party /\ g # last_graph[w] => to = "run" /\ g = n_graph,
           to = "run" => w \in Party /\ g = n_graph /\ last_graph[w] # n_graph,
           to = "mine" => g < s /\ (w \in Party => s = n_graph)
    PROVE  PoolInv'
<1>1. TypeOK /\ MainInv /\ ThreadsInv
    BY DEF PoolInv
<1>2. /\ w \in Threads /\ w # 0 /\ n_graph \in 0 .. Len(Graphs) /\ Len(Graphs) \in Nat
      /\ w \in Nat /\ n_threads_cur \in Nat
  <2>1. w \in Threads /\ w # 0 /\ w \in Nat /\ Len(Graphs) \in Nat /\ N \in Nat
    BY Constants DEF Workers
  <2>2. n_threads_cur \in 1 .. N /\ n_graph \in 0 .. Len(Graphs)
    BY <1>1 DEF TypeOK
  <2> QED  BY <2>1, <2>2
<1>3. /\ pc \in [Threads -> MainPcs \cup WorkerPcs \cup GraphPcs]
      /\ last_graph \in [Threads -> 0 .. Len(Graphs)] /\ seen \in [Threads -> 0 .. Len(Graphs)]
    BY <1>1 DEF TypeOK
<1>4. pc'[w] = to /\ last_graph'[w] = g /\ seen'[w] = s
    BY <1>2, <1>3
<1>5. \A u \in Threads \ {w} : Same(u)
    BY <1>2, <1>3 DEF Same, workvars, barriervars
<1>6. SameGraph /\ abort' = abort
    BY DEF SameGraph, poolvars, barriervars
<1>7. pc'[w] \in WorkerPcs \cup {"run"} /\ pc'[w] # "barrier" /\ at'[w] = at[w]
    BY <1>4 DEF WorkerPcs, barriervars
<1>8. ~ InGraph(w) /\ at[w] = "out" /\ (InGraph(w)' => to = "run")
    BY <1>1, <1>2, <1>4 DEF InGraph, GraphPcs, WorkerPcs, ThreadsInv, ThreadInv
<1>9. TypeOK'
  <2>1. /\ pc' \in [Threads -> MainPcs \cup WorkerPcs \cup GraphPcs]
        /\ last_graph' \in [Threads -> 0 .. Len(Graphs)] /\ seen' \in [Threads -> 0 .. Len(Graphs)]
    BY <1>2, <1>3 DEF GraphPcs
  <2> QED  BY <1>1, <2>1 DEF TypeOK, BarrierTypeOK, poolvars, workvars, barriervars
<1>10. WorkerInv(w)'
  <2>1. last_graph[w] <= n_graph
    BY <1>1 DEF ThreadsInv, WorkerInv
  <2> QED  BY <1>2, <1>4, <1>6, <1>8, <2>1 DEF WorkerInv, SameGraph, WorkerPcs, GraphPcs, Party
<1>11. ThreadInv(w)'
  <2>1. InGraph(w)' => n_graph > 0
    BY <1>1, <1>2, <1>3, <1>8 DEF ThreadsInv, WorkerInv
  <2>2. InGraph(w)' => Within(w)'
    BY <1>2, <1>4, <1>6, <1>8, <2>1 DEF Within, SameGraph, Party
  <2> QED  BY <1>7, <1>8, <2>2 DEF ThreadInv
<1>12. w \in Party => Stage(w)' = Stage(w)
    BY <1>2, <1>4, <1>6, <1>8 DEF Stage, OutStage, SameGraph, InGraph, GraphPcs, WorkerPcs
<1>13. SameWork(w)
    BY <1>4, <1>7, <1>8 DEF SameWork, Past, Converted, Holds, WorkerPcs
<1>14. /\ ThreadsInv' /\ Lockstep' /\ Stage(0)' = Stage(0)
       /\ \A u \in Threads \ {w} : SameWork(u)
    BY <1>2, <1>5, <1>6, <1>10, <1>11, <1>12, ThreadKeeps
<1>15. MainInv' /\ pc'[0] = pc[0]
    BY <1>2, <1>5, <1>6, Constants, MainKeeps DEF Same
<1>16. MeetInv'
    BY <1>6, MeetKeeps DEF barriervars, SameGraph, Party
<1>17. DataInv'
    BY <1>1, <1>6, <1>13, <1>14, <1>15, PartyFacts, DataKeeps DEF poolvars, workvars
<1> QED  BY <1>9, <1>14, <1>15, <1>16, <1>17 DEF PoolInv

LEMMA WorkerStepInv ==
    ASSUME PoolInv, NEW w \in Workers, WorkerStep(w)
    PROVE  PoolInv'
<1>1. TypeOK /\ MainInv /\ WorkerInv(w)
    BY DEF PoolInv, ThreadsInv
<1>2. /\ w \in Threads /\ w # 0 /\ w \in Nat /\ n_graph \in 0 .. Len(Graphs) /\ Len(Graphs) \in Nat
      /\ last_graph[w] \in 0 .. n_graph /\ seen[w] \in 0 .. n_graph
  <2>1. w \in Threads /\ w # 0 /\ w \in Nat /\ n_graph \in 0 .. Len(Graphs) /\ Len(Graphs) \in Nat
    BY <1>1, Constants DEF Workers, TypeOK
  <2>2. last_graph[w] \in Nat /\ seen[w] \in Nat
    BY <1>1, <2>1 DEF TypeOK
  <2> QED  BY <1>1, <2>1, <2>2 DEF WorkerInv
<1>3. /\ last_graph = [last_graph EXCEPT ![w] = last_graph[w]]
      /\ seen = [seen EXCEPT ![w] = seen[w]]
    BY <1>1, <1>2 DEF TypeOK
<1>4. n_threads_cur \in Nat /\ (Active(w) <=> w \in Party)
    BY <1>1, <1>2, PartyFacts DEF Active, Party
<1>5. ASSUME NEW to \in WorkerPcs \ {"mine"}, Step(w, pc[w], to), pc[w] \in WorkerPcs,
             UNCHANGED <<poolvars, ret, pollvars, workvars, paused, barriervars>>
      PROVE  PoolInv'
  <2>1. /\ pc' = [pc EXCEPT ![w] = to] /\ to \in WorkerPcs \cup {"run"}
        /\ to # "mine" /\ to # "run"
    BY <1>5 DEF Step, WorkerPcs
  <2>2. /\ last_graph' = [last_graph EXCEPT ![w] = last_graph[w]]
        /\ seen' = [seen EXCEPT ![w] = seen[w]]
    BY <1>3, <1>5 DEF pollvars
  <2> QED  BY <1>2, <1>5, <2>1, <2>2, PollKeeps
<1>6. CASE Top(w) \/ StopCheck(w) \/ ActiveCheck(w) \/ PollFlags(w)
  <2>1. \E to \in {"stop", "resting", "exited", "active", "flags", "lock", "load"} :
            Step(w, pc[w], to) /\ pc[w] \in {"top", "stop", "active", "flags"}
    BY <1>6 DEF Top, StopCheck, ActiveCheck, PollFlags, Step
  <2> QED  BY <1>5, <1>6, <2>1 DEF Top, StopCheck, ActiveCheck, PollFlags, WorkerPcs
<1>7. CASE PollGraph(w)
  <2>1. /\ last_graph' = [last_graph EXCEPT ![w] = last_graph[w]]
        /\ seen' = [seen EXCEPT ![w] = n_graph]
        /\ UNCHANGED <<poolvars, ret, workvars, paused, barriervars>>
    BY <1>3, <1>7 DEF PollGraph
  <2>2. PICK to \in {"mine", "flags", "lock"} :
            /\ pc' = [pc EXCEPT ![w] = to] /\ pc[w] = "load"
            /\ to = "mine" => n_graph # last_graph[w]
    BY <1>7 DEF PollGraph, Step
  <2>3. pc[w] \in WorkerPcs /\ to \in WorkerPcs \cup {"run"} /\ to # "run" /\ n_graph \in 0 .. n_graph
    BY <1>2, <2>2 DEF WorkerPcs
  <2>4. to = "mine" => last_graph[w] < n_graph
    BY <1>2, <2>2
  <2> QED  BY <1>2, <2>1, <2>2, <2>3, <2>4, PollKeeps
<1>8. CASE PollMine(w)
  <2>1. /\ last_graph' = [last_graph EXCEPT ![w] = seen[w]]
        /\ seen' = [seen EXCEPT ![w] = seen[w]]
        /\ UNCHANGED <<poolvars, ret, workvars, paused, barriervars>>
    BY <1>3, <1>8 DEF PollMine
  <2>2. PICK to \in {"run", "flags", "lock"} :
            /\ pc' = [pc EXCEPT ![w] = to] /\ pc[w] = "mine"
            /\ to = "run" <=> w \in Party
    BY <1>4, <1>8 DEF PollMine, Step
  <2>3. pc[w] \in WorkerPcs /\ to \in WorkerPcs \cup {"run"} /\ to # "mine"
    BY <2>2 DEF WorkerPcs
  <2>4. last_graph[w] < seen[w] /\ (w \in Party => seen[w] = n_graph)
    BY <1>1, <1>2, <1>4, <2>2 DEF WorkerInv, Active
  <2>5. to = "run" => w \in Party /\ seen[w] = n_graph /\ last_graph[w] # n_graph
    BY <1>2, <2>2, <2>4
  <2> QED  BY <1>2, <2>1, <2>2, <2>3, <2>4, <2>5, PollKeeps
<1>9. CASE LockAndCheck(w)
  <2>1. CASE stop \/ pause
    <3>1. Step(w, pc[w], "top") /\ pc[w] = "lock"
          /\ UNCHANGED <<poolvars, ret, pollvars, workvars, paused, barriervars>>
        BY <1>9, <2>1 DEF LockAndCheck, Step, pollvars
    <3> QED  BY <1>5, <3>1 DEF WorkerPcs
  <2>2. CASE ~ (stop \/ pause)
    <3>1. /\ last_graph' = [last_graph EXCEPT ![w] = n_graph]
          /\ seen' = [seen EXCEPT ![w] = seen[w]]
          /\ UNCHANGED <<poolvars, ret, workvars, paused, barriervars>>
        BY <1>3, <1>9, <2>2 DEF LockAndCheck
    <3>2. PICK to \in {"run", "sleep"} :
            /\ pc' = [pc EXCEPT ![w] = to] /\ pc[w] = "lock"
            /\ to = "run" <=> w \in Party /\ n_graph # last_graph[w]
        BY <1>4, <1>9, <2>2 DEF LockAndCheck, Step
    <3>3. pc[w] \in WorkerPcs /\ to \in WorkerPcs \cup {"run"} /\ to # "mine" /\ n_graph \in 0 .. n_graph
        BY <1>2, <3>2 DEF WorkerPcs
    <3> QED  BY <1>2, <3>1, <3>2, <3>3, PollKeeps
  <2> QED  BY <2>1, <2>2
<1> QED  BY <1>6, <1>7, <1>8, <1>9 DEF WorkerStep

-----------------------------------------------------------------------------
(* The main thread outside the graph.                                      *)

\* The graph a thread is in, and where that may be.
LEMMA GraphFacts ==
    ASSUME TypeOK, MainInv, NEW t \in Threads, ThreadInv(t), InGraph(t)
    PROVE  /\ cgraph \in 1 .. Len(Graphs) /\ NLen \in 0 .. NNodes
           /\ node[t] \in Nat /\ node[t] >= 1 /\ t \in Party
           /\ \A k \in 1 .. NLen : Graphs[cgraph].nodes[k] \in {"plain", "mul_mat"}
           /\ Stage(t) >= 2
<1>1. cgraph \in 1 .. Len(Graphs)
    BY Constants DEF TypeOK, MainInv, ThreadInv, Within
<1>2. NLen \in 0 .. NNodes /\ \A k \in 1 .. NLen : Graphs[cgraph].nodes[k] \in {"plain", "mul_mat"}
    BY <1>1, Constants DEF NLen
<1>3. node[t] \in Nat /\ node[t] >= 1
  <2>1. node \in [Threads -> 1 .. NNodes + 1]
    BY DEF TypeOK
  <2> QED  BY <2>1, Constants
<1>4. t \in Party
    BY Constants, PartyFacts DEF Party, ThreadInv, Within
<1>5. EndStage(NLen) >= 2 \/ NLen = 0
    BY <1>2, Constants DEF EndStage
<1>6. EndStage(node[t]) >= 2 /\ (pc[t] # "run" => LoopStage(node[t]) >= 2)
    BY <1>2, <1>3, <1>5, Constants DEF EndStage, LoopStage, ThreadInv, Within
<1>7. Stage(t) >= 2
  <2>1. 2 * node[t] >= 2 /\ 2 * node[t] + 1 >= 2 /\ 2 * (node[t] + 1) >= 2
    BY <1>3
  <2>2. pc[t] # "run" => BarrierStage(t) >= 2
    BY <1>6, <2>1 DEF BarrierStage
  <2> QED  BY <1>6, <2>1, <2>2 DEF Stage
<1> QED  BY <1>1, <1>2, <1>3, <1>4, <1>7

\* Between two graphs nobody is in one.
LEMMA BetweenGraphs ==
    ASSUME PoolInv, Stage(0) = 0
    PROVE  /\ \A t \in Threads : ~ InGraph(t)
           /\ \A w \in Party \ {0} : last_graph[w] = n_graph
<1>1. TypeOK /\ MainInv /\ ThreadsInv /\ Lockstep
    BY DEF PoolInv
<1>2. ASSUME NEW t \in Threads, InGraph(t) PROVE FALSE
  <2>1. t \in Party /\ Stage(t) >= 2
    BY <1>1, <1>2, GraphFacts DEF ThreadsInv
  <2>2. Stage(t) = 0
    BY <1>1, <2>1 DEF Lockstep
  <2> QED  BY <2>1, <2>2
<1>3. ASSUME NEW w \in Party \ {0} PROVE last_graph[w] = n_graph
  <2>1. w \in Threads /\ Stage(w) = 0
    BY <1>1, PartyFacts DEF Lockstep
  <2> QED  BY <1>2, <2>1 DEF Stage, OutStage
<1> QED  BY <1>2, <1>3

LEMMA MainOut ==
    ASSUME PoolInv, pc[0] \in MainPcs \ {"signal"}
    PROVE  Stage(0) = 0 /\ at[0] = "out"
    BY Constants DEF PoolInv, ThreadsInv, ThreadInv, Stage, OutStage, InGraph, MainPcs, GraphPcs

\* The main thread goes from "pc[0]" to "to", and may wake workers.
LEMMA MainMoves ==
    ASSUME PoolInv, pc[0] \in {"idle", "signal", "unpause", "join"},
           NEW to \in {"run", "idle", "reset", "unpause", "join", "freed"},
           to = "run" <=> pc[0] = "signal", to = "reset" => n_graph < Len(Graphs),
           pc' \in [Threads -> MainPcs \cup WorkerPcs \cup GraphPcs], pc'[0] = to,
           \A w \in Workers : \/ pc'[w] = pc[w]
                              \/ pc[w] \in {"sleep", "resting"} /\ pc'[w] \in {"lock", "top"},
           stop' \in BOOLEAN, pause' \in BOOLEAN, paused' \in 0 .. Pauses,
           UNCHANGED <<cgraph, n_graph, n_threads_cur, current_chunk, abort, ret, pollvars,
                       workvars, barriervars>>
    PROVE  PoolInv'
<1>1. TypeOK /\ MainInv /\ ThreadsInv /\ Lockstep
    BY DEF PoolInv
<1>2. TypeOK'
    BY <1>1 DEF TypeOK, BarrierTypeOK, pollvars, workvars, barriervars
<1>3. SameGraph /\ abort' = abort /\ at' = at
    BY DEF SameGraph, barriervars
<1>4. 0 \in Threads /\ 0 \in Party /\ Party \subseteq Threads /\ Party' = Party
      /\ n_threads_cur \in 1 .. N /\ N \in Nat
    BY <1>1, <1>3, Constants, PartyFacts DEF Party, SameGraph
<1>5. MainInv'
    BY <1>1, <1>3 DEF MainInv, SameGraph, MainPcs, GraphPcs
<1>6. at[0] = "out" /\ ~ InGraph(0) /\ (InGraph(0)' <=> to = "run")
    BY <1>1, <1>4 DEF ThreadsInv, ThreadInv, InGraph, GraphPcs
<1>7. Stage(0)' = Stage(0)
    BY <1>6 DEF Stage, OutStage
<1>8. ThreadInv(0)'
    BY <1>1, <1>3, <1>4, <1>6 DEF ThreadInv, Within, MainInv, SameGraph
<1>9. SameWork(0)
    BY <1>6 DEF SameWork, Past, Converted, Holds
<1>10. ASSUME NEW w \in Workers
       PROVE  ThreadInv(w)' /\ WorkerInv(w)' /\ Stage(w)' = Stage(w) /\ SameWork(w)
  <2>1. w \in Threads /\ w # 0 /\ ThreadInv(w) /\ WorkerInv(w)
    BY <1>1, Constants DEF ThreadsInv, Workers
  <2>2. CASE pc'[w] = pc[w]
    <3>1. Same(w)
        BY <2>2 DEF Same, pollvars, workvars, barriervars
    <3> QED  BY <1>3, <2>1, <3>1, SameThread
  <2>3. CASE pc[w] \in {"sleep", "resting"} /\ pc'[w] \in {"lock", "top"}
    <3>1. ~ InGraph(w) /\ ~ InGraph(w)' /\ at'[w] = "out"
        BY <1>3, <2>1, <2>3 DEF InGraph, GraphPcs, ThreadInv
    <3>2. ThreadInv(w)'
        BY <3>1 DEF ThreadInv
    <3>3. WorkerInv(w)'
        BY <1>3, <2>1, <2>3, <3>1 DEF WorkerInv, WorkerPcs, pollvars, SameGraph
    <3>4. Stage(w)' = Stage(w)
        BY <1>3, <2>1, <3>1 DEF Stage, OutStage, pollvars, SameGraph
    <3>5. SameWork(w)
        BY <2>3, <3>1 DEF SameWork, Past, Converted, Holds
    <3> QED  BY <3>2, <3>3, <3>4, <3>5
  <2> QED  BY <2>2, <2>3
<1>11. ThreadsInv'
    BY <1>8, <1>10 DEF ThreadsInv, Workers
<1>12. \A t \in Party : Stage(t)' = Stage(t) /\ SameWork(t)
    BY <1>4, <1>7, <1>9, <1>10 DEF Workers
<1>13. Lockstep'
    BY <1>1, <1>4, <1>12 DEF Lockstep
<1>14. MeetInv'
    BY <1>4, MeetKeeps DEF barriervars
<1>15. DataInv'
    BY <1>3, <1>7, <1>12, DataKeeps DEF workvars
<1> QED  BY <1>2, <1>5, <1>11, <1>13, <1>14, <1>15 DEF PoolInv

\* A call of the main thread, on its way to the graph or past it.
LEMMA MainOutInv ==
    ASSUME PoolInv,
           BeginGraph \/ Signal \/ Pause \/ Resume \/ SetStop \/ ClearPause \/ Join
    PROVE  PoolInv'
<1>1. TypeOK /\ 0 \in Threads /\ Workers = Threads \ {0}
    BY Constants DEF PoolInv, Workers
<1>2. /\ pc \in [Threads -> MainPcs \cup WorkerPcs \cup GraphPcs]
      /\ stop \in BOOLEAN /\ pause \in BOOLEAN /\ paused \in 0 .. Pauses /\ Pauses \in Nat
    BY <1>1, PoolAssumption DEF TypeOK
<1>3. ASSUME NEW to \in MainPcs \cup {"run"}, Broadcast(to)
      PROVE  /\ pc' \in [Threads -> MainPcs \cup WorkerPcs \cup GraphPcs] /\ pc'[0] = to
             /\ \A w \in Workers : \/ pc'[w] = pc[w]
                                   \/ pc[w] \in {"sleep", "resting"} /\ pc'[w] \in {"lock", "top"}
    BY <1>1, <1>2, <1>3 DEF Broadcast, WorkerPcs, GraphPcs
<1>4. ASSUME NEW from, NEW to \in MainPcs \cup {"run"}, Step(0, from, to)
      PROVE  /\ pc' \in [Threads -> MainPcs \cup WorkerPcs \cup GraphPcs] /\ pc'[0] = to
             /\ pc[0] = from /\ \A w \in Workers : pc'[w] = pc[w]
    BY <1>1, <1>2, <1>4 DEF Step, GraphPcs
<1>5. CASE BeginGraph
  <2>1. Step(0, "idle", "reset") /\ n_graph < Len(Graphs)
        /\ UNCHANGED <<poolvars, ret, pollvars, workvars, paused, barriervars>>
    BY <1>5 DEF BeginGraph
  <2> QED  BY <1>2, <1>4, <2>1, MainMoves DEF poolvars, MainPcs
<1>6. CASE Signal
  <2>1. /\ pc[0] = "signal" /\ pause' = FALSE /\ Broadcast("run")
        /\ UNCHANGED <<cgraph, n_graph, n_threads_cur, current_chunk, stop, abort, ret, pollvars,
                       workvars, paused, barriervars>>
    BY <1>6 DEF Signal
  <2> QED  BY <1>2, <1>3, <2>1, MainMoves
<1>7. CASE Pause
  <2>1. /\ pc[0] = "idle" /\ pause' = TRUE /\ Broadcast("idle") /\ paused < Pauses
        /\ paused' = paused + 1
        /\ UNCHANGED <<cgraph, n_graph, n_threads_cur, current_chunk, stop, abort, ret, pollvars,
                       workvars, barriervars>>
    BY <1>7 DEF Pause
  <2>2. paused' \in 0 .. Pauses
    BY <1>2, <2>1
  <2> QED  BY <1>2, <1>3, <2>1, <2>2, MainMoves DEF MainPcs
<1>8. CASE Resume
  <2>1. /\ pc[0] = "idle" /\ pause' = FALSE /\ Broadcast("idle")
        /\ UNCHANGED <<cgraph, n_graph, n_threads_cur, current_chunk, stop, abort, ret, pollvars,
                       workvars, paused, barriervars>>
    BY <1>8 DEF Resume
  <2> QED  BY <1>2, <1>3, <2>1, MainMoves DEF MainPcs
<1>9. CASE SetStop
  <2>1. /\ Step(0, "idle", "unpause") /\ stop' = TRUE
        /\ UNCHANGED <<cgraph, n_graph, n_threads_cur, current_chunk, pause, abort, ret, pollvars,
                       workvars, paused, barriervars>>
    BY <1>9 DEF SetStop
  <2> QED  BY <1>2, <1>4, <2>1, MainMoves DEF MainPcs
<1>10. CASE ClearPause
  <2>1. /\ pc[0] = "unpause" /\ pause' = FALSE /\ Broadcast("join")
        /\ UNCHANGED <<cgraph, n_graph, n_threads_cur, current_chunk, stop, abort, ret, pollvars,
                       workvars, paused, barriervars>>
    BY <1>10 DEF ClearPause
  <2> QED  BY <1>2, <1>3, <2>1, MainMoves DEF MainPcs
<1>11. CASE Join
  <2>1. Step(0, "join", "freed")
        /\ UNCHANGED <<poolvars, ret, pollvars, workvars, paused, barriervars>>
    BY <1>11 DEF Join
  <2> QED  BY <1>2, <1>4, <2>1, MainMoves DEF poolvars, MainPcs
<1> QED  BY <1>5, <1>6, <1>7, <1>8, <1>9, <1>10, <1>11

\* While the main thread prepares a graph nobody is in one.
LEMMA Preparing ==
    ASSUME PoolInv, pc[0] \in {"reset", "cur", "graph"},
           NEW to \in MainPcs, Step(0, pc[0], to), UNCHANGED <<ret, pollvars, barriervars>>
    PROVE  /\ pc' \in [Threads -> MainPcs \cup WorkerPcs \cup GraphPcs] /\ pc'[0] = to
           /\ \A w \in Workers : w \in Threads /\ w # 0 /\ pc'[w] = pc[w]
           /\ at[0] = "out" /\ Stage(0) = 0 /\ 0 \in Party /\ Party \subseteq Threads
           /\ \A t \in Threads : ~ InGraph(t) /\ ~ InGraph(t)' /\ ThreadInv(t)'
           /\ \A w \in Party \ {0} : w \in Workers /\ last_graph[w] = n_graph
<1>1. TypeOK /\ ThreadsInv
    BY DEF PoolInv
<1>2. 0 \in Threads /\ Workers = Threads \ {0}
    BY Constants DEF Workers
<1>3. pc \in [Threads -> MainPcs \cup WorkerPcs \cup GraphPcs]
    BY <1>1 DEF TypeOK
<1>4. /\ pc' \in [Threads -> MainPcs \cup WorkerPcs \cup GraphPcs] /\ pc'[0] = to
      /\ \A w \in Workers : w \in Threads /\ w # 0 /\ pc'[w] = pc[w]
    BY <1>2, <1>3 DEF Step
<1>5. at[0] = "out" /\ Stage(0) = 0
    BY MainOut DEF MainPcs
<1>6. (\A t \in Threads : ~ InGraph(t)) /\ \A w \in Party \ {0} : last_graph[w] = n_graph
    BY <1>5, BetweenGraphs
<1>7. \A t \in Threads : ~ InGraph(t)'
  <2>1. ~ InGraph(0)'
    BY <1>4 DEF InGraph, MainPcs, GraphPcs
  <2>2. \A w \in Workers : ~ InGraph(w)'
    BY <1>4, <1>6 DEF InGraph, Gone, barriervars
  <2> QED  BY <1>2, <2>1, <2>2
<1>8. \A t \in Threads : ThreadInv(t)'
    BY <1>1, <1>2, <1>4, <1>5, <1>7 DEF ThreadInv, ThreadsInv, barriervars
<1> QED  BY <1>1, <1>2, <1>4, <1>5, <1>6, <1>7, <1>8, PartyFacts

LEMMA ResetGraphInv ==
    ASSUME PoolInv, ResetGraph
    PROVE  PoolInv'
<1>1. TypeOK /\ MainInv /\ ThreadsInv /\ MeetInv /\ Lockstep
    BY DEF PoolInv
<1>2. /\ pc[0] = "reset" /\ Step(0, pc[0], "cur") /\ "cur" \in MainPcs
      /\ cgraph' = n_graph + 1 /\ current_chunk' = 0 /\ abort' = 0
      /\ prepared' = [k \in Nodes |-> {}] /\ computed' = NothingComputed
      /\ UNCHANGED <<n_graph, n_threads_cur, stop, pause, ret, pollvars, graph, nth, node,
                     chunk, paused, barriervars>>
    BY DEF ResetGraph, Step, MainPcs
<1>3. /\ pc' \in [Threads -> MainPcs \cup WorkerPcs \cup GraphPcs] /\ pc'[0] = "cur"
      /\ \A w \in Workers : w \in Threads /\ w # 0 /\ pc'[w] = pc[w]
      /\ at[0] = "out" /\ Stage(0) = 0 /\ 0 \in Party /\ Party \subseteq Threads
      /\ \A t \in Threads : ~ InGraph(t) /\ ~ InGraph(t)' /\ ThreadInv(t)'
      /\ \A w \in Party \ {0} : w \in Workers /\ last_graph[w] = n_graph
    BY <1>2, Preparing
<1>4. cgraph' \in 0 .. Len(Graphs)
    BY <1>1, <1>2, Constants DEF MainInv, TypeOK
<1>5. /\ prepared' \in [Nodes -> SUBSET Threads]
      /\ computed' \in [Nodes -> [AllParts -> Nat]]
      /\ current_chunk' \in Nat /\ abort' \in 0 .. NNodes + 1
    BY <1>2, Constants DEF NothingComputed
<1>6. TypeOK'
    BY <1>1, <1>2, <1>3, <1>4, <1>5 DEF TypeOK, BarrierTypeOK, pollvars, barriervars
<1>7. MainInv'
    BY <1>1, <1>2, <1>3 DEF MainInv, MainPcs, GraphPcs, barriervars
<1>8. \A w \in Workers : WorkerInv(w)'
    BY <1>1, <1>2, <1>3 DEF ThreadsInv, WorkerInv, pollvars
<1>9. Lockstep'
    BY <1>2, <1>3 DEF Lockstep, Party, Stage, OutStage, pollvars
<1>10. MeetInv'
    BY <1>2, MeetKeeps DEF barriervars, Party
<1>11. DataInv'
  <2>1. \A k \in Nodes : Blank(k)'
    BY <1>2 DEF Blank, NothingComputed
  <2>2. \A k \in Nodes, p \in AllParts : computed'[k][p] <= 1
    BY <1>2 DEF NothingComputed
  <2>3. Stage(0)' = 0
    BY <1>3, Constants DEF Stage, OutStage
  <2> QED  BY <1>2, <1>3, <2>1, <2>2, <2>3 DEF DataInv
<1> QED  BY <1>3, <1>6, <1>7, <1>8, <1>9, <1>10, <1>11 DEF PoolInv, ThreadsInv

LEMMA SetThreadsInv ==
    ASSUME NeverMoreThreads, PoolInv, SetThreads
    PROVE  PoolInv'
<1>1. TypeOK /\ MainInv /\ ThreadsInv /\ MeetInv /\ Lockstep /\ DataInv
    BY DEF PoolInv
<1>2. /\ pc[0] = "cur" /\ Step(0, pc[0], "graph") /\ "graph" \in MainPcs
      /\ n_threads_cur' \in Teams(cgraph)
      /\ UNCHANGED <<cgraph, n_graph, current_chunk, stop, pause, abort, ret, pollvars, workvars,
                     paused, barriervars>>
    BY DEF SetThreads, Step, MainPcs
<1>3. /\ pc' \in [Threads -> MainPcs \cup WorkerPcs \cup GraphPcs] /\ pc'[0] = "graph"
      /\ \A w \in Workers : w \in Threads /\ w # 0 /\ pc'[w] = pc[w]
      /\ at[0] = "out" /\ Stage(0) = 0 /\ 0 \in Party /\ Party \subseteq Threads
      /\ \A t \in Threads : ~ InGraph(t) /\ ~ InGraph(t)' /\ ThreadInv(t)'
      /\ \A w \in Party \ {0} : w \in Workers /\ last_graph[w] = n_graph
    BY <1>2, Preparing
<1>4. /\ n_graph \in Nat /\ cgraph = n_graph + 1 /\ cgraph \in 1 .. Len(Graphs)
      /\ n_threads_cur \in 1 .. N /\ N \in Nat
    BY <1>1, <1>2, Constants DEF MainInv, TypeOK
<1>5. n_threads_cur' \in 1 .. N
    BY <1>2, <1>4, Constants
<1>6. n_threads_cur' <= n_threads_cur
  <2>1. CASE n_graph = 0
    BY <1>1, <1>2, <1>4, <1>5, <2>1 DEF MainInv
  <2>2. CASE n_graph # 0
    <3>1. n_threads_cur \in Teams(n_graph)
        BY <1>1, <1>2, <2>2 DEF MainInv
    <3>2. n_graph \in DOMAIN Graphs /\ n_graph + 1 \in DOMAIN Graphs
        BY <1>4, <2>2, Constants
    <3>3. n_threads_cur' \in Teams(n_graph + 1)
        BY <1>2, <1>4
    <3> QED  BY <3>1, <3>2, <3>3 DEF NeverMoreThreads
  <2> QED  BY <2>1, <2>2
<1>7. Party' \subseteq Party /\ n_threads_cur' \in Nat /\ n_threads_cur \in Nat
  <2>1. n_threads_cur' \in Nat /\ n_threads_cur \in Nat
    BY <1>4, <1>5
  <2>2. ASSUME NEW m \in Nat, NEW n \in Nat, m <= n PROVE 0 .. m - 1 \subseteq 0 .. n - 1
    BY <2>2
  <2> QED  BY <1>6, <2>1, <2>2 DEF Party
<1>8. TypeOK'
    BY <1>1, <1>2, <1>3, <1>5 DEF TypeOK, BarrierTypeOK, pollvars, workvars, barriervars
<1>9. MainInv'
    BY <1>1, <1>2, <1>3 DEF MainInv, MainPcs, GraphPcs, barriervars
<1>10. ASSUME NEW w \in Workers PROVE WorkerInv(w)'
  <2>0. w \in Nat
    BY <1>3, Constants
  <2>1. w < n_threads_cur' => w < n_threads_cur
    BY <1>6, <1>7, <2>0
  <2> QED  BY <1>1, <1>2, <1>3, <2>0, <2>1 DEF ThreadsInv, WorkerInv, pollvars
<1>11. Lockstep'
    BY <1>2, <1>3, <1>7 DEF Lockstep, Stage, OutStage, pollvars
<1>12. MeetInv'
  <2>1. \A t \in Threads : ~ (at[t] \in {"load", "enter"})
    BY <1>1, <1>3 DEF ThreadsInv, ThreadInv, InGraph, Gone, GraphPcs
  <2> QED  BY <1>2, <1>7, <2>1, MeetKeeps DEF barriervars
<1>13. DataInv'
  <2>1. Stage(0)' = 0
    BY <1>3, Constants DEF Stage, OutStage
  <2> QED  BY <1>1, <1>2, <1>3, <2>1 DEF DataInv, Blank, workvars
<1> QED  BY <1>3, <1>8, <1>9, <1>10, <1>11, <1>12, <1>13 DEF PoolInv, ThreadsInv

LEMMA AnnounceGraphInv ==
    ASSUME PoolInv, AnnounceGraph
    PROVE  PoolInv'
<1>1. TypeOK /\ MainInv /\ ThreadsInv /\ MeetInv /\ Lockstep /\ DataInv
    BY DEF PoolInv
<1>2. /\ pc[0] = "graph" /\ Step(0, pc[0], "signal") /\ "signal" \in MainPcs
      /\ n_graph' = n_graph + 1
      /\ UNCHANGED <<cgraph, n_threads_cur, current_chunk, stop, pause, abort, ret, pollvars,
                     workvars, paused, barriervars>>
    BY DEF AnnounceGraph, Step, MainPcs
<1>3. /\ pc' \in [Threads -> MainPcs \cup WorkerPcs \cup GraphPcs] /\ pc'[0] = "signal"
      /\ \A w \in Workers : w \in Threads /\ w # 0 /\ pc'[w] = pc[w]
      /\ at[0] = "out" /\ Stage(0) = 0 /\ 0 \in Party /\ Party \subseteq Threads
      /\ \A t \in Threads : ~ InGraph(t) /\ ~ InGraph(t)' /\ ThreadInv(t)'
      /\ \A w \in Party \ {0} : w \in Workers /\ last_graph[w] = n_graph
    BY <1>2, Preparing
<1>4. n_graph \in Nat /\ cgraph = n_graph + 1 /\ cgraph \in 1 .. Len(Graphs) /\ n_threads_cur \in Nat
  <2>1. cgraph = n_graph + 1
    BY <1>1, <1>2 DEF MainInv
  <2>2. n_graph \in 0 .. Len(Graphs) /\ cgraph \in 0 .. Len(Graphs) /\ n_threads_cur \in 0 .. N
    BY <1>1 DEF TypeOK
  <2>3. Len(Graphs) \in Nat /\ N \in Nat
    BY Constants
  <2> QED  BY <2>1, <2>2, <2>3
<1>5. n_graph' \in 0 .. Len(Graphs) /\ n_graph' # 0 /\ n_graph' # n_graph
    BY <1>2, <1>4
<1>6. TypeOK'
    BY <1>1, <1>2, <1>3, <1>5 DEF TypeOK, BarrierTypeOK, pollvars, workvars, barriervars
<1>7. MainInv'
    BY <1>1, <1>2, <1>3, <1>4, <1>5 DEF MainInv, MainPcs, GraphPcs, barriervars
<1>8. ASSUME NEW w \in Workers PROVE WorkerInv(w)'
  <2>0. /\ last_graph \in [Threads -> 0 .. Len(Graphs)] /\ seen \in [Threads -> 0 .. Len(Graphs)]
        /\ w \in Threads /\ w # 0
    BY <1>1, <1>3 DEF TypeOK
  <2>1. w \in Nat /\ w # 0 /\ last_graph[w] \in Nat /\ seen[w] \in Nat
    BY <2>0, Constants
  <2>2. last_graph[w] <= n_graph /\ seen[w] <= n_graph /\ (pc[w] = "mine" => last_graph[w] < seen[w])
    BY <1>1 DEF ThreadsInv, WorkerInv
  <2>3. w < n_threads_cur => last_graph[w] = n_graph
    BY <1>3, <1>4, <2>1 DEF Party
  <2>4. pc[w] = "mine" => ~ (w < n_threads_cur)
    BY <1>4, <2>1, <2>2, <2>3
  <2>5. pc[w] \in WorkerPcs \cup GraphPcs
    BY <1>1 DEF ThreadsInv, WorkerInv
  <2> QED  BY <1>2, <1>3, <1>4, <2>1, <2>2, <2>4, <2>5 DEF WorkerInv, pollvars
<1>9. Stage(0)' = 2
    BY <1>3, Constants DEF Stage, OutStage
<1>10. Lockstep'
    BY <1>2, <1>3, <1>5, <1>9 DEF Lockstep, Party, Stage, OutStage, pollvars
<1>11. MeetInv'
    BY <1>2, MeetKeeps DEF barriervars, Party
<1>12. DataInv'
  <2>1. \A k \in Nodes : Blank(k) /\ Blank(k)'
    BY <1>1, <1>2 DEF DataInv, Blank, workvars
  <2>2. \A t \in Party', k \in Nodes : ~ Past(t, k)' /\ ~ Converted(t, k)'
    BY <1>2, <1>3 DEF Past, Converted, Party
  <2>3. ASSUME NEW k \in Nodes PROVE NodeInv(k, 2)'
    <3>1. k \in Nat /\ k >= 1
        BY Constants
    <3>2. PlainInv(k)'
        BY <2>1, <2>2 DEF PlainInv, Blank
    <3>3. ConvertInv(k)'
      <4>1. 0 \in Party'
        BY <1>2, <1>3 DEF Party
      <4> QED  BY <2>1, <2>2, <4>1 DEF ConvertInv, Blank
    <3>4. ~ (EndStage(k)' < 2) /\ 2 # 2 * k + 1
        BY <3>1 DEF EndStage
    <3> QED  BY <2>1, <3>2, <3>3, <3>4 DEF NodeInv
  <2> QED  BY <1>1, <1>2, <1>3, <1>9, <2>3 DEF DataInv, workvars
<1> QED  BY <1>3, <1>6, <1>7, <1>8, <1>10, <1>11, <1>12 DEF PoolInv, ThreadsInv
-----------------------------------------------------------------------------
(* A graph, thread by thread.                                              *)

\* A step of a thread in the graph that leaves it at its stage.
LEMMA GraphKeeps ==
    ASSUME PoolInv, NEW t \in Threads, InGraph(t), SameGraph, \A u \in Threads \ {t} : Same(u),
           pc'[t] \in GraphPcs, last_graph'[t] = last_graph[t], seen'[t] = seen[t],
           at'[t] # "out" => pc'[t] = "barrier" /\ n_threads_cur # 1,
           InGraph(t)', Within(t)', Stage(t)' = Stage(t),
           abort' = abort \/ \A u \in Threads \ {t} : ThreadInv(u)'
    PROVE  /\ MainInv' /\ ThreadsInv' /\ Lockstep' /\ Stage(0)' = Stage(0)
           /\ pc[0] \notin {"cur", "graph"} /\ pc'[0] \notin {"cur", "graph"}
           /\ Stage(0) # 0 /\ \A u \in Threads \ {t} : SameWork(u)
<1>1. TypeOK /\ MainInv /\ ThreadsInv /\ Lockstep
    BY DEF PoolInv
<1>2. ThreadInv(t)'
    BY DEF ThreadInv
<1>3. t \in Workers => WorkerInv(t)'
    BY <1>1 DEF ThreadsInv, WorkerInv, SameGraph, GraphPcs
<1>4. /\ ThreadsInv' /\ Lockstep' /\ Stage(0)' = Stage(0)
      /\ \A u \in Threads \ {t} : SameWork(u)
    BY <1>2, <1>3, ThreadKeeps
<1>5. t \in Party /\ Stage(t) >= 2
    BY <1>1, GraphFacts DEF ThreadsInv
<1>6. Stage(0) # 0
    BY <1>1, <1>5 DEF Lockstep
<1>7. pc[0] \notin MainPcs \ {"signal"}
    BY <1>6, MainOut
<1>8. MainInv' /\ pc'[0] \notin {"cur", "graph"}
  <2>1. CASE t = 0
    BY <1>1, <2>1 DEF MainInv, SameGraph, GraphPcs, InGraph
  <2>2. CASE t # 0
    BY <1>7, <2>2, Constants, MainKeeps DEF Same, MainPcs
  <2> QED  BY <2>1, <2>2
<1> QED  BY <1>4, <1>6, <1>7, <1>8 DEF MainPcs

\* What is known of a thread that is in the graph, outside a barrier.
LEMMA AtWork ==
    ASSUME PoolInv, NEW t \in Threads, pc[t] \in GraphPcs \ {"barrier"}
    PROVE  /\ InGraph(t) /\ Within(t) /\ at[t] = "out" /\ t \in Party
           /\ cgraph \in 1 .. Len(Graphs) /\ NLen \in 0 .. NNodes /\ NNodes \in Nat
           /\ node[t] \in Nat /\ node[t] >= 1
           /\ \A k \in 1 .. NLen : Graphs[cgraph].nodes[k] \in {"plain", "mul_mat"}
           /\ Stage(t) = Stage(0) /\ Stage(0) # 0
           /\ pc[t] # "run" => Kinds(t) = Graphs[cgraph].nodes /\ Len(Kinds(t)) = NLen
<1>1. TypeOK /\ MainInv /\ ThreadsInv /\ Lockstep
    BY DEF PoolInv
<1>2. InGraph(t) /\ ThreadInv(t)
    BY <1>1 DEF InGraph, ThreadsInv
<1>3. Within(t) /\ at[t] = "out"
    BY <1>2 DEF ThreadInv
<1>4. /\ cgraph \in 1 .. Len(Graphs) /\ NLen \in 0 .. NNodes
      /\ node[t] \in Nat /\ node[t] >= 1 /\ t \in Party
      /\ \A k \in 1 .. NLen : Graphs[cgraph].nodes[k] \in {"plain", "mul_mat"}
      /\ Stage(t) >= 2
    BY <1>1, <1>2, GraphFacts
<1>5. Stage(t) = Stage(0) /\ Stage(0) # 0
    BY <1>1, <1>4 DEF Lockstep
<1>6. pc[t] # "run" => Kinds(t) = Graphs[cgraph].nodes /\ Len(Kinds(t)) = NLen
    BY <1>3 DEF Within, Kinds, NLen
<1> QED  BY <1>2, <1>3, <1>4, <1>5, <1>6, Constants

LEMMA RunGraphInv ==
    ASSUME PoolInv, NEW t \in Threads, RunGraph(t)
    PROVE  PoolInv'
<1>1. TypeOK
    BY DEF PoolInv
<1>2. /\ pc[t] = "run" /\ pc' = [pc EXCEPT ![t] = "loop"]
      /\ graph' = [graph EXCEPT ![t] = cgraph] /\ nth' = [nth EXCEPT ![t] = n_threads_cur]
      /\ node' = [node EXCEPT ![t] = 1]
      /\ UNCHANGED <<poolvars, ret, pollvars, chunk, prepared, computed, paused, barriervars>>
    BY DEF RunGraph, Step
<1>3. /\ pc \in [Threads -> MainPcs \cup WorkerPcs \cup GraphPcs]
      /\ graph \in [Threads -> 0 .. Len(Graphs)] /\ nth \in [Threads -> 1 .. N]
      /\ node \in [Threads -> 1 .. NNodes + 1]
    BY <1>1 DEF TypeOK
<1>4. pc'[t] = "loop" /\ graph'[t] = cgraph /\ nth'[t] = n_threads_cur /\ node'[t] = 1
    BY <1>2, <1>3
<1>5. \A u \in Threads \ {t} : Same(u)
    BY <1>2, <1>3 DEF Same, pollvars, barriervars
<1>6. SameGraph /\ abort' = abort /\ last_graph' = last_graph /\ seen' = seen /\ at' = at
    BY <1>2 DEF SameGraph, poolvars, pollvars, barriervars
<1>7. /\ InGraph(t) /\ Within(t) /\ at[t] = "out" /\ NLen \in 0 .. NNodes /\ NNodes \in Nat
      /\ cgraph \in 1 .. Len(Graphs)
    BY <1>2, AtWork DEF GraphPcs
<1>8. InGraph(t)' /\ Stage(t) = 2
    BY <1>2, <1>4, <1>7 DEF InGraph, GraphPcs, Stage
<1>9. Within(t)'
    BY <1>4, <1>6, <1>7 DEF Within, SameGraph, NLen
<1>10. Stage(t)' = 2
    BY <1>4, <1>8 DEF Stage, LoopStage
<1>11. SameWork(t)
    BY <1>2, <1>4, Constants DEF SameWork, Past, Converted, Holds
<1>12. /\ MainInv' /\ ThreadsInv' /\ Lockstep' /\ Stage(0)' = Stage(0)
       /\ pc[0] \notin {"cur", "graph"} /\ pc'[0] \notin {"cur", "graph"}
       /\ Stage(0) # 0 /\ \A u \in Threads \ {t} : SameWork(u)
    BY <1>4, <1>5, <1>6, <1>7, <1>8, <1>9, <1>10, GraphKeeps DEF GraphPcs
<1>13. DataInv'
    BY <1>1, <1>2, <1>6, <1>11, <1>12, PartyFacts, DataKeeps DEF poolvars
<1>14. MeetInv'
    BY <1>2, <1>6, MeetKeeps DEF barriervars, SameGraph, Party
<1>15. TypeOK'
  <2>1. /\ pc' \in [Threads -> MainPcs \cup WorkerPcs \cup GraphPcs]
        /\ graph' \in [Threads -> 0 .. Len(Graphs)] /\ nth' \in [Threads -> 1 .. N]
    BY <1>1, <1>2, <1>3, PartyFacts DEF GraphPcs, TypeOK
  <2>2. node' \in [Threads -> 1 .. NNodes + 1]
    BY <1>2, <1>3, <1>7
  <2> QED  BY <1>1, <1>2, <2>1, <2>2 DEF TypeOK, BarrierTypeOK, poolvars, pollvars, barriervars
<1> QED  BY <1>12, <1>13, <1>14, <1>15 DEF PoolInv

LEMMA NodeLoopInv ==
    ASSUME PoolInv, NEW t \in Threads, NodeLoop(t)
    PROVE  PoolInv'
<1>1. TypeOK
    BY DEF PoolInv
<1>2. PICK to \in {"work", "barrier"} :
        /\ pc[t] = "loop" /\ pc' = [pc EXCEPT ![t] = to]
        /\ IF node[t] <= Len(Kinds(t)) /\ abort # node[t]
           THEN to = "work" /\ ret' = ret
           ELSE to = "barrier" /\ ret' = [ret EXCEPT ![t] = "final"]
        /\ UNCHANGED <<poolvars, pollvars, workvars, paused, barriervars>>
    BY DEF NodeLoop, Step
<1>3. /\ pc \in [Threads -> MainPcs \cup WorkerPcs \cup GraphPcs]
      /\ ret \in [Threads -> {"chunk", "next", "final"}]
    BY <1>1 DEF TypeOK
<1>4. pc'[t] = to /\ (to = "barrier" => ret'[t] = "final") /\ to \in GraphPcs
    BY <1>2, <1>3 DEF GraphPcs
<1>5. \A u \in Threads \ {t} : Same(u)
    BY <1>2, <1>3 DEF Same, pollvars, workvars, barriervars
<1>6. /\ SameGraph /\ abort' = abort /\ last_graph' = last_graph /\ seen' = seen /\ at' = at
      /\ node' = node /\ graph' = graph /\ nth' = nth
    BY <1>2 DEF SameGraph, poolvars, pollvars, workvars, barriervars
<1>7. /\ InGraph(t) /\ Within(t) /\ at[t] = "out" /\ NLen \in 0 .. NNodes /\ NNodes \in Nat
      /\ cgraph \in 1 .. Len(Graphs) /\ node[t] \in Nat /\ node[t] >= 1 /\ Len(Kinds(t)) = NLen
    BY <1>2, AtWork DEF GraphPcs
<1>8. InGraph(t)' /\ ~ Gone(t)'
    BY <1>4, <1>6, <1>7 DEF InGraph, Gone
<1>9. Within(t)'
  <2>1. node[t] <= NLen \/ node[t] = NLen + 1
    BY <1>2, <1>7 DEF Within
  <2> QED  BY <1>2, <1>4, <1>6, <1>7, <2>1 DEF Within, SameGraph, NLen
<1>10. Stage(t)' = Stage(t)
  <2>1. Stage(t) = LoopStage(node[t])
    BY <1>2, <1>7 DEF Stage
  <2>2. Stage(t)' = LoopStage(node[t])'
    BY <1>4, <1>8 DEF Stage, BarrierStage
  <2> QED  BY <1>6, <2>1, <2>2 DEF LoopStage, EndStage, NLen, IsMul, SameGraph
<1>11. SameWork(t)
    BY <1>2, <1>4, <1>6, <1>7, <1>8 DEF SameWork, Past, Converted, Holds
<1>12. /\ MainInv' /\ ThreadsInv' /\ Lockstep' /\ Stage(0)' = Stage(0)
       /\ pc[0] \notin {"cur", "graph"} /\ pc'[0] \notin {"cur", "graph"}
       /\ Stage(0) # 0 /\ \A u \in Threads \ {t} : SameWork(u)
    BY <1>4, <1>5, <1>6, <1>7, <1>8, <1>9, <1>10, GraphKeeps
<1>13. DataInv'
    BY <1>1, <1>2, <1>6, <1>11, <1>12, PartyFacts, DataKeeps DEF poolvars, workvars
<1>14. MeetInv'
    BY <1>2, <1>6, MeetKeeps DEF barriervars, SameGraph, Party
<1>15. TypeOK'
  <2>1. /\ pc' \in [Threads -> MainPcs \cup WorkerPcs \cup GraphPcs]
        /\ ret' \in [Threads -> {"chunk", "next", "final"}]
    BY <1>2, <1>3, <1>4
  <2> QED  BY <1>1, <1>2, <2>1 DEF TypeOK, BarrierTypeOK, poolvars, pollvars, workvars, barriervars
<1> QED  BY <1>12, <1>13, <1>14, <1>15 DEF PoolInv

\* Threads in the same node are at a stage of it.
LEMMA StageNode ==
    ASSUME PoolInv, NEW t \in Threads, InGraph(t),
           \/ pc[t] \in {"work", "chunk", "after"}
           \/ pc[t] = "barrier" /\ ret[t] = "chunk"
           \/ pc[t] = "barrier" /\ ret[t] = "next" /\ ~ Gone(t)
           \/ pc[t] = "barrier" /\ ret[t] = "final" /\ node[t] <= NLen
    PROVE  /\ Stage(0) \in {2 * node[t], 2 * node[t] + 1}
           /\ pc[t] = "barrier" /\ ret[t] = "final" => Stage(0) = 2 * node[t]
<1>1. TypeOK /\ MainInv /\ ThreadsInv /\ Lockstep
    BY DEF PoolInv
<1>2. t \in Party /\ NLen \in Nat /\ node[t] \in Nat
    BY <1>1, Constants, GraphFacts DEF ThreadsInv
<1>3. Stage(0) = Stage(t)
    BY <1>1, <1>2 DEF Lockstep
<1>4. Within(t)
    BY <1>1 DEF ThreadsInv, ThreadInv
<1>5. node[t] <= NLen => LoopStage(node[t]) = 2 * node[t]
    BY <1>2 DEF LoopStage
<1>6. EndStage(node[t]) \in {2 * node[t], 2 * node[t] + 1}
    BY DEF EndStage
<1>7. pc[t] = "work" => node[t] <= NLen
    BY <1>4 DEF Within
<1> QED  BY <1>3, <1>5, <1>6, <1>7 DEF Stage, BarrierStage

\* The node to stop before is behind the one all threads are at.
LEMMA AbortBehind ==
    ASSUME PoolInv, pc[0] = "after", abort' = node[0] + 1, SameGraph,
           NEW u \in Threads \ {0}, Same(u)
    PROVE  ThreadInv(u)'
<1>1. TypeOK /\ ThreadsInv
    BY DEF PoolInv
<1>2. ThreadInv(u) /\ (InGraph(u)' <=> InGraph(u)) /\ (Gone(u)' <=> Gone(u))
    BY <1>1, SameThread DEF ThreadsInv, Same, SameGraph, Gone
<1>3. SUFFICES ASSUME InGraph(u) PROVE Within(u)'
    BY <1>2 DEF ThreadInv, Same
<1>4. Within(u) /\ node[u] \in Nat /\ node[0] \in Nat
  <2>1. node \in [Threads -> 1 .. NNodes + 1]
    BY <1>1 DEF TypeOK
  <2> QED  BY <1>2, <1>3, <2>1, Constants DEF ThreadInv
<1>5. 0 \in Threads /\ InGraph(0) /\ abort # node[0] /\ NLen \in Nat
    BY Constants, AtWork DEF GraphPcs, Within
<1>6. Stage(0) \in {2 * node[0], 2 * node[0] + 1}
    BY <1>5, StageNode
<1>7. ASSUME Stage(0) \in {2 * node[u], 2 * node[u] + 1} PROVE node[u] = node[0]
    BY <1>4, <1>6, <1>7
<1>8. pc[u] \in {"work", "chunk", "after"} => abort' # node[u]
    BY <1>3, <1>4, <1>7, StageNode
<1>9. pc[u] = "barrier" /\ ret[u] = "chunk" => abort' # node[u]
    BY <1>3, <1>4, <1>7, StageNode
<1>10. pc[u] = "barrier" /\ ret[u] = "next" /\ ~ Gone(u) => abort' # node[u]
    BY <1>3, <1>4, <1>7, StageNode
<1>11. pc[u] = "barrier" /\ ret[u] = "final" => node[u] = NLen + 1
  <2> SUFFICES ASSUME pc[u] = "barrier", ret[u] = "final", node[u] # NLen + 1 PROVE FALSE
    OBVIOUS
  <2>1. abort = node[u] /\ node[u] <= NLen
    BY <1>4, <1>5 DEF Within
  <2> QED  BY <1>3, <1>5, <1>7, <2>1, StageNode
<1>12. NLen' = NLen /\ \A k : IsMul(k)' <=> IsMul(k)
    BY DEF SameGraph, NLen, IsMul
<1> QED  BY <1>2, <1>4, <1>8, <1>9, <1>10, <1>11, <1>12 DEF Within, Same, SameGraph

LEMMA AfterNodeInv ==
    ASSUME PoolInv, NEW t \in Threads, AfterNode(t)
    PROVE  PoolInv'
<1>1. TypeOK
    BY DEF PoolInv
<1> DEFINE more == node[t] < Len(Kinds(t))
<1>2. /\ pc[t] = "after" /\ pc' = [pc EXCEPT ![t] = IF more THEN "barrier" ELSE "loop"]
      /\ abort' = abort \/ (t = 0 /\ abort' = node[0] + 1)
      /\ ret' = IF more THEN [ret EXCEPT ![t] = "next"] ELSE ret
      /\ node' = IF more THEN node ELSE [node EXCEPT ![t] = node[t] + 1]
      /\ UNCHANGED <<cgraph, n_graph, n_threads_cur, current_chunk, stop, pause, pollvars, graph,
                     nth, chunk, prepared, computed, paused, barriervars>>
    BY DEF AfterNode, Step, AbortAt
<1>3. /\ pc \in [Threads -> MainPcs \cup WorkerPcs \cup GraphPcs]
      /\ ret \in [Threads -> {"chunk", "next", "final"}] /\ node \in [Threads -> 1 .. NNodes + 1]
    BY <1>1 DEF TypeOK
<1>4. /\ InGraph(t) /\ Within(t) /\ at[t] = "out" /\ NLen \in 0 .. NNodes /\ NNodes \in Nat
      /\ cgraph \in 1 .. Len(Graphs) /\ node[t] \in Nat /\ node[t] >= 1 /\ Len(Kinds(t)) = NLen
      /\ node[t] <= NLen /\ abort # node[t] /\ graph[t] = cgraph /\ nth[t] = n_threads_cur
    BY <1>2, AtWork DEF GraphPcs, Within
<1>5. /\ pc'[t] = IF more THEN "barrier" ELSE "loop"
      /\ more => ret'[t] = "next" /\ node'[t] = node[t]
      /\ ~ more => node'[t] = NLen + 1 /\ node[t] = NLen
    BY <1>2, <1>3, <1>4
<1>6. more <=> node[t] < NLen
    BY <1>4
<1> HIDE DEF more
<1>7. \A u \in Threads \ {t} : Same(u)
    BY <1>2, <1>3 DEF Same, pollvars, barriervars
<1>8. /\ SameGraph /\ last_graph' = last_graph /\ seen' = seen /\ at' = at
      /\ graph' = graph /\ nth' = nth /\ NLen' = NLen
    BY <1>2 DEF SameGraph, pollvars, barriervars, NLen
<1>9. abort' = abort \/ \A u \in Threads \ {t} : ThreadInv(u)'
    BY <1>2, <1>7, <1>8, AbortBehind
<1>10. InGraph(t)' /\ ~ Gone(t)' /\ pc'[t] \in GraphPcs
    BY <1>4, <1>5, <1>8 DEF InGraph, Gone, GraphPcs
<1>11. abort' # node[t]
    BY <1>2, <1>4
<1>12. Within(t)'
    BY <1>4, <1>5, <1>6, <1>8, <1>10, <1>11 DEF Within, SameGraph
<1>13. Stage(t)' = Stage(t)
  <2>1. Stage(t) = EndStage(node[t])
    BY <1>2, <1>4 DEF Stage
  <2>2. \A k : EndStage(k)' = EndStage(k)
    BY <1>8 DEF EndStage, IsMul, SameGraph
  <2>3. CASE more
    BY <1>5, <1>10, <2>1, <2>2, <2>3 DEF Stage, BarrierStage
  <2>4. CASE ~ more
    <3>1. Stage(t)' = LoopStage(NLen + 1)'
        BY <1>5, <1>8, <1>10, <2>4 DEF Stage
    <3>2. LoopStage(NLen + 1)' = EndStage(NLen)'
        BY <1>4, <1>8 DEF LoopStage
    <3> QED  BY <1>5, <1>8, <2>1, <2>2, <2>4, <3>1, <3>2
  <2> QED  BY <2>3, <2>4
<1>14. SameWork(t)
  <2>1. ASSUME NEW k \in Nodes PROVE Past(t, k)' <=> Past(t, k)
    <3>1. k \in Nat
        BY Constants
    <3>2. CASE more
        BY <1>2, <1>4, <1>5, <1>10, <3>1, <3>2 DEF Past
    <3>3. CASE ~ more
        BY <1>2, <1>4, <1>5, <1>10, <3>1, <3>3 DEF Past
    <3> QED  BY <3>2, <3>3
  <2> QED  BY <1>2, <1>5, <2>1 DEF SameWork, Converted, Holds
<1>15. /\ MainInv' /\ ThreadsInv' /\ Lockstep' /\ Stage(0)' = Stage(0)
       /\ pc[0] \notin {"cur", "graph"} /\ pc'[0] \notin {"cur", "graph"}
       /\ Stage(0) # 0 /\ \A u \in Threads \ {t} : SameWork(u)
    BY <1>4, <1>7, <1>8, <1>9, <1>10, <1>12, <1>13, GraphKeeps
<1>16. DataInv'
    BY <1>1, <1>2, <1>8, <1>14, <1>15, PartyFacts, DataKeeps
<1>17. MeetInv'
    BY <1>2, <1>8, MeetKeeps DEF barriervars, SameGraph, Party
<1>18. TypeOK'
  <2>1. /\ pc' \in [Threads -> MainPcs \cup WorkerPcs \cup GraphPcs]
        /\ ret' \in [Threads -> {"chunk", "next", "final"}]
    BY <1>2, <1>3 DEF GraphPcs
  <2>2. node[t] + 1 \in 1 .. NNodes + 1
    BY <1>4
  <2>3. node' \in [Threads -> 1 .. NNodes + 1]
    BY <1>2, <1>3, <2>2
  <2>4. abort' \in 0 .. NNodes + 1
    <3>1. t = 0 => node[0] + 1 \in 0 .. NNodes + 1
        BY <1>4
    <3> QED  BY <1>1, <1>2, <3>1 DEF TypeOK
  <2> QED  BY <1>1, <1>2, <2>1, <2>3, <2>4 DEF TypeOK, BarrierTypeOK, pollvars, barriervars
<1> QED  BY <1>15, <1>16, <1>17, <1>18 DEF PoolInv

\* A step that works on node k, the one at hand.
LEMMA OneNode ==
    ASSUME PoolInv, SameGraph, Stage(0)' = Stage(0), NEW k \in 1 .. NLen, NLen \in 0 .. NNodes,
           Stage(0) \in {2 * k, 2 * k + 1}, ~ IsMul(k) => Stage(0) = 2 * k,
           \A j \in Nodes \ {k} : computed'[j] = computed[j] /\ prepared'[j] = prepared[j],
           \A p \in AllParts : computed'[k][p] <= 1, pc'[0] \notin {"cur", "graph"},
           ~ IsMul(k) => PlainInv(k)',
           IsMul(k) /\ Stage(0) = 2 * k => ConvertInv(k)',
           IsMul(k) /\ Stage(0) = 2 * k + 1 => ChunkInv(k)'
    PROVE  DataInv'
<1>1. DataInv
    BY DEF PoolInv
<1>2. k \in Nat /\ k >= 1 /\ k <= NLen /\ NLen \in Nat
    BY Constants
<1>3. NLen' = NLen /\ \A j : (IsMul(j)' <=> IsMul(j)) /\ EndStage(j)' = EndStage(j)
    BY DEF SameGraph, NLen, IsMul, EndStage
<1>4. Stage(0) # 0
    BY <1>2
<1>5. ASSUME NEW j \in Nodes \ {k} PROVE NodeInv(j, Stage(0))'
  <2>1. NodeInv(j, Stage(0)) /\ j \in Nat
    BY <1>1, <1>4, Constants DEF DataInv
  <2>2. Stage(0) # 2 * j /\ Stage(0) # 2 * j + 1
    BY <1>2, <2>1
  <2>3. (Blank(j)' <=> Blank(j)) /\ (Finished(j)' <=> Finished(j))
    BY DEF Blank, Finished, SameGraph
  <2> QED  BY <1>3, <2>1, <2>2, <2>3 DEF NodeInv
<1>6. NodeInv(k, Stage(0))'
  <2>1. ~ (k > NLen) /\ ~ (2 * k > Stage(0)) /\ ~ (EndStage(k) < Stage(0))
    BY <1>2 DEF EndStage
  <2> QED  BY <1>3, <2>1 DEF NodeInv
<1>7. \A j \in Nodes, p \in AllParts : computed'[j][p] <= 1
    BY <1>1 DEF DataInv
<1> QED  BY <1>4, <1>5, <1>6, <1>7 DEF DataInv

LEMMA WorkPlainInv ==
    ASSUME PoolInv, NEW t \in Threads, WorkPlain(t)
    PROVE  PoolInv'
<1>1. TypeOK /\ DataInv
    BY DEF PoolInv
<1>0. PICK k : k = node[t]
    OBVIOUS
<1>2. /\ pc[t] = "work" /\ pc' = [pc EXCEPT ![t] = "after"] /\ Kinds(t)[k] = "plain"
      /\ computed' = [computed EXCEPT ![k][t] = @ + 1]
      /\ UNCHANGED <<poolvars, ret, pollvars, graph, nth, node, chunk, prepared, paused, barriervars>>
    BY <1>0 DEF WorkPlain, Step, Compute
<1>3. /\ pc \in [Threads -> MainPcs \cup WorkerPcs \cup GraphPcs]
      /\ computed \in [Nodes -> [AllParts -> Nat]]
    BY <1>1 DEF TypeOK
<1>4. /\ InGraph(t) /\ Within(t) /\ at[t] = "out" /\ NLen \in 0 .. NNodes /\ NNodes \in Nat
      /\ cgraph \in 1 .. Len(Graphs) /\ k \in Nat /\ k >= 1 /\ k <= NLen /\ t \in Party
      /\ abort # k /\ graph[t] = cgraph /\ nth[t] = n_threads_cur /\ ~ IsMul(k)
      /\ Stage(t) = Stage(0)
    BY <1>0, <1>2, AtWork DEF GraphPcs, Within, IsMul
<1>5. k \in Nodes /\ k \in 1 .. NLen /\ t \in AllParts
    BY <1>4, Constants
<1>6. pc'[t] = "after" /\ computed'[k][t] = computed[k][t] + 1 /\ node'[t] = k
    BY <1>0, <1>2, <1>3, <1>5
<1>7. \A p \in AllParts \ {t} : computed'[k][p] = computed[k][p]
    BY <1>2, <1>3, <1>5
<1>8. /\ computed' \in [Nodes -> [AllParts -> Nat]]
      /\ \A j \in Nodes \ {k} : computed'[j] = computed[j]
  <2>1. computed' = [computed EXCEPT ![k] = [computed[k] EXCEPT ![t] = computed[k][t] + 1]]
    BY <1>2, <1>3, <1>5
  <2>2. [computed[k] EXCEPT ![t] = computed[k][t] + 1] \in [AllParts -> Nat]
    BY <1>3, <1>5
  <2> QED  BY <1>3, <2>1, <2>2
<1>9. \A u \in Threads \ {t} : Same(u)
    BY <1>2, <1>3 DEF Same, pollvars, barriervars
<1>10. /\ SameGraph /\ last_graph' = last_graph /\ seen' = seen /\ at' = at /\ abort' = abort
       /\ graph' = graph /\ nth' = nth /\ NLen' = NLen /\ prepared' = prepared /\ node' = node
       /\ Party' = Party /\ Party \subseteq Threads
    BY <1>1, <1>2, PartyFacts DEF SameGraph, poolvars, pollvars, barriervars, NLen, Party
<1>11. InGraph(t)' /\ pc'[t] \in GraphPcs
    BY <1>6 DEF InGraph, GraphPcs
<1>12. Within(t)'
    BY <1>0, <1>4, <1>6, <1>10 DEF Within, SameGraph
<1>13. Stage(t)' = Stage(t) /\ Stage(0) = 2 * k
  <2>1. Stage(t) = 2 * k
    BY <1>0, <1>2, <1>4 DEF Stage, LoopStage
  <2>2. Stage(t)' = 2 * k
    BY <1>4, <1>6, <1>10, <1>11 DEF Stage, EndStage, IsMul, SameGraph
  <2> QED  BY <1>4, <2>1, <2>2
<1>14. /\ MainInv' /\ ThreadsInv' /\ Lockstep' /\ Stage(0)' = Stage(0)
       /\ pc'[0] \notin {"cur", "graph"} /\ Stage(0) # 0 /\ \A u \in Threads \ {t} : SameWork(u)
    BY <1>4, <1>6, <1>9, <1>10, <1>11, <1>12, <1>13, GraphKeeps
<1>15. PlainInv(k)
  <2>1. NodeInv(k, Stage(0))
    BY <1>1, <1>5, <1>14 DEF DataInv
  <2> QED  BY <1>4, <1>13, <2>1 DEF NodeInv
<1>16. ~ Past(t, k) /\ Past(t, k)'
    BY <1>0, <1>2, <1>4, <1>6, <1>10, <1>11 DEF Past
<1>17. computed[k][t] = 0
    BY <1>4, <1>5, <1>15, <1>16 DEF PlainInv
<1>18. PlainInv(k)'
  <2>1. \A u \in Party \ {t} : Past(u, k)' <=> Past(u, k)
    BY <1>5, <1>10, <1>14 DEF SameWork
  <2> QED  BY <1>4, <1>6, <1>7, <1>10, <1>15, <1>16, <1>17, <2>1 DEF PlainInv
<1>19. \A p \in AllParts : computed'[k][p] <= 1
    BY <1>18 DEF PlainInv
<1>20. DataInv'
    BY <1>4, <1>5, <1>8, <1>10, <1>13, <1>14, <1>18, <1>19, OneNode
<1>21. MeetInv'
    BY <1>2, <1>10, MeetKeeps DEF barriervars, poolvars
<1>22. TypeOK'
  <2>1. pc' \in [Threads -> MainPcs \cup WorkerPcs \cup GraphPcs]
    BY <1>2, <1>3 DEF GraphPcs
  <2> QED  BY <1>1, <1>2, <1>8, <2>1 DEF TypeOK, BarrierTypeOK, poolvars, pollvars, barriervars
<1> QED  BY <1>14, <1>20, <1>21, <1>22 DEF PoolInv

LEMMA WorkMulMatInv ==
    ASSUME PoolInv, NEW t \in Threads, WorkMulMat(t)
    PROVE  PoolInv'
<1>1. TypeOK /\ DataInv
    BY DEF PoolInv
<1>0. PICK k : k = node[t]
    OBVIOUS
<1>2. /\ pc[t] = "work" /\ pc' = [pc EXCEPT ![t] = "barrier"] /\ Kinds(t)[k] = "mul_mat"
      /\ prepared' = [prepared EXCEPT ![k] = @ \cup {t}]
      /\ current_chunk' = IF t = 0 THEN nth[t] ELSE current_chunk
      /\ ret' = [ret EXCEPT ![t] = "chunk"]
      /\ UNCHANGED <<cgraph, n_graph, n_threads_cur, stop, pause, abort, pollvars, graph, nth, node,
                     chunk, computed, paused, barriervars>>
    BY <1>0 DEF WorkMulMat, Step, FirstChunk
<1>3. /\ pc \in [Threads -> MainPcs \cup WorkerPcs \cup GraphPcs]
      /\ ret \in [Threads -> {"chunk", "next", "final"}] /\ prepared \in [Nodes -> SUBSET Threads]
      /\ computed \in [Nodes -> [AllParts -> Nat]]
    BY <1>1 DEF TypeOK
<1>4. /\ InGraph(t) /\ Within(t) /\ at[t] = "out" /\ NLen \in 0 .. NNodes /\ NNodes \in Nat
      /\ cgraph \in 1 .. Len(Graphs) /\ k \in Nat /\ k >= 1 /\ k <= NLen /\ t \in Party
      /\ abort # k /\ graph[t] = cgraph /\ nth[t] = n_threads_cur /\ IsMul(k)
      /\ Stage(t) = Stage(0)
    BY <1>0, <1>2, AtWork DEF GraphPcs, Within, IsMul
<1>5. k \in Nodes /\ k \in 1 .. NLen
    BY <1>4, Constants
<1>6. pc'[t] = "barrier" /\ ret'[t] = "chunk" /\ prepared'[k] = prepared[k] \cup {t} /\ node'[t] = k
    BY <1>0, <1>2, <1>3, <1>5
<1>7. \A j \in Nodes \ {k} : computed'[j] = computed[j] /\ prepared'[j] = prepared[j]
    BY <1>2, <1>3
<1>8. \A u \in Threads \ {t} : Same(u)
    BY <1>2, <1>3 DEF Same, pollvars, barriervars
<1>9. /\ SameGraph /\ last_graph' = last_graph /\ seen' = seen /\ at' = at /\ abort' = abort
      /\ graph' = graph /\ nth' = nth /\ NLen' = NLen /\ computed' = computed
      /\ Party' = Party /\ Party \subseteq Threads
    BY <1>1, <1>2, PartyFacts DEF SameGraph, pollvars, barriervars, NLen, Party
<1>10. InGraph(t)' /\ pc'[t] \in GraphPcs /\ ~ Gone(t)'
    BY <1>4, <1>6, <1>9 DEF InGraph, GraphPcs, Gone
<1>11. Within(t)'
    BY <1>0, <1>4, <1>6, <1>9 DEF Within, SameGraph, IsMul
<1>12. Stage(t)' = Stage(t) /\ Stage(0) = 2 * k
  <2>1. Stage(t) = 2 * k
    BY <1>0, <1>2, <1>4 DEF Stage, LoopStage
  <2>2. Stage(t)' = 2 * k
    BY <1>4, <1>6, <1>10 DEF Stage, BarrierStage
  <2> QED  BY <1>4, <2>1, <2>2
<1>13. /\ MainInv' /\ ThreadsInv' /\ Lockstep' /\ Stage(0)' = Stage(0)
       /\ pc'[0] \notin {"cur", "graph"} /\ Stage(0) # 0 /\ \A u \in Threads \ {t} : SameWork(u)
    BY <1>4, <1>6, <1>8, <1>9, <1>10, <1>11, <1>12, GraphKeeps
<1>14. ConvertInv(k)
  <2>1. NodeInv(k, Stage(0))
    BY <1>1, <1>5, <1>13 DEF DataInv
  <2> QED  BY <1>4, <1>12, <2>1 DEF NodeInv
<1>15. ~ Converted(t, k) /\ Converted(t, k)'
    BY <1>2, <1>6, <1>10 DEF Converted
<1>16. ConvertInv(k)'
  <2>1. \A u \in Party \ {t} : Converted(u, k)' <=> Converted(u, k)
    BY <1>5, <1>9, <1>12, <1>13 DEF SameWork
  <2>2. prepared[k] = {u \in Party : Converted(u, k)}
    BY <1>14 DEF ConvertInv
  <2>3. {u \in Party : Converted(u, k)'} = {u \in Party : Converted(u, k)} \cup {t}
    BY <1>4, <1>15, <2>1
  <2>4. prepared'[k] = {u \in Party' : Converted(u, k)'}
    BY <1>6, <1>9, <2>2, <2>3
  <2>5. Converted(0, k)' => current_chunk' = n_threads_cur'
    <3>1. CASE t = 0
        BY <1>2, <1>4, <3>1
    <3>2. CASE t # 0
      <4>1. Converted(0, k) => current_chunk = n_threads_cur
        BY <1>14 DEF ConvertInv
      <4>2. 0 \in Party
        BY <1>1, PartyFacts
      <4> QED  BY <1>2, <2>1, <3>2, <4>1, <4>2
    <3> QED  BY <3>1, <3>2
  <2> QED  BY <1>9, <1>14, <2>4, <2>5 DEF ConvertInv
<1>17. DataInv'
  <2>1. \A p \in AllParts : computed'[k][p] <= 1
    BY <1>1, <1>5, <1>9 DEF DataInv
  <2> QED  BY <1>4, <1>5, <1>7, <1>9, <1>12, <1>13, <1>16, <2>1, OneNode
<1>18. MeetInv'
    BY <1>2, <1>9, MeetKeeps DEF barriervars
<1>19. TypeOK'
  <2>1. /\ pc' \in [Threads -> MainPcs \cup WorkerPcs \cup GraphPcs]
        /\ ret' \in [Threads -> {"chunk", "next", "final"}]
        /\ prepared' \in [Nodes -> SUBSET Threads]
    BY <1>2, <1>3, <1>5 DEF GraphPcs
  <2>2. current_chunk' \in Nat
    <3>1. n_threads_cur \in Nat /\ current_chunk \in Nat
        BY <1>1, PartyFacts, Constants DEF TypeOK
    <3> QED  BY <1>2, <1>4, <3>1
  <2> QED  BY <1>1, <1>2, <2>1, <2>2 DEF TypeOK, BarrierTypeOK, pollvars, barriervars
<1> QED  BY <1>13, <1>17, <1>18, <1>19 DEF PoolInv

\* What is known of a thread among the chunks.
LEMMA AtChunks ==
    ASSUME PoolInv, NEW t \in Threads, pc[t] = "chunk", NEW k, k = node[t]
    PROVE  /\ InGraph(t) /\ Within(t) /\ at[t] = "out" /\ NLen \in 0 .. NNodes
           /\ NNodes \in Nat /\ k \in Nat /\ k >= 1 /\ k <= NLen /\ t \in Party
           /\ k \in Nodes /\ k \in 1 .. NLen /\ IsMul(k) /\ abort # k
           /\ graph[t] = cgraph /\ nth[t] = n_threads_cur /\ n_threads_cur \in Nat
           /\ current_chunk \in Nat /\ chunk[t] \in Nat
           /\ Stage(t) = Stage(0) /\ Stage(0) = 2 * k + 1 /\ ChunkInv(k)
           /\ Party \subseteq Threads
<1>1. TypeOK /\ DataInv
    BY DEF PoolInv
<1>2. /\ InGraph(t) /\ Within(t) /\ at[t] = "out" /\ NLen \in 0 .. NNodes /\ NNodes \in Nat
      /\ k \in Nat /\ k >= 1 /\ k <= NLen /\ t \in Party /\ IsMul(k) /\ abort # k
      /\ graph[t] = cgraph /\ nth[t] = n_threads_cur /\ Stage(t) = Stage(0)
    BY AtWork DEF GraphPcs, Within
<1>3. k \in Nodes /\ k \in 1 .. NLen
    BY <1>2, Constants
<1>4. Stage(0) = 2 * k + 1
    BY <1>2 DEF Stage
<1>5. ChunkInv(k)
  <2>1. NodeInv(k, Stage(0))
    BY <1>1, <1>2, <1>3, <1>4 DEF DataInv
  <2> QED  BY <1>2, <1>4, <2>1 DEF NodeInv
<1>6. n_threads_cur \in Nat /\ Party \subseteq Threads
    BY <1>1, PartyFacts, Constants
<1>7. current_chunk \in Nat /\ chunk[t] \in Nat
    BY <1>1 DEF TypeOK
<1> QED  BY <1>2, <1>3, <1>4, <1>5, <1>6, <1>7

LEMMA NoChunkLeftInv ==
    ASSUME PoolInv, NEW t \in Threads, NoChunkLeft(t)
    PROVE  PoolInv'
<1>1. TypeOK /\ DataInv
    BY DEF PoolInv
<1>0. PICK k : k = node[t]
    OBVIOUS
<1>2. /\ pc[t] = "chunk" /\ pc' = [pc EXCEPT ![t] = "after"] /\ chunk[t] >= NChunks
      /\ UNCHANGED <<poolvars, ret, pollvars, workvars, paused, barriervars>>
    BY DEF NoChunkLeft, Step
<1>3. pc \in [Threads -> MainPcs \cup WorkerPcs \cup GraphPcs]
    BY <1>1 DEF TypeOK
<1>4. /\ InGraph(t) /\ Within(t) /\ at[t] = "out" /\ NLen \in 0 .. NNodes
      /\ NNodes \in Nat /\ k \in Nat /\ k >= 1 /\ k <= NLen /\ t \in Party
      /\ k \in Nodes /\ k \in 1 .. NLen /\ IsMul(k) /\ abort # k
      /\ graph[t] = cgraph /\ nth[t] = n_threads_cur /\ n_threads_cur \in Nat
      /\ current_chunk \in Nat /\ chunk[t] \in Nat
      /\ Stage(t) = Stage(0) /\ Stage(0) = 2 * k + 1 /\ ChunkInv(k) /\ Party \subseteq Threads
    BY <1>0, <1>2, AtChunks
<1>5. /\ SameGraph /\ last_graph' = last_graph /\ seen' = seen /\ at' = at /\ abort' = abort
      /\ graph' = graph /\ nth' = nth /\ NLen' = NLen /\ computed' = computed
      /\ prepared' = prepared /\ node' = node /\ chunk' = chunk /\ current_chunk' = current_chunk
      /\ Party' = Party
    BY <1>2 DEF SameGraph, pollvars, poolvars, workvars, barriervars, NLen, Party
<1>6. pc'[t] = "after" /\ \A u \in Threads \ {t} : Same(u)
    BY <1>2, <1>3, <1>5 DEF Same, barriervars
<1>7. InGraph(t)' /\ pc'[t] \in GraphPcs
    BY <1>6 DEF InGraph, GraphPcs
<1>8. Within(t)'
    BY <1>0, <1>4, <1>5, <1>6 DEF Within, SameGraph
<1>9. Stage(t)' = Stage(t)
    BY <1>0, <1>4, <1>5, <1>6, <1>7 DEF Stage, EndStage, IsMul, SameGraph
<1>10. /\ MainInv' /\ ThreadsInv' /\ Lockstep' /\ Stage(0)' = Stage(0)
       /\ pc'[0] \notin {"cur", "graph"} /\ Stage(0) # 0 /\ \A u \in Threads \ {t} : SameWork(u)
    BY <1>4, <1>5, <1>6, <1>7, <1>8, <1>9, GraphKeeps
<1>11. ChunkInv(k)'
  <2>1. \A p : ~ Holds(t, k, p)'
    BY <1>6 DEF Holds, Converted
  <2>2. \A u \in Party \ {t} :
            /\ Past(u, k)' <=> Past(u, k)
            /\ \A p \in AllParts : Holds(u, k, p)' <=> Holds(u, k, p)
    BY <1>4, <1>10 DEF SameWork
  <2>3. chunk[t] < current_chunk
    BY <1>0, <1>2, <1>4 DEF ChunkInv
  <2>4. current_chunk >= NChunks
    BY <1>2, <1>4, <2>3, Constants
  <2>5. \A u \in Party : InGraph(u)' /\ node'[u] = k /\ pc'[u] = "chunk" => chunk'[u] < current_chunk'
    <3>1. \A u \in Party \ {t} : InGraph(u)' <=> InGraph(u)
        BY <1>4, <1>5, <1>6, SameThread
    <3> QED  BY <1>4, <1>5, <1>6, <3>1 DEF ChunkInv, Same
  <2>6. \A p \in AllParts : p < NChunks => ~ Holds(t, k, p)
    BY <1>2, <1>4, Constants DEF Holds, Converted
  <2>7. ASSUME NEW p \in AllParts
        PROVE  (p < NChunks /\ \A u \in Party : ~ Holds(u, k, p)')
                    <=> (p < NChunks /\ \A u \in Party : ~ Holds(u, k, p))
    BY <2>1, <2>2, <2>6
  <2>8. \A p \in AllParts :
            computed[k][p] = IF /\ p < NChunks /\ p < current_chunk
                                /\ \A u \in Party : ~ Holds(u, k, p)
                             THEN 1 ELSE 0
    BY <1>4 DEF ChunkInv
  <2>9. \A p \in AllParts :
            computed'[k][p] = IF /\ p < NChunks /\ p < current_chunk'
                                 /\ \A u \in Party' : ~ Holds(u, k, p)'
                              THEN 1 ELSE 0
    BY <1>5, <2>7, <2>8
  <2>10. \A u, v \in Party' : \A p \in AllParts : Holds(u, k, p)' /\ Holds(v, k, p)' => u = v
    BY <1>4, <1>5, <2>1, <2>2 DEF ChunkInv
  <2>11. prepared'[k] = Party' /\ current_chunk' >= n_threads_cur'
    BY <1>4, <1>5 DEF ChunkInv, SameGraph
  <2> QED  BY <1>5, <2>4, <2>5, <2>9, <2>10, <2>11 DEF ChunkInv
<1>12. DataInv'
  <2>1. \A p \in AllParts : computed'[k][p] <= 1
    BY <1>1, <1>4, <1>5 DEF DataInv
  <2>2. Stage(0) # 2 * k
    BY <1>4
  <2> QED  BY <1>4, <1>5, <1>10, <1>11, <2>1, <2>2, OneNode
<1>13. MeetInv'
    BY <1>2, <1>5, MeetKeeps DEF barriervars, poolvars
<1>14. TypeOK'
  <2>1. pc' \in [Threads -> MainPcs \cup WorkerPcs \cup GraphPcs]
    BY <1>2, <1>3 DEF GraphPcs
  <2> QED  BY <1>1, <1>2, <2>1 DEF TypeOK, BarrierTypeOK, poolvars, pollvars, workvars, barriervars
<1> QED  BY <1>10, <1>12, <1>13, <1>14 DEF PoolInv

LEMMA WorkChunkInv ==
    ASSUME PoolInv, NEW t \in Threads, WorkChunk(t)
    PROVE  PoolInv'
<1>1. TypeOK /\ DataInv
    BY DEF PoolInv
<1>0. PICK k, q : k = node[t] /\ q = chunk[t]
    OBVIOUS
<1> DEFINE only == nth[t] >= NChunks
<1>2. /\ pc[t] = "chunk" /\ q < NChunks
      /\ computed' = [computed EXCEPT ![k][q] = @ + 1]
      /\ pc' = IF only THEN [pc EXCEPT ![t] = "after"] ELSE pc
      /\ chunk' = IF only THEN chunk ELSE [chunk EXCEPT ![t] = current_chunk]
      /\ current_chunk' = IF only THEN current_chunk ELSE current_chunk + 1
      /\ UNCHANGED <<cgraph, n_graph, n_threads_cur, stop, pause, abort, ret, pollvars, graph,
                     nth, node, prepared, paused, barriervars>>
    BY <1>0 DEF WorkChunk, Step, Compute
<1>3. /\ pc \in [Threads -> MainPcs \cup WorkerPcs \cup GraphPcs]
      /\ computed \in [Nodes -> [AllParts -> Nat]] /\ chunk \in [Threads -> Nat]
    BY <1>1 DEF TypeOK
<1>4. /\ InGraph(t) /\ Within(t) /\ at[t] = "out" /\ NLen \in 0 .. NNodes
      /\ NNodes \in Nat /\ k \in Nat /\ k >= 1 /\ k <= NLen /\ t \in Party
      /\ k \in Nodes /\ k \in 1 .. NLen /\ IsMul(k) /\ abort # k
      /\ graph[t] = cgraph /\ nth[t] = n_threads_cur /\ n_threads_cur \in Nat
      /\ current_chunk \in Nat /\ q \in Nat
      /\ Stage(t) = Stage(0) /\ Stage(0) = 2 * k + 1 /\ ChunkInv(k) /\ Party \subseteq Threads
    BY <1>0, <1>2, AtChunks
<1>5. q \in AllParts
    BY <1>2, <1>4, Constants
<1>6. only <=> n_threads_cur >= NChunks
    BY <1>4
<1> HIDE DEF only
<1>7. /\ SameGraph /\ last_graph' = last_graph /\ seen' = seen /\ at' = at /\ abort' = abort
      /\ graph' = graph /\ nth' = nth /\ NLen' = NLen /\ prepared' = prepared /\ node' = node
      /\ Party' = Party
    BY <1>2 DEF SameGraph, pollvars, barriervars, NLen, Party
<1>8. /\ pc'[t] = (IF only THEN "after" ELSE "chunk")
      /\ chunk'[t] = (IF only THEN q ELSE current_chunk)
      /\ \A u \in Threads \ {t} : Same(u)
    BY <1>0, <1>2, <1>3, <1>7 DEF Same, barriervars
<1>9. InGraph(t)' /\ pc'[t] \in GraphPcs
    BY <1>8 DEF InGraph, GraphPcs
<1>10. Within(t)'
    BY <1>0, <1>4, <1>7, <1>8 DEF Within, SameGraph, IsMul
<1>11. Stage(t)' = Stage(t)
    BY <1>0, <1>4, <1>7, <1>8, <1>9 DEF Stage, EndStage, IsMul, SameGraph
<1>12. /\ MainInv' /\ ThreadsInv' /\ Lockstep' /\ Stage(0)' = Stage(0)
       /\ pc'[0] \notin {"cur", "graph"} /\ Stage(0) # 0 /\ \A u \in Threads \ {t} : SameWork(u)
    BY <1>4, <1>7, <1>8, <1>9, <1>10, <1>11, GraphKeeps
<1>13. /\ computed' \in [Nodes -> [AllParts -> Nat]] /\ computed'[k][q] = computed[k][q] + 1
       /\ \A p \in AllParts \ {q} : computed'[k][p] = computed[k][p]
       /\ \A j \in Nodes \ {k} : computed'[j] = computed[j]
  <2>1. computed' = [computed EXCEPT ![k] = [computed[k] EXCEPT ![q] = computed[k][q] + 1]]
    BY <1>2, <1>3, <1>4, <1>5
  <2>2. [computed[k] EXCEPT ![q] = computed[k][q] + 1] \in [AllParts -> Nat]
    BY <1>3, <1>4, <1>5
  <2> QED  BY <1>3, <1>4, <1>5, <2>1, <2>2
<1>14. \A p : Holds(t, k, p) <=> p = q
    BY <1>0, <1>2, <1>4 DEF Holds, Converted
<1>15. \A p : Holds(t, k, p)' <=> ~ only /\ p = current_chunk
    BY <1>0, <1>7, <1>8, <1>9 DEF Holds, Converted
<1>16. /\ prepared[k] = Party /\ current_chunk >= n_threads_cur
       /\ \A u \in Party : InGraph(u) /\ node[u] = k /\ pc[u] = "chunk" => chunk[u] < current_chunk
       /\ \A u, v \in Party : \A p \in AllParts : Holds(u, k, p) /\ Holds(v, k, p) => u = v
       /\ \A u \in Party : Past(u, k) => current_chunk >= NChunks
       /\ \A p \in AllParts :
            computed[k][p] = IF /\ p < NChunks /\ p < current_chunk
                                /\ \A u \in Party : ~ Holds(u, k, p)
                             THEN 1 ELSE 0
    BY <1>4 DEF ChunkInv
<1>17. q < current_chunk /\ computed[k][q] = 0
    BY <1>0, <1>2, <1>4, <1>5, <1>14, <1>16
<1>18. \A u \in Party \ {t} :
            /\ Past(u, k)' <=> Past(u, k)
            /\ \A p \in AllParts : Holds(u, k, p)' <=> Holds(u, k, p)
            /\ InGraph(u)' <=> InGraph(u)
  <2>1. \A u \in Party \ {t} : SameWork(u) /\ Same(u)
    BY <1>4, <1>8, <1>12
  <2>2. \A u \in Party \ {t} : InGraph(u)' <=> InGraph(u)
    BY <1>7, <2>1, SameThread
  <2> QED  BY <1>4, <2>1, <2>2 DEF SameWork
<1>19. ASSUME NEW u \in Party, NEW p \in AllParts, Holds(u, k, p) PROVE p < current_chunk
  <2>1. u < n_threads_cur /\ u \in Nat
    BY <1>4 DEF Party
  <2> QED  BY <1>4, <1>16, <1>19, <2>1 DEF Holds, Converted
<1>20. ChunkInv(k)'
  <2>1. prepared'[k] = Party'
    BY <1>7, <1>16
  <2>2. current_chunk' >= n_threads_cur' /\ current_chunk' >= current_chunk
    BY <1>2, <1>4, <1>7, <1>16 DEF SameGraph
  <2>3. ASSUME NEW u \in Party, InGraph(u)', node'[u] = k, pc'[u] = "chunk"
        PROVE  chunk'[u] < current_chunk'
    <3>1. CASE u = t
        BY <1>2, <1>4, <1>8, <2>3, <3>1
    <3>2. CASE u # t
      <4>0. u \in Threads /\ Same(u) /\ InGraph(u)
        BY <1>4, <1>8, <1>18, <2>3, <3>2
      <4>1. chunk[u] < current_chunk /\ chunk'[u] = chunk[u]
        <5>1. chunk'[u] = chunk[u] /\ pc'[u] = pc[u] /\ node'[u] = node[u]
            BY <4>0 DEF Same
        <5> QED  BY <1>16, <2>3, <4>0, <5>1
      <4>2. chunk[u] \in Nat
        BY <1>3, <4>0
      <4> QED  BY <1>2, <1>4, <4>1, <4>2
    <3> QED  BY <3>1, <3>2
  <2>4. ASSUME NEW u \in Party, NEW v \in Party, NEW p \in AllParts, Holds(u, k, p)', Holds(v, k, p)'
        PROVE  u = v
    <3>1. p \in Nat
        BY Constants
    <3>2. u = t /\ v # t => FALSE
      <4>1. u = t /\ v # t => p = current_chunk /\ Holds(v, k, p)
        BY <1>15, <1>18, <2>4
      <4> QED  BY <1>4, <1>19, <3>1, <4>1
    <3>3. v = t /\ u # t => FALSE
      <4>1. v = t /\ u # t => p = current_chunk /\ Holds(u, k, p)
        BY <1>15, <1>18, <2>4
      <4> QED  BY <1>4, <1>19, <3>1, <4>1
    <3>4. u # t /\ v # t => Holds(u, k, p) /\ Holds(v, k, p)
        BY <1>18, <2>4
    <3> QED  BY <1>16, <3>2, <3>3, <3>4
  <2>5. ASSUME NEW u \in Party, Past(u, k)' PROVE current_chunk' >= NChunks
    <3>1. CASE u = t
      <4>1. only
        BY <1>0, <1>4, <1>7, <1>8, <2>5, <3>1 DEF Past
      <4> QED  BY <1>2, <1>4, <1>6, <1>16, <4>1, Constants
    <3>2. CASE u # t
        BY <1>2, <1>4, <1>16, <1>18, <2>5, <3>2, Constants
    <3> QED  BY <3>1, <3>2
  <2>6. ASSUME NEW p \in AllParts
        PROVE  computed'[k][p] = IF /\ p < NChunks /\ p < current_chunk'
                                    /\ \A u \in Party : ~ Holds(u, k, p)'
                                 THEN 1 ELSE 0
    <3>1. p \in Nat
        BY Constants
    <3>2. CASE p = q
      <4>1. \A u \in Party : ~ Holds(u, k, p)'
        <5>1. ~ Holds(t, k, q)'
            BY <1>4, <1>15, <1>17
        <5>2. \A u \in Party \ {t} : ~ Holds(u, k, q)
            BY <1>4, <1>5, <1>14, <1>16
        <5> QED  BY <1>5, <1>18, <3>2, <5>1, <5>2
      <4>2. p < current_chunk'
        BY <1>2, <1>4, <1>17, <3>2
      <4> QED  BY <1>2, <1>13, <1>17, <3>2, <4>1, <4>2
    <3>3. CASE p # q /\ ~ only /\ p = current_chunk
      <4>1. Holds(t, k, p)'
        BY <1>15, <3>3
      <4>2. computed[k][p] = 0
        BY <1>4, <1>16, <3>3
      <4> QED  BY <1>4, <1>13, <3>3, <4>1, <4>2
    <3>4. CASE p # q /\ (only \/ p # current_chunk)
      <4>1. \A u \in Party : Holds(u, k, p)' <=> Holds(u, k, p)
        <5>1. Holds(t, k, p)' <=> Holds(t, k, p)
            BY <1>14, <1>15, <3>4
        <5>2. \A u \in Party \ {t} : Holds(u, k, p)' <=> Holds(u, k, p)
            BY <1>18
        <5> QED  BY <5>1, <5>2
      <4>2. p < current_chunk' <=> p < current_chunk
        BY <1>2, <1>4, <3>1, <3>4
      <4> QED  BY <1>13, <1>16, <3>4, <4>1, <4>2
    <3> QED  BY <3>2, <3>3, <3>4
  <2> QED  BY <1>7, <2>1, <2>2, <2>3, <2>4, <2>5, <2>6 DEF ChunkInv
<1>21. DataInv'
  <2>1. \A p \in AllParts : computed'[k][p] <= 1
    BY <1>20 DEF ChunkInv
  <2>2. Stage(0) # 2 * k
    BY <1>4
  <2> QED  BY <1>4, <1>7, <1>12, <1>13, <1>20, <2>1, <2>2, OneNode
<1>22. MeetInv'
    BY <1>2, <1>7, MeetKeeps DEF barriervars
<1>23. TypeOK'
  <2>1. /\ pc' \in [Threads -> MainPcs \cup WorkerPcs \cup GraphPcs]
        /\ chunk' \in [Threads -> Nat] /\ current_chunk' \in Nat
    BY <1>2, <1>3, <1>4 DEF GraphPcs
  <2> QED  BY <1>1, <1>2, <1>13, <2>1 DEF TypeOK, BarrierTypeOK, pollvars, barriervars
<1> QED  BY <1>12, <1>21, <1>22, <1>23 DEF PoolInv

-----------------------------------------------------------------------------
(* In the barrier.                                                         *)

\* Those who wait are of the team; whoever is in the barrier has not left it.
LEMMA WaitingFacts ==
    ASSUME PoolInv
    PROVE  /\ Waiting \subseteq Party /\ IsFiniteSet(Waiting) /\ Cardinality(Waiting) \in Nat
           /\ IsFiniteSet(Party) /\ Cardinality(Party) = n_threads_cur /\ n_threads_cur \in Nat
           /\ \A u \in Threads : at[u] # "out" /\ ~ Gone(u) =>
                pc[u] = "barrier" /\ InGraph(u) /\ u \in Party /\ n_threads_cur > 1
<1>1. TypeOK /\ MainInv /\ ThreadsInv
    BY DEF PoolInv
<1>2. n_threads_cur \in Nat /\ Party \subseteq Threads
    BY <1>1, PartyFacts, Constants
<1>3. \A u \in Threads : at[u] # "out" /\ ~ Gone(u) =>
            pc[u] = "barrier" /\ InGraph(u) /\ u \in Party /\ n_threads_cur > 1
  <2>1. \A u \in Threads : at[u] # "out" /\ ~ Gone(u) => pc[u] = "barrier" /\ InGraph(u)
    BY <1>1 DEF ThreadsInv, ThreadInv, InGraph, GraphPcs
  <2>2. \A u \in Threads : at[u] # "out" /\ ~ Gone(u) => u \in Party
    BY <1>1, <2>1, GraphFacts DEF ThreadsInv
  <2>3. ASSUME NEW u \in Party, at[u] # "out" PROVE n_threads_cur > 1
    <3>1. n_threads_cur # 1
        BY <1>1, <2>3 DEF MainInv, Party
    <3> QED  BY <1>2, <2>3, <3>1 DEF Party
  <2> QED  BY <2>1, <2>2, <2>3
<1>4. Waiting \subseteq Party
    BY <1>3 DEF Waiting, Gone
<1>5. IsFiniteSet(Party) /\ Cardinality(Party) = n_threads_cur
  <2>1. /\ IsFiniteSet(0 .. n_threads_cur - 1)
        /\ Cardinality(0 .. n_threads_cur - 1) =
                IF 0 > n_threads_cur - 1 THEN 0 ELSE (n_threads_cur - 1) - 0 + 1
    BY <1>2, FS_Interval
  <2> QED  BY <1>2, <2>1 DEF Party
<1>6. IsFiniteSet(Waiting) /\ Cardinality(Waiting) \in Nat
    BY <1>4, <1>5, FS_Subset, FS_CardinalityType
<1> QED  BY <1>2, <1>3, <1>4, <1>5, <1>6

\* A step in the barrier that does not complete it.
LEMMA BarrierKeeps ==
    ASSUME PoolInv, NEW t \in Threads, pc[t] = "barrier", n_threads_cur > 1,
           ~ Gone(t), ~ Gone(t)', n_barrier_passed' = n_barrier_passed,
           \A u \in Threads \ {t} : at'[u] = at[u] /\ n_passed'[u] = n_passed[u],
           UNCHANGED <<poolvars, pc, ret, pollvars, workvars, paused>>
    PROVE  MainInv' /\ ThreadsInv' /\ Lockstep' /\ DataInv' /\ t \in Party /\ Party' = Party
<1>1. TypeOK /\ MainInv /\ ThreadsInv /\ Lockstep /\ n_threads_cur \in Nat
    BY PartyFacts, Constants DEF PoolInv
<1>2. InGraph(t) /\ InGraph(t)' /\ Within(t)
    BY <1>1 DEF InGraph, GraphPcs, ThreadsInv, ThreadInv
<1>3. t \in Party
    BY <1>1, <1>2, GraphFacts DEF ThreadsInv
<1>4. SameGraph /\ abort' = abort /\ \A u \in Threads \ {t} : Same(u)
    BY DEF SameGraph, Same, poolvars, pollvars, workvars
<1>5. NLen' = NLen /\ Party' = Party /\ \A k : IsMul(k)' <=> IsMul(k)
    BY <1>4 DEF NLen, Party, IsMul, SameGraph
<1>6. Within(t)'
    BY <1>2, <1>4, <1>5 DEF Within, SameGraph, workvars
<1>7. Stage(t)' = Stage(t)
    BY <1>2, <1>5 DEF Stage, BarrierStage, LoopStage, EndStage, workvars
<1>8. /\ MainInv' /\ ThreadsInv' /\ Lockstep' /\ Stage(0)' = Stage(0)
      /\ pc[0] \notin {"cur", "graph"} /\ pc'[0] \notin {"cur", "graph"}
      /\ \A u \in Threads \ {t} : SameWork(u)
    BY <1>1, <1>2, <1>4, <1>6, <1>7, GraphKeeps DEF GraphPcs, pollvars
<1>9. SameWork(t)
    BY <1>2 DEF SameWork, Past, Converted, Holds, workvars
<1>10. DataInv'
    BY <1>1, <1>4, <1>8, <1>9, PartyFacts, DataKeeps DEF poolvars, workvars
<1> QED  BY <1>3, <1>5, <1>8, <1>10

LEMMA LoadThreadsInv ==
    ASSUME PoolInv, NEW t \in Threads, InBarrier(t), LoadThreads(t, n_threads_cur)
    PROVE  PoolInv'
<1>1. TypeOK /\ MeetInv /\ Team = Threads
    BY PoolAssumption DEF PoolInv
<1>2. /\ pc[t] = "barrier" /\ n_threads_cur # 1 /\ at[t] = "out" /\ at' = [at EXCEPT ![t] = "load"]
      /\ n_threads' = [n_threads EXCEPT ![t] = n_threads_cur]
      /\ UNCHANGED <<n_barrier, n_barrier_passed, n_passed, round>>
      /\ UNCHANGED <<poolvars, pc, ret, pollvars, workvars, paused>>
    BY DEF InBarrier, LoadThreads, Goto
<1>3. /\ at \in [Threads -> Places] /\ n_threads \in [Threads -> Nat]
      /\ n_threads_cur \in Nat /\ n_threads_cur > 1 /\ n_threads_cur' = n_threads_cur
  <2>1. n_threads_cur \in 1 .. N /\ N \in Nat
    BY <1>1, PartyFacts, Constants
  <2> QED  BY <1>1, <1>2, <2>1 DEF TypeOK, BarrierTypeOK, poolvars
<1>4. /\ at'[t] = "load" /\ n_threads'[t] = n_threads_cur
      /\ \A u \in Threads \ {t} : at'[u] = at[u] /\ n_threads'[u] = n_threads[u]
    BY <1>2, <1>3
<1>5. ~ Gone(t) /\ ~ Gone(t)'
    BY <1>2, <1>4 DEF Gone
<1>6. MainInv' /\ ThreadsInv' /\ Lockstep' /\ DataInv' /\ Party' = Party
    BY <1>2, <1>3, <1>4, <1>5, BarrierKeeps
<1>7. TypeOK'
  <2>1. at' \in [Threads -> Places] /\ n_threads' \in [Threads -> Nat]
    BY <1>2, <1>3 DEF Places
  <2> QED  BY <1>1, <1>2, <2>1 DEF TypeOK, BarrierTypeOK, poolvars, pollvars, workvars
<1>8. MeetInv'
  <2>1. Waiting' = Waiting
    BY <1>2, <1>4 DEF Waiting
  <2>2. \A u \in Threads : IsLast(u)' <=> IsLast(u)
    BY <1>2, <1>4 DEF IsLast
  <2> QED  BY <1>1, <1>2, <1>3, <1>4, <1>6, <2>1, <2>2 DEF MeetInv
<1> QED  BY <1>6, <1>7, <1>8 DEF PoolInv

LEMMA LoadPassedInv ==
    ASSUME PoolInv, NEW t \in Threads, InBarrier(t), LoadPassed(t)
    PROVE  PoolInv'
<1>1. TypeOK /\ MeetInv /\ Team = Threads
    BY PoolAssumption DEF PoolInv
<1>2. /\ pc[t] = "barrier" /\ at[t] = "load" /\ at' = [at EXCEPT ![t] = "enter"]
      /\ n_passed' = [n_passed EXCEPT ![t] = n_barrier_passed]
      /\ UNCHANGED <<n_barrier, n_barrier_passed, n_threads, round>>
      /\ UNCHANGED <<poolvars, pc, ret, pollvars, workvars, paused>>
    BY DEF InBarrier, LoadPassed, Goto
<1>9. n_threads_cur > 1 /\ n_threads_cur' = n_threads_cur
    BY <1>2, WaitingFacts DEF Gone, poolvars
<1>3. /\ at \in [Threads -> Places] /\ n_passed \in [Threads -> Nat] /\ n_barrier_passed \in Nat
    BY <1>1 DEF TypeOK, BarrierTypeOK
<1>4. /\ at'[t] = "enter" /\ n_passed'[t] = n_barrier_passed
      /\ \A u \in Threads \ {t} : at'[u] = at[u] /\ n_passed'[u] = n_passed[u]
    BY <1>2, <1>3
<1>5. ~ Gone(t) /\ ~ Gone(t)'
    BY <1>2, <1>4 DEF Gone
<1>6. MainInv' /\ ThreadsInv' /\ Lockstep' /\ DataInv' /\ Party' = Party
    BY <1>2, <1>4, <1>5, <1>9, BarrierKeeps
<1>7. TypeOK'
  <2>1. at' \in [Threads -> Places] /\ n_passed' \in [Threads -> Nat]
    BY <1>2, <1>3 DEF Places
  <2> QED  BY <1>1, <1>2, <2>1 DEF TypeOK, BarrierTypeOK, poolvars, pollvars, workvars
<1>8. MeetInv'
  <2>1. Waiting' = Waiting
    BY <1>2, <1>4 DEF Waiting
  <2>2. \A u \in Threads : IsLast(u)' <=> IsLast(u)
    BY <1>2, <1>4 DEF IsLast
  <2>3. \A u \in Threads : n_passed'[u] <= n_barrier_passed
    BY <1>1, <1>3, <1>4 DEF MeetInv
  <2> QED  BY <1>1, <1>2, <1>4, <1>6, <1>9, <2>1, <2>2, <2>3 DEF MeetInv
<1> QED  BY <1>6, <1>7, <1>8 DEF PoolInv

LEMMA EnterInv ==
    ASSUME PoolInv, NEW t \in Threads, InBarrier(t), Enter(t)
    PROVE  PoolInv'
<1>1. TypeOK /\ MeetInv /\ Team = Threads
    BY PoolAssumption DEF PoolInv
<1> DEFINE last == n_barrier = n_threads_cur - 1
<1>2. /\ pc[t] = "barrier" /\ at[t] = "enter"
      /\ at' = [at EXCEPT ![t] = IF last THEN "reset" ELSE "wait"]
      /\ n_barrier' = n_barrier + 1
      /\ UNCHANGED <<n_barrier_passed, n_threads, n_passed, round>>
      /\ UNCHANGED <<poolvars, pc, ret, pollvars, workvars, paused>>
  <2>1. at[t] = "enter"
    BY DEF Enter
  <2>2. n_threads[t] = n_threads_cur
    BY <1>1, <2>1 DEF MeetInv
  <2> QED  BY <2>2 DEF InBarrier, Enter, Goto
<1>16. n_threads_cur > 1 /\ n_threads_cur' = n_threads_cur
    BY <1>2, WaitingFacts DEF Gone, poolvars
<1>3. at \in [Threads -> Places]
    BY <1>1 DEF TypeOK, BarrierTypeOK
<1>4. /\ at'[t] = IF last THEN "reset" ELSE "wait"
      /\ \A u \in Threads \ {t} : at'[u] = at[u]
    BY <1>2, <1>3
<1>5. n_passed[t] = n_barrier_passed
    BY <1>1, <1>2 DEF MeetInv
<1>6. ~ Gone(t) /\ ~ Gone(t)'
    BY <1>2, <1>5 DEF Gone
<1>7. MainInv' /\ ThreadsInv' /\ Lockstep' /\ DataInv' /\ Party' = Party /\ t \in Party
    BY <1>2, <1>4, <1>6, <1>16, BarrierKeeps
<1>8. /\ Waiting \subseteq Party /\ IsFiniteSet(Waiting) /\ Cardinality(Waiting) \in Nat
      /\ IsFiniteSet(Party) /\ Cardinality(Party) = n_threads_cur /\ n_threads_cur \in Nat
    BY WaitingFacts
<1>9. \A u \in Threads : ~ IsLast(u)
  <2> SUFFICES ASSUME NEW u \in Threads, IsLast(u) PROVE FALSE
    OBVIOUS
  <2>1. u # t
    BY <1>2 DEF IsLast
  <2>2. t \in Waiting
    BY <1>1, <1>7, <2>1 DEF MeetInv
  <2> QED  BY <1>2, <2>2 DEF Waiting
<1>10. n_barrier = Cardinality(Waiting)
    BY <1>1, <1>9 DEF MeetInv
<1>11. t \notin Waiting /\ Waiting \subseteq Party \ {t}
    BY <1>2, <1>8 DEF Waiting
<1>12. IsFiniteSet(Party \ {t}) /\ Cardinality(Party \ {t}) = n_threads_cur - 1
    BY <1>7, <1>8, FS_RemoveElement
<1>13. n_barrier <= n_threads_cur - 1 /\ (last => Waiting = Party \ {t})
    BY <1>10, <1>11, <1>12, FS_Subset
<1> HIDE DEF last
<1>14. TypeOK'
  <2>1. at' \in [Threads -> Places]
    BY <1>2, <1>3 DEF Places
  <2>2. n_barrier' \in Nat /\ n_barrier' <= N
    <3>1. N \in Nat /\ n_threads_cur <= N
        BY <1>1, PartyFacts, Constants
    <3> QED  BY <1>2, <1>8, <1>10, <1>13, <3>1
  <2> QED  BY <1>1, <1>2, <2>1, <2>2 DEF TypeOK, BarrierTypeOK, poolvars, pollvars, workvars
<1>15. MeetInv'
  <2>1. CASE last
    <3>1. Waiting' = Waiting
        BY <1>2, <1>4, <1>11, <2>1 DEF Waiting
    <3>2. \A u \in Threads : IsLast(u)' <=> u = t
        BY <1>4, <1>9, <2>1 DEF IsLast
    <3>3. \A u \in Threads : at'[u] # "pass"
        BY <1>4, <1>9, <2>1 DEF IsLast
    <3> QED  BY <1>1, <1>2, <1>4, <1>5, <1>7, <1>13, <1>16, <2>1, <3>1, <3>2, <3>3 DEF MeetInv
  <2>2. CASE ~ last
    <3>1. Waiting' = Waiting \cup {t}
        BY <1>2, <1>4, <1>5, <2>2 DEF Waiting
    <3>2. Cardinality(Waiting') = Cardinality(Waiting) + 1
        BY <1>8, <1>11, <3>1, FS_AddElement
    <3>3. \A u \in Threads : ~ IsLast(u)' /\ at'[u] # "pass"
        BY <1>4, <1>9, <2>2 DEF IsLast
    <3> QED  BY <1>1, <1>2, <1>4, <1>10, <1>16, <2>2, <3>2, <3>3 DEF MeetInv
  <2> QED  BY <2>1, <2>2
<1> QED  BY <1>7, <1>14, <1>15 DEF PoolInv

LEMMA ResetInv ==
    ASSUME PoolInv, NEW t \in Threads, InBarrier(t), Reset(t)
    PROVE  PoolInv'
<1>1. TypeOK /\ MeetInv /\ Team = Threads
    BY PoolAssumption DEF PoolInv
<1>2. /\ pc[t] = "barrier" /\ at[t] = "reset"
      /\ at' = [at EXCEPT ![t] = "pass"] /\ n_barrier' = 0
      /\ UNCHANGED <<n_barrier_passed, n_threads, n_passed, round>>
      /\ UNCHANGED <<poolvars, pc, ret, pollvars, workvars, paused>>
    BY DEF InBarrier, Reset, Goto
<1>9. n_threads_cur > 1 /\ n_threads_cur' = n_threads_cur
    BY <1>2, WaitingFacts DEF Gone, poolvars
<1>3. at \in [Threads -> Places]
    BY <1>1 DEF TypeOK, BarrierTypeOK
<1>4. at'[t] = "pass" /\ \A u \in Threads \ {t} : at'[u] = at[u]
    BY <1>2, <1>3
<1>5. ~ Gone(t) /\ ~ Gone(t)'
    BY <1>2, <1>4 DEF Gone
<1>6. MainInv' /\ ThreadsInv' /\ Lockstep' /\ DataInv' /\ Party' = Party
    BY <1>2, <1>4, <1>5, <1>9, BarrierKeeps
<1>7. TypeOK'
  <2>1. at' \in [Threads -> Places]
    BY <1>2, <1>3 DEF Places
  <2>2. 0 \in Nat /\ 0 <= N
    BY Constants
  <2> QED  BY <1>1, <1>2, <2>1, <2>2 DEF TypeOK, BarrierTypeOK, poolvars, pollvars, workvars
<1>8. MeetInv'
  <2>1. Waiting' = Waiting
    BY <1>2, <1>4 DEF Waiting
  <2>2. IsLast(t)' /\ \A u \in Threads : IsLast(u)' <=> IsLast(u)
    BY <1>2, <1>4 DEF IsLast
  <2>3. n_passed[t] = n_barrier_passed
    BY <1>1, <1>2 DEF MeetInv
  <2> QED  BY <1>1, <1>2, <1>4, <1>6, <1>9, <2>1, <2>2, <2>3 DEF MeetInv
<1> QED  BY <1>6, <1>7, <1>8 DEF PoolInv

-----------------------------------------------------------------------------
(* Out of the barrier.                                                     *)

\* Where a thread is when it has returned from the barrier.
LEMMA ReturnFacts ==
    ASSUME TypeOK, NEW t \in Threads, Return(t), ret[t] = "next" => node[t] + 1 <= NNodes + 1
    PROVE  /\ pc' \in [Threads -> MainPcs \cup WorkerPcs \cup GraphPcs]
           /\ chunk' \in [Threads -> Nat] /\ node' \in [Threads -> 1 .. NNodes + 1]
           /\ \A u \in Threads \ {t} : pc'[u] = pc[u] /\ chunk'[u] = chunk[u] /\ node'[u] = node[u]
           /\ ret[t] = "chunk" => pc'[t] = "chunk" /\ chunk'[t] = t /\ node'[t] = node[t]
           /\ ret[t] = "next" => pc'[t] = "loop" /\ node'[t] = node[t] + 1
           /\ ret[t] = "final" => /\ pc'[t] = IF t = 0 THEN "idle" ELSE "top"
                                  /\ node'[t] = node[t]
           /\ ret[t] \in {"chunk", "next", "final"}
           /\ UNCHANGED <<poolvars, ret, pollvars, graph, nth, prepared, computed, paused>>
<1>1. /\ pc \in [Threads -> MainPcs \cup WorkerPcs \cup GraphPcs] /\ chunk \in [Threads -> Nat]
      /\ ret[t] \in {"chunk", "next", "final"} /\ node \in [Threads -> 1 .. NNodes + 1]
    BY DEF TypeOK
<1>2. t \in Nat /\ NNodes \in Nat
    BY Constants
<1>3. /\ pc' = [pc EXCEPT ![t] = CASE ret[t] = "chunk" -> "chunk"
                                   [] ret[t] = "next"  -> "loop"
                                   [] OTHER            -> IF t = 0 THEN "idle" ELSE "top"]
      /\ chunk' = [chunk EXCEPT ![t] = IF ret[t] = "chunk" THEN t ELSE chunk[t]]
      /\ node' = [node EXCEPT ![t] = IF ret[t] = "next" THEN node[t] + 1 ELSE node[t]]
      /\ UNCHANGED <<poolvars, ret, pollvars, graph, nth, prepared, computed, paused>>
    BY DEF Return
<1>4. ret[t] = "next" => node[t] + 1 \in 1 .. NNodes + 1
  <2>1. node[t] \in 1 .. NNodes + 1
    BY <1>1
  <2> QED  BY <1>2, <2>1
<1>5. node' \in [Threads -> 1 .. NNodes + 1]
    BY <1>1, <1>3, <1>4
<1>6. chunk' \in [Threads -> Nat]
    BY <1>1, <1>2, <1>3
<1>7. pc' \in [Threads -> MainPcs \cup WorkerPcs \cup GraphPcs]
  <2>1. (CASE ret[t] = "chunk" -> "chunk"
           [] ret[t] = "next"  -> "loop"
           [] OTHER            -> IF t = 0 THEN "idle" ELSE "top")
            \in MainPcs \cup WorkerPcs \cup GraphPcs
    BY <1>1 DEF MainPcs, WorkerPcs, GraphPcs
  <2> QED  BY <1>1, <1>3, <2>1
<1> QED  BY <1>1, <1>3, <1>5, <1>6, <1>7

LEMMA LeaveInv ==
    ASSUME PoolInv, NEW t \in Threads, pc[t] = "barrier", Leave(t), Return(t)
    PROVE  PoolInv'
<1>1. TypeOK /\ MainInv /\ ThreadsInv /\ Lockstep /\ MeetInv /\ Team = Threads
    BY PoolAssumption DEF PoolInv
<1>2. /\ at[t] = "wait" /\ at' = [at EXCEPT ![t] = "out"]
      /\ round' = [round EXCEPT ![t] = round[t] + 1]
      /\ UNCHANGED <<n_barrier, n_barrier_passed, n_threads, n_passed>> /\ Gone(t)
    BY DEF Leave, GoOut, Goto, Gone
<1>3. at \in [Threads -> Places] /\ round \in [Threads -> Nat]
    BY <1>1 DEF TypeOK, BarrierTypeOK
<1>4. at'[t] = "out" /\ \A u \in Threads \ {t} : at'[u] = at[u]
    BY <1>2, <1>3
<1>5. InGraph(t) <=> ret[t] # "final"
    BY <1>2 DEF InGraph, GraphPcs
<1>6. InGraph(t) => /\ NLen \in 0 .. NNodes /\ NNodes \in Nat /\ node[t] \in Nat /\ node[t] >= 1
                    /\ Within(t) /\ t \in Party
    BY <1>1, Constants, GraphFacts DEF ThreadsInv, ThreadInv
<1>7. ret[t] = "next" => node[t] < NLen /\ node[t] + 1 <= NNodes + 1
    BY <1>5, <1>6 DEF Within
<1>8. /\ pc' \in [Threads -> MainPcs \cup WorkerPcs \cup GraphPcs]
      /\ chunk' \in [Threads -> Nat] /\ node' \in [Threads -> 1 .. NNodes + 1]
      /\ \A u \in Threads \ {t} : pc'[u] = pc[u] /\ chunk'[u] = chunk[u] /\ node'[u] = node[u]
      /\ ret[t] = "chunk" => pc'[t] = "chunk" /\ chunk'[t] = t /\ node'[t] = node[t]
      /\ ret[t] = "next" => pc'[t] = "loop" /\ node'[t] = node[t] + 1
      /\ ret[t] = "final" => /\ pc'[t] = IF t = 0 THEN "idle" ELSE "top"
                             /\ node'[t] = node[t]
      /\ ret[t] \in {"chunk", "next", "final"}
      /\ UNCHANGED <<poolvars, ret, pollvars, graph, nth, prepared, computed, paused>>
    BY <1>1, <1>7, ReturnFacts
<1>9. /\ SameGraph /\ abort' = abort /\ last_graph' = last_graph /\ seen' = seen
      /\ NLen' = NLen /\ Party' = Party /\ \A k : IsMul(k)' <=> IsMul(k)
    BY <1>2, <1>8 DEF SameGraph, poolvars, pollvars, NLen, Party, IsMul
<1>10. \A u \in Threads \ {t} : Same(u)
    BY <1>2, <1>4, <1>8 DEF Same, pollvars
<1>11. TypeOK'
  <2>1. at' \in [Threads -> Places] /\ round' \in [Threads -> Nat]
    BY <1>2, <1>3 DEF Places
  <2> QED  BY <1>1, <1>2, <1>8, <2>1 DEF TypeOK, BarrierTypeOK, poolvars, pollvars
<1>12. MeetInv'
  <2>1. Waiting' = Waiting
    BY <1>2, <1>4 DEF Waiting, Gone
  <2>2. \A u \in Threads : IsLast(u)' <=> IsLast(u)
    BY <1>2, <1>4 DEF IsLast
  <2>3. n_threads_cur' = n_threads_cur
    BY <1>9 DEF SameGraph
  <2> QED  BY <1>1, <1>2, <1>4, <1>9, <2>1, <2>2, <2>3 DEF MeetInv
<1>13. CASE ret[t] = "final"
  <2>1. ~ InGraph(t) /\ ~ InGraph(t)' /\ pc'[t] \in {"idle", "top"} /\ (t = 0 <=> pc'[t] = "idle")
    BY <1>5, <1>8, <1>13 DEF InGraph, GraphPcs
  <2>2. Stage(t)' = Stage(t)
    BY <1>9, <2>1 DEF Stage, OutStage, SameGraph
  <2>3. ThreadInv(t)'
    BY <1>4, <2>1 DEF ThreadInv
  <2>4. t \in Workers => WorkerInv(t)'
    BY <1>1, <1>9, <2>1 DEF ThreadsInv, WorkerInv, SameGraph, WorkerPcs, Workers
  <2>5. /\ ThreadsInv' /\ Lockstep' /\ Stage(0)' = Stage(0)
        /\ \A u \in Threads \ {t} : SameWork(u)
    BY <1>9, <1>10, <2>2, <2>3, <2>4, ThreadKeeps
  <2>6. MainInv' /\ (pc'[0] \in {"cur", "graph"} <=> pc[0] \in {"cur", "graph"})
    <3>1. CASE t = 0
        BY <1>1, <1>4, <1>9, <2>1, <3>1 DEF MainInv, SameGraph, GraphPcs, MainPcs
    <3>2. CASE t # 0
        BY <1>9, <1>10, <3>2, Constants, MainKeeps DEF Same
    <3> QED  BY <3>1, <3>2
  <2>7. SameWork(t)
    BY <2>1 DEF SameWork, Past, Converted, Holds
  <2>8. DataInv'
    BY <1>1, <1>8, <1>9, <2>5, <2>6, <2>7, PartyFacts, DataKeeps DEF poolvars
  <2> QED  BY <1>11, <1>12, <2>5, <2>6, <2>8 DEF PoolInv
<1>14. CASE ret[t] # "final"
  <2>1. /\ InGraph(t) /\ NLen \in 0 .. NNodes /\ NNodes \in Nat /\ node[t] \in Nat /\ node[t] >= 1
        /\ Within(t) /\ t \in Party /\ Stage(0) = Stage(t)
    BY <1>1, <1>5, <1>6, <1>14 DEF Lockstep
  <2>2. pc'[t] \in {"chunk", "loop"} /\ pc'[t] \in GraphPcs /\ InGraph(t)'
    BY <1>8, <1>14 DEF InGraph, GraphPcs
  <2>3. ret[t] = "next" => node[t] + 1 <= NLen
    BY <1>7, <2>1
  <2>4. Within(t)'
    BY <1>8, <1>9, <1>14, <2>1, <2>2, <2>3 DEF Within, SameGraph
  <2>5. Stage(t)' = Stage(t)
    <3>1. CASE ret[t] = "chunk"
        BY <1>2, <1>8, <2>1, <2>2, <3>1 DEF Stage, BarrierStage
    <3>2. CASE ret[t] = "next"
      <4>1. Stage(t) = 2 * (node[t] + 1)
        BY <1>2, <2>1, <3>2 DEF Stage, BarrierStage
      <4>2. Stage(t)' = LoopStage(node[t])'
        BY <1>8, <2>2, <3>2 DEF Stage
      <4> QED  BY <1>8, <1>9, <2>1, <2>3, <3>2, <4>1, <4>2 DEF LoopStage
    <3> QED  BY <1>8, <1>14, <3>1, <3>2
  <2>6. /\ MainInv' /\ ThreadsInv' /\ Lockstep' /\ Stage(0)' = Stage(0)
        /\ pc[0] \notin {"cur", "graph"} /\ pc'[0] \notin {"cur", "graph"}
        /\ \A u \in Threads \ {t} : SameWork(u)
    BY <1>4, <1>9, <1>10, <2>1, <2>2, <2>4, <2>5, GraphKeeps
  <2>7. SameWork(t)
    <3>1. ASSUME NEW k \in Nodes PROVE Past(t, k)' <=> Past(t, k)
      <4>1. k \in Nat
        BY Constants
      <4> QED  BY <1>8, <1>14, <2>1, <2>2, <4>1 DEF Past
    <3>2. ASSUME NEW k \in Nodes, Stage(0) = 2 * k PROVE ~ Converted(t, k) /\ ~ Converted(t, k)'
      <4>1. k \in Nat
        BY Constants
      <4>2. ret[t] = "chunk" => Stage(0) = 2 * node[t] + 1
        BY <1>2, <2>1 DEF Stage, BarrierStage
      <4>3. ~ (ret[t] = "chunk" /\ node[t] = k)
        BY <2>1, <3>2, <4>1, <4>2
      <4> QED  BY <2>2, <4>3 DEF Converted
    <3>3. ASSUME NEW k \in Nodes, NEW p \in AllParts PROVE Holds(t, k, p)' <=> Holds(t, k, p)
        BY <1>8, <1>14, <2>1, <2>2 DEF Holds, Converted
    <3>4. ASSUME NEW k \in Nodes, node'[t] = k, pc'[t] = "chunk" PROVE Converted(t, k) /\ chunk'[t] = t
        BY <1>8, <1>14, <2>1, <3>4 DEF Converted
    <3> QED  BY <3>1, <3>2, <3>3, <3>4 DEF SameWork
  <2>8. DataInv'
    BY <1>1, <1>8, <1>9, <2>6, <2>7, PartyFacts, DataKeeps DEF poolvars
  <2> QED  BY <1>11, <1>12, <2>6, <2>8 DEF PoolInv
<1> QED  BY <1>13, <1>14

-----------------------------------------------------------------------------
(* The barrier is complete: all threads go on to the next stage at once.   *)

\* What is known of a thread that is held by the barrier.
LEMMA AtBarrier ==
    ASSUME PoolInv, NEW t \in Threads, pc[t] = "barrier", ~ Gone(t)
    PROVE  /\ InGraph(t) /\ Within(t) /\ t \in Party /\ NLen \in 0 .. NNodes /\ NNodes \in Nat
           /\ node[t] \in Nat /\ node[t] >= 1 /\ ret[t] \in {"chunk", "next", "final"}
           /\ ret[t] = "chunk" => /\ Stage(0) = 2 * node[t] /\ node[t] <= NLen
                                  /\ IsMul(node[t]) /\ abort # node[t]
           /\ ret[t] = "next" => /\ Stage(0) = EndStage(node[t]) /\ node[t] < NLen
                                 /\ abort # node[t]
           /\ ret[t] = "final" =>
                \/ node[t] = NLen + 1 /\ (NLen > 0 => Stage(0) = EndStage(NLen))
                \/ abort = node[t] /\ node[t] <= NLen /\ Stage(0) = 2 * node[t]
<1>1. TypeOK /\ MainInv /\ ThreadsInv /\ Lockstep
    BY DEF PoolInv
<1>2. InGraph(t) /\ Within(t)
    BY <1>1 DEF InGraph, GraphPcs, ThreadsInv, ThreadInv
<1>3. /\ t \in Party /\ NLen \in 0 .. NNodes /\ NNodes \in Nat /\ node[t] \in Nat /\ node[t] >= 1
    BY <1>1, <1>2, Constants, GraphFacts DEF ThreadsInv
<1>4. ret[t] \in {"chunk", "next", "final"}
    BY <1>1 DEF TypeOK
<1>5. Stage(0) = BarrierStage(t)
    BY <1>1, <1>2, <1>3 DEF Lockstep, Stage
<1>6. ret[t] = "chunk" => /\ Stage(0) = 2 * node[t] /\ node[t] <= NLen
                          /\ IsMul(node[t]) /\ abort # node[t]
    BY <1>2, <1>5 DEF BarrierStage, Within
<1>7. ret[t] = "next" => Stage(0) = EndStage(node[t]) /\ node[t] < NLen /\ abort # node[t]
    BY <1>2, <1>5 DEF BarrierStage, Within
<1>8. ret[t] = "final" =>
            \/ node[t] = NLen + 1 /\ (NLen > 0 => Stage(0) = EndStage(NLen))
            \/ abort = node[t] /\ node[t] <= NLen /\ Stage(0) = 2 * node[t]
  <2> SUFFICES ASSUME ret[t] = "final"
               PROVE  \/ node[t] = NLen + 1 /\ (NLen > 0 => Stage(0) = EndStage(NLen))
                      \/ abort = node[t] /\ node[t] <= NLen /\ Stage(0) = 2 * node[t]
    OBVIOUS
  <2>1. Stage(0) = LoopStage(node[t])
    BY <1>5 DEF BarrierStage
  <2>2. CASE node[t] = NLen + 1
    BY <1>3, <2>1, <2>2 DEF LoopStage
  <2>3. CASE node[t] # NLen + 1
    BY <1>2, <1>3, <2>1, <2>3 DEF LoopStage, Within
  <2> QED  BY <2>2, <2>3
<1> QED  BY <1>2, <1>3, <1>4, <1>6, <1>7, <1>8

\* Two threads that the barrier holds will go on with the same.
LEMMA SameBarrier ==
    ASSUME PoolInv, NEW t \in Threads, pc[t] = "barrier", ~ Gone(t),
           NEW u \in Threads, pc[u] = "barrier", ~ Gone(u)
    PROVE  ret[u] = ret[t] /\ (ret[t] # "final" => node[u] = node[t])
<1> DEFINE Held(v) ==
        /\ NLen \in Nat /\ node[v] \in Nat /\ node[v] >= 1 /\ ret[v] \in {"chunk", "next", "final"}
        /\ ret[v] = "chunk" => /\ Stage(0) = 2 * node[v] /\ node[v] <= NLen
                               /\ IsMul(node[v]) /\ abort # node[v]
        /\ ret[v] = "next" => /\ Stage(0) = EndStage(node[v]) /\ node[v] < NLen
                              /\ abort # node[v]
        /\ ret[v] = "final" =>
                \/ node[v] = NLen + 1 /\ (NLen > 0 => Stage(0) = EndStage(NLen))
                \/ abort = node[v] /\ node[v] <= NLen /\ Stage(0) = 2 * node[v]
<1>1. Held(t) /\ Held(u)
    BY AtBarrier
<1>2. \A k \in Nat : EndStage(k) = 2 * k \/ (IsMul(k) /\ EndStage(k) = 2 * k + 1)
    BY DEF EndStage
<1>3. \A k \in Nat : IsMul(k) => EndStage(k) = 2 * k + 1
    BY DEF EndStage
<1>4. ASSUME NEW v, NEW w, Held(v), Held(w), ret[v] = "chunk"
      PROVE  ret[w] = "chunk" /\ node[w] = node[v]
  <2>1. ret[w] # "next"
    BY <1>2, <1>3, <1>4
  <2>2. ret[w] # "final"
    BY <1>2, <1>3, <1>4
  <2> QED  BY <1>4, <2>1, <2>2
<1>5. ASSUME NEW v, NEW w, Held(v), Held(w), ret[v] = "next", ret[w] # "chunk"
      PROVE  ret[w] = "next" /\ node[w] = node[v]
  <2>1. ret[w] # "final"
    BY <1>2, <1>3, <1>5
  <2> QED  BY <1>2, <1>5, <2>1
<1> HIDE DEF Held
<1>6. ret[t] \in {"chunk", "next", "final"} /\ ret[u] \in {"chunk", "next", "final"}
    BY <1>1 DEF Held
<1> QED  BY <1>1, <1>4, <1>5, <1>6

\* When all threads are past a node it is finished.
LEMMA NodeDone ==
    ASSUME PoolInv, NEW k \in 1 .. NLen, NLen \in 0 .. NNodes, Stage(0) = EndStage(k),
           \A u \in Party : Past(u, k)
    PROVE  Finished(k)
<1>1. DataInv /\ TypeOK /\ MainInv
    BY DEF PoolInv
<1>2. k \in Nat /\ k >= 1 /\ k <= NLen /\ k \in Nodes
    BY Constants
<1>3. NodeInv(k, Stage(0))
  <2>1. Stage(0) # 0
    BY <1>2 DEF EndStage
  <2> QED  BY <1>1, <1>2, <2>1 DEF DataInv
<1>4. CASE ~ IsMul(k)
  <2>1. PlainInv(k)
    BY <1>2, <1>3, <1>4 DEF NodeInv, EndStage
  <2>2. Parts(cgraph, k, n_threads_cur) = Party
    BY <1>4 DEF Parts, IsMul, Party
  <2> QED  BY <2>1, <2>2 DEF PlainInv, Finished
<1>5. CASE IsMul(k)
  <2>1. ChunkInv(k)
    BY <1>2, <1>3, <1>5 DEF NodeInv, EndStage
  <2>2. Parts(cgraph, k, n_threads_cur) = 0 .. NChunks - 1
    BY <1>5 DEF Parts, IsMul
  <2>3. current_chunk >= NChunks /\ current_chunk \in Nat
    BY <1>1, <2>1, PartyFacts DEF ChunkInv, TypeOK
  <2>4. \A u \in Party : \A p : ~ Holds(u, k, p)
    <3>1. \A u \in Party : node[u] \in Nat
      <4>1. node \in [Threads -> 1 .. NNodes + 1] /\ NNodes \in Nat /\ Party \subseteq Threads
        BY <1>1, PartyFacts, Constants DEF TypeOK
      <4> QED  BY <4>1
    <3> QED  BY <1>2, <3>1 DEF Past, Holds, Converted
  <2>5. \A p \in AllParts : p \in 0 .. NChunks - 1 <=> p < NChunks /\ p < current_chunk
    <3>1. \A p \in AllParts : p \in Nat
        BY Constants
    <3>2. NChunks \in Nat
        BY Constants
    <3> QED  BY <2>3, <3>1, <3>2
  <2> QED  BY <2>1, <2>2, <2>4, <2>5 DEF ChunkInv, Finished
<1> QED  BY <1>4, <1>5

\* Thread t goes on, and with that the barrier holds nobody any more.
Turn(t) ==
    /\ t \in Party /\ pc[t] = "barrier" /\ ~ Gone(t) /\ Return(t) /\ at'[t] = "out"
    /\ \A u \in Party \ {t} : pc[u] = "barrier" /\ ~ Gone(u) /\ Gone(u)'
    /\ \A u \in Threads \ {t} : at'[u] = at[u] /\ n_passed'[u] = n_passed[u] /\ (Gone(u) => Gone(u)')

LEMMA TurnFacts ==
    ASSUME PoolInv, NEW t \in Threads, Turn(t)
    PROVE  /\ NLen \in 0 .. NNodes /\ NNodes \in Nat /\ 0 \in Party /\ t \in Party
           /\ Party \subseteq Threads /\ Party' = Party /\ NLen' = NLen
           /\ \A k : (IsMul(k)' <=> IsMul(k)) /\ EndStage(k)' = EndStage(k)
           /\ pc' \in [Threads -> MainPcs \cup WorkerPcs \cup GraphPcs]
           /\ chunk' \in [Threads -> Nat] /\ node' \in [Threads -> 1 .. NNodes + 1]
           /\ \A u \in Party :
                /\ pc[u] = "barrier" /\ ~ Gone(u) /\ InGraph(u) /\ Within(u) /\ ret[u] = ret[t]
                /\ node[u] \in Nat /\ node[u] >= 1
                /\ ret[t] # "final" => node[u] = node[t]
           /\ \A u \in Threads \ {t} :
                /\ pc'[u] = pc[u] /\ chunk'[u] = chunk[u] /\ node'[u] = node[u]
                /\ u \in Party => Gone(u)'
           /\ ret[t] = "chunk" => pc'[t] = "chunk" /\ chunk'[t] = t /\ node'[t] = node[t]
           /\ ret[t] = "next" => pc'[t] = "loop" /\ node'[t] = node[t] + 1
           /\ ret[t] = "final" => /\ pc'[t] = IF t = 0 THEN "idle" ELSE "top"
                                  /\ node'[t] = node[t]
           /\ ret[t] \in {"chunk", "next", "final"} /\ pc'[0] \notin {"cur", "graph"}
           /\ UNCHANGED <<poolvars, ret, pollvars, graph, nth, prepared, computed, paused>>
<1>1. TypeOK /\ Party \subseteq Threads /\ 0 \in Party
    BY PartyFacts DEF PoolInv
<1>2. \A u \in Party : pc[u] = "barrier" /\ ~ Gone(u)
    BY DEF Turn
<1>3. \A u \in Party : /\ InGraph(u) /\ Within(u) /\ ret[u] = ret[t]
                       /\ node[u] \in Nat /\ node[u] >= 1
                       /\ ret[t] # "final" => node[u] = node[t]
  <2> SUFFICES ASSUME NEW u \in Party
               PROVE  /\ InGraph(u) /\ Within(u) /\ ret[u] = ret[t]
                      /\ node[u] \in Nat /\ node[u] >= 1
                      /\ ret[t] # "final" => node[u] = node[t]
    OBVIOUS
  <2>1. pc[u] = "barrier" /\ ~ Gone(u) /\ pc[t] = "barrier" /\ ~ Gone(t) /\ u \in Threads
    BY <1>1, <1>2 DEF Turn
  <2> QED  BY <2>1, AtBarrier, SameBarrier
<1>4. /\ NLen \in 0 .. NNodes /\ NNodes \in Nat /\ t \in Party
      /\ ret[t] = "next" => node[t] < NLen /\ node[t] \in Nat
    BY AtBarrier DEF Turn
<1>5. ret[t] = "next" => node[t] + 1 <= NNodes + 1
    BY <1>4
<1>6. /\ pc' \in [Threads -> MainPcs \cup WorkerPcs \cup GraphPcs]
      /\ chunk' \in [Threads -> Nat] /\ node' \in [Threads -> 1 .. NNodes + 1]
      /\ \A u \in Threads \ {t} : pc'[u] = pc[u] /\ chunk'[u] = chunk[u] /\ node'[u] = node[u]
      /\ ret[t] = "chunk" => pc'[t] = "chunk" /\ chunk'[t] = t /\ node'[t] = node[t]
      /\ ret[t] = "next" => pc'[t] = "loop" /\ node'[t] = node[t] + 1
      /\ ret[t] = "final" => /\ pc'[t] = IF t = 0 THEN "idle" ELSE "top"
                             /\ node'[t] = node[t]
      /\ ret[t] \in {"chunk", "next", "final"}
      /\ UNCHANGED <<poolvars, ret, pollvars, graph, nth, prepared, computed, paused>>
    BY <1>1, <1>5, ReturnFacts DEF Turn
<1>7. \A u \in Party \ {t} : Gone(u)'
    BY DEF Turn
<1>8. /\ NLen' = NLen /\ Party' = Party
      /\ \A k : (IsMul(k)' <=> IsMul(k)) /\ EndStage(k)' = EndStage(k)
    BY <1>6 DEF NLen, Party, IsMul, EndStage, poolvars
<1>9. pc'[0] \notin {"cur", "graph"}
  <2>1. CASE t = 0
    BY <1>6, <2>1
  <2>2. CASE t # 0
    BY <1>1, <1>2, <1>6, <2>2
  <2> QED  BY <2>1, <2>2
<1> QED  BY <1>1, <1>2, <1>3, <1>4, <1>6, <1>7, <1>8, <1>9

\* Behind the barrier inside a mul_mat each thread has the chunk of its number.
LEMMA TurnChunk ==
    ASSUME PoolInv, NEW t \in Threads, Turn(t), ret[t] = "chunk"
    PROVE  /\ \A u \in Party : InGraph(u)' /\ Within(u)' /\ Stage(u)' = 2 * node[t] + 1
           /\ DataInv'
<1>0. PICK k : k = node[t]
    OBVIOUS
<1>1. DataInv /\ TypeOK /\ MainInv
    BY DEF PoolInv
<1>2. /\ NLen \in 0 .. NNodes /\ NNodes \in Nat /\ 0 \in Party /\ t \in Party
      /\ Party \subseteq Threads /\ Party' = Party /\ NLen' = NLen
      /\ \A j : (IsMul(j)' <=> IsMul(j)) /\ EndStage(j)' = EndStage(j)
      /\ \A u \in Party : /\ pc[u] = "barrier" /\ ~ Gone(u) /\ InGraph(u) /\ Within(u)
                          /\ ret[u] = "chunk" /\ node[u] = k
      /\ \A u \in Threads \ {t} :
            /\ pc'[u] = pc[u] /\ chunk'[u] = chunk[u] /\ node'[u] = node[u]
            /\ u \in Party => Gone(u)'
      /\ pc'[t] = "chunk" /\ chunk'[t] = t /\ node'[t] = k
      /\ pc'[0] \notin {"cur", "graph"}
      /\ UNCHANGED <<poolvars, ret, pollvars, graph, nth, prepared, computed, paused>>
    BY <1>0, TurnFacts
<1>3. Stage(0) = 2 * k /\ k \in Nat /\ k >= 1 /\ k <= NLen /\ IsMul(k) /\ abort # k
    BY <1>0, AtBarrier DEF Turn
<1>4. \A u \in Party : InGraph(u)' /\ node'[u] = k
    BY <1>2 DEF InGraph, GraphPcs
<1>5. ASSUME NEW u \in Party PROVE Stage(u)' = 2 * k + 1
  <2>1. CASE u = t
    BY <1>2, <1>4, <2>1 DEF Stage
  <2>2. CASE u # t
    BY <1>2, <1>4, <2>2 DEF Stage, BarrierStage
  <2> QED  BY <2>1, <2>2
<1>6. ASSUME NEW u \in Party PROVE Within(u)'
  <2>1. u < n_threads_cur /\ n_graph > 0 /\ graph[u] = cgraph /\ nth[u] = n_threads_cur
    BY <1>2 DEF Within
  <2>2. pc'[u] = "chunk" \/ (pc'[u] = "barrier" /\ ret'[u] = "chunk")
    BY <1>2
  <2> QED  BY <1>2, <1>3, <1>4, <2>1, <2>2 DEF Within, poolvars
<1>7. k \in Nodes /\ Stage(0)' = 2 * k + 1 /\ Stage(0) # 0 /\ Stage(0)' # 0
    BY <1>2, <1>3, <1>5, Constants
<1>8. ConvertInv(k)
  <2>1. NodeInv(k, Stage(0))
    BY <1>1, <1>7 DEF DataInv
  <2> QED  BY <1>3, <2>1 DEF NodeInv
<1>9. \A u \in Party : Converted(u, k)
    BY <1>2 DEF Converted
<1>10. ChunkInv(k)'
  <2>1. prepared[k] = Party /\ current_chunk = n_threads_cur /\ \A p \in AllParts : computed[k][p] = 0
    BY <1>2, <1>8, <1>9 DEF ConvertInv
  <2>2. \A u \in Party : \A p : Holds(u, k, p)' <=> p = u
    BY <1>2, <1>4 DEF Holds, Converted
  <2>3. \A u \in Party : ~ Past(u, k)'
    BY <1>2, <1>3, <1>4 DEF Past
  <2>4. n_threads_cur \in Nat /\ current_chunk' = n_threads_cur /\ n_threads_cur' = n_threads_cur
    BY <1>1, <1>2, <2>1, PartyFacts, Constants DEF poolvars
  <2>5. \A u \in Party : pc'[u] = "chunk" => chunk'[u] < n_threads_cur
    BY <1>2, <2>4 DEF Party
  <2>6. \A p \in AllParts : p < n_threads_cur => p \in Party
    BY <2>4, Constants DEF Party, AllParts
  <2> QED  BY <1>2, <2>1, <2>2, <2>3, <2>4, <2>5, <2>6 DEF ChunkInv
<1>11. ASSUME NEW j \in Nodes PROVE NodeInv(j, 2 * k + 1)'
  <2>1. NodeInv(j, Stage(0)) /\ j \in Nat
    BY <1>1, <1>7, Constants DEF DataInv
  <2>2. CASE j = k
    BY <1>2, <1>3, <1>7, <1>10, <2>2 DEF NodeInv, EndStage
  <2>3. CASE j # k
    <3>1. /\ 2 * k + 1 # 2 * j /\ 2 * k + 1 # 2 * j + 1
          /\ 2 * j > 2 * k + 1 => 2 * j > Stage(0)
          /\ EndStage(j) < 2 * k + 1 => EndStage(j) < Stage(0)
        BY <1>3, <2>1, <2>3 DEF EndStage
    <3>2. (Blank(j)' <=> Blank(j)) /\ (Finished(j)' <=> Finished(j))
        BY <1>2 DEF Blank, Finished, poolvars
    <3> QED  BY <1>2, <2>1, <3>1, <3>2 DEF NodeInv
  <2> QED  BY <2>2, <2>3
<1>12. DataInv'
    BY <1>1, <1>2, <1>7, <1>11 DEF DataInv
<1> QED  BY <1>0, <1>4, <1>5, <1>6, <1>12

\* Behind the barrier after a node the next begins.
LEMMA TurnNext ==
    ASSUME PoolInv, NEW t \in Threads, Turn(t), ret[t] = "next"
    PROVE  /\ \A u \in Party : InGraph(u)' /\ Within(u)' /\ Stage(u)' = 2 * (node[t] + 1)
           /\ DataInv'
<1>0. PICK k : k = node[t]
    OBVIOUS
<1>1. DataInv /\ TypeOK /\ MainInv
    BY DEF PoolInv
<1>2. /\ NLen \in 0 .. NNodes /\ NNodes \in Nat /\ 0 \in Party /\ t \in Party
      /\ Party \subseteq Threads /\ Party' = Party /\ NLen' = NLen
      /\ \A j : (IsMul(j)' <=> IsMul(j)) /\ EndStage(j)' = EndStage(j)
      /\ \A u \in Party : /\ pc[u] = "barrier" /\ ~ Gone(u) /\ InGraph(u) /\ Within(u)
                          /\ ret[u] = "next" /\ node[u] = k
      /\ \A u \in Threads \ {t} :
            /\ pc'[u] = pc[u] /\ chunk'[u] = chunk[u] /\ node'[u] = node[u]
            /\ u \in Party => Gone(u)'
      /\ pc'[t] = "loop" /\ node'[t] = k + 1
      /\ pc'[0] \notin {"cur", "graph"}
      /\ UNCHANGED <<poolvars, ret, pollvars, graph, nth, prepared, computed, paused>>
    BY <1>0, TurnFacts
<1>3. Stage(0) = EndStage(k) /\ k \in Nat /\ k >= 1 /\ k < NLen /\ NLen \in Nat
    BY <1>0, Constants, AtBarrier DEF Turn
<1>4. \A u \in Party : InGraph(u)'
    BY <1>2 DEF InGraph, GraphPcs
<1>5. ASSUME NEW u \in Party PROVE Stage(u)' = 2 * (k + 1)
  <2>1. CASE u = t
    <3>1. Stage(u)' = LoopStage(node[u])'
        BY <1>2, <1>4, <2>1 DEF Stage
    <3> QED  BY <1>2, <1>3, <2>1, <3>1 DEF LoopStage
  <2>2. CASE u # t
    BY <1>2, <1>4, <2>2 DEF Stage, BarrierStage
  <2> QED  BY <2>1, <2>2
<1>6. ASSUME NEW u \in Party PROVE Within(u)'
  <2>1. u < n_threads_cur /\ n_graph > 0 /\ graph[u] = cgraph /\ nth[u] = n_threads_cur
    BY <1>2 DEF Within
  <2>2. \/ pc'[u] = "loop" /\ node'[u] = k + 1
        \/ pc'[u] = "barrier" /\ ret'[u] = "next" /\ node'[u] = k /\ Gone(u)'
    BY <1>2
  <2> QED  BY <1>2, <1>3, <2>1, <2>2 DEF Within, poolvars
<1>7. k \in Nodes /\ k + 1 \in Nodes /\ k \in 1 .. NLen /\ Stage(0)' = 2 * (k + 1) /\ Stage(0)' # 0
    BY <1>2, <1>3, <1>5, Constants
<1>8. Stage(0) # 0
    BY <1>3 DEF EndStage
<1>9. Finished(k)
  <2>1. \A u \in Party : Past(u, k)
    BY <1>2 DEF Past
  <2> QED  BY <1>2, <1>3, <1>7, <2>1, NodeDone
<1>10. \A j : (Blank(j)' <=> Blank(j)) /\ (Finished(j)' <=> Finished(j))
    BY <1>2 DEF Blank, Finished, poolvars
<1>11. ASSUME NEW j \in Nodes PROVE NodeInv(j, 2 * (k + 1))'
  <2>1. NodeInv(j, Stage(0)) /\ j \in Nat
    BY <1>1, <1>8, Constants DEF DataInv
  <2>2. CASE j = k
    BY <1>2, <1>3, <1>9, <1>10, <2>2 DEF NodeInv
  <2>3. CASE j = k + 1
    <3>1. 2 * j > Stage(0)
        BY <1>3, <2>3 DEF EndStage
    <3>2. Blank(j)
        BY <2>1, <3>1 DEF NodeInv
    <3>3. \A u \in Party : ~ Past(u, j)' /\ ~ Converted(u, j)'
      <4>1. \A u \in Party : \/ pc'[u] = "loop" /\ node'[u] = j
                             \/ pc'[u] = "barrier" /\ ret'[u] = "next" /\ node'[u] = k
        BY <1>2, <2>3
      <4> QED  BY <1>3, <2>3, <4>1 DEF Past, Converted
    <3>4. PlainInv(j)'
        BY <1>2, <3>2, <3>3 DEF PlainInv, Blank
    <3>5. ConvertInv(j)'
        BY <1>2, <3>2, <3>3 DEF ConvertInv, Blank
    <3>6. ~ (EndStage(j)' < 2 * (k + 1)) /\ 2 * (k + 1) # 2 * j + 1
        BY <1>2, <1>3, <2>3 DEF EndStage
    <3> QED  BY <1>10, <3>2, <3>4, <3>5, <3>6 DEF NodeInv
  <2>4. CASE j # k /\ j # k + 1
    <3>1. /\ 2 * (k + 1) # 2 * j /\ 2 * (k + 1) # 2 * j + 1
          /\ 2 * j > 2 * (k + 1) => 2 * j > Stage(0)
          /\ EndStage(j) < 2 * (k + 1) => EndStage(j) < Stage(0)
        BY <1>3, <2>1, <2>4 DEF EndStage
    <3> QED  BY <1>2, <1>10, <2>1, <3>1 DEF NodeInv
  <2> QED  BY <2>2, <2>3, <2>4
<1>12. DataInv'
    BY <1>1, <1>2, <1>7, <1>11 DEF DataInv
<1> QED  BY <1>0, <1>4, <1>5, <1>6, <1>12

\* Behind the last barrier all are done, and unless the graph was aborted
\* every node is finished.
LEMMA TurnFinal ==
    ASSUME PoolInv, NEW t \in Threads, Turn(t), ret[t] = "final"
    PROVE  /\ \A u \in Party : ~ InGraph(u)' /\ Stage(u)' = 0
           /\ DataInv'
<1>1. DataInv /\ TypeOK /\ MainInv /\ ThreadsInv
    BY DEF PoolInv
<1>2. /\ NLen \in 0 .. NNodes /\ NNodes \in Nat /\ 0 \in Party /\ t \in Party
      /\ Party \subseteq Threads /\ Party' = Party /\ NLen' = NLen
      /\ \A u \in Party : /\ pc[u] = "barrier" /\ ~ Gone(u) /\ InGraph(u) /\ Within(u)
                          /\ ret[u] = "final" /\ node[u] \in Nat /\ node[u] >= 1
      /\ \A u \in Threads \ {t} : pc'[u] = pc[u] /\ (u \in Party => Gone(u)')
      /\ pc'[t] \in {"idle", "top"}
      /\ pc'[0] \notin {"cur", "graph"} /\ pc'[0] # "signal"
      /\ UNCHANGED <<poolvars, ret, pollvars, graph, nth, prepared, computed, paused>>
  <2>1. pc'[0] # "signal"
    <3>1. CASE t = 0
        BY <3>1, TurnFacts
    <3>2. CASE t # 0
      <4>1. pc[0] = "barrier" /\ pc'[0] = pc[0]
        BY <3>2, Constants, TurnFacts
      <4> QED  BY <4>1
    <3> QED  BY <3>1, <3>2
  <2> QED  BY <2>1, TurnFacts
<1>3. \A u \in Party : ~ InGraph(u)'
    BY <1>2 DEF InGraph, GraphPcs
<1>4. ASSUME NEW u \in Party PROVE Stage(u)' = 0
  <2>1. u # 0 => last_graph[u] = n_graph
    BY <1>1, <1>2 DEF ThreadsInv, WorkerInv, Workers
  <2> QED  BY <1>2, <1>3, <2>1 DEF Stage, OutStage, poolvars, pollvars
<1>5. ASSUME abort = 0, NEW k \in 1 .. NLen PROVE Whole(cgraph, k, n_threads_cur)
  <2>1. k \in Nat /\ k >= 1 /\ k <= NLen /\ NLen \in Nat /\ k \in Nodes /\ NLen \in 1 .. NLen
    BY <1>2, Constants
  <2>2. ASSUME NEW u \in Party PROVE node[u] = NLen + 1 /\ Stage(0) = EndStage(NLen)
    <3>1. u \in Threads /\ pc[u] = "barrier" /\ ~ Gone(u) /\ ret[u] = "final" /\ node[u] >= 1
          /\ node[u] \in Nat
        BY <1>2
    <3>2. abort # node[u]
        BY <1>5, <3>1
    <3>3. NLen > 0
        BY <2>1
    <3> QED  BY <3>1, <3>2, <3>3, AtBarrier
  <2>3. Stage(0) = EndStage(NLen)
    BY <1>2, <2>2
  <2>4. Finished(k)
    <3>1. CASE k = NLen
      <4>1. \A u \in Party : Past(u, NLen)
        BY <1>2, <2>1, <2>2 DEF Past
      <4> QED  BY <1>2, <2>1, <2>3, <3>1, <4>1, NodeDone
    <3>2. CASE k # NLen
      <4>1. EndStage(k) < EndStage(NLen)
        BY <2>1, <3>2 DEF EndStage
      <4>2. Stage(0) # 0
        BY <2>1, <2>3 DEF EndStage
      <4>3. NodeInv(k, Stage(0))
        BY <1>1, <2>1, <4>2 DEF DataInv
      <4> QED  BY <2>1, <2>3, <4>1, <4>3 DEF NodeInv
    <3> QED  BY <3>1, <3>2
  <2>5. Parts(cgraph, k, n_threads_cur) \subseteq AllParts
    <3>1. Party \subseteq AllParts /\ 0 .. NChunks - 1 \subseteq AllParts
        BY <1>2, Constants
    <3> QED  BY <3>1 DEF Parts, Party
  <2> QED  BY <2>4, <2>5 DEF Finished, Whole
<1>6. DataInv'
  <2>1. Stage(0)' = 0
    BY <1>2, <1>4
  <2>2. abort' = 0 => \A k \in 1 .. NLen' : Whole(cgraph, k, n_threads_cur)'
    BY <1>2, <1>5 DEF Whole, poolvars
  <2> QED  BY <1>1, <1>2, <2>1, <2>2 DEF DataInv
<1> QED  BY <1>3, <1>4, <1>6

LEMMA TurnInv ==
    ASSUME PoolInv, NEW t \in Threads, Turn(t)
    PROVE  MainInv' /\ ThreadsInv' /\ Lockstep' /\ DataInv'
<1>1. TypeOK /\ MainInv /\ ThreadsInv
    BY DEF PoolInv
<1>2. /\ 0 \in Party /\ t \in Party /\ Party \subseteq Threads /\ Party' = Party
      /\ \A u \in Party : /\ pc[u] = "barrier" /\ ~ Gone(u) /\ InGraph(u) /\ ret[u] = ret[t]
      /\ \A u \in Threads \ {t} : pc'[u] = pc[u] /\ (u \in Party => Gone(u)')
      /\ ret[t] = "chunk" => pc'[t] = "chunk"
      /\ ret[t] = "next" => pc'[t] = "loop"
      /\ ret[t] = "final" => pc'[t] = IF t = 0 THEN "idle" ELSE "top"
      /\ ret[t] \in {"chunk", "next", "final"} /\ pc'[0] \notin {"cur", "graph"}
      /\ UNCHANGED <<poolvars, ret, pollvars, graph, nth, prepared, computed, paused>>
    BY TurnFacts
<1>3. /\ at'[t] = "out"
      /\ \A u \in Threads \ {t} : at'[u] = at[u] /\ (Gone(u) => Gone(u)')
    BY DEF Turn
<1>4. /\ \A u \in Party : InGraph(u)' => Within(u)'
      /\ \A u, v \in Party : Stage(u)' = Stage(v)'
      /\ DataInv'
    BY <1>2, TurnChunk, TurnNext, TurnFinal
<1>5. Lockstep'
    BY <1>2, <1>4 DEF Lockstep
<1>6. ASSUME NEW u \in Threads \ Party PROVE ~ InGraph(u) /\ ~ InGraph(u)'
  <2>1. ~ InGraph(u)
    BY <1>1, GraphFacts DEF ThreadsInv
  <2> QED  BY <1>2, <1>3, <2>1 DEF InGraph
<1>7. ASSUME NEW u \in Threads PROVE ThreadInv(u)'
  <2>1. at'[u] # "out" => pc'[u] = "barrier"
    BY <1>1, <1>2, <1>3 DEF ThreadsInv, ThreadInv
  <2> QED  BY <1>4, <1>6, <2>1 DEF ThreadInv
<1>8. ASSUME NEW w \in Workers PROVE WorkerInv(w)'
  <2>1. WorkerInv(w) /\ w \in Threads /\ w # 0
    BY <1>1 DEF ThreadsInv, Workers
  <2>2. InGraph(w)' => last_graph[w] = n_graph
    BY <1>2, <1>6, <2>1 DEF WorkerInv
  <2>3. pc'[w] = pc[w] \/ pc'[w] \in {"chunk", "loop", "top"}
    BY <1>2, <2>1
  <2> QED  BY <1>2, <2>1, <2>2, <2>3 DEF WorkerInv, WorkerPcs, GraphPcs, poolvars, pollvars
<1>9. MainInv'
  <2>1. pc[0] = "barrier" /\ (pc'[0] = pc[0] \/ pc'[0] \in {"chunk", "loop", "idle"})
    BY <1>2, Constants
  <2>2. at'[0] = "out" \/ at'[0] = at[0]
    BY <1>3, Constants
  <2> QED  BY <1>1, <1>2, <2>1, <2>2 DEF MainInv, MainPcs, GraphPcs, poolvars
<1> QED  BY <1>4, <1>5, <1>7, <1>8, <1>9 DEF ThreadsInv

LEMMA PassInv ==
    ASSUME PoolInv, NEW t \in Threads, pc[t] = "barrier", Pass(t), Return(t)
    PROVE  PoolInv'
<1>1. TypeOK /\ ThreadsInv /\ MeetInv /\ Team = Threads
    BY PoolAssumption DEF PoolInv
<1>2. /\ at[t] = "pass" /\ at' = [at EXCEPT ![t] = "out"]
      /\ round' = [round EXCEPT ![t] = round[t] + 1]
      /\ n_barrier_passed' = n_barrier_passed + 1
      /\ UNCHANGED <<n_barrier, n_threads, n_passed>>
    BY DEF Pass, GoOut, Goto
<1>3. /\ at \in [Threads -> Places] /\ round \in [Threads -> Nat]
      /\ n_passed \in [Threads -> Nat] /\ n_barrier_passed \in Nat
    BY <1>1 DEF TypeOK, BarrierTypeOK
<1>4. at'[t] = "out" /\ \A u \in Threads \ {t} : at'[u] = at[u]
    BY <1>2, <1>3
<1>5. ~ Gone(t) /\ IsLast(t) /\ t \in Party
    BY <1>2, WaitingFacts DEF Gone, IsLast
<1>6. ASSUME NEW u \in Threads PROVE n_passed[u] <= n_barrier_passed /\ n_passed[u] # n_barrier_passed'
  <2>1. n_passed[u] \in Nat /\ n_passed[u] <= n_barrier_passed
    BY <1>1, <1>3 DEF MeetInv
  <2> QED  BY <1>2, <1>3, <2>1
<1>7. ASSUME NEW u \in Party \ {t}
      PROVE  u \in Waiting /\ u \in Threads /\ pc[u] = "barrier" /\ ~ Gone(u) /\ at'[u] = "wait"
  <2>1. u \in Waiting
    BY <1>1, <1>5 DEF MeetInv
  <2>2. u \in Threads /\ at[u] = "wait" /\ ~ Gone(u)
    BY <2>1 DEF Waiting, Gone
  <2> QED  BY <1>4, <2>1, <2>2, WaitingFacts
<1>8. \A u \in Threads : at'[u] = "wait" => Gone(u)'
    BY <1>2, <1>6 DEF Gone
<1>9. Turn(t)
  <2>1. \A u \in Threads \ {t} : Gone(u) => Gone(u)'
    BY <1>4, <1>8 DEF Gone
  <2>2. \A u \in Party \ {t} : pc[u] = "barrier" /\ ~ Gone(u) /\ Gone(u)'
    BY <1>7, <1>8
  <2> QED  BY <1>2, <1>4, <1>5, <2>1, <2>2 DEF Turn
<1>10. MainInv' /\ ThreadsInv' /\ Lockstep' /\ DataInv'
    BY <1>9, TurnInv
<1>11. /\ pc' \in [Threads -> MainPcs \cup WorkerPcs \cup GraphPcs]
       /\ chunk' \in [Threads -> Nat] /\ node' \in [Threads -> 1 .. NNodes + 1]
       /\ Party' = Party
       /\ UNCHANGED <<poolvars, ret, pollvars, graph, nth, prepared, computed, paused>>
    BY <1>9, TurnFacts
<1>12. TypeOK'
  <2>1. /\ at' \in [Threads -> Places] /\ round' \in [Threads -> Nat]
        /\ n_barrier_passed' \in Nat
    BY <1>2, <1>3 DEF Places
  <2> QED  BY <1>1, <1>2, <1>11, <2>1 DEF TypeOK, BarrierTypeOK, poolvars, pollvars
<1>13. MeetInv'
  <2>1. ASSUME NEW u \in Threads PROVE at'[u] \in {"out", "wait"}
    <3>1. CASE u \in Party
        BY <1>4, <1>7, <3>1
    <3>2. CASE u \notin Party
      <4>1. at[u] = "out" \/ Gone(u)
        BY <3>2, WaitingFacts
      <4> QED  BY <1>4, <4>1 DEF Gone
    <3> QED  BY <3>1, <3>2
  <2>2. Waiting' = {}
    BY <1>2, <1>6 DEF Waiting
  <2>3. n_barrier' = 0 /\ Cardinality(Waiting') = 0
    BY <1>1, <1>2, <2>2, FS_EmptySet DEF MeetInv
  <2>4. \A u \in Threads : ~ IsLast(u)'
    BY <2>1 DEF IsLast
  <2>5. \A u \in Threads : n_passed'[u] <= n_barrier_passed'
    <3>1. \A u \in Threads : n_passed[u] <= n_barrier_passed /\ n_passed[u] \in Nat
        BY <1>3, <1>6
    <3> QED  BY <1>2, <1>3, <3>1
  <2> QED  BY <2>1, <2>3, <2>4, <2>5 DEF MeetInv
<1> QED  BY <1>10, <1>12, <1>13 DEF PoolInv

\* The main thread alone needs no barrier.
LEMMA NoBarrierInv ==
    ASSUME PoolInv, NEW t \in Threads, NoBarrier(t)
    PROVE  PoolInv'
<1>1. TypeOK /\ MeetInv
    BY DEF PoolInv
<1>2. /\ pc[t] = "barrier" /\ n_threads_cur = 1 /\ at[t] = "out" /\ Return(t)
      /\ UNCHANGED barriervars
    BY DEF NoBarrier
<1>3. ~ Gone(t) /\ t \in Party
    BY <1>2, AtBarrier DEF Gone
<1>4. Party = {t}
    BY <1>2, <1>3 DEF Party
<1>5. Turn(t)
  <2>1. at' = at /\ n_passed' = n_passed /\ \A u : Gone(u)' <=> Gone(u)
    BY <1>2 DEF Gone, barriervars
  <2> QED  BY <1>2, <1>3, <1>4, <2>1 DEF Turn
<1>6. MainInv' /\ ThreadsInv' /\ Lockstep' /\ DataInv'
    BY <1>5, TurnInv
<1>7. /\ pc' \in [Threads -> MainPcs \cup WorkerPcs \cup GraphPcs]
      /\ chunk' \in [Threads -> Nat] /\ node' \in [Threads -> 1 .. NNodes + 1]
      /\ Party' = Party
      /\ UNCHANGED <<poolvars, ret, pollvars, graph, nth, prepared, computed, paused>>
    BY <1>5, TurnFacts
<1>8. TypeOK'
    BY <1>1, <1>2, <1>7 DEF TypeOK, BarrierTypeOK, poolvars, pollvars, barriervars
<1>9. MeetInv'
    BY <1>2, <1>7, MeetKeeps DEF barriervars, poolvars
<1> QED  BY <1>6, <1>8, <1>9 DEF PoolInv

LEMMA GraphStepInv ==
    ASSUME PoolInv, NEW t \in Threads, GraphStep(t)
    PROVE  PoolInv'
<1>1. CASE InBarrier(t)
    BY <1>1, LoadThreadsInv, LoadPassedInv, EnterInv, ResetInv DEF InBarrier, BarrierStep
<1>2. CASE OutOfBarrier(t)
    BY <1>2, LeaveInv, PassInv DEF OutOfBarrier, BarrierReturn
<1> QED  BY <1>1, <1>2, RunGraphInv, NodeLoopInv, WorkPlainInv, WorkMulMatInv, WorkChunkInv,
            NoChunkLeftInv, AfterNodeInv, NoBarrierInv DEF GraphStep

-----------------------------------------------------------------------------
(* The invariant.                                                          *)

LEMMA InitInv == Init => PoolInv
<1> SUFFICES ASSUME Init PROVE PoolInv
    OBVIOUS
<1>1. /\ cgraph = 0 /\ n_graph = 0 /\ n_threads_cur = N /\ current_chunk = 0 /\ stop = FALSE
      /\ pause \in BOOLEAN /\ abort = 0 /\ paused \in {0, 1} /\ computed = NothingComputed
      /\ pc = [t \in Threads |-> IF t = 0 THEN "idle" ELSE "top"]
      /\ ret = [t \in Threads |-> "final"]
      /\ last_graph = [t \in Threads |-> 0] /\ seen = [t \in Threads |-> 0]
      /\ graph = [t \in Threads |-> 0] /\ nth = [t \in Threads |-> 1]
      /\ node = [t \in Threads |-> 1] /\ chunk = [t \in Threads |-> 0]
      /\ prepared = [k \in Nodes |-> {}]
      /\ n_barrier = 0 /\ n_barrier_passed = 0 /\ at = [t \in Threads |-> "out"]
      /\ n_threads = [t \in Threads |-> 0]
      /\ n_passed = [t \in Threads |-> 0] /\ round = [t \in Threads |-> 0]
    BY PoolAssumption DEF Init, BarrierInit
<1>2. 0 \in Threads /\ N \in Nat /\ N > 1 /\ NNodes \in Nat /\ Len(Graphs) \in Nat /\ Team = Threads
      /\ Pauses \in Nat \ {0}
    BY Constants, PoolAssumption
<1>3. TypeOK
  <2>1. BarrierTypeOK /\ n_barrier <= N
    BY <1>1, <1>2 DEF BarrierTypeOK, Places
  <2>2. /\ 0 \in 0 .. Len(Graphs) /\ N \in 1 .. N /\ 1 \in 1 .. N /\ 0 \in 0 .. NNodes + 1
        /\ 1 \in 1 .. NNodes + 1 /\ paused \in 0 .. Pauses
    BY <1>1, <1>2
  <2>3. pc \in [Threads -> MainPcs \cup WorkerPcs \cup GraphPcs]
    BY <1>1 DEF MainPcs, WorkerPcs
  <2>4. computed \in [Nodes -> [AllParts -> Nat]] /\ prepared \in [Nodes -> SUBSET Threads]
    BY <1>1 DEF NothingComputed
  <2> QED  BY <1>1, <2>1, <2>2, <2>3, <2>4 DEF TypeOK
<1>4. \A t \in Threads : /\ ~ InGraph(t) /\ at[t] = "out" /\ Stage(t) = 0 /\ n_passed[t] = 0
                         /\ last_graph[t] = 0 /\ seen[t] = 0 /\ pc[t] = IF t = 0 THEN "idle" ELSE "top"
    BY <1>1 DEF InGraph, GraphPcs, Stage, OutStage
<1>5. MainInv
    BY <1>1, <1>2, <1>4 DEF MainInv, MainPcs, GraphPcs
<1>6. ThreadsInv
    BY <1>1, <1>4 DEF ThreadsInv, ThreadInv, WorkerInv, Workers, WorkerPcs
<1>7. Lockstep
    BY <1>2, <1>3, <1>4, PartyFacts DEF Lockstep
<1>8. MeetInv
  <2>1. Waiting = {} /\ Cardinality({}) = 0
    BY <1>4, FS_EmptySet DEF Waiting
  <2> QED  BY <1>1, <1>4, <2>1 DEF MeetInv, IsLast
<1>9. DataInv
    BY <1>1, <1>2, <1>4 DEF DataInv, NothingComputed
<1> QED  BY <1>3, <1>5, <1>6, <1>7, <1>8, <1>9 DEF PoolInv

LEMMA SameInv ==
    ASSUME PoolInv, UNCHANGED vars
    PROVE  PoolInv'
<1>1. TypeOK /\ MainInv /\ ThreadsInv /\ Lockstep
    BY DEF PoolInv
<1>2. SameGraph /\ abort' = abort /\ \A u : Same(u)
    BY DEF vars, SameGraph, Same
<1>3. TypeOK'
    BY <1>1 DEF TypeOK, BarrierTypeOK, vars
<1>4. \A u \in Threads : Stage(u)' = Stage(u) /\ SameWork(u) /\ ThreadInv(u)'
    BY <1>1, <1>2, SameThread DEF ThreadsInv
<1>5. \A w \in Workers : WorkerInv(w)'
    BY <1>1, <1>2, SameThread DEF ThreadsInv
<1>6. Lockstep'
    BY <1>1, <1>2, <1>4, Constants, PartyFacts DEF Lockstep, Party, SameGraph
<1>7. MainInv'
    BY <1>2, MainKeeps
<1>8. MeetInv'
    BY MeetKeeps DEF vars, Party
<1>9. DataInv'
    BY <1>1, <1>2, <1>4, Constants, PartyFacts, DataKeeps DEF vars
<1> QED  BY <1>3, <1>4, <1>5, <1>6, <1>7, <1>8, <1>9 DEF PoolInv, ThreadsInv

LEMMA NextInv ==
    ASSUME NeverMoreThreads, PoolInv, [Next]_vars
    PROVE  PoolInv'
<1>1. 0 \in Threads /\ Workers \subseteq Threads
    BY Constants
<1>2. CASE MainStep
    BY <1>1, <1>2, ResetGraphInv, SetThreadsInv, AnnounceGraphInv, MainOutInv, GraphStepInv DEF MainStep
<1>3. CASE Freed \/ UNCHANGED vars
    BY <1>3, SameInv DEF Freed
<1>4. ASSUME NEW w \in Workers, WorkerStep(w) \/ GraphStep(w) PROVE PoolInv'
    BY <1>1, <1>4, WorkerStepInv, GraphStepInv
<1>5. CASE BeginGraph \/ Pause \/ Resume \/ SetStop
    BY <1>5, MainOutInv
<1> QED  BY <1>2, <1>3, <1>4, <1>5 DEF Next

(***************************************************************************)
(* The state of the pool stays within its types; no thread counts more     *)
(* arrivals at the barrier than there are threads.                         *)
(***************************************************************************)
THEOREM PoolTypeCorrect ==
    ASSUME NeverMoreThreads
    PROVE  Spec => []TypeOK
<1>1. Init => PoolInv
    BY InitInv
<1>2. PoolInv /\ [Next]_vars => PoolInv'
    BY NextInv
<1>3. PoolInv => TypeOK
    BY DEF PoolInv
<1> QED  BY <1>1, <1>2, <1>3, PTL DEF Spec

LEMMA PartsOnce == PoolInv => EveryPartOnce
<1> SUFFICES ASSUME PoolInv PROVE EveryPartOnce
    OBVIOUS
<1>1. TypeOK /\ MainInv /\ DataInv
    BY DEF PoolInv
<1>2. ASSUME pc[0] = "idle", n_graph > 0, abort = 0, NEW k \in DOMAIN Graphs[n_graph].nodes
      PROVE  Whole(n_graph, k, n_threads_cur)
  <2>1. Stage(0) = 0 /\ cgraph = n_graph
    BY <1>1, <1>2, MainOut DEF MainInv, MainPcs
  <2>2. n_graph \in 1 .. Len(Graphs)
    BY <1>1, <1>2, Constants DEF TypeOK
  <2>3. k \in 1 .. NLen
    BY <2>1, <2>2, Constants DEF NLen
  <2> QED  BY <1>1, <1>2, <2>1, <2>3 DEF DataInv
<1> QED  BY <1>1, <1>2 DEF EveryPartOnce, DataInv

LEMMA InputsDone == PoolInv => InputsReady
<1> SUFFICES ASSUME PoolInv, NEW t \in Threads, pc[t] \in {"work", "chunk"}
             PROVE  /\ \A k \in 1 .. node[t] - 1 : Whole(graph[t], k, nth[t])
                    /\ pc[t] = "chunk" =>
                            /\ prepared[node[t]] = 0 .. nth[t] - 1
                            /\ \A k \in node[t] + 1 .. Len(Kinds(t)) : prepared[k] = {}
    BY DEF InputsReady
<1>1. DataInv
    BY DEF PoolInv
<1>2. /\ InGraph(t) /\ Within(t) /\ NLen \in 0 .. NNodes /\ NNodes \in Nat
      /\ node[t] \in Nat /\ node[t] >= 1 /\ Stage(0) # 0 /\ Len(Kinds(t)) = NLen
      /\ Party \subseteq Threads
    BY AtWork, PartyFacts DEF GraphPcs, PoolInv
<1>3. graph[t] = cgraph /\ nth[t] = n_threads_cur /\ node[t] <= NLen
    BY <1>2 DEF Within
<1>4. Stage(0) \in {2 * node[t], 2 * node[t] + 1}
    BY <1>2, StageNode
<1>5. \A k \in 1 .. NLen : Parts(cgraph, k, n_threads_cur) \subseteq AllParts
  <2>1. Party \subseteq AllParts /\ 0 .. NChunks - 1 \subseteq AllParts
    BY <1>2, Constants
  <2> QED  BY <2>1 DEF Parts, Party
<1>6. ASSUME NEW k \in 1 .. node[t] - 1 PROVE Whole(graph[t], k, nth[t])
  <2>1. k \in Nodes /\ k \in 1 .. NLen /\ EndStage(k) < Stage(0)
    <3>1. k \in Nat /\ k >= 1 /\ k < node[t]
        BY <1>2
    <3> QED  BY <1>2, <1>3, <1>4, <3>1, Constants DEF EndStage
  <2>2. Finished(k)
    BY <1>1, <1>2, <2>1 DEF DataInv, NodeInv
  <2> QED  BY <1>3, <1>5, <2>1, <2>2 DEF Finished, Whole
<1>7. ASSUME pc[t] = "chunk"
      PROVE  /\ prepared[node[t]] = 0 .. nth[t] - 1
             /\ \A k \in node[t] + 1 .. Len(Kinds(t)) : prepared[k] = {}
  <2>1. ChunkInv(node[t]) /\ Stage(0) = 2 * node[t] + 1
    BY <1>7, AtChunks
  <2>2. prepared[node[t]] = 0 .. nth[t] - 1
    BY <1>3, <2>1 DEF ChunkInv, Party
  <2>3. ASSUME NEW k \in node[t] + 1 .. NLen PROVE prepared[k] = {}
    <3>1. k \in Nodes /\ 2 * k > Stage(0)
        BY <1>2, <2>1, Constants
    <3>2. Blank(k)
        BY <1>1, <1>2, <3>1 DEF DataInv, NodeInv
    <3> QED  BY <3>2 DEF Blank
  <2> QED  BY <1>2, <2>2, <2>3
<1> QED  BY <1>6, <1>7

LEMMA AllOutside == PoolInv => NoWorkerAccesses
<1> SUFFICES ASSUME PoolInv, pc[0] = "reset", NEW w \in Workers PROVE Outside(w)
    BY DEF NoWorkerAccesses
<1>1. ~ InGraph(w)
    BY MainOut, BetweenGraphs, Constants DEF MainPcs
<1>2. pc[w] \in WorkerPcs \cup GraphPcs
    BY DEF PoolInv, ThreadsInv, WorkerInv
<1> QED  BY <1>1, <1>2 DEF InGraph, Outside, Gone

(***************************************************************************)
(* No part of a node is computed twice, and a call that returns without    *)
(* having been aborted has computed every part of every node: whatever the *)
(* number of threads and of chunks, and in whatever order the threads draw *)
(* chunks from the counter.                                                *)
(***************************************************************************)
THEOREM PartsComputedOnce ==
    ASSUME NeverMoreThreads
    PROVE  Spec => []EveryPartOnce
<1>1. Init => PoolInv
    BY InitInv
<1>2. PoolInv /\ [Next]_vars => PoolInv'
    BY NextInv
<1> QED  BY <1>1, <1>2, PartsOnce, PTL DEF Spec

(***************************************************************************)
(* A thread computes on what the others have finished: the nodes before    *)
(* its own and, at the product of a mul_mat, the converted src1 in the     *)
(* work buffer, which no thread overwrites yet.                            *)
(***************************************************************************)
THEOREM InputsAlwaysReady ==
    ASSUME NeverMoreThreads
    PROVE  Spec => []InputsReady
<1>1. Init => PoolInv
    BY InitInv
<1>2. PoolInv /\ [Next]_vars => PoolInv'
    BY NextInv
<1> QED  BY <1>1, <1>2, InputsDone, PTL DEF Spec

(***************************************************************************)
(* "No worker threads should be accessing the parameters below at this     *)
(* stage": when the main thread resets the graph every worker is outside   *)
(* it, or in the wait of its last barrier, which is complete.              *)
(***************************************************************************)
THEOREM WorkersStayOut ==
    ASSUME NeverMoreThreads
    PROVE  Spec => []NoWorkerAccesses
<1>1. Init => PoolInv
    BY InitInv
<1>2. PoolInv /\ [Next]_vars => PoolInv'
    BY NextInv
<1> QED  BY <1>1, <1>2, AllOutside, PTL DEF Spec

-----------------------------------------------------------------------------
(* The barriers of the pool are the rounds of its regulars.                *)

\* Some graph is computed by more than one thread: else there is no barrier,
\* and nobody for Regulars to name.
SomeTeam == \E g \in DOMAIN Graphs : Teams(g) \ {1} # {}

LEMMA RegularsFacts ==
    ASSUME SomeTeam
    PROVE  /\ Regulars \subseteq Threads
           /\ \A g \in DOMAIN Graphs : \A n \in Teams(g) :
                n > 1 => Regulars \subseteq 0 .. n - 1
<1> DEFINE S == (UNION {Teams(g) : g \in DOMAIN Graphs}) \ {1}
<1>1. \A g \in DOMAIN Graphs : Teams(g) \subseteq 1 .. N
    BY Constants
<1>2. \A n : n \in S <=> n # 1 /\ \E g \in DOMAIN Graphs : n \in Teams(g)
    OBVIOUS
<1>3. Regulars = 0 .. Min(S) - 1
    BY DEF Regulars
<1> HIDE DEF S
<1>4. S \subseteq 1 .. N /\ S # {} /\ N \in Nat
    BY <1>1, <1>2, Constants DEF SomeTeam
<1>5. Min(S) \in 1 .. N /\ \A n \in S : Min(S) <= n
  <2>1. S \subseteq Nat
    BY <1>4
  <2>2. Min(S) \in S /\ \A n \in S : Min(S) <= n
    BY <1>4, <2>1, MinIsMin
  <2> QED  BY <1>4, <2>2
<1>6. Regulars \subseteq Threads
    BY <1>3, <1>4, <1>5 DEF Threads
<1>7. ASSUME NEW g \in DOMAIN Graphs, NEW n \in Teams(g), n > 1
      PROVE  Regulars \subseteq 0 .. n - 1
  <2>1. n \in S /\ n \in 1 .. N
    BY <1>1, <1>2, <1>7
  <2> QED  BY <1>3, <1>4, <1>5, <2>1
<1> QED  BY <1>6, <1>7

\* While threads meet, the regulars are of the team.
LEMMA RegularsMeet ==
    ASSUME SomeTeam, PoolInv, NEW t \in Threads, at[t] # "out", ~ Gone(t)
    PROVE  Regulars \subseteq Party /\ pc[t] = "barrier" /\ t \in Party
<1>1. TypeOK /\ MainInv /\ ThreadsInv
    BY DEF PoolInv
<1>2. pc[t] = "barrier" /\ InGraph(t) /\ t \in Party /\ n_threads_cur > 1
    BY WaitingFacts
<1>3. n_graph > 0 /\ n_threads_cur \in 1 .. N /\ N \in Nat
  <2>1. n_graph > 0
    BY <1>1, <1>2 DEF ThreadsInv, ThreadInv, Within
  <2> QED  BY <1>1, <2>1, PartyFacts, Constants
<1>4. pc[0] # "graph"
  <2> SUFFICES ASSUME pc[0] = "graph" PROVE FALSE
    OBVIOUS
  <2>1. ~ InGraph(t)
    BY <1>2, BetweenGraphs, MainOut DEF MainPcs
  <2> QED  BY <1>2, <2>1
<1>5. n_threads_cur \in Teams(n_graph) /\ n_graph \in DOMAIN Graphs
  <2>1. n_graph \in 0 .. Len(Graphs) /\ n_graph # 0
    BY <1>1, <1>3 DEF TypeOK
  <2>2. n_graph \in DOMAIN Graphs
    BY <2>1, Constants
  <2> QED  BY <1>1, <1>4, <2>1, <2>2 DEF MainInv
<1> QED  BY <1>2, <1>5, RegularsFacts DEF Party

\* Only in the barrier do the counters and the places of the threads change.
LEMMA BarrierMoves ==
    ASSUME PoolInv, [Next]_vars
    PROVE  \/ UNCHANGED barriervars
           \/ \E t \in Threads :
                \/ LoadThreads(t, n_threads_cur)
                \/ LoadPassed(t)
                \/ Enter(t)
                \/ Reset(t)
                \/ Pass(t)
                \/ Leave(t)
<1>1. 0 \in Threads /\ Workers \subseteq Threads
    BY Constants
<1>2. ASSUME NEW t \in Threads, GraphStep(t)
      PROVE  \/ UNCHANGED barriervars
             \/ LoadThreads(t, n_threads_cur) \/ LoadPassed(t) \/ Enter(t) \/ Reset(t)
             \/ Pass(t) \/ Leave(t)
    BY <1>2 DEF GraphStep, RunGraph, NodeLoop, WorkPlain, WorkMulMat, WorkChunk, NoChunkLeft,
                AfterNode, InBarrier, OutOfBarrier, NoBarrier, BarrierStep, BarrierReturn
<1>3. ASSUME NEW w \in Workers, WorkerStep(w) PROVE UNCHANGED barriervars
    BY <1>3 DEF WorkerStep, Top, StopCheck, ActiveCheck, PollFlags, PollGraph, PollMine, LockAndCheck
<1>4. CASE BeginGraph \/ Pause \/ Resume \/ SetStop \/ Freed \/ UNCHANGED vars
    BY <1>4 DEF BeginGraph, Pause, Resume, SetStop, Freed, vars, barriervars
<1>5. CASE ResetGraph \/ SetThreads \/ AnnounceGraph \/ Signal \/ ClearPause \/ Join
    BY <1>5 DEF ResetGraph, SetThreads, AnnounceGraph, Signal, ClearPause, Join
<1> QED  BY <1>1, <1>2, <1>3, <1>4, <1>5 DEF Next, MainStep

LEMMA RoundStep ==
    ASSUME SomeTeam, PoolInv, RoundInv, [Next]_vars
    PROVE  RoundInv'
<1>1. TypeOK /\ MeetInv /\ Team = Threads
    BY PoolAssumption DEF PoolInv
<1>2. /\ at \in [Threads -> Places] /\ round \in [Threads -> Nat]
      /\ n_passed \in [Threads -> Nat] /\ n_barrier_passed \in Nat
    BY <1>1 DEF TypeOK, BarrierTypeOK
<1>3. Regulars \subseteq Threads
    BY RegularsFacts
<1>4. CASE UNCHANGED barriervars
    BY <1>4 DEF barriervars, RoundInv
<1>5. ASSUME NEW t \in Threads, LoadThreads(t, n_threads_cur) \/ LoadPassed(t) PROVE RoundInv'
  <2>1. /\ at[t] \in {"out", "load"} /\ at'[t] \in {"load", "enter"}
        /\ \A u \in Threads \ {t} : at'[u] = at[u] /\ n_passed'[u] = n_passed[u]
        /\ round' = round /\ n_barrier_passed' = n_barrier_passed
    BY <1>2, <1>5 DEF LoadThreads, LoadPassed, Goto
  <2> QED  BY <1>3, <2>1 DEF RoundInv
<1>6. ASSUME NEW t \in Threads, Enter(t) PROVE RoundInv'
  <2>1. /\ at[t] = "enter" /\ at'[t] \in {"reset", "wait"}
        /\ \A u \in Threads \ {t} : at'[u] = at[u]
        /\ round' = round /\ n_barrier_passed' = n_barrier_passed /\ n_passed' = n_passed
    BY <1>2, <1>6 DEF Enter, Goto
  <2>2. n_passed[t] = n_barrier_passed
    BY <1>1, <2>1 DEF MeetInv
  <2> QED  BY <1>3, <2>1, <2>2 DEF RoundInv
<1>7. ASSUME NEW t \in Threads, Reset(t) PROVE RoundInv'
  <2>1. /\ at[t] = "reset" /\ at'[t] = "pass"
        /\ \A u \in Threads \ {t} : at'[u] = at[u]
        /\ round' = round /\ n_barrier_passed' = n_barrier_passed /\ n_passed' = n_passed
    BY <1>2, <1>7 DEF Reset, Goto
  <2> QED  BY <1>3, <2>1 DEF RoundInv
<1>8. ASSUME NEW t \in Threads, Pass(t) PROVE RoundInv'
  <2>1. /\ at[t] = "pass" /\ at'[t] = "out" /\ round'[t] = round[t] + 1
        /\ \A u \in Threads \ {t} : at'[u] = at[u] /\ round'[u] = round[u]
        /\ n_passed' = n_passed /\ n_barrier_passed' = n_barrier_passed + 1
    BY <1>2, <1>8 DEF Pass, GoOut, Goto
  <2>2. \A u \in Regulars \ {t} : u \in Waiting
    BY <1>1, <2>1, RegularsMeet DEF MeetInv, IsLast, Gone
  <2>3. ASSUME NEW u \in Regulars \ {t}
        PROVE  at'[u] = "wait" /\ round'[u] = n_passed'[u] /\ n_passed'[u] = n_barrier_passed' - 1
    <3>1. at[u] = "wait" /\ n_passed[u] = n_barrier_passed /\ round[u] = n_passed[u] /\ u \in Threads
        BY <1>3, <2>2 DEF Waiting, RoundInv
    <3> QED  BY <1>2, <2>1, <3>1
  <2>4. t \in Regulars => round'[t] = n_barrier_passed'
    BY <2>1 DEF RoundInv
  <2> QED  BY <2>1, <2>3, <2>4 DEF RoundInv
<1>9. ASSUME NEW t \in Threads, Leave(t) PROVE RoundInv'
  <2>1. /\ at[t] = "wait" /\ at'[t] = "out" /\ round'[t] = round[t] + 1
        /\ n_passed[t] # n_barrier_passed
        /\ \A u \in Threads \ {t} : at'[u] = at[u] /\ round'[u] = round[u]
        /\ n_passed' = n_passed /\ n_barrier_passed' = n_barrier_passed
    BY <1>2, <1>9 DEF Leave, GoOut, Goto
  <2>2. t \in Regulars => round'[t] = n_barrier_passed
    BY <1>2, <2>1 DEF RoundInv
  <2> QED  BY <1>3, <2>1, <2>2 DEF RoundInv
<1> QED  BY <1>4, <1>5, <1>6, <1>7, <1>8, <1>9, BarrierMoves

rounds   == [t \in Regulars |-> round[t]]
arrivals == {t \in Regulars : Arrived(t)}

\* A step of the rounds, or of a thread that is not a regular.
LEMMA RoundsStep ==
    ASSUME SomeTeam, PoolInv, RoundInv, [Next]_vars
    PROVE  [RR!Next]_(RR!vars)
<1>1. TypeOK /\ MeetInv /\ Team = Threads
    BY PoolAssumption DEF PoolInv
<1>2. /\ at \in [Threads -> Places] /\ round \in [Threads -> Nat]
      /\ n_passed \in [Threads -> Nat] /\ n_barrier_passed \in Nat
    BY <1>1 DEF TypeOK, BarrierTypeOK
<1>3. Regulars \subseteq Threads
    BY RegularsFacts
<1>4. rounds' = rounds /\ arrivals' = arrivals => UNCHANGED RR!vars
    BY DEF rounds, arrivals, RR!vars
<1>5. CASE UNCHANGED barriervars
    BY <1>4, <1>5 DEF barriervars, rounds, arrivals, Arrived
<1>6. ASSUME NEW t \in Threads, LoadThreads(t, n_threads_cur) \/ LoadPassed(t) \/ Reset(t)
      PROVE  UNCHANGED RR!vars
  <2>1. round' = round /\ \A u \in Threads : Arrived(u)' <=> Arrived(u)
    BY <1>2, <1>6 DEF LoadThreads, LoadPassed, Reset, Goto, Arrived
  <2> QED  BY <1>3, <1>4, <2>1 DEF rounds, arrivals
<1>7. ASSUME NEW t \in Threads, Enter(t)
      PROVE  RR!Next \/ UNCHANGED RR!vars
  <2>1. /\ ~ Arrived(t) /\ Arrived(t)' /\ round' = round
        /\ \A u \in Threads \ {t} : Arrived(u)' <=> Arrived(u)
    BY <1>2, <1>7 DEF Enter, Goto, Arrived
  <2>2. CASE t \notin Regulars
    BY <1>3, <1>4, <2>1, <2>2 DEF rounds, arrivals
  <2>3. CASE t \in Regulars
    <3>1. t \notin arrivals /\ arrivals' = arrivals \cup {t} /\ rounds' = rounds
        BY <1>3, <2>1, <2>3 DEF arrivals, rounds
    <3>2. RR!Arrive(t)
        BY <3>1 DEF RR!Arrive, arrivals, rounds
    <3> QED  BY <2>3, <3>2 DEF RR!Next
  <2> QED  BY <2>2, <2>3
\* Whoever leaves finds that all regulars have come.
<1>8. ASSUME NEW t \in Threads, Pass(t) \/ Leave(t),
             \A u \in Regulars : t \in Regulars =>
                round[u] > round[t] \/ (round[u] = round[t] /\ Arrived(u))
      PROVE  RR!Next \/ UNCHANGED RR!vars
  <2>1. /\ Arrived(t) /\ ~ Arrived(t)' /\ round'[t] = round[t] + 1
        /\ \A u \in Threads \ {t} : (Arrived(u)' <=> Arrived(u)) /\ round'[u] = round[u]
    BY <1>2, <1>8 DEF Pass, Leave, GoOut, Goto, Arrived
  <2>2. CASE t \notin Regulars
    BY <1>3, <1>4, <2>1, <2>2 DEF rounds, arrivals
  <2>3. CASE t \in Regulars
    <3>1. t \in arrivals /\ arrivals' = arrivals \ {t}
        BY <1>3, <2>1, <2>3 DEF arrivals
    <3>2. rounds' = [rounds EXCEPT ![t] = rounds[t] + 1]
        BY <1>3, <2>1, <2>3 DEF rounds
    <3>3. \A u \in Regulars : rounds[u] > rounds[t] \/ (rounds[u] = rounds[t] /\ u \in arrivals)
        BY <1>8, <2>3 DEF rounds, arrivals
    <3>4. RR!Complete(rounds[t])
        BY <3>3 DEF RR!Complete, rounds, arrivals
    <3>5. RR!Leave(t)
        BY <3>1, <3>2, <3>4 DEF RR!Leave, rounds, arrivals
    <3> QED  BY <2>3, <3>5 DEF RR!Next
  <2> QED  BY <2>2, <2>3
<1>9. ASSUME NEW t \in Threads, Pass(t), t \in Regulars, NEW u \in Regulars
      PROVE  round[u] = round[t] /\ Arrived(u)
  <2>1. at[t] = "pass" /\ round[t] = n_barrier_passed
    BY <1>9 DEF Pass, RoundInv
  <2>2. u = t \/ u \in Waiting
    BY <1>1, <2>1, RegularsMeet DEF MeetInv, IsLast, Gone
  <2> QED  BY <2>1, <2>2 DEF Waiting, Arrived, RoundInv
<1>10. ASSUME NEW t \in Threads, Leave(t), t \in Regulars, NEW u \in Regulars
       PROVE  round[u] > round[t] \/ (round[u] = round[t] /\ Arrived(u))
  <2>1. at[t] = "wait" /\ round[t] = n_barrier_passed - 1
    BY <1>10 DEF Leave, RoundInv
  <2>2. CASE at[u] = "wait"
    <3>1. round[u] \in {n_barrier_passed, n_barrier_passed - 1} /\ Arrived(u)
        BY <2>2 DEF RoundInv, Arrived
    <3> QED  BY <1>2, <2>1, <3>1
  <2>3. CASE at[u] # "wait"
    <3>1. round[u] = n_barrier_passed
        BY <2>3 DEF RoundInv
    <3> QED  BY <1>2, <2>1, <3>1
  <2> QED  BY <2>2, <2>3
<1>11. \A t \in Threads : Pass(t) \/ Leave(t) => RR!Next \/ UNCHANGED RR!vars
    BY <1>8, <1>9, <1>10
<1> QED  BY <1>5, <1>6, <1>7, <1>11, BarrierMoves

(***************************************************************************)
(* The barriers implement the rounds for as long as the pool lives: no     *)
(* thread that takes part in all of them leaves one before all such have   *)
(* come to it, though the team changes from graph to graph and stragglers  *)
(* of one graph are still in its last barrier when the next begins.        *)
(***************************************************************************)
THEOREM PoolIsRounds ==
    ASSUME NeverMoreThreads, SomeTeam
    PROVE  Spec => PoolImplementsRounds
<1>1. Init => PoolInv
    BY InitInv
<1>2. Init => RoundInv /\ RR!Init
  <2> SUFFICES ASSUME Init PROVE RoundInv /\ RR!Init
    OBVIOUS
  <2>1. \A t \in Regulars : at[t] = "out" /\ round[t] = 0 /\ n_barrier_passed = 0
    BY PoolAssumption, RegularsFacts DEF Init, BarrierInit
  <2> QED  BY <2>1 DEF RoundInv, RR!Init, Arrived
<1>3. PoolInv /\ [Next]_vars => PoolInv'
    BY NextInv
<1>4. PoolInv /\ RoundInv /\ [Next]_vars => RoundInv' /\ [RR!Next]_(RR!vars)
    BY RoundStep, RoundsStep
<1> QED  BY <1>1, <1>2, <1>3, <1>4, PTL DEF Spec, PoolImplementsRounds, RR!Spec
=============================================================================
