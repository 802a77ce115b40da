----------------------------- MODULE GraphAlloc -----------------------------
(***************************************************************************)
(* The graph allocator of ggml-alloc.c over one buffer: it walks a graph   *)
(* in the order in which it will be computed, gives every tensor an offset *)
(* and takes it back after the last use, so that tensors share memory.     *)
(* The offsets of one graph are then used for the graphs that follow, as   *)
(* long as these fit the sizes remembered; of what a graph is like nothing *)
(* else is compared.                                                       *)
(*                                                                         *)
(* Tensors are numbered: first the leafs, then the nodes in the order of   *)
(* the graph.  A shape gives the size of a tensor for each number of       *)
(* tokens.  Nothing is computed here; GraphAllocProps asks whether what    *)
(* was planned can be.                                                     *)
(***************************************************************************)
EXTENDS DynAlloc, Sequences

CONSTANTS
    Leafs,          \* the leafs, as a sequence of tensors
    NNodes,         \* how many nodes a graph has
    Shapes,         \* the shapes that tensors may have
    MaxOutputs,     \* how many nodes may be outputs
    SameTopology,   \* does the caller build the same graph for every batch?
    AllocFails      \* may the memory for the buffer be refused?

\* The numbers of tokens a graph is built for: the indices of a shape.
TokenCounts == DOMAIN (CHOOSE s \in Shapes : TRUE)

\* The leafs are the inputs; weights and cache have their data already, take no
\* part in the allocation and are left out.
Leaf(shape) == [op |-> "none", src |-> <<>>, view_src |-> 0, shape |-> shape, output |-> FALSE]

ASSUME GraphAssumption ==
    /\ NNodes \in Nat \ {0}
    /\ Shapes # {} /\ Shapes \subseteq [TokenCounts -> Sizes]
    /\ 1 \in TokenCounts
    /\ Leafs \in Seq({Leaf(s) : s \in Shapes})
    /\ MaxOutputs \in Nat
    /\ SameTopology \in BOOLEAN /\ AllocFails \in BOOLEAN

VARIABLES
    graph,          \* the tensors of the graph
    n_tokens,       \* what it is built for
    pc,             \* where the allocator is
    i,              \* the tensor it is at
    j,              \* the source of that tensor it is at
    n_children,     \* per tensor: uses to come
    n_views,        \* per tensor: views of it still used
    allocated,      \* per tensor: does it own memory?
    offset,         \* per tensor: where
    node_allocs,    \* per tensor of the graph planned: what is remembered of it
                    \* (dst) and of its sources (src)
    buffer_size,    \* the buffer
    addr            \* where the tensors of the current graph are

hashvars == <<n_children, n_views, allocated, offset>>
gallocr == <<node_allocs, buffer_size>>
gvars == <<graph, n_tokens, pc, i, j, hashvars, gallocr, addr, heapvars>>

Tensors == DOMAIN graph
Nodes == {t \in Tensors : t > Len(Leafs)}
NTensors == Len(Leafs) + NNodes

-----------------------------------------------------------------------------
(* Graphs.                                                                 *)

Srcs(t) == {graph[t].src[k] : k \in DOMAIN graph[t].src}

IsView(t) == graph[t].view_src # 0
Root(t) == IF IsView(t) THEN graph[t].view_src ELSE t

SizeOf(t) == graph[t].shape[n_tokens]

\* ggml_are_same_layout
SameLayout(t, u) == SizeOf(t) = SizeOf(u)

\* ggml_can_repeat: the second operand may be smaller and is repeated.
Repeatable(t) ==
    {u \in Tensors : \A n \in TokenCounts : graph[t].shape[n] % graph[u].shape[n] = 0}

\* ggml_op_can_inplace: "map" stands for the operations that may overwrite a
\* source, "mul_mat" for the others.
CanInplace(t) == graph[t].op = "map"

Outputs == {t \in Tensors : graph[t].output}

\* The last node is the result; other outputs may be used by later nodes.
Marks == IF Len(graph) + 1 = NTensors THEN {TRUE}
         ELSE {FALSE} \cup {o \in {TRUE} : Cardinality(Outputs) + 1 < MaxOutputs}

Unread == {t \in Tensors \ Nodes : \A u \in Tensors : t \notin Srcs(u)}

NewNode(op, src, view_src, shape, output) ==
    [op |-> op, src |-> src, view_src |-> view_src, shape |-> shape, output |-> output]

Map(k, output) == NewNode("map", <<k>>, 0, graph[k].shape, output)
Map2(k, l, output) == NewNode("map", <<k, l>>, 0, graph[k].shape, output)
MulMat(k, shape, output) == NewNode("mul_mat", <<k>>, 0, shape, output)
\* A view of a view is a view of the tensor viewed.
View(k, output) == NewNode("view", <<k>>, Root(k), graph[k].shape, output)

\* ggml_visit_parents: a tensor comes after its sources, and every leaf is read.
BuildNode ==
    /\ pc = "build"
    /\ Len(graph) < NTensors
    /\ \E k \in Tensors, output \in Marks :
        \E node \in {Map(k, output), View(k, output)}
                     \cup {MulMat(k, shape, output) : shape \in Shapes}
                     \cup {Map2(k, l, output) : l \in Repeatable(k)} :
            /\ Len(graph) + 1 = NTensors => Unread \subseteq {node.src[m] : m \in DOMAIN node.src}
            /\ graph' = Append(graph, node)
    /\ UNCHANGED <<n_tokens, pc, i, j, hashvars, gallocr, addr, heapvars>>

BuildDone ==
    /\ pc = "build"
    /\ Len(graph) = NTensors
    /\ pc' = "alloc_graph"
    /\ UNCHANGED <<graph, n_tokens, i, j, hashvars, gallocr, addr, heapvars>>

-----------------------------------------------------------------------------
(* ggml_gallocr_alloc_graph_impl: planning.                                *)

Zero == [t \in Tensors |-> 0]

Init ==
    /\ HeapInit
    /\ graph = Leafs
    /\ n_tokens = 1
    /\ pc = "build"
    /\ i = 0 /\ j = 0
    /\ n_children = <<>> /\ n_views = <<>> /\ allocated = <<>> /\ offset = <<>>
    /\ node_allocs = <<>>
    /\ buffer_size = 0
    /\ addr = <<>>

\* The hash table is cleared and the allocator reset.
Reserve ==
    /\ HeapReset
    /\ n_children' = Zero /\ n_views' = Zero /\ offset' = Zero
    /\ allocated' = [t \in Tensors |-> FALSE]
    /\ pc' = "leafs"
    /\ i' = 1

\* Mutant of Reusable: the uses that come after this one are not counted.
ReusableTooEarly(t, p) ==
    /\ allocated[p]
    /\ ~ graph[p].output
    /\ SameLayout(t, p)
    /\ n_views[p] = 0

\* Mutant of Reusable: outputs are taken over as well.
ReusableOutput(t, p) ==
    /\ allocated[p]
    /\ SameLayout(t, p)
    /\ n_children[p] = 1 /\ n_views[p] = 0

\* A parent whose memory t may take over.
Reusable(t, p) ==
    /\ allocated[p]
    /\ ~ graph[p].output
    /\ ~ (IsView(p) /\ graph[Root(p)].output)
    /\ SameLayout(t, p)
    /\ n_children[p] = 1 /\ n_views[p] = 0
    /\ IsView(p) => n_views[Root(p)] = 1 /\ n_children[Root(p)] = 0

FirstReusable(t) ==
    IF ~ CanInplace(t) THEN {}
    ELSE {graph[t].src[k] : k \in {k \in DOMAIN graph[t].src :
            /\ Reusable(t, graph[t].src[k])
            /\ \A l \in 1 .. k - 1 : ~ Reusable(t, graph[t].src[l])}}

\* ggml_gallocr_allocate_node
AllocateNode(t) ==
    \/ /\ allocated[t] \/ IsView(t)
       /\ UNCHANGED <<allocated, offset, heapvars>>
    \/ /\ ~ allocated[t] /\ ~ IsView(t)
       /\ \E p \in FirstReusable(t) :
            /\ offset' = [offset EXCEPT ![t] = offset[p]]
            /\ allocated' = [allocated EXCEPT ![t] = TRUE, ![p] = FALSE, ![Root(p)] = FALSE]
       /\ UNCHANGED heapvars
    \/ /\ ~ allocated[t] /\ ~ IsView(t)
       /\ FirstReusable(t) = {}
       /\ offset' = [offset EXCEPT ![t] = Place(SizeOf(t))]
       /\ allocated' = [allocated EXCEPT ![t] = TRUE]
       /\ Alloc(SizeOf(t))

AllocateLeaf ==
    /\ pc = "leafs"
    /\ i <= Len(Leafs)
    /\ AllocateNode(i)
    /\ i' = i + 1
    /\ UNCHANGED <<graph, n_tokens, pc, j, n_children, n_views, gallocr, addr>>

\* A use is a node and the place of the tensor among its sources.
Uses(t) == {w \in Nodes \X {1, 2} : w[2] \in DOMAIN graph[w[1]].src /\ graph[w[1]].src[w[2]] = t}
Views(t) == {u \in Nodes : graph[u].view_src = t}

\* The inputs have been allocated with the leafs.
CountChildren ==
    /\ pc = "leafs"
    /\ i = Len(Leafs) + 1
    /\ n_children' = [t \in Tensors |-> Cardinality(Uses(t))]
    /\ n_views' = [t \in Tensors |-> Cardinality(Views(t))]
    /\ pc' = "node"
    /\ UNCHANGED <<graph, n_tokens, i, j, allocated, offset, gallocr, addr, heapvars>>

\* The tensor to be seen to at node i: a parent that has no memory, by the
\* code's comment none but a leaf, or else the node.
Wanting == {p \in Srcs(i) : ~ allocated[p] /\ ~ IsView(p)}
Wanted == IF Wanting = {} THEN i ELSE CHOOSE p \in Wanting : \A q \in Wanting : p <= q

VisitNode ==
    /\ pc = "node"
    /\ i <= NTensors
    /\ AllocateNode(Wanted)
    /\ IF Wanted = i THEN pc' = "parents" /\ j' = 1 ELSE UNCHANGED <<pc, j>>
    /\ UNCHANGED <<graph, n_tokens, i, n_children, n_views, gallocr, addr>>

\* ggml_gallocr_free_node: outputs are never freed.
FreeNode(t) ==
    IF graph[t].output THEN UNCHANGED <<allocated, heapvars>>
    ELSE /\ FreeTensor(offset[t], SizeOf(t))
         /\ allocated' = [allocated EXCEPT ![t] = FALSE]

\* The loop over the parents; every node has one.
NextParent ==
    IF j < Len(graph[i].src) THEN /\ j' = j + 1
                                  /\ UNCHANGED <<pc, i>>
    ELSE /\ pc' = "node"
         /\ i' = i + 1
         /\ j' = 0

\* Mutant of UpdateParent: the views of the parent are not looked at.
UpdateParentNotViews ==
    /\ pc = "parents"
    /\ LET p == graph[i].src[j] IN
        /\ n_children' = [n_children EXCEPT ![p] = @ - 1]
        /\ n_views' = n_views
        /\ IF n_children'[p] = 0 /\ allocated[p] THEN FreeNode(p)
           ELSE UNCHANGED <<allocated, heapvars>>
    /\ NextParent
    /\ UNCHANGED <<graph, n_tokens, offset, gallocr, addr>>

\* A parent has been used; the last use frees it, or, of the last view, the
\* tensor viewed.
UpdateParent ==
    /\ pc = "parents"
    /\ LET p    == graph[i].src[j]
           last == n_children[p] = 1 /\ n_views[p] = 0
       IN
        /\ n_children' = [n_children EXCEPT ![p] = @ - 1]
        /\ n_views' = IF last /\ IsView(p) THEN [n_views EXCEPT ![Root(p)] = @ - 1] ELSE n_views
        /\ IF last /\ n_views'[Root(p)] = 0 /\ n_children'[Root(p)] = 0 /\ allocated[Root(p)]
           THEN FreeNode(Root(p))
           ELSE UNCHANGED <<allocated, heapvars>>
    /\ NextParent
    /\ UNCHANGED <<graph, n_tokens, offset, gallocr, addr>>

-----------------------------------------------------------------------------
Places == 1 .. 2     \* GGML_MAX_SRC: no operation here has more sources

\* What is remembered of a tensor; of a view, or where there is none, nothing.
Nothing == [offset |-> 0, size_max |-> 0]
TensorAlloc(t) ==
    IF IsView(t) THEN Nothing ELSE [offset |-> offset[t], size_max |-> SizeOf(t)]

NodeAlloc(t) ==
    [dst |-> TensorAlloc(t),
     src |-> [k \in Places |-> IF k \in DOMAIN graph[t].src THEN TensorAlloc(graph[t].src[k])
                               ELSE Nothing]]

\* The rest of ggml_gallocr_reserve_n: the plan is kept, the buffer grows.  When
\* there is no memory for it the plan is kept nevertheless, and the buffer is gone.
ReserveDone ==
    /\ pc = "node"
    /\ i > NTensors
    /\ node_allocs' = [t \in Tensors |-> NodeAlloc(t)]
    /\ \/ /\ buffer_size' = IF max_size > buffer_size THEN max_size ELSE buffer_size
          /\ pc' = "init"
       \/ /\ AllocFails /\ max_size > buffer_size
          /\ buffer_size' = 0
          /\ pc' = "failed"
    /\ UNCHANGED <<graph, n_tokens, i, j, hashvars, addr, heapvars>>

\* Mutant of StillFits: what the tensor has become is not looked at.
StillFitsAnyhow(t, known) == TRUE

\* ggml_gallocr_node_needs_realloc (which is true when it does not)
StillFits(t, known) == ~ IsView(t) => known.size_max >= SizeOf(t)

\* ggml_gallocr_needs_realloc looks at each node (place 0) and then at its sources.
Checks == {c \in Nodes \X ({0} \cup Places) : c[2] = 0 \/ c[2] \in DOMAIN graph[c[1]].src}

Checked(c) == IF c[2] = 0 THEN c[1] ELSE graph[c[1]].src[c[2]]

Remembered(c) == IF c[2] = 0 THEN node_allocs[c[1]].dst ELSE node_allocs[c[1]].src[c[2]]

Unfit == {c \in Checks : ~ StillFits(Checked(c), Remembered(c))}

NeedsRealloc == node_allocs = <<>> \/ Unfit # {}

\* The first that does not fit had no memory in the graph planned: the assertion
\* "prevent segfault when misusing the API" ends the process.
Misused ==
    /\ node_allocs # <<>>
    /\ \E c \in Unfit :
        /\ Remembered(c).size_max = 0
        /\ \A d \in Unfit : c[1] < d[1] \/ (c[1] = d[1] /\ c[2] <= d[2])

\* ggml_gallocr_alloc_graph, which reserves first where it must.
AllocGraph ==
    /\ pc = "alloc_graph"
    /\ ~ Misused
    /\ IF NeedsRealloc THEN Reserve
       ELSE /\ pc' = "init"
            /\ UNCHANGED <<i, hashvars, heapvars>>
    /\ UNCHANGED <<graph, n_tokens, j, gallocr, addr>>

\* ggml_backend_sched_alloc_splits reserves once more, which makes the same plan
\* and tries again for the buffer, ignores the result and allocates.
Retry ==
    /\ pc = "failed"
    /\ buffer_size' \in {0, max_size}
    /\ pc' = "alloc_graph"
    /\ UNCHANGED <<graph, n_tokens, i, j, hashvars, node_allocs, addr, heapvars>>

InitTensors ==
    /\ pc = "init"
    /\ addr' = [t \in Tensors |-> node_allocs[Root(t)].dst.offset]
    /\ pc' = "compute"
    /\ UNCHANGED <<graph, n_tokens, i, j, hashvars, gallocr, heapvars>>

\* The caller builds a graph for another batch: the same, or with the same
\* inputs and as many nodes any other.
NextGraph ==
    /\ pc = "compute"
    /\ n_tokens' \in TokenCounts
    /\ addr' = <<>>
    /\ i' = 0 /\ j' = 0
    /\ \/ /\ pc' = "alloc_graph"
          /\ graph' = graph
       \/ /\ ~ SameTopology
          /\ pc' = "build"
          /\ graph' = Leafs
    /\ UNCHANGED <<hashvars, gallocr, heapvars>>

Next ==
    \/ BuildNode \/ BuildDone
    \/ AllocateLeaf \/ CountChildren \/ VisitNode \/ UpdateParent
    \/ ReserveDone \/ Retry \/ AllocGraph \/ InitTensors \/ NextGraph

Spec == Init /\ [][Next]_gvars
=============================================================================
