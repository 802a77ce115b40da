--------------------------- MODULE GraphAllocProps ---------------------------
(* What a graph may rely on once it has been allocated. *)
EXTENDS GraphAlloc

Overlap(t, u) == addr[t] < addr[u] + SizeOf(u) /\ addr[u] < addr[t] + SizeOf(t)

\* What is written while u is the last node computed, after r has been: the
\* inputs are set first, all of them, and a view writes nothing.
WrittenAfter(r, u) == {m \in 1 .. u : ~ IsView(m) /\ m # r /\ (m > r \/ r \notin Nodes)}

\* Node m may write where its source r lies if it reads that source element by
\* element, and no other source of it is there.
InPlace(m, r) ==
    /\ CanInplace(m)
    /\ r \in Srcs(m) /\ addr[r] = addr[m] /\ SizeOf(r) = SizeOf(m)
    /\ \A p \in Srcs(m) : Root(p) = r => p = r

(***************************************************************************)
(* Once a graph is allocated, no node finds one of its sources overwritten *)
(* by an input or by a node computed since, or overwrites one it still     *)
(* reads, through views too, whether the graph has been planned itself or  *)
(* uses the offsets of one planned for another number of tokens.           *)
(***************************************************************************)
SourcesIntact ==
    pc = "compute" =>
        \A u \in Nodes : \A r \in {Root(p) : p \in Srcs(u)} :
            \A m \in WrittenAfter(r, u) :
                Overlap(m, r) => m = u /\ InPlace(u, r)

\* A repeated operand as large as the result for one number of tokens is so for
\* every smaller one: in llama.cpp's graphs it has the tokens as a dimension, as
\* the result has, or not, and is then as large only for one token.
RepeatedAlike ==
    \A s, u \in Shapes : (\A n \in TokenCounts : s[n] % u[n] = 0) =>
        \A m, n \in TokenCounts : s[n] = u[n] /\ s[m] <= s[n] /\ u[m] <= u[n] => s[m] = u[m]

\* No tensor that gets its memory after t gets that of t, or of what t views.
Survives(t) == \A m \in (t + 1) .. NTensors : ~ IsView(m) => ~ Overlap(m, Root(t))

\* A view that a node reads is freed with the last use of it, as part of the
\* tensor it views, unless that tensor is an output itself.
ReadAway(t) == IsView(t) /\ ~ graph[Root(t)].output /\ \E u \in Nodes : t \in Srcs(u)

(***************************************************************************)
(* What a graph has marked as an output is there when the graph has been   *)
(* computed, however it is read and viewed, and on offsets planned for     *)
(* another size too; of the outputs that are views, those that no node     *)
(* reads or that view an output.                                           *)
(***************************************************************************)
OutputsSurvive ==
    pc = "compute" => \A t \in Outputs : ReadAway(t) \/ Survives(t)

(***************************************************************************)
(* The promise of ggml-alloc.h: "output tensors are never freed and never  *)
(* overwritten", whatever else they are.                                   *)
(***************************************************************************)
EveryOutputSurvives ==
    pc = "compute" => \A t \in Outputs : Survives(t)

InBuffer == \A t \in Tensors : ~ IsView(t) => addr[t] + SizeOf(t) <= buffer_size

(***************************************************************************)
(* No tensor lies beyond the end of the buffer, which is kept when a       *)
(* smaller graph follows a larger one, grows when a larger one follows,    *)
(* and may have been refused and granted later; as long as there is one.   *)
(***************************************************************************)
BufferHolds == pc = "compute" /\ buffer_size # 0 => InBuffer

(***************************************************************************)
(* ggml_backend_tensor_alloc asserts that a tensor lies within its buffer, *)
(* and ggml_gallocr_alloc_graph is to return false when there is none.     *)
(***************************************************************************)
AlwaysInBuffer == pc = "compute" => InBuffer

\* The tensors said to own memory, and the block a tensor has.
Owners == {t \in DOMAIN allocated : allocated[t]}
BlockOf(t) == BlockAt(offset[t], Padded(SizeOf(t)))

(***************************************************************************)
(* The counts of uses and views, and the handing on of memory from parent  *)
(* to child, agree with the heap: while planning, every block handed out   *)
(* is owned by exactly one tensor, and a tensor that is still to be read,  *)
(* directly or through a view, owns its own.                               *)
(***************************************************************************)
OwnersMatchHeap ==
    /\ pc \in {"leafs", "node", "parents"} =>
        /\ {BlockOf(t) : t \in Owners} = live
        /\ Cardinality(Owners) = Cardinality(live)
    /\ pc = "node" =>
        \A u \in i .. NTensors : \A r \in {Root(p) : p \in Srcs(u)} :
            r < i => r \in Owners
=============================================================================
