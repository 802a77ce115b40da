---------------------------- MODULE MCGraphAlloc ----------------------------
(* Instances of GraphAlloc for TLC: a shape gives the size for one and for   *)
(* two tokens.                                                               *)
EXTENDS GraphAllocProps

Small   == <<1, 1>>
Growing == <<1, 3>>

AllShapes == {Small, Growing}
OneInput  == <<Leaf(Growing)>>
TwoInputs == <<Leaf(Growing), Leaf(Small)>>

\* What the theorem on SourcesIntact asks of the shapes is so here.
ASSUME ShapesAlike == RepeatedAlike
=============================================================================
