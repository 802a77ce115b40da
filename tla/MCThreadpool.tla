---------------------------- MODULE MCThreadpool ----------------------------
(* Instances of Threadpool for TLC. *)
EXTENDS ThreadpoolProps, TLC

MCTeam == 0 .. N - 1

\* A worker too many for the second graph, or two.
ThreeThenFewer ==
    <<[nodes |-> <<"mul_mat", "mul_mat">>, n_threads |-> {4}],
      [nodes |-> <<"plain", "mul_mat">>, n_threads |-> {2, 1}]>>

\* A worker too many for one graph and wanted for the next.
TwoThenThree ==
    [g \in 1 .. 3 |-> [nodes |-> <<"plain">>, n_threads |-> {IF g = 1 THEN 2 ELSE 3}]]
=============================================================================
