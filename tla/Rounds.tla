------------------------------- MODULE Rounds -------------------------------
(***************************************************************************)
(* What a barrier promises: the threads go through rounds, and none leaves *)
(* a round before every one of them has arrived in it.                     *)
(***************************************************************************)
EXTENDS Naturals

CONSTANT Team      \* the threads that take part

VARIABLES
    round,         \* the rounds a thread has left behind
    arrived        \* those that have arrived at the end of their round

vars == <<round, arrived>>

Init ==
    /\ round = [t \in Team |-> 0]
    /\ arrived = {}

Arrive(t) ==
    /\ t \notin arrived
    /\ arrived' = arrived \cup {t}
    /\ UNCHANGED round

\* Everyone has arrived in round r.
Complete(r) == \A u \in Team : round[u] > r \/ (round[u] = r /\ u \in arrived)

Leave(t) ==
    /\ t \in arrived
    /\ Complete(round[t])
    /\ round' = [round EXCEPT ![t] = @ + 1]
    /\ arrived' = arrived \ {t}

Next == \E t \in Team : Arrive(t) \/ Leave(t)

Spec == Init /\ [][Next]_vars
=============================================================================
