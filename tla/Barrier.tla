------------------------------- MODULE Barrier -------------------------------
(***************************************************************************)
(* ggml_barrier: the barrier at which the threads of the CPU pool meet.    *)
(* Two counters make it: n_barrier, the threads that have come in, and     *)
(* n_barrier_passed, the barriers completed.  A thread reads the second    *)
(* before it increments the first, and waits for the second to change; the *)
(* last one in resets the first before it increments the second.           *)
(*                                                                         *)
(* A thread reads once, on its way in, how many are to meet.               *)
(*                                                                         *)
(* A step is one access to one counter.  The fetch_adds are seq_cst, and   *)
(* every relaxed access lies between two of them in program order, so the  *)
(* accesses of the counters are interleaved, not reordered.                *)
(*                                                                         *)
(* Standing alone, a fixed team meets for ever; Threadpool uses the same   *)
(* steps between the nodes of its graphs.                                  *)
(***************************************************************************)
EXTENDS Naturals, FiniteSets

CONSTANT Team       \* the threads that meet

ASSUME TeamAssumption == IsFiniteSet(Team) /\ Cardinality(Team) > 1

VARIABLES
    n_barrier,          \* threads that have come in
    n_barrier_passed,   \* barriers completed
    at,                 \* where in ggml_barrier a thread is
    n_threads,          \* how many threads it has read are to meet
    n_passed,           \* what it has read of n_barrier_passed
    round               \* how many barriers it has left (history)

barriervars == <<n_barrier, n_barrier_passed, at, n_threads, n_passed, round>>

Places == {"out", "load", "enter", "wait", "reset", "pass"}

BarrierTypeOK ==
    /\ n_barrier \in Nat
    /\ n_barrier_passed \in Nat
    /\ at \in [Team -> Places]
    /\ n_threads \in [Team -> Nat]
    /\ n_passed \in [Team -> Nat]
    /\ round \in [Team -> Nat]

BarrierInit ==
    /\ n_barrier = 0
    /\ n_barrier_passed = 0
    /\ at = [t \in Team |-> "out"]
    /\ n_threads = [t \in Team |-> 0]
    /\ n_passed = [t \in Team |-> 0]
    /\ round = [t \in Team |-> 0]

Goto(t, p) == at' = [at EXCEPT ![t] = p]

GoOut(t) == Goto(t, "out") /\ round' = [round EXCEPT ![t] = @ + 1]

\* int n_threads = n_threads_cur, which is n; a thread alone returns at once.
LoadThreads(t, n) ==
    /\ at[t] = "out" /\ n # 1
    /\ n_threads' = [n_threads EXCEPT ![t] = n]
    /\ Goto(t, "load")
    /\ UNCHANGED <<n_barrier, n_barrier_passed, n_passed, round>>

\* int n_passed = n_barrier_passed
LoadPassed(t) ==
    /\ at[t] = "load"
    /\ n_passed' = [n_passed EXCEPT ![t] = n_barrier_passed]
    /\ Goto(t, "enter")
    /\ UNCHANGED <<n_barrier, n_barrier_passed, n_threads, round>>

\* Mutant of Enter: one thread too few is waited for.
EnterOneShort(t) ==
    /\ at[t] = "enter"
    /\ n_barrier' = n_barrier + 1
    /\ Goto(t, IF n_barrier + 2 >= n_threads[t] THEN "reset" ELSE "wait")
    /\ UNCHANGED <<n_barrier_passed, n_threads, n_passed, round>>

\* n_barrier++; the last of n_threads finds n_threads - 1 before it.
Enter(t) ==
    /\ at[t] = "enter"
    /\ n_barrier' = n_barrier + 1
    /\ Goto(t, IF n_barrier = n_threads[t] - 1 THEN "reset" ELSE "wait")
    /\ UNCHANGED <<n_barrier_passed, n_threads, n_passed, round>>

\* Mutant of Reset: the count is left as it is.
ResetForgotten(t) ==
    /\ at[t] = "reset"
    /\ Goto(t, "pass")
    /\ UNCHANGED <<n_barrier, n_barrier_passed, n_threads, n_passed, round>>

\* n_barrier = 0
Reset(t) ==
    /\ at[t] = "reset"
    /\ n_barrier' = 0
    /\ Goto(t, "pass")
    /\ UNCHANGED <<n_barrier_passed, n_threads, n_passed, round>>

\* n_barrier_passed++; return
Pass(t) ==
    /\ at[t] = "pass"
    /\ n_barrier_passed' = n_barrier_passed + 1
    /\ GoOut(t)
    /\ UNCHANGED <<n_barrier, n_threads, n_passed>>

\* The wait ends once n_barrier_passed has changed.
Leave(t) ==
    /\ at[t] = "wait"
    /\ n_barrier_passed # n_passed[t]
    /\ GoOut(t)
    /\ UNCHANGED <<n_barrier, n_barrier_passed, n_threads, n_passed>>

\* The steps of ggml_barrier after which it has not returned, and those after
\* which it has.
BarrierStep(t, n) == LoadThreads(t, n) \/ LoadPassed(t) \/ Enter(t) \/ Reset(t)
BarrierReturn(t) == Pass(t) \/ Leave(t)

BarrierNext == \E t \in Team : BarrierStep(t, Cardinality(Team)) \/ BarrierReturn(t)

BarrierSpec == BarrierInit /\ [][BarrierNext]_barriervars

-----------------------------------------------------------------------------
\* A thread has arrived once its increment has been made.
Arrived(t) == at[t] \in {"wait", "reset", "pass"}

(***************************************************************************)
(* The barrier implements the rounds: no thread goes on to the next node   *)
(* before all have finished this one, whatever the order in which they     *)
(* arrive, are released and come back.                                     *)
(***************************************************************************)
R == INSTANCE Rounds WITH arrived <- {t \in Team : Arrived(t)}

BarrierImplementsRounds == R!Spec
=============================================================================
