---------------------------- MODULE BarrierProofs ----------------------------
(***************************************************************************)
(* ggml_barrier implements the rounds, for every finite team of more than  *)
(* one thread and every interleaving of the accesses to its two counters.  *)
(***************************************************************************)
EXTENDS Barrier, FiniteSetTheorems, TLAPS

\* The threads that wait for the barrier that is not complete yet.
Waiting == {t \in Team : at[t] = "wait" /\ n_passed[t] = n_barrier_passed}

\* The last thread in, on its way to release the others.
Last(t) == at[t] \in {"reset", "pass"}

\* How far a thread is, by where it is: one that waits may not have seen yet
\* that the barrier it waits for is complete.
Placed(t) ==
    /\ at[t] \in {"out", "load"} => round[t] = n_barrier_passed
    /\ at[t] \in {"load", "enter"} => n_threads[t] = Cardinality(Team)
    /\ at[t] \in {"enter", "reset", "pass"} =>
            round[t] = n_barrier_passed /\ n_passed[t] = n_barrier_passed
    /\ at[t] = "wait" =>
            round[t] = n_passed[t] /\ n_passed[t] \in {n_barrier_passed, n_barrier_passed - 1}

\* While the last thread resets the counters all others wait.
LastAlone == \A t, u \in Team : Last(t) /\ u # t => u \in Waiting

\* What the counter of arrivals holds.
Counted ==
    /\ (\A t \in Team : ~ Last(t)) => n_barrier = Cardinality(Waiting)
    /\ \A t \in Team : at[t] = "pass" => n_barrier = 0

BarrierInv ==
    /\ BarrierTypeOK
    /\ \A t \in Team : Placed(t)
    /\ LastAlone
    /\ Counted

LEMMA WaitingFinite == IsFiniteSet(Waiting) /\ Cardinality(Waiting) \in Nat
<1>1. Waiting \subseteq Team
    BY DEF Waiting
<1> QED  BY <1>1, TeamAssumption, FS_Subset, FS_CardinalityType

LEMMA InitInv == BarrierInit => BarrierInv
<1> SUFFICES ASSUME BarrierInit PROVE BarrierInv
    OBVIOUS
<1>1. BarrierTypeOK
    BY DEF BarrierInit, BarrierTypeOK, Places
<1>2. \A t \in Team : at[t] = "out" /\ round[t] = 0
    BY DEF BarrierInit
<1>3. \A t \in Team : Placed(t) /\ ~ Last(t)
    BY <1>2 DEF BarrierInit, Placed, Last
<1>4. Waiting = {}
    BY <1>2 DEF Waiting
<1>5. Cardinality(Waiting) = 0
    BY <1>4, FS_EmptySet
<1>6. Counted
    BY <1>2, <1>5 DEF Counted, BarrierInit
<1> QED  BY <1>1, <1>3, <1>6 DEF BarrierInv, LastAlone

-----------------------------------------------------------------------------
(* One lemma per action.                                                   *)

LEMMA LoadThreadsInv ==
    ASSUME BarrierInv, NEW t \in Team, LoadThreads(t, Cardinality(Team))
    PROVE  BarrierInv'
<1>1. BarrierTypeOK /\ LastAlone /\ Counted /\ \A u \in Team : Placed(u)
    BY DEF BarrierInv
<1>2. /\ at[t] = "out" /\ at' = [at EXCEPT ![t] = "load"]
      /\ n_threads' = [n_threads EXCEPT ![t] = Cardinality(Team)] /\ n_passed' = n_passed
      /\ n_barrier' = n_barrier /\ n_barrier_passed' = n_barrier_passed /\ round' = round
    BY DEF LoadThreads, Goto
<1>3. BarrierTypeOK'
  <2>1. Cardinality(Team) \in Nat
    BY TeamAssumption, FS_CardinalityType
  <2> QED  BY <1>1, <1>2, <2>1 DEF BarrierTypeOK, Places
<1>4. \A u \in Team \ {t} : at'[u] = at[u] /\ n_threads'[u] = n_threads[u]
    BY <1>1, <1>2 DEF BarrierTypeOK
<1>5. at'[t] = "load" /\ n_threads'[t] = Cardinality(Team)
    BY <1>1, <1>2 DEF BarrierTypeOK
<1>6. Waiting' = Waiting
    BY <1>2, <1>4, <1>5 DEF Waiting
<1>7. \A u \in Team : Last(u)' <=> Last(u)
    BY <1>2, <1>4, <1>5 DEF Last
<1>8. \A u \in Team : Placed(u)'
    BY <1>1, <1>2, <1>4, <1>5 DEF Placed
<1>9. LastAlone'
    BY <1>1, <1>6, <1>7 DEF LastAlone
<1>10. Counted'
    BY <1>1, <1>2, <1>4, <1>5, <1>6, <1>7 DEF Counted
<1> QED  BY <1>3, <1>8, <1>9, <1>10 DEF BarrierInv

LEMMA LoadPassedInv ==
    ASSUME BarrierInv, NEW t \in Team, LoadPassed(t)
    PROVE  BarrierInv'
<1>1. BarrierTypeOK /\ LastAlone /\ Counted /\ \A u \in Team : Placed(u)
    BY DEF BarrierInv
<1>2. /\ at[t] = "load" /\ at' = [at EXCEPT ![t] = "enter"] /\ n_threads' = n_threads
      /\ n_passed' = [n_passed EXCEPT ![t] = n_barrier_passed]
      /\ n_barrier' = n_barrier /\ n_barrier_passed' = n_barrier_passed /\ round' = round
    BY DEF LoadPassed, Goto
<1>3. BarrierTypeOK'
    BY <1>1, <1>2 DEF BarrierTypeOK, Places
<1>4. \A u \in Team \ {t} : at'[u] = at[u] /\ n_passed'[u] = n_passed[u]
    BY <1>1, <1>2 DEF BarrierTypeOK
<1>5. at'[t] = "enter" /\ n_passed'[t] = n_barrier_passed
    BY <1>1, <1>2 DEF BarrierTypeOK
<1>6. Waiting' = Waiting
    BY <1>2, <1>4, <1>5 DEF Waiting
<1>7. \A u \in Team : Last(u)' <=> Last(u)
    BY <1>2, <1>4, <1>5 DEF Last
<1>8. \A u \in Team : Placed(u)'
    BY <1>1, <1>2, <1>4, <1>5 DEF Placed
<1>9. LastAlone'
    BY <1>1, <1>6, <1>7 DEF LastAlone
<1>10. Counted'
    BY <1>1, <1>2, <1>4, <1>5, <1>6, <1>7 DEF Counted
<1> QED  BY <1>3, <1>8, <1>9, <1>10 DEF BarrierInv

LEMMA EnterInv ==
    ASSUME BarrierInv, NEW t \in Team, Enter(t)
    PROVE  BarrierInv'
<1> DEFINE last == n_barrier = Cardinality(Team) - 1
<1>1. BarrierTypeOK /\ LastAlone /\ Counted /\ \A u \in Team : Placed(u)
    BY DEF BarrierInv
<1>2. /\ at[t] = "enter" /\ at' = [at EXCEPT ![t] = IF last THEN "reset" ELSE "wait"]
      /\ n_barrier' = n_barrier + 1 /\ n_threads' = n_threads
      /\ n_passed' = n_passed /\ n_barrier_passed' = n_barrier_passed /\ round' = round
  <2>1. at[t] = "enter"
    BY DEF Enter
  <2>2. n_threads[t] = Cardinality(Team)
    BY <1>1, <2>1 DEF Placed
  <2> QED  BY <2>2 DEF Enter, Goto
<1>3. \A u \in Team : ~ Last(u)
  <2> SUFFICES ASSUME NEW u \in Team, Last(u) PROVE FALSE
    OBVIOUS
  <2>1. u # t
    BY <1>2 DEF Last
  <2>2. t \in Waiting
    BY <1>1, <2>1 DEF LastAlone
  <2> QED  BY <2>2, <1>2 DEF Waiting
<1>4. n_barrier = Cardinality(Waiting) /\ n_barrier \in Nat
    BY <1>1, <1>3, WaitingFinite DEF Counted
<1>5. \A u \in Team \ {t} : at'[u] = at[u]
    BY <1>1, <1>2 DEF BarrierTypeOK
<1>6. at'[t] = IF last THEN "reset" ELSE "wait"
    BY <1>1, <1>2 DEF BarrierTypeOK
<1>7. BarrierTypeOK'
    BY <1>1, <1>2, <1>4 DEF BarrierTypeOK, Places
<1>8. n_passed[t] = n_barrier_passed /\ round[t] = n_barrier_passed /\ n_barrier_passed \in Nat
    BY <1>1, <1>2 DEF Placed, BarrierTypeOK
<1> HIDE DEF last
<1>9. \A u \in Team : Placed(u)'
    BY <1>1, <1>2, <1>5, <1>6, <1>8 DEF Placed
<1>10. Waiting \subseteq Team \ {t} /\ t \notin Waiting
    BY <1>2 DEF Waiting
<1>11. CASE last
  <2>1. IsFiniteSet(Team \ {t}) /\ Cardinality(Team \ {t}) = Cardinality(Team) - 1
    BY TeamAssumption, FS_RemoveElement
  <2>2. Cardinality(Waiting) = Cardinality(Team \ {t})
    BY <2>1, <1>4, <1>11 DEF last
  <2>3. Waiting = Team \ {t}
    BY <2>1, <2>2, <1>10, FS_Subset
  <2>4. Waiting' = Waiting
    BY <1>2, <1>5, <1>6, <1>10, <1>11 DEF Waiting
  <2>5. Last(t)' /\ at'[t] # "pass"
    BY <1>6, <1>11 DEF Last
  <2>6. \A u \in Team \ {t} : ~ Last(u)' /\ at'[u] # "pass"
    BY <1>3, <1>5 DEF Last
  <2>7. LastAlone'
    BY <2>3, <2>4, <2>6 DEF LastAlone
  <2>8. Counted'
    BY <2>5, <2>6 DEF Counted
  <2> QED  BY <2>7, <2>8, <1>7, <1>9 DEF BarrierInv
<1>12. CASE ~ last
  <2>1. \A u \in Team : ~ Last(u)' /\ at'[u] # "pass"
    BY <1>3, <1>5, <1>6, <1>12 DEF Last
  <2>2. Waiting' = Waiting \cup {t}
    BY <1>2, <1>5, <1>6, <1>8, <1>12 DEF Waiting
  <2>3. Cardinality(Waiting') = Cardinality(Waiting) + 1
    BY <2>2, <1>10, WaitingFinite, FS_AddElement
  <2>4. LastAlone'
    BY <2>1 DEF LastAlone
  <2>5. Counted'
    BY <2>1, <2>3, <1>2, <1>4 DEF Counted
  <2> QED  BY <2>4, <2>5, <1>7, <1>9 DEF BarrierInv
<1> QED  BY <1>11, <1>12

LEMMA ResetInv ==
    ASSUME BarrierInv, NEW t \in Team, Reset(t)
    PROVE  BarrierInv'
<1>1. BarrierTypeOK /\ LastAlone /\ Counted /\ \A u \in Team : Placed(u)
    BY DEF BarrierInv
<1>2. /\ at[t] = "reset" /\ at' = [at EXCEPT ![t] = "pass"] /\ n_barrier' = 0 /\ n_threads' = n_threads
      /\ n_passed' = n_passed /\ n_barrier_passed' = n_barrier_passed /\ round' = round
    BY DEF Reset, Goto
<1>3. BarrierTypeOK'
    BY <1>1, <1>2 DEF BarrierTypeOK, Places
<1>4. \A u \in Team \ {t} : at'[u] = at[u]
    BY <1>1, <1>2 DEF BarrierTypeOK
<1>5. at'[t] = "pass"
    BY <1>1, <1>2 DEF BarrierTypeOK
<1>6. Waiting' = Waiting
    BY <1>2, <1>4, <1>5 DEF Waiting
<1>7. \A u \in Team : Last(u)' <=> Last(u)
    BY <1>2, <1>4, <1>5 DEF Last
<1>8. \A u \in Team : Placed(u)'
    BY <1>1, <1>2, <1>4, <1>5 DEF Placed
<1>9. LastAlone'
    BY <1>1, <1>6, <1>7 DEF LastAlone
<1>10. Counted'
  <2>1. Last(t)'
    BY <1>5 DEF Last
  <2> QED  BY <2>1, <1>2 DEF Counted
<1> QED  BY <1>3, <1>8, <1>9, <1>10 DEF BarrierInv

LEMMA PassInv ==
    ASSUME BarrierInv, NEW t \in Team, Pass(t)
    PROVE  BarrierInv'
<1>1. BarrierTypeOK /\ LastAlone /\ Counted /\ \A u \in Team : Placed(u)
    BY DEF BarrierInv
<1>2. /\ at[t] = "pass" /\ at' = [at EXCEPT ![t] = "out"]
      /\ round' = [round EXCEPT ![t] = round[t] + 1]
      /\ n_barrier_passed' = n_barrier_passed + 1
      /\ n_threads' = n_threads /\ n_passed' = n_passed /\ n_barrier' = n_barrier
    BY DEF Pass, GoOut, Goto
<1>3. Last(t)
    BY <1>2 DEF Last
<1>4. \A u \in Team \ {t} : u \in Waiting
    BY <1>1, <1>3 DEF LastAlone
<1>5. n_barrier = 0 /\ n_barrier_passed \in Nat /\ round[t] = n_barrier_passed
    BY <1>1, <1>2 DEF Counted, Placed, BarrierTypeOK
<1>6. \A u \in Team \ {t} : /\ at'[u] = "wait" /\ round'[u] = n_passed[u]
                          /\ n_passed[u] = n_barrier_passed
    BY <1>1, <1>2, <1>4 DEF Waiting, Placed, BarrierTypeOK
<1>7. at'[t] = "out" /\ round'[t] = n_barrier_passed + 1
    BY <1>1, <1>2, <1>5 DEF BarrierTypeOK
<1>8. BarrierTypeOK'
  <2>1. round[t] + 1 \in Nat /\ n_barrier_passed + 1 \in Nat
    BY <1>5
  <2> QED  BY <2>1, <1>1, <1>2 DEF BarrierTypeOK, Places
<1>9. \A u \in Team : ~ Last(u)' /\ at'[u] # "pass"
    BY <1>6, <1>7 DEF Last
<1>10. \A u \in Team : Placed(u)'
  <2>1. n_barrier_passed = n_barrier_passed' - 1
    BY <1>2, <1>5
  <2> QED  BY <2>1, <1>2, <1>6, <1>7 DEF Placed
<1>11. Waiting' = {}
  <2>1. n_barrier_passed # n_barrier_passed'
    BY <1>2, <1>5
  <2> QED  BY <2>1, <1>2, <1>6, <1>7 DEF Waiting
<1>12. Cardinality(Waiting') = 0
    BY <1>11, FS_EmptySet
<1>13. Counted'
    BY <1>2, <1>5, <1>9, <1>12 DEF Counted
<1>14. LastAlone'
    BY <1>9 DEF LastAlone
<1> QED  BY <1>8, <1>10, <1>13, <1>14 DEF BarrierInv

LEMMA LeaveInv ==
    ASSUME BarrierInv, NEW t \in Team, Leave(t)
    PROVE  BarrierInv'
<1>1. BarrierTypeOK /\ LastAlone /\ Counted /\ \A u \in Team : Placed(u)
    BY DEF BarrierInv
<1>2. /\ at[t] = "wait" /\ n_barrier_passed # n_passed[t] /\ at' = [at EXCEPT ![t] = "out"]
      /\ round' = [round EXCEPT ![t] = round[t] + 1]
      /\ n_barrier_passed' = n_barrier_passed /\ n_passed' = n_passed /\ n_barrier' = n_barrier
      /\ n_threads' = n_threads
    BY DEF Leave, GoOut, Goto
<1>3. n_barrier_passed \in Nat /\ round[t] = n_barrier_passed - 1 /\ round[t] \in Nat
    BY <1>1, <1>2 DEF Placed, BarrierTypeOK
<1>4. \A u \in Team \ {t} : at'[u] = at[u] /\ round'[u] = round[u]
    BY <1>1, <1>2 DEF BarrierTypeOK
<1>5. at'[t] = "out" /\ round'[t] = n_barrier_passed
    BY <1>1, <1>2, <1>3 DEF BarrierTypeOK
<1>6. BarrierTypeOK'
  <2>1. round[t] + 1 \in Nat
    BY <1>3
  <2> QED  BY <2>1, <1>1, <1>2 DEF BarrierTypeOK, Places
<1>7. Waiting' = Waiting
    BY <1>2, <1>4, <1>5 DEF Waiting
<1>8. \A u \in Team : Last(u)' <=> Last(u)
    BY <1>2, <1>4, <1>5 DEF Last
<1>9. \A u \in Team : Placed(u)'
    BY <1>1, <1>2, <1>4, <1>5 DEF Placed
<1>10. LastAlone'
    BY <1>1, <1>7, <1>8 DEF LastAlone
<1>11. Counted'
    BY <1>1, <1>2, <1>4, <1>5, <1>7, <1>8 DEF Counted
<1> QED  BY <1>6, <1>9, <1>10, <1>11 DEF BarrierInv

LEMMA NextInv == BarrierInv /\ [BarrierNext]_barriervars => BarrierInv'
<1> SUFFICES ASSUME BarrierInv, [BarrierNext]_barriervars PROVE BarrierInv'
    OBVIOUS
<1>1. CASE UNCHANGED barriervars
    BY <1>1 DEF barriervars, BarrierInv, BarrierTypeOK, Placed, LastAlone, Counted, Waiting, Last
<1>2. ASSUME NEW t \in Team, BarrierStep(t, Cardinality(Team)) \/ BarrierReturn(t)
      PROVE  BarrierInv'
    BY <1>2, LoadThreadsInv, LoadPassedInv, EnterInv, ResetInv, PassInv, LeaveInv DEF BarrierStep, BarrierReturn
<1> QED  BY <1>1, <1>2 DEF BarrierNext

-----------------------------------------------------------------------------
(* The steps of the barrier are steps of the rounds.                       *)

arrivals == {t \in Team : Arrived(t)}

LEMMA StepRefines ==
    ASSUME BarrierInv, [BarrierNext]_barriervars
    PROVE  [R!Next]_(R!vars)
<1>1. BarrierTypeOK /\ LastAlone /\ \A u \in Team : Placed(u)
    BY DEF BarrierInv
<1>2. CASE UNCHANGED barriervars
  <2>1. arrivals' = arrivals /\ round' = round
    BY <1>2 DEF arrivals, Arrived, barriervars
  <2> QED  BY <2>1 DEF R!vars, arrivals
<1>3. ASSUME NEW t \in Team, LoadThreads(t, Cardinality(Team)) \/ LoadPassed(t) \/ Reset(t)
      PROVE  UNCHANGED R!vars
  <2>1. \A u \in Team : Arrived(u)' <=> Arrived(u)
    BY <1>1, <1>3 DEF LoadThreads, LoadPassed, Reset, Goto, Arrived, BarrierTypeOK
  <2>2. arrivals' = arrivals
    BY <2>1 DEF arrivals, Arrived
  <2>3. round' = round
    BY <1>3 DEF LoadThreads, LoadPassed, Reset
  <2> QED  BY <2>2, <2>3 DEF R!vars, arrivals
<1>4. ASSUME NEW t \in Team, Enter(t)
      PROVE  R!Arrive(t)
  <2>1. ~ Arrived(t) /\ Arrived(t)' /\ round' = round
    BY <1>1, <1>4 DEF Enter, Goto, Arrived, BarrierTypeOK
  <2>2. \A u \in Team \ {t} : Arrived(u)' <=> Arrived(u)
    BY <1>1, <1>4 DEF Enter, Goto, Arrived, BarrierTypeOK
  <2>3. arrivals' = arrivals \cup {t}
    BY <2>1, <2>2 DEF arrivals
  <2> QED  BY <2>1, <2>3 DEF R!Arrive, arrivals
<1>5. ASSUME NEW t \in Team, Pass(t)
      PROVE  R!Leave(t)
  <2>1. Last(t) /\ Arrived(t) /\ ~ Arrived(t)' /\ round' = [round EXCEPT ![t] = @ + 1]
    BY <1>1, <1>5 DEF Pass, GoOut, Goto, Arrived, Last, BarrierTypeOK
  <2>2. \A u \in Team \ {t} : Arrived(u)' <=> Arrived(u)
    BY <1>1, <1>5 DEF Pass, GoOut, Goto, Arrived, BarrierTypeOK
  <2>3. arrivals' = arrivals \ {t}
    BY <2>1, <2>2 DEF arrivals
  <2>4. round[t] = n_barrier_passed
    BY <1>1, <2>1 DEF Placed, Last
  <2>5. \A u \in Team : round[u] = round[t] /\ Arrived(u)
    BY <1>1, <2>1, <2>4 DEF LastAlone, Waiting, Placed, Arrived
  <2>6. R!Complete(round[t])
    BY <2>5 DEF R!Complete
  <2> QED  BY <2>1, <2>3, <2>6 DEF R!Leave, arrivals
<1>6. ASSUME NEW t \in Team, Leave(t)
      PROVE  R!Leave(t)
  <2>1. at[t] = "wait" /\ Arrived(t) /\ ~ Arrived(t)' /\ round' = [round EXCEPT ![t] = @ + 1]
    BY <1>1, <1>6 DEF Leave, GoOut, Goto, Arrived, BarrierTypeOK
  <2>2. \A u \in Team \ {t} : Arrived(u)' <=> Arrived(u)
    BY <1>1, <1>6 DEF Leave, GoOut, Goto, Arrived, BarrierTypeOK
  <2>3. arrivals' = arrivals \ {t}
    BY <2>1, <2>2 DEF arrivals
  <2>4. round[t] = n_barrier_passed - 1 /\ n_barrier_passed \in Nat
    BY <1>1, <1>6, <2>1 DEF Placed, Leave, BarrierTypeOK
  <2>5. ASSUME NEW u \in Team PROVE round[u] > round[t] \/ (round[u] = round[t] /\ Arrived(u))
    <3>1. at[u] \in Places /\ Placed(u) /\ round[u] \in Nat
        BY <1>1 DEF BarrierTypeOK
    <3>2. CASE at[u] = "wait"
        BY <3>1, <3>2, <2>4 DEF Placed, Arrived
    <3>3. CASE at[u] # "wait"
      <4>1. round[u] = n_barrier_passed
        BY <3>1, <3>3 DEF Placed, Places
      <4> QED  BY <4>1, <2>4
    <3> QED  BY <3>2, <3>3
  <2>6. R!Complete(round[t])
    BY <2>5 DEF R!Complete
  <2> QED  BY <2>1, <2>3, <2>6 DEF R!Leave, arrivals
<1> QED  BY <1>2, <1>3, <1>4, <1>5, <1>6 DEF BarrierNext, BarrierStep, BarrierReturn, R!Next

(***************************************************************************)
(* For every finite team: whatever the order in which the threads read and *)
(* increment the counters, are released and come back, none leaves a       *)
(* barrier before all have come to it.                                     *)
(***************************************************************************)
THEOREM BarrierIsRounds == BarrierSpec => BarrierImplementsRounds
<1>1. BarrierInit => R!Init
    BY DEF BarrierInit, R!Init, Arrived
<1>2. BarrierInit => BarrierInv
    BY InitInv
<1>3. BarrierInv /\ [BarrierNext]_barriervars => BarrierInv'
    BY NextInv
<1>4. BarrierInv /\ [BarrierNext]_barriervars => [R!Next]_(R!vars)
    BY StepRefines
<1> QED  BY <1>1, <1>2, <1>3, <1>4, PTL DEF BarrierSpec, BarrierImplementsRounds, R!Spec
=============================================================================
