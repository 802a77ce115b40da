-------------------------- MODULE SlotSearchProofs --------------------------
(***************************************************************************)
(* The loops of the two slot searches compute, for a cache of any size and *)
(* any occupancy, exactly what KVCache takes them to return: FirstFit and  *)
(* FailHead for llama_kv_cache_find_slot, ScatterSlots for                 *)
(* llama_kv_cache_find_scatter_slot.                                       *)
(*                                                                         *)
(* The contiguous search has three parts.  It goes from head0 to the end   *)
(* (Ahead), then from 0 to head0 (Behind), and, when the cells left before *)
(* head0 are too few to reach it, once more from 0 although a full turn    *)
(* has been made (Last): the wrap skips the test for a full turn.  Behind  *)
(* head0 the head stops at 0 and after the occupied cells, one after the   *)
(* other, which is what FailHead says of the place where it gives up.      *)
(***************************************************************************)
EXTENDS SlotSearch, KVCellsProofs

-----------------------------------------------------------------------------
(* The inductive invariant.                                                *)

TypeInv ==
    /\ free \in SUBSET Cells
    /\ want \in 1 .. Size + 1
    /\ scatter \in BOOLEAN
    /\ head0 \in 0 .. Size
    /\ head \in 0 .. Size
    /\ tested \in Nat
    /\ ids \in Seq(free)
    /\ result \in {"searching", "found", "failed"}

Full == Cells \ free

\* No run of want free cells starts at one of a .. b-1.
NoFit(a, b) == \A s \in Fits(free, want) : ~ (a <= s /\ s < b)

\* The head is where a search from 0 comes by.
OnPath == head = 0 \/ head - 1 \in Full

Ahead ==
    /\ head0 <= head /\ tested = head - head0 /\ tested < Size
    /\ NoFit(head0, head)
    /\ head0 = 0 => OnPath

Behind ==
    /\ head < head0 /\ tested = Size - head0 + head
    /\ NoFit(head0, Size) /\ NoFit(0, head)
    /\ OnPath

Last ==
    /\ head = 0 /\ tested >= Size
    /\ Fits(free, want) = {}
    /\ FailHead(free, head0, want) = Min(Full) + 1

SlotInv ==
    ~ scatter =>
        /\ result = "searching" => want <= Size /\ (Ahead \/ Behind \/ Last)
        /\ FindSlotIsComplete

\* The next cell of the scatter search, and the one it started from.
Cur    == IF head >= Size THEN 0 ELSE head
Start  == IF head0 >= Size THEN 0 ELSE head0

\* q lists the free cells among the first n of the turn, in their order.
Collected(q, n) ==
    /\ \A i \in 1 .. Len(q) : Turn(q[i], Start) < n
    /\ \A i, j \in 1 .. Len(q) : i < j => Turn(q[i], Start) < Turn(q[j], Start)
    /\ \A c \in free : Turn(c, Start) < n => \E i \in 1 .. Len(q) : q[i] = c

ScatterInv ==
    scatter =>
        /\ result = "searching" =>
            /\ tested < Size
            /\ Turn(Cur, Start) = tested
            /\ Len(ids) < want
            /\ Collected(ids, tested)
        /\ ScatterIsComplete

SearchInv == TypeInv /\ SlotInv /\ ScatterInv

-----------------------------------------------------------------------------
(* The contiguous search.                                                  *)

\* The least element of a set of integers is its Min; its Max is at most any
\* upper bound and at least any element.
LEMMA MinIs ==
    ASSUME NEW S \in SUBSET Int, NEW m \in S, \A x \in S : m <= x
    PROVE  Min(S) = m
<1>1. Min(S) \in S /\ \A x \in S : Min(S) <= x
    BY MinBounded
<1>2. m \in Int /\ Min(S) \in Int /\ m <= Min(S) /\ Min(S) <= m
    BY <1>1
<1> QED  BY ONLY <1>2

LEMMA MaxBetween ==
    ASSUME NEW b \in Int, NEW S \in SUBSET Int, NEW a \in S, \A x \in S : x <= b
    PROVE  Max(S) \in Int /\ a <= Max(S) /\ Max(S) <= b
<1>1. Max(S) \in S /\ \A x \in S : x <= Max(S)
    BY MaxBounded
<1> QED  BY <1>1

LEMMA SizeNat == Size \in Nat /\ Size > 0
BY CellsAssumption

\* The starts of the runs are cells of the cache.
LEMMA FitsRange ==
    ASSUME NEW f \in SUBSET Cells, NEW k \in Nat \ {0}
    PROVE  \A s \in Fits(f, k) : s \in Nat /\ s <= Size - k /\ s < Size
BY SizeNat DEF Fits

\* The window of want cells at the head has an occupied cell: the first one.
LEMMA FirstTaken ==
    ASSUME TypeInv, head + want <= Size,
           NEW taken, taken = {i \in 0 .. want - 1 : head + i \notin free}, taken # {}
    PROVE  /\ Min(taken) \in 0 .. want - 1
           /\ head + Min(taken) \in Full
           /\ \A c \in Full : c >= head => head + Min(taken) <= c
<1>0. head \in Nat /\ want \in Nat /\ Size \in Nat
    BY SizeNat DEF TypeInv
<1>1. taken \in SUBSET Int /\ \A i \in taken : 0 <= i
    BY <1>0
<1>2. Min(taken) \in taken /\ \A i \in taken : Min(taken) <= i
    BY <1>1, MinBounded
<1>3. Min(taken) \in 0 .. want - 1 /\ head + Min(taken) \notin free
    BY <1>2
<1>4. head + Min(taken) \in Cells
    BY <1>0, <1>3 DEF Cells
<1>5. ASSUME NEW c \in Full, c >= head PROVE head + Min(taken) <= c
  <2>1. c \in Nat /\ c \notin free
      BY <1>0, <1>5 DEF Full, Cells
  <2>2. CASE c - head \in 0 .. want - 1
    <3>1. head + (c - head) = c
        BY <1>0, <2>1
    <3>2. c - head \in taken
        BY <2>1, <2>2, <3>1
    <3>3. Min(taken) <= c - head
        BY <1>2, <3>2
    <3> QED  BY <1>0, <1>3, <2>1, <3>3
  <2>3. CASE c - head \notin 0 .. want - 1
      BY <1>0, <1>3, <1>5, <2>1, <2>3
  <2> QED  BY <2>2, <2>3
<1> QED  BY <1>3, <1>4, <1>5 DEF Full

\* No run fits between the head and the cell after the first occupied one.
LEMMA NoFitOver ==
    ASSUME TypeInv, head + want <= Size, NEW m \in 0 .. want - 1, head + m \in Full
    PROVE  NoFit(head, head + m + 1)
<1>0. head \in Nat /\ want \in Nat /\ Size \in Nat /\ m \in Nat /\ m < want
    BY SizeNat DEF TypeInv
<1>1. SUFFICES ASSUME NEW s \in Fits(free, want), head <= s, s < head + m + 1
               PROVE  FALSE
    BY DEF NoFit
<1>2. s \in Int /\ s .. (s + want - 1) \subseteq free
    BY <1>0 DEF Fits
<1>3. head + m \in s .. (s + want - 1)
    BY <1>0, <1>1, <1>2
<1> QED  BY <1>2, <1>3 DEF Full

\* Where a search gives up in its turn: at the first occupied cell that
\* closes the turn, if it gets there.
LEMMA GivesUpInTurn ==
    ASSUME TypeInv, want <= Size, head + want <= Size, OnPath,
           NEW h1, h1 = (IF head0 = 0 THEN Size ELSE head0), head < h1,
           NEW c \in Full, head <= c, c + 1 >= h1,
           \A d \in Full : d >= head => c <= d
    PROVE  FailHead(free, head0, want) = c + 1
<1> DEFINE past == {d \in Full : d + 1 >= h1}
           from == {d + 1 : d \in {e \in Full : e + 1 < h1}} \cup {0}
<1>0. /\ head \in Nat /\ want \in Nat /\ Size \in Nat /\ h1 \in Nat
      /\ \A d \in Full : d \in Nat /\ d < Size
    BY SizeNat DEF TypeInv, Full, Cells
<1>1. past # {} /\ Min(past) = c
  <2>1. c \in past /\ past \in SUBSET Cells
      BY DEF Full
  <2>2. Min(past) \in past /\ Min(past) <= c
      BY <2>1, CellsMin
  <2>3. Min(past) >= head
      BY <1>0, <2>2
  <2>4. c <= Min(past)
      BY <2>2, <2>3
  <2> QED  BY <1>0, <2>1, <2>2, <2>4
<1>2. Max(from) <= Size - want
  <2>1. ASSUME NEW x \in from PROVE x \in Int /\ x <= head
    <3>1. CASE x = 0
        BY <1>0, <3>1
    <3>2. CASE x # 0
      <4>1. PICK d \in Full : d + 1 < h1 /\ x = d + 1
          BY <3>2
      <4>2. ~ (d >= head)
          BY <1>0, <4>1
      <4> QED  BY <1>0, <4>1, <4>2
    <3> QED  BY <3>1, <3>2
  <2>2. 0 \in from /\ from \in SUBSET Int
      BY <2>1
  <2>3. head \in Int /\ \A x \in from : x <= head
      BY <1>0, <2>1
  <2> HIDE DEF from
  <2>4. Max(from) \in Int /\ Max(from) <= head
      BY ONLY <2>2, <2>3, MaxBetween
  <2> QED  BY <1>0, <2>4
<1>3. ~ (want > Size)
    BY <1>0
<1> HIDE DEF past, from
<1>4. FailHead(free, head0, want) =
        IF past # {} /\ Max(from) <= Size - want THEN Min(past) + 1 ELSE Min(Full) + 1
    BY <1>3 DEF FailHead, Full, past, from
<1> QED  BY <1>1, <1>2, <1>4

\* A search that comes to a tail too short wraps, and then gives up at the
\* first occupied cell.
LEMMA GivesUpInLast ==
    ASSUME TypeInv, want <= Size, head + want > Size, OnPath,
           NEW h1, h1 = (IF head0 = 0 THEN Size ELSE head0), head < h1
    PROVE  FailHead(free, head0, want) = Min(Full) + 1
<1> DEFINE past == {d \in Full : d + 1 >= h1}
           from == {d + 1 : d \in {e \in Full : e + 1 < h1}} \cup {0}
<1>0. /\ head \in Nat /\ want \in Nat /\ Size \in Nat /\ h1 \in Nat /\ h1 <= Size
      /\ \A d \in Full : d \in Nat /\ d < Size
    BY SizeNat DEF TypeInv, Full, Cells
<1>1. head \in from
  <2>1. CASE head = 0
      BY <2>1
  <2>2. CASE head - 1 \in Full
    <3>1. (head - 1) + 1 = head
        BY <1>0
    <3>2. head - 1 \in {e \in Full : e + 1 < h1}
        BY <2>2, <3>1
    <3> QED  BY <3>1, <3>2
  <2> QED  BY <2>1, <2>2 DEF OnPath
<1>2. ASSUME NEW x \in from PROVE x \in Int /\ x <= Size
    BY <1>0
<1>3. from \in SUBSET Int
    BY <1>2
<1>a. Size \in Int /\ \A x \in from : x <= Size
    BY <1>0, <1>2
<1> HIDE DEF past, from
<1>4. Max(from) \in Int /\ head <= Max(from)
    BY ONLY <1>1, <1>3, <1>a, MaxBetween
<1>5. ~ (Max(from) <= Size - want)
    BY <1>0, <1>4
<1>6. ~ (want > Size)
    BY <1>0
<1>7. FailHead(free, head0, want) =
        IF past # {} /\ Max(from) <= Size - want THEN Min(past) + 1 ELSE Min(Full) + 1
    BY <1>6 DEF FailHead, Full, past, from
<1> QED  BY <1>5, <1>7

\* What a search has passed over is no fit: the head is at the first one.
LEMMA FoundIsFirst ==
    ASSUME TypeInv, head \in Fits(free, want),
           \/ head0 <= head /\ NoFit(head0, head)
           \/ head < head0 /\ NoFit(head0, Size) /\ NoFit(0, head)
    PROVE  head = FirstFit(free, head0, want)
<1> DEFINE fits == Fits(free, want)
           ahead == {s \in fits : s >= head0}
<1>0. head \in Nat /\ head0 \in Nat /\ want \in Nat \ {0} /\ Size \in Nat /\ free \in SUBSET Cells
    BY SizeNat DEF TypeInv
<1>1. \A s \in fits : s \in Nat /\ s < Size
    BY <1>0, FitsRange
<1>2. fits \in SUBSET Int /\ 0 \in Int /\ (\A s \in fits : 0 <= s) /\ fits # {}
    BY <1>1
<1>3. CASE head0 <= head /\ NoFit(head0, head)
  <2>1. head \in ahead /\ ahead \in SUBSET Int
      BY <1>0, <1>2, <1>3
  <2>2. \A s \in ahead : head <= s
      BY <1>0, <1>1, <1>3 DEF NoFit
  <2>3. Min(ahead) = head
      BY ONLY <2>1, <2>2, MinIs
  <2> QED  BY <2>1, <2>3 DEF FirstFit
<1>4. CASE head < head0 /\ NoFit(head0, Size) /\ NoFit(0, head)
  <2>1. ahead = {}
      BY <1>0, <1>1, <1>4 DEF NoFit
  <2>2. \A s \in fits : head <= s
      BY <1>0, <1>1, <1>4 DEF NoFit
  <2>3. Min(fits) = head
      BY ONLY <1>2, <2>2, head \in fits, MinIs
  <2> QED  BY <2>1, <2>3 DEF FirstFit
<1> QED  BY <1>3, <1>4

-----------------------------------------------------------------------------
(* The steps of the contiguous search.                                     *)

\* The head wraps: from Ahead to Behind, and from Behind to Last.
LEMMA WrapKeeps ==
    ASSUME SearchInv, Wrap
    PROVE  SlotInv'
<1>0. /\ head \in Nat /\ head0 \in Nat /\ want \in Nat \ {0} /\ Size \in Nat /\ Size > 0
      /\ head <= Size /\ head0 <= Size /\ tested \in Nat /\ free \in SUBSET Cells
    BY SizeNat DEF SearchInv, TypeInv
<1>1. /\ result = "searching" /\ ~ scatter /\ head + want > Size
      /\ tested' = tested + Size - head /\ head' = 0
      /\ free' = free /\ want' = want /\ scatter' = scatter /\ head0' = head0 /\ result' = result
    BY DEF Wrap
<1>2. want <= Size /\ (Ahead \/ Behind \/ Last)
    BY <1>1 DEF SearchInv, SlotInv
<1>3. \A s \in Fits(free, want) : s \in Nat /\ s <= Size - want
    BY <1>0, FitsRange
<1>4. ~ Last
    BY <1>0, <1>1, <1>2 DEF Last
<1>5. CASE Ahead /\ head0 > 0
  <2>1. tested' = Size - head0 + 0
      BY <1>0, <1>1, <1>5 DEF Ahead
  <2>2. NoFit(head0, Size) /\ NoFit(0, 0)
      BY <1>0, <1>1, <1>3, <1>5 DEF Ahead, NoFit
  <2>3. Behind'
      BY <1>0, <1>1, <1>5, <2>1, <2>2 DEF Behind, NoFit, OnPath
  <2> QED  BY <1>1, <1>2, <2>3 DEF SlotInv, FindSlotIsComplete
<1>6. CASE Behind \/ (Ahead /\ head0 = 0)
  <2> DEFINE h1 == IF head0 = 0 THEN Size ELSE head0
  <2>1. OnPath /\ head < h1
      BY <1>0, <1>6 DEF Behind, Ahead
  <2>2. FailHead(free, head0, want) = Min(Full) + 1
      BY <1>1, <1>2, <2>1, GivesUpInLast DEF SearchInv
  <2>3. \A s \in Fits(free, want) : FALSE
      BY <1>0, <1>1, <1>3, <1>6 DEF Behind, Ahead, NoFit
  <2>4. tested' >= Size
      BY <1>0, <1>1, <1>6 DEF Behind, Ahead
  <2>5. Last'
      BY <1>1, <2>2, <2>3, <2>4 DEF Last, Full
  <2> QED  BY <1>1, <1>2, <2>5 DEF SlotInv, FindSlotIsComplete
<1> QED  BY <1>0, <1>2, <1>4, <1>5, <1>6

\* want free cells at the head: they are the first fit.
LEMMA FoundKeeps ==
    ASSUME SearchInv, Test, {i \in 0 .. want - 1 : head + i \notin free} = {}
    PROVE  SlotInv'
<1>0. /\ head \in Nat /\ head0 \in Nat /\ want \in Nat \ {0} /\ Size \in Nat
      /\ head <= Size /\ head0 <= Size /\ free \in SUBSET Cells
    BY SizeNat DEF SearchInv, TypeInv
<1>1. /\ result = "searching" /\ ~ scatter /\ head + want <= Size
      /\ result' = "found" /\ head' = head
      /\ free' = free /\ want' = want /\ scatter' = scatter /\ head0' = head0
    BY DEF Test
<1>2. Ahead \/ Behind \/ Last
    BY <1>1 DEF SearchInv, SlotInv
<1>3. head \in Fits(free, want)
  <2>1. head \in 0 .. Size - want
      BY <1>0, <1>1
  <2>2. ASSUME NEW c \in head .. head + want - 1 PROVE c \in free
    <3>1. c - head \in 0 .. want - 1 /\ head + (c - head) = c
        BY <1>0, <2>2
    <3> QED  BY <3>1
  <2> QED  BY <2>1, <2>2 DEF Fits
<1>4. head = FirstFit(free, head0, want)
    BY <1>2, <1>3, FoundIsFirst DEF SearchInv, Ahead, Behind, Last
<1>5. FindSlotIsComplete'
    BY <1>1, <1>3, <1>4 DEF FindSlotIsComplete
<1> QED  BY <1>1, <1>5 DEF SlotInv

\* The first occupied cell of the window is passed over.
LEMMA PassOverKeeps ==
    ASSUME SearchInv, Test, NEW taken, taken = {i \in 0 .. want - 1 : head + i \notin free},
           taken # {}
    PROVE  SlotInv'
<1>0. /\ head \in Nat /\ head0 \in Nat /\ want \in Nat \ {0} /\ Size \in Nat /\ Size > 0
      /\ head <= Size /\ head0 <= Size /\ tested \in Nat /\ free \in SUBSET Cells
    BY SizeNat DEF SearchInv, TypeInv
<1>1. /\ result = "searching" /\ ~ scatter /\ head + want <= Size
      /\ head' = head + Min(taken) + 1 /\ tested' = tested + Min(taken) + 1
      /\ result' = IF tested' >= Size THEN "failed" ELSE "searching"
      /\ free' = free /\ want' = want /\ scatter' = scatter /\ head0' = head0
    BY DEF Test, PassOver, Turned
<1>2. want <= Size /\ (Ahead \/ Behind \/ Last)
    BY <1>1 DEF SearchInv, SlotInv
<1>3. /\ Min(taken) \in 0 .. want - 1 /\ head + Min(taken) \in Full
      /\ \A c \in Full : c >= head => head + Min(taken) <= c
    BY <1>1, FirstTaken DEF SearchInv
<1>4. PICK m \in 0 .. want - 1 : m = Min(taken)
    BY <1>3
<1>5. PICK c \in Full : c = head + m
    BY <1>3, <1>4
<1>6. /\ c \in Nat /\ c < Size /\ c >= head /\ head' = c + 1 /\ tested' = tested + (c + 1 - head)
      /\ \A d \in Full : d >= head => c <= d
    BY <1>0, <1>1, <1>3, <1>4, <1>5
<1>7. NoFit(head, c + 1)
    BY <1>1, <1>3, <1>4, <1>5, NoFitOver DEF SearchInv
<1>8. \A s \in Fits(free, want) : s \in Nat /\ s < Size
    BY <1>0, FitsRange
<1>9. Full' = Full /\ OnPath'
    BY <1>1, <1>6 DEF Full, OnPath
<1>a. CASE tested' < Size
  <2>1. result' = "searching"
      BY <1>0, <1>1, <1>6, <1>a
  <2>2. ~ Last
      BY <1>0, <1>6, <1>a DEF Last
  <2>3. CASE Ahead
    <3>1. NoFit(head0, c + 1)
        BY <1>0, <1>6, <1>7, <1>8, <2>3 DEF Ahead, NoFit
    <3>2. head0 <= c + 1 /\ tested' = (c + 1) - head0
        BY <1>0, <1>6, <2>3 DEF Ahead
    <3>3. Ahead'
        BY <1>1, <1>6, <1>9, <1>a, <3>1, <3>2 DEF Ahead, NoFit
    <3> QED  BY <1>1, <1>2, <2>1, <3>3 DEF SlotInv, FindSlotIsComplete
  <2>4. CASE Behind
    <3>1. c + 1 < head0 /\ tested' = Size - head0 + (c + 1)
        BY <1>0, <1>6, <1>a, <2>4 DEF Behind
    <3>2. NoFit(0, c + 1)
        BY <1>0, <1>6, <1>7, <1>8, <2>4 DEF Behind, NoFit
    <3>3. NoFit(head0, Size)
        BY <2>4 DEF Behind
    <3>4. Behind'
        BY <1>1, <1>6, <1>9, <3>1, <3>2, <3>3 DEF Behind, NoFit
    <3> QED  BY <1>1, <1>2, <2>1, <3>4 DEF SlotInv, FindSlotIsComplete
  <2> QED  BY <1>2, <2>2, <2>3, <2>4
<1>b. CASE tested' >= Size
  <2>1. result' = "failed"
      BY <1>1, <1>b
  <2>2. Fits(free, want) = {} /\ FailHead(free, head0, want) = c + 1
    <3>1. CASE Last
      <4>1. Full \in SUBSET Int /\ \A d \in Full : c <= d
          BY <1>0, <1>6, <3>1 DEF Last, Full, Cells
      <4>2. Min(Full) = c
          BY ONLY <4>1, c \in Full, MinIs
      <4> QED  BY <3>1, <4>2 DEF Last
    <3>2. CASE Behind
      <4>1. c + 1 >= head0 /\ head0 # 0
          BY <1>0, <1>6, <1>b, <3>2 DEF Behind
      <4>2. \A s \in Fits(free, want) : FALSE
          BY <1>0, <1>6, <1>7, <1>8, <3>2, <4>1 DEF Behind, NoFit
      <4>3. OnPath /\ head < head0
          BY <3>2 DEF Behind
      <4>4. FailHead(free, head0, want) = c + 1
          BY <1>1, <1>2, <1>6, <4>1, <4>3, GivesUpInTurn DEF SearchInv
      <4> QED  BY <4>2, <4>4
    <3>3. CASE Ahead
      <4>1. head0 = 0 /\ c + 1 = Size
          BY <1>0, <1>6, <1>b, <3>3 DEF Ahead
      <4>2. \A s \in Fits(free, want) : FALSE
          BY <1>0, <1>6, <1>7, <1>8, <3>3, <4>1 DEF Ahead, NoFit
      <4>3. OnPath /\ head < Size /\ c + 1 >= Size
          BY <1>0, <1>6, <3>3, <4>1 DEF Ahead
      <4>4. FailHead(free, head0, want) = c + 1
          BY <1>1, <1>2, <1>6, <4>1, <4>3, GivesUpInTurn DEF SearchInv
      <4> QED  BY <4>2, <4>4
    <3> QED  BY <1>2, <3>1, <3>2, <3>3
  <2>3. FindSlotIsComplete'
      BY <1>1, <1>6, <2>1, <2>2 DEF FindSlotIsComplete
  <2> QED  BY <2>1, <2>3 DEF SlotInv
<1>c. tested' \in Nat
    BY <1>0, <1>6
<1> QED  BY <1>0, <1>a, <1>b, <1>c

-----------------------------------------------------------------------------
(* The scatter search.                                                     *)

\* Where a cell lies in the turn is a number below Size, another one for
\* every cell.
LEMMA TurnInjective ==
    ASSUME NEW h \in Cells
    PROVE  /\ \A c \in Cells : Turn(c, h) \in Nat /\ Turn(c, h) < Size
           /\ \A c, d \in Cells : Turn(c, h) = Turn(d, h) => c = d
BY SizeNat DEF Turn, Cells

\* ScatterSlots has one element at most.
LEMMA ScatterSlotsUnique ==
    ASSUME NEW f \in SUBSET Cells, NEW h \in 0 .. Size, NEW k \in Nat \ {0},
           NEW a \in ScatterSlots(f, h, k), NEW b \in ScatterSlots(f, h, k)
    PROVE  a = b
<1> DEFINE h0 == IF h >= Size THEN 0 ELSE h
           T(c) == Turn(c, h0)
           InTurn(x) == /\ x \in [1 .. k -> f]
                        /\ \A i, j \in 1 .. k : i < j => T(x[i]) < T(x[j])
                        /\ \A c \in f : (\E i \in 1 .. k : x[i] = c) \/ T(c) > T(x[k])
<1>1. h0 \in Cells
    BY SizeNat DEF Cells
<1>2. /\ \A c \in f : T(c) \in Nat
      /\ \A c, d \in f : T(c) = T(d) => c = d
    BY <1>1, TurnInjective
<1>3. InTurn(a) /\ InTurn(b)
    BY DEF ScatterSlots
<1> HIDE DEF T, h0
<1>4. ASSUME NEW x, InTurn(x), NEW y, InTurn(y), NEW i \in 1 .. k,
             \A j \in 1 .. k : j < i => x[j] = y[j],
             T(x[i]) < T(y[i])
      PROVE  FALSE
  <2>1. /\ x[i] \in f /\ y[i] \in f /\ y[k] \in f /\ k \in 1 .. k
        /\ T(x[i]) \in Nat /\ T(y[i]) \in Nat /\ T(y[k]) \in Nat
      BY <1>2, <1>4
  <2>2. T(y[i]) <= T(y[k])
    <3>1. i = k \/ i < k
        OBVIOUS
    <3> QED  BY <1>4, <2>1, <3>1
  <2>3. ~ (T(x[i]) > T(y[k]))
      BY <1>4, <2>1, <2>2
  <2>4. PICK j \in 1 .. k : y[j] = x[i]
      BY <1>4, <2>1, <2>3
  <2>5. ~ (i <= j)
    <3>1. i = j \/ i < j => T(y[i]) <= T(y[j])
        BY <1>4, <2>1, <2>4
    <3> QED  BY <1>4, <2>1, <2>4, <3>1
  <2>6. x[j] = x[i] /\ j < i
      BY <1>4, <2>4, <2>5
  <2>7. T(x[j]) < T(x[i])
      BY <1>4, <2>6
  <2> QED  BY <2>1, <2>6, <2>7
<1>5. SUFFICES ASSUME NEW n \in 1 .. k, a[n] # b[n]
               PROVE  FALSE
    BY <1>3
<1>6. PICK i \in 1 .. k : a[i] # b[i] /\ \A j \in 1 .. k : j < i => a[j] = b[j]
  <2> DEFINE D == {i \in 1 .. k : a[i] # b[i]}
  <2>1. D \in SUBSET Nat /\ D # {}
      BY <1>5
  <2>2. PICK i \in D : \A x \in D : i <= x
      BY <2>1, NatMin
  <2> QED  BY <2>2
<1>7. a[i] \in f /\ b[i] \in f
    BY <1>3
<1>8. T(a[i]) < T(b[i]) \/ T(b[i]) < T(a[i])
    BY <1>2, <1>6, <1>7
<1> HIDE DEF InTurn
<1>9. ~ (T(a[i]) < T(b[i]))
    BY <1>3, <1>4, <1>6
<1>a. ~ (T(b[i]) < T(a[i]))
    BY <1>3, <1>4, <1>6
<1> QED  BY <1>8, <1>9, <1>a

\* One more cell of the turn.
LEMMA CollectNext ==
    ASSUME TypeInv, tested < Size, Turn(Cur, Start) = tested, Collected(ids, tested),
           NEW q, q = (IF Cur \in free THEN Append(ids, Cur) ELSE ids)
    PROVE  q \in Seq(free) /\ Collected(q, tested + 1)
<1>0. /\ Cur \in Cells /\ Start \in Cells /\ free \in SUBSET Cells /\ tested \in Nat
      /\ ids \in Seq(free) /\ Len(ids) \in Nat
    BY SizeNat DEF TypeInv, Cur, Start, Cells
<1>1. /\ \A c \in Cells : Turn(c, Start) \in Nat
      /\ \A c \in Cells : Turn(c, Start) = tested => c = Cur
    BY <1>0, TurnInjective
<1>2. \A i \in 1 .. Len(ids) : ids[i] \in free /\ Turn(ids[i], Start) \in Nat
    BY <1>0, <1>1
<1>3. CASE Cur \in free
  <2>1. q = Append(ids, Cur)
      BY <1>3
  <2>2. /\ q \in Seq(free) /\ Len(q) = Len(ids) + 1 /\ q[Len(q)] = Cur
        /\ \A i \in 1 .. Len(ids) : q[i] = ids[i]
      BY <1>0, <1>3, <2>1
  <2>3. \A i \in 1 .. Len(q) : i \in 1 .. Len(ids) \/ i = Len(q)
      BY <1>0, <2>2
  <2>4. ASSUME NEW i \in 1 .. Len(q) PROVE Turn(q[i], Start) < tested + 1
      BY <1>0, <1>2, <2>2, <2>3 DEF Collected
  <2>5. ASSUME NEW i \in 1 .. Len(q), NEW j \in 1 .. Len(q), i < j
        PROVE  Turn(q[i], Start) < Turn(q[j], Start)
    <3>1. i \in 1 .. Len(ids)
        BY <1>0, <2>2, <2>5
    <3>2. CASE j \in 1 .. Len(ids)
        BY <2>2, <2>5, <3>1, <3>2 DEF Collected
    <3>3. CASE j = Len(q)
        BY <2>2, <3>1, <3>3 DEF Collected
    <3> QED  BY <2>3, <3>2, <3>3
  <2>6. ASSUME NEW c \in free, Turn(c, Start) < tested + 1
        PROVE  \E i \in 1 .. Len(q) : q[i] = c
    <3>1. CASE Turn(c, Start) < tested
      <4>1. PICK i \in 1 .. Len(ids) : ids[i] = c
          BY <3>1 DEF Collected
      <4>2. i \in 1 .. Len(q) /\ q[i] = c
          BY <1>0, <2>2, <4>1
      <4> QED  BY <4>2
    <3>2. CASE ~ (Turn(c, Start) < tested)
      <4>1. Turn(c, Start) \in Nat
          BY <1>0, <1>1
      <4>2. Turn(c, Start) = tested
          BY <1>0, <2>6, <3>2, <4>1
      <4>3. c = Cur /\ Len(q) \in 1 .. Len(q)
          BY <1>0, <1>1, <2>2, <4>2
      <4> QED  BY <2>2, <4>3
    <3> QED  BY <3>1, <3>2
  <2> QED  BY <2>2, <2>4, <2>5, <2>6 DEF Collected
<1>4. CASE Cur \notin free
  <2>1. \A i \in 1 .. Len(ids) : Turn(ids[i], Start) < tested + 1
      BY <1>0, <1>2 DEF Collected
  <2>2. \A c \in free : Turn(c, Start) < tested + 1 => Turn(c, Start) < tested
      BY <1>0, <1>1, <1>4
  <2> QED  BY <1>0, <1>4, <2>1, <2>2 DEF Collected
<1> QED  BY <1>3, <1>4

LEMMA CollectKeeps ==
    ASSUME SearchInv, Collect
    PROVE  /\ ScatterInv'
           /\ head' \in 0 .. Size /\ tested' \in Nat /\ ids' \in Seq(free)
           /\ result' \in {"searching", "found", "failed"}
<1> DEFINE q == IF Cur \in free THEN Append(ids, Cur) ELSE ids
<1>0. /\ head \in Nat /\ head0 \in 0 .. Size /\ want \in Nat \ {0} /\ Size \in Nat /\ Size > 0
      /\ head <= Size /\ tested \in Nat /\ free \in SUBSET Cells
      /\ ids \in Seq(free) /\ Len(ids) \in Nat
    BY SizeNat DEF SearchInv, TypeInv
<1>1. /\ result = "searching" /\ scatter
      /\ ids' = q /\ head' = Cur + 1 /\ tested' = tested + 1
      /\ result' = IF Len(q) = want THEN "found"
                   ELSE IF tested + 1 >= Size THEN "failed" ELSE "searching"
      /\ free' = free /\ want' = want /\ scatter' = scatter /\ head0' = head0
    BY DEF Collect, Cur, Turned
<1>2. tested < Size /\ Turn(Cur, Start) = tested /\ Len(ids) < want /\ Collected(ids, tested)
    BY <1>1 DEF SearchInv, ScatterInv
<1>3. q \in Seq(free) /\ Collected(q, tested + 1)
    BY <1>2, CollectNext DEF SearchInv
<1>4. Cur \in Cells /\ Start \in Cells
    BY <1>0 DEF Cur, Start, Cells
<1>5. Len(q) \in Nat /\ Len(q) <= want /\ (Len(q) = want => Cur \in free /\ q[want] = Cur)
  <2>1. CASE Cur \in free
    <3>1. q = Append(ids, Cur) /\ Cur \in free
        BY <2>1
    <3>2. Len(q) = Len(ids) + 1 /\ q[Len(q)] = Cur
        BY <1>0, <3>1
    <3> QED  BY <1>0, <1>2, <2>1, <3>2
  <2>2. CASE Cur \notin free
      BY <1>0, <1>2, <2>2
  <2> QED  BY <2>1, <2>2
<1>6. Start' = Start
    BY <1>1 DEF Start
<1> HIDE DEF q
<1>7. /\ \A i \in 1 .. Len(q) : q[i] \in free
      /\ \A i \in 1 .. Len(q) : Turn(q[i], Start) < tested + 1
      /\ \A i, j \in 1 .. Len(q) : i < j => Turn(q[i], Start) < Turn(q[j], Start)
      /\ \A c \in free : Turn(c, Start) < tested + 1 => \E i \in 1 .. Len(q) : q[i] = c
    BY <1>3 DEF Collected
<1>8. CASE Len(q) = want
  <2>1. q \in [1 .. want -> free]
      BY <1>3, <1>8
  <2>2. ASSUME NEW c \in free
        PROVE  (\E i \in 1 .. want : q[i] = c) \/ Turn(c, Start) > Turn(q[want], Start)
    <3>1. c \in Cells /\ Turn(q[want], Start) = tested
        BY <1>0, <1>2, <1>5, <1>8
    <3>2. Turn(c, Start) \in Nat
        BY <1>4, <3>1, TurnInjective
    <3> QED  BY <1>0, <1>7, <1>8, <3>1, <3>2
  <2>3. q \in ScatterSlots(free, head0, want)
      BY <1>7, <1>8, <2>1, <2>2 DEF ScatterSlots, Start
  <2>4. {q} = ScatterSlots(free, head0, want)
      BY <1>0, <2>3, ScatterSlotsUnique
  <2>5. result' = "found" /\ head' = q[want] + 1
      BY <1>1, <1>5, <1>8
  <2>6. ScatterIsComplete'
      BY <1>1, <2>4, <2>5 DEF ScatterIsComplete
  <2> QED  BY <1>0, <1>1, <1>3, <1>4, <2>5, <2>6 DEF ScatterInv, Cells
<1>9. CASE Len(q) # want /\ tested + 1 >= Size
  <2>1. result' = "failed"
      BY <1>1, <1>9
  <2>2. \A c \in free : \E i \in 1 .. Len(q) : q[i] = c
    <3>1. ASSUME NEW c \in free PROVE Turn(c, Start) < tested + 1
      <4>1. Turn(c, Start) \in Nat /\ Turn(c, Start) < Size
          BY <1>0, <1>4, TurnInjective
      <4> QED  BY <1>0, <1>9, <4>1
    <3> QED  BY <1>7, <3>1
  <2>3. ASSUME NEW i \in 1 .. Len(q), NEW j \in 1 .. Len(q), q[i] = q[j]
        PROVE  i = j
    <3>1. Turn(q[i], Start) \in Nat
        BY <1>0, <1>4, <1>7, TurnInjective
    <3>2. ~ (i < j) /\ ~ (j < i)
        BY <1>7, <2>3, <3>1
    <3> QED  BY <1>5, <3>2
  <2>4. Cardinality(free) = Len(q)
      BY <1>5, <1>7, <2>2, <2>3, ImageCardinality
  <2>5. ScatterIsComplete'
      BY <1>0, <1>1, <1>5, <1>9, <2>1, <2>4 DEF ScatterIsComplete
  <2> QED  BY <1>0, <1>1, <1>3, <1>4, <2>1, <2>5 DEF ScatterInv, Cells
<1>a. CASE Len(q) # want /\ tested + 1 < Size
  <2>1. result' = "searching"
      BY <1>0, <1>1, <1>a
  <2>2. Turn(Cur', Start) = tested + 1
    <3>1. Cur' = IF Cur + 1 >= Size THEN 0 ELSE Cur + 1
        BY <1>1 DEF Cur
    <3> QED  BY <1>0, <1>2, <1>4, <1>a, <3>1 DEF Turn, Cells
  <2>3. Collected(ids, tested)'
      BY <1>1, <1>6, <1>7 DEF Collected
  <2>4. Len(ids') < want'
      BY <1>0, <1>1, <1>5, <1>a
  <2>5. ScatterIsComplete'
      BY <2>1 DEF ScatterIsComplete
  <2>6. Turn(Cur, Start)' = tested'
      BY <1>1, <1>6, <2>2 DEF Turn
  <2>7. (tested < Size)'
      BY <1>1, <1>a
  <2>8. ScatterInv'
      BY <2>3, <2>4, <2>5, <2>6, <2>7 DEF ScatterInv
  <2> QED  BY <1>0, <1>1, <1>3, <1>4, <2>1, <2>8 DEF Cells
<1> QED  BY <1>0, <1>5, <1>8, <1>9, <1>a

-----------------------------------------------------------------------------
(* The theorems.                                                           *)

\* A search that asks for more than there is fails at once, as it should.
LEMMA SearchInit == Init => SearchInv
<1> SUFFICES ASSUME Init PROVE SearchInv
    OBVIOUS
<1>0. Size \in Nat /\ Size > 0
    BY SizeNat
<1>1. TypeInv
    BY <1>0 DEF Init, TypeInv
<1>2. ASSUME ~ scatter PROVE SlotInv
  <2>1. CASE want > Size
    <3>1. result = "failed" /\ head = head0
        BY <1>2, <2>1 DEF Init
    <3>2. Fits(free, want) = {}
        BY <1>0, <1>1, <2>1 DEF Fits, TypeInv
    <3>3. FailHead(free, head0, want) = head0
        BY <2>1 DEF FailHead
    <3> QED  BY <3>1, <3>2, <3>3 DEF SlotInv, FindSlotIsComplete
  <2>2. CASE ~ (want > Size)
    <3>1. result = "searching" /\ head = head0 /\ tested = 0
        BY <1>2, <2>2 DEF Init
    <3>2. NoFit(head0, head)
        BY <1>0, <1>1, <3>1, FitsRange DEF NoFit, TypeInv
    <3>3. Ahead
        BY <1>0, <1>1, <3>1, <3>2 DEF Ahead, OnPath, TypeInv
    <3>4. want <= Size
        BY <1>0, <1>1, <2>2 DEF TypeInv
    <3> QED  BY <3>1, <3>3, <3>4 DEF SlotInv, FindSlotIsComplete
  <2> QED  BY <2>1, <2>2
<1>3. ASSUME scatter PROVE ScatterInv
  <2>1. IsFiniteSet(free) /\ Cardinality(free) \in Nat
        /\ Cardinality(Cells \ free) = Size - Cardinality(free)
    <3>1. free \in SUBSET Cells
        BY <1>1 DEF TypeInv
    <3>2. IsFiniteSet(free) /\ Cardinality(free) \in Nat
        BY <3>1, CellsFinite, FS_Subset, FS_CardinalityType
    <3>3. Cells \cap free = free
        BY <3>1
    <3> QED  BY <3>2, <3>3, CellsFinite, FS_Difference
  <2>2. CASE want + Cardinality(Cells \ free) > Size
    <3>1. result = "failed"
        BY <1>3, <2>2 DEF Init
    <3>2. Cardinality(free) < want
        BY <1>0, <1>1, <2>1, <2>2 DEF TypeInv
    <3> QED  BY <3>1, <3>2 DEF ScatterInv, ScatterIsComplete
  <2>3. CASE ~ (want + Cardinality(Cells \ free) > Size)
    <3>1. result = "searching" /\ head = head0 /\ tested = 0 /\ ids = <<>>
        BY <1>3, <2>3 DEF Init
    <3>2. Start \in Cells /\ Turn(Cur, Start) = 0
        BY <1>0, <1>1, <3>1 DEF Cur, Start, Turn, TypeInv, Cells
    <3>3. Len(ids) = 0 /\ want > 0
        BY <1>0, <1>1, <3>1 DEF TypeInv
    <3>4. Collected(ids, 0)
      <4>1. \A c \in free : Turn(c, Start) \in Nat
          BY <1>1, <3>2, TurnInjective DEF TypeInv
      <4> QED  BY <3>3, <4>1 DEF Collected
    <3> QED  BY <1>0, <1>1, <3>1, <3>2, <3>3, <3>4 DEF ScatterInv, ScatterIsComplete, TypeInv
  <2> QED  BY <2>2, <2>3
<1>4. SlotInv /\ ScatterInv
    BY <1>2, <1>3 DEF SlotInv, ScatterInv
<1> QED  BY <1>1, <1>4 DEF SearchInv

\* The types, step by step of the contiguous search.
LEMMA WrapTypes == SearchInv /\ Wrap => TypeInv'
BY SizeNat DEF SearchInv, TypeInv, Wrap

LEMMA TestTypes == SearchInv /\ Test => TypeInv'
<1> SUFFICES ASSUME SearchInv, Test PROVE TypeInv'
    OBVIOUS
<1> DEFINE taken == {i \in 0 .. want - 1 : head + i \notin free}
<1>0. head \in Nat /\ want \in Nat \ {0} /\ Size \in Nat /\ tested \in Nat /\ head + want <= Size
    BY SizeNat DEF SearchInv, TypeInv, Test
<1>1. CASE taken = {}
    BY <1>1 DEF SearchInv, TypeInv, Test
<1>2. CASE taken # {}
  <2>1. Min(taken) \in 0 .. want - 1
      BY <1>0, <1>2, FirstTaken DEF SearchInv
  <2> HIDE DEF taken
  <2>2. head' \in 0 .. Size /\ tested' \in Nat /\ result' \in {"searching", "failed"}
      BY <1>0, <1>2, <2>1, SMTT(30) DEF Test, PassOver, taken, Turned, SearchInv, TypeInv
  <2>3. UNCHANGED <<free, want, scatter, head0, ids>>
      BY DEF Test
  <2> QED  BY <2>2, <2>3 DEF SearchInv, TypeInv
<1> QED  BY <1>1, <1>2

(***************************************************************************)
(* The two loops keep SearchInv: where the contiguous search is in its     *)
(* turn and what it has passed over, and which free cells the scatter      *)
(* search has collected.                                                   *)
(***************************************************************************)
THEOREM SearchInvariant == Spec => []SearchInv
<1>1. Init => SearchInv
    BY SearchInit
<1>2. SearchInv /\ [Next]_vars => SearchInv'
  <2> SUFFICES ASSUME SearchInv, [Next]_vars PROVE SearchInv'
      OBVIOUS
  <2>1. CASE Wrap
    <3>1. SlotInv' /\ TypeInv' /\ scatter' = scatter /\ ~ scatter
        BY <2>1, WrapKeeps, WrapTypes DEF Wrap
    <3> QED  BY <3>1 DEF SearchInv, ScatterInv
  <2>2. CASE Test
    <3>1. SlotInv'
        BY <2>2, FoundKeeps, PassOverKeeps
    <3>2. TypeInv' /\ scatter' = scatter /\ ~ scatter
        BY <2>2, TestTypes DEF Test
    <3> QED  BY <3>1, <3>2 DEF SearchInv, ScatterInv
  <2>3. CASE Collect
    <3>1. /\ ScatterInv' /\ head' \in 0 .. Size /\ tested' \in Nat /\ ids' \in Seq(free)
          /\ result' \in {"searching", "found", "failed"}
        BY <2>3, CollectKeeps
    <3>2. UNCHANGED <<free, want, scatter, head0>> /\ scatter
        BY <2>3 DEF Collect
    <3>3. TypeInv' /\ SlotInv'
        BY <3>1, <3>2 DEF SearchInv, TypeInv, SlotInv
    <3> QED  BY <3>1, <3>3 DEF SearchInv
  <2>4. CASE UNCHANGED vars
    <3>1. TypeInv'
        BY <2>4 DEF vars, SearchInv, TypeInv
    <3>2. SlotInv'
        BY <2>4 DEF vars, SearchInv, SlotInv, Ahead, Behind, Last, NoFit, OnPath, Full,
                    FindSlotIsComplete
    <3>3. ScatterInv'
        BY <2>4 DEF vars, SearchInv, ScatterInv, Cur, Start, Collected, Turn, ScatterIsComplete
    <3> QED  BY <3>1, <3>2, <3>3 DEF SearchInv
  <2> QED  BY <2>1, <2>2, <2>3, <2>4 DEF Next, Done
<1> QED  BY <1>1, <1>2, PTL DEF Spec

(***************************************************************************)
(* For a cache of any size, find_slot returns the first run of free cells  *)
(* in its cyclic order, and fails only when no run of that length exists;  *)
(* then it leaves the head where FailHead says.                            *)
(***************************************************************************)
THEOREM FindSlotComplete == Spec => []FindSlotIsComplete
<1>1. SearchInv => FindSlotIsComplete
    BY DEF SearchInv, SlotInv, FindSlotIsComplete
<1> QED  BY <1>1, SearchInvariant, PTL

(***************************************************************************)
(* For a cache of any size, the scatter search returns the one member of   *)
(* ScatterSlots and fails only when too few cells are free.                *)
(***************************************************************************)
THEOREM ScatterComplete == Spec => []ScatterIsComplete
<1>1. SearchInv => ScatterIsComplete
    BY DEF SearchInv, ScatterInv, ScatterIsComplete
<1> QED  BY <1>1, SearchInvariant, PTL
=============================================================================
