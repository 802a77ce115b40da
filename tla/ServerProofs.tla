---------------------------- MODULE ServerProofs ----------------------------
(***************************************************************************)
(* The safety properties of the server's queues and slots, for every       *)
(* number of requests, prompts and slots, and every size of the batch.     *)
(*                                                                         *)
(* First what counting an element of a sequence does under each operation  *)
(* on the queues, then types (TypeInv).  RoundInv follows the one          *)
(* NEXT_RESPONSE task through a round; StrandInv says what will bring a    *)
(* deferred task back; PlacesInv that a task moves from one place to the   *)
(* next, with what each step does to Places.  On it rest ConservedInv, by  *)
(* which no task of a waiting request is lost, and the three invariants    *)
(* behind ResultsHaveReaders: nothing follows a final result (OrderInv),   *)
(* what has been received in full is over (FinishedInv), and what a        *)
(* request leaves behind when it ends (ReadInv).                           *)
(***************************************************************************)
EXTENDS ServerProps, FiniteSetTheorems, SequenceTheorems, TLAPS

-----------------------------------------------------------------------------
(* Counting in sequences.                                                  *)

\* Where x is in q.
At(q, x) == {k \in DOMAIN q : q[k] = x}

LEMMA Finite ==
    ASSUME NEW T, NEW q \in Seq(T), NEW D, D \subseteq DOMAIN q
    PROVE  /\ IsFiniteSet(D) /\ Cardinality(D) \in Nat
           /\ Len(q) \in Nat /\ DOMAIN q = 1 .. Len(q)
<1>1. Len(q) \in Nat /\ DOMAIN q = 1 .. Len(q)
    OBVIOUS
<1>2. IsFiniteSet(1 .. Len(q))
    BY <1>1, FS_Interval
<1>3. IsFiniteSet(D)
    BY <1>1, <1>2, FS_Subset
<1> QED  BY <1>1, <1>3, FS_CardinalityType

LEMMA CountAt ==
    ASSUME NEW T, NEW q \in Seq(T), NEW x
    PROVE  /\ IsFiniteSet(At(q, x)) /\ Count(q, x) = Cardinality(At(q, x))
           /\ Count(q, x) \in Nat
<1>1. At(q, x) \subseteq DOMAIN q
    BY DEF At
<1> QED  BY <1>1, Finite DEF At, Count

\* Nothing is counted where nothing is.
LEMMA CountNone ==
    ASSUME NEW T, NEW q \in Seq(T), NEW x
    PROVE  Count(q, x) = 0 <=> \A k \in 1 .. Len(q) : q[k] # x
<1>1. IsFiniteSet(At(q, x)) /\ Count(q, x) = Cardinality(At(q, x))
    BY CountAt
<1>2. Count(q, x) = 0 <=> At(q, x) = {}
    BY <1>1, FS_EmptySet
<1> QED  BY <1>2 DEF At

LEMMA CountEmpty == ASSUME NEW x PROVE Count(<<>>, x) = 0
<1>1. At(<<>>, x) = {} /\ Count(<<>>, x) = Cardinality(At(<<>>, x))
    BY DEF At, Count
<1> QED  BY <1>1, FS_EmptySet

LEMMA CountOne ==
    ASSUME NEW y, NEW x
    PROVE  Count(<<y>>, x) = IF y = x THEN 1 ELSE 0
<1>1. At(<<y>>, x) = IF y = x THEN {1} ELSE {}
    BY DEF At
<1>2. Cardinality({1}) = 1 /\ Cardinality({}) = 0
    BY FS_Singleton, FS_EmptySet
<1>3. Count(<<y>>, x) = Cardinality(At(<<y>>, x))
    BY DEF At, Count
<1> QED  BY <1>1, <1>2, <1>3

\* A set moved along the numbers.
LEMMA Translated ==
    ASSUME NEW A, IsFiniteSet(A), A \subseteq Int, NEW d \in Int,
           NEW B, B \subseteq Int, \A b \in Int : b \in B <=> b - d \in A
    PROVE  IsFiniteSet(B) /\ Cardinality(B) = Cardinality(A)
<1> DEFINE f == [a \in A |-> a + d]
<1>1. \A a \in A : a + d \in B
  <2> TAKE a \in A
  <2>1. a + d \in Int /\ (a + d) - d = a
    OBVIOUS
  <2> QED  BY <2>1
<1>2. \A b \in B : b - d \in A /\ (b - d) + d = b
    OBVIOUS
<1>3. f \in Bijection(A, B)
    BY <1>1, <1>2 DEF Bijection, Injection, Surjection, IsInjective
<1>4. ExistsBijection(A, B)
    BY <1>3 DEF ExistsBijection
<1> QED  BY <1>4, FS_Bijection

LEMMA CountConcat ==
    ASSUME NEW T, NEW p \in Seq(T), NEW q \in Seq(T), NEW x
    PROVE  Count(p \o q, x) = Count(p, x) + Count(q, x)
<1> DEFINE d == Len(p)
           B == {k \in d + 1 .. d + Len(q) : q[k - d] = x}
<1>1. d \in Nat /\ Len(q) \in Nat /\ DOMAIN p = 1 .. d /\ DOMAIN q = 1 .. Len(q)
    OBVIOUS
<1>2. /\ DOMAIN (p \o q) = 1 .. d + Len(q)
      /\ \A k \in 1 .. d : (p \o q)[k] = p[k]
      /\ \A k \in d + 1 .. d + Len(q) : (p \o q)[k] = q[k - d]
  <2>1. p \o q \in Seq(T) /\ Len(p \o q) = Len(p) + Len(q)
    BY ConcatProperties
  <2>2. \A i \in 1 .. Len(p) + Len(q) : (p \o q)[i] = IF i <= Len(p) THEN p[i] ELSE q[i - Len(p)]
    BY ConcatProperties
  <2> QED  BY <1>1, <2>1, <2>2
<1> HIDE DEF d
<1>3. At(p \o q, x) = At(p, x) \cup B
  <2>1. ASSUME NEW k \in At(p \o q, x) PROVE k \in At(p, x) \cup B
    <3>1. k \in 1 .. d + Len(q) /\ (p \o q)[k] = x
        BY <1>2 DEF At
    <3> QED  BY <1>1, <1>2, <3>1 DEF At
  <2>2. ASSUME NEW k \in At(p, x) PROVE k \in At(p \o q, x)
    BY <1>1, <1>2 DEF At
  <2>3. ASSUME NEW k \in B PROVE k \in At(p \o q, x)
    BY <1>1, <1>2 DEF At
  <2> QED  BY <2>1, <2>2, <2>3
<1>4. At(p, x) \cap B = {}
    BY <1>1 DEF At
<1>5. /\ IsFiniteSet(At(p, x)) /\ Count(p, x) = Cardinality(At(p, x)) /\ Count(p, x) \in Nat
      /\ IsFiniteSet(At(q, x)) /\ Count(q, x) = Cardinality(At(q, x)) /\ Count(q, x) \in Nat
    BY CountAt
<1>6. IsFiniteSet(B) /\ Cardinality(B) = Cardinality(At(q, x))
  <2>1. \A b \in Int : b \in B <=> b - d \in At(q, x)
    BY <1>1 DEF At
  <2>2. At(q, x) \subseteq Int /\ B \subseteq Int /\ d \in Int
    BY <1>1 DEF At
  <2> HIDE DEF B
  <2> QED  BY <1>5, <2>1, <2>2, Translated
<1> HIDE DEF B
<1>7. Cardinality(At(p, x) \cup B) = Cardinality(At(p, x)) + Cardinality(B) - Cardinality({})
    BY <1>4, <1>5, <1>6, FS_Union
<1>8. Count(p \o q, x) = Cardinality(At(p \o q, x))
    BY DEF At, Count
<1> QED  BY <1>3, <1>5, <1>6, <1>7, <1>8, FS_EmptySet

LEMMA CountAppend ==
    ASSUME NEW T, NEW q \in Seq(T), NEW y \in T, NEW x
    PROVE  Count(Append(q, y), x) = Count(q, x) + IF y = x THEN 1 ELSE 0
<1>1. <<y>> \in Seq(T) /\ Append(q, y) = q \o <<y>>
    OBVIOUS
<1>2. Count(q \o <<y>>, x) = Count(q, x) + Count(<<y>>, x)
    BY <1>1, CountConcat
<1> QED  BY <1>1, <1>2, CountOne

LEMMA CountHeadTail ==
    ASSUME NEW T, NEW q \in Seq(T), q # <<>>, NEW x
    PROVE  Count(q, x) = Count(Tail(q), x) + IF Head(q) = x THEN 1 ELSE 0
<1>1. Head(q) \in T /\ Tail(q) \in Seq(T) /\ Len(q) # 0
    OBVIOUS
<1>2. <<Head(q)>> \in Seq(T) /\ q = <<Head(q)>> \o Tail(q)
    BY <1>1
<1>3. Count(<<Head(q)>> \o Tail(q), x) = Count(<<Head(q)>>, x) + Count(Tail(q), x)
    BY <1>1, <1>2, CountConcat
<1>4. Count(<<Head(q)>>, x) = IF Head(q) = x THEN 1 ELSE 0
    BY CountOne
<1>5. Count(Tail(q), x) \in Nat /\ Count(<<Head(q)>>, x) \in Nat
    BY <1>1, <1>2, CountAt
<1>6. Count(q, x) = Count(<<Head(q)>>, x) + Count(Tail(q), x)
    BY <1>2, <1>3
<1>7. Count(q, x) = Count(Tail(q), x) + Count(<<Head(q)>>, x)
    BY <1>5, <1>6
<1> QED  BY <1>4, <1>7

Joined(z, p, q) == z = p \o q

LEMMA Splits ==
    ASSUME NEW T, NEW q \in Seq(T), NEW p \in Seq(T), NEW c \in Seq(T), NEW k \in 1 .. Len(q),
           Len(p) = k, \A i \in 1 .. k : p[i] = q[i],
           Len(c) = Len(q) - k, \A i \in 1 .. Len(q) - k : c[i] = q[k + i]
    PROVE  Joined(q, p, c)
<1>1. Len(q) \in Nat /\ k \in Nat /\ k + (Len(q) - k) = Len(q)
    OBVIOUS
<1>2. /\ p \o c \in Seq(T) /\ Len(p \o c) = Len(q)
      /\ \A i \in 1 .. Len(p) + Len(c) :
            (p \o c)[i] = IF i <= Len(p) THEN p[i] ELSE c[i - Len(p)]
  <2>1. /\ p \o c \in Seq(T) /\ Len(p \o c) = Len(p) + Len(c)
        /\ \A i \in 1 .. Len(p) + Len(c) :
              (p \o c)[i] = IF i <= Len(p) THEN p[i] ELSE c[i - Len(p)]
    BY ONLY p \in Seq(T), c \in Seq(T), ConcatProperties
  <2> QED  BY <1>1, <2>1
<1>3. ASSUME NEW i \in 1 .. Len(q) PROVE (p \o c)[i] = q[i]
  <2>1. i \in 1 .. Len(p) + Len(c)
    BY <1>1
  <2>2. CASE i <= k
    <3>1. i \in 1 .. k
        BY <1>1, <2>2
    <3> QED  BY <1>2, <2>1, <2>2, <3>1
  <2>3. CASE ~ (i <= k)
    <3>1. i - k \in 1 .. Len(q) - k /\ k + (i - k) = i
        BY <1>1, <2>3
    <3>2. (p \o c)[i] = c[i - k]
        BY <1>2, <2>1, <2>3
    <3> QED  BY <3>1, <3>2
  <2> QED  BY <2>2, <2>3
<1>4. q = p \o c
    BY <1>2, <1>3, SeqEqual
<1> QED  BY <1>4 DEF Joined

LEMMA RemoveAtFacts ==
    ASSUME NEW T, NEW q \in Seq(T), NEW k \in 1 .. Len(q)
    PROVE  /\ RemoveAt(q, k) \in Seq(T) /\ Len(RemoveAt(q, k)) = Len(q) - 1
           /\ \A i \in 1 .. Len(q) - 1 : RemoveAt(q, k)[i] = q[IF i < k THEN i ELSE i + 1]
           /\ \A x : Count(q, x) = Count(RemoveAt(q, k), x) + IF q[k] = x THEN 1 ELSE 0
<1> DEFINE a == SubSeq(q, 1, k - 1)
           b == SubSeq(q, k + 1, Len(q))
<1>1. Len(q) \in Nat /\ k \in Nat /\ \A i \in 1 .. Len(q) : q[i] \in T
    OBVIOUS
<1>2. /\ a \in Seq(T) /\ Len(a) = k - 1 /\ \A i \in 1 .. k - 1 : a[i] = q[i]
  <2>1. \A i \in 1 .. k - 1 : q[i] \in T
    BY <1>1
  <2> QED  BY <1>1, <2>1, SubSeqProperties
<1>3. /\ b \in Seq(T) /\ Len(b) = Len(q) - k /\ \A i \in 1 .. Len(q) - k : b[i] = q[k + i]
  <2>1. \A i \in k + 1 .. Len(q) : q[i] \in T
    BY <1>1
  <2> QED  BY <1>1, <2>1, SubSeqProperties
<1>4. RemoveAt(q, k) = a \o b
    BY DEF RemoveAt
<1> HIDE DEF a, b
<1>5. /\ a \o b \in Seq(T) /\ Len(a \o b) = Len(a) + Len(b)
      /\ \A i \in 1 .. Len(a) + Len(b) : (a \o b)[i] = IF i <= Len(a) THEN a[i] ELSE b[i - Len(a)]
    BY <1>2, <1>3, ConcatProperties
<1>6. \A i \in 1 .. Len(q) - 1 : (a \o b)[i] = q[IF i < k THEN i ELSE i + 1]
  <2> TAKE i \in 1 .. Len(q) - 1
  <2>1. CASE i < k
    <3>1. i \in 1 .. Len(a) + Len(b) /\ i <= Len(a) /\ i \in 1 .. k - 1
        BY <1>1, <1>2, <1>3, <2>1
    <3>2. (a \o b)[i] = a[i] /\ a[i] = q[i]
        BY <1>2, <1>5, <3>1
    <3> QED  BY <2>1, <3>2
  <2>2. CASE i >= k
    <3>1. i - (k - 1) \in 1 .. Len(q) - k /\ k + (i - (k - 1)) = i + 1
        BY <1>1, <2>2
    <3>2. i \in 1 .. Len(a) + Len(b) /\ ~ (i <= Len(a)) /\ i - Len(a) \in 1 .. Len(q) - k
        BY <1>1, <1>2, <1>3, <2>2, <3>1
    <3>3. (a \o b)[i] = b[i - Len(a)]
        BY <1>5, <3>2
    <3>4. b[i - Len(a)] = q[i + 1]
        BY <1>2, <1>3, <3>1, <3>2
    <3> QED  BY <1>1, <2>2, <3>3, <3>4
  <2>3. i < k \/ i >= k
    BY <1>1
  <2> QED  BY <2>1, <2>2, <2>3
<1>7. ASSUME NEW x PROVE Count(q, x) = Count(a \o b, x) + IF q[k] = x THEN 1 ELSE 0
  <2>1. <<q[k]>> \in Seq(T) /\ a \o <<q[k]>> \in Seq(T)
    BY <1>1, <1>2
  <2>2. q = (a \o <<q[k]>>) \o b
    <3>1. PICK p, c : p = a \o <<q[k]>> /\ c = b
        OBVIOUS
    <3>2. p \in Seq(T) /\ c \in Seq(T)
        BY <1>3, <2>1, <3>1
    <3>3. Len(p) = k /\ \A i \in 1 .. k : p[i] = q[i]
      <4>1. Len(p) = k /\ p[k] = q[k] /\ \A i \in 1 .. k - 1 : p[i] = a[i]
        BY <1>1, <1>2, <3>1
      <4>2. \A i \in 1 .. k : i = k \/ i \in 1 .. k - 1
        BY <1>1
      <4> QED  BY <1>2, <4>1, <4>2
    <3>4. Len(c) = Len(q) - k /\ \A i \in 1 .. Len(q) - k : c[i] = q[k + i]
        BY <1>3, <3>1
    <3>5. Joined(q, p, c)
        BY <3>2, <3>3, <3>4, Splits
    <3> QED  BY <3>1, <3>5 DEF Joined
  <2>3. Count((a \o <<q[k]>>) \o b, x) = Count(a \o <<q[k]>>, x) + Count(b, x)
    BY <1>3, <2>1, CountConcat
  <2>4. Count(a \o <<q[k]>>, x) = Count(a, x) + Count(<<q[k]>>, x)
    BY <1>2, <2>1, CountConcat
  <2>5. Count(a \o b, x) = Count(a, x) + Count(b, x)
    BY <1>2, <1>3, CountConcat
  <2>6. Count(<<q[k]>>, x) = IF q[k] = x THEN 1 ELSE 0
    BY CountOne
  <2>7. Count(a, x) \in Nat /\ Count(b, x) \in Nat /\ Count(<<q[k]>>, x) \in Nat
    BY <1>2, <1>3, <2>1, CountAt
  <2>8. Count(q, x) = (Count(a, x) + Count(<<q[k]>>, x)) + Count(b, x)
    BY <2>2, <2>3, <2>4
  <2>9. Count(q, x) = Count(a \o b, x) + Count(<<q[k]>>, x)
    BY <2>5, <2>7, <2>8
  <2> QED  BY <2>6, <2>9
<1> QED  BY <1>1, <1>2, <1>3, <1>4, <1>5, <1>6, <1>7

-----------------------------------------------------------------------------
(* Filtering sequences.                                                    *)

\* The place of k among the elements of a set of numbers.
Place(at, k) == Cardinality({j \in at : j <= k})

LEMMA PlaceFacts ==
    ASSUME NEW at, IsFiniteSet(at), at \subseteq Int
    PROVE  /\ \A k \in at : Place(at, k) \in 1 .. Cardinality(at)
           /\ \A k, l \in at : k < l => Place(at, k) < Place(at, l)
           /\ \A i \in 1 .. Cardinality(at) : \E k \in at : Place(at, k) = i
<1>0. Cardinality(at) \in Nat
    BY FS_CardinalityType
<1>1. ASSUME NEW k \in at
      PROVE  /\ IsFiniteSet({j \in at : j <= k})
             /\ Place(at, k) \in Nat /\ Place(at, k) >= 1 /\ Place(at, k) <= Cardinality(at)
  <2> DEFINE low == {j \in at : j <= k}
  <2>1. IsFiniteSet(low) /\ Cardinality(low) <= Cardinality(at) /\ Cardinality(low) \in Nat
    BY FS_Subset, FS_CardinalityType
  <2>2. k \in low
    OBVIOUS
  <2>3. Cardinality(low) # 0
    BY <2>1, <2>2, FS_EmptySet
  <2> QED  BY <2>1, <2>3 DEF Place
<1>2. ASSUME NEW k \in at PROVE Place(at, k) \in 1 .. Cardinality(at)
  <2>1. Place(at, k) \in Nat /\ Place(at, k) >= 1 /\ Place(at, k) <= Cardinality(at)
    BY <1>1
  <2> QED  BY <1>0, <2>1
<1>3. ASSUME NEW k \in at, NEW l \in at, k < l PROVE Place(at, k) < Place(at, l)
  <2> DEFINE a == {j \in at : j <= k}
             b == {j \in at : j <= l}
  <2>0. k \in Int /\ l \in Int
    OBVIOUS
  <2>1. a \subseteq b /\ l \in b /\ l \notin a
    <3>1. \A j \in at : j \in Int /\ (j <= k => j <= l)
        BY <1>3, <2>0
    <3>2. ASSUME NEW j \in a PROVE j \in b
        BY <3>1
    <3>3. l \in b
        BY <2>0
    <3>4. l \notin a
        BY <1>3, <2>0
    <3> QED  BY <3>2, <3>3, <3>4
  <2>2. IsFiniteSet(b) /\ IsFiniteSet(a)
    BY <1>1
  <2>3. Cardinality(a) <= Cardinality(b) /\ (Cardinality(b) = Cardinality(a) => b = a)
    BY <2>1, <2>2, FS_Subset
  <2>4. Cardinality(a) # Cardinality(b)
    BY <2>1, <2>3
  <2>5. Cardinality(a) = Place(at, k) /\ Cardinality(b) = Place(at, l)
    BY DEF Place
  <2> QED  BY <1>1, <2>3, <2>4, <2>5
<1>4. \A i \in 1 .. Cardinality(at) : \E k \in at : Place(at, k) = i
  <2> DEFINE f == [k \in at |-> Place(at, k)]
             m == Cardinality(at)
  <2>1. \A k, l \in at : Place(at, k) = Place(at, l) => k = l
    <3> SUFFICES ASSUME NEW k \in at, NEW l \in at, Place(at, k) = Place(at, l) PROVE k = l
        OBVIOUS
    <3>1. Place(at, k) \in Nat
        BY <1>1
    <3>2. ~ (k < l) /\ ~ (l < k)
        BY <1>3, <3>1
    <3> QED  BY <3>2
  <2>2. f \in Injection(at, 1 .. m)
    BY <1>2, <2>1 DEF Injection, IsInjective
  <2>3. IsFiniteSet(1 .. m) /\ Cardinality(1 .. m) = m
    BY <1>0, FS_Interval
  <2>4. Cardinality(at) = Cardinality(1 .. m)
    BY <2>3
  <2> HIDE DEF f, m
  <2>5. f \in Surjection(at, 1 .. m)
    BY <2>2, <2>3, <2>4, FS_Injection
  <2>6. \A i \in 1 .. m : \E k \in at : f[k] = i
    BY <2>5 DEF Surjection
  <2> QED  BY <2>6 DEF f, m
<1> QED  BY <1>2, <1>3, <1>4

\* Filtering picks elements, in their order, all that are in the set.
Picks(f, q, S, m) ==
    /\ m \in Nat
    /\ \A i \in 1 .. m : f[i] \in 1 .. Len(q) /\ q[f[i]] \in S
    /\ \A i, j \in 1 .. m : i < j => f[i] < f[j]
    /\ \A k \in 1 .. Len(q) : q[k] \in S => \E i \in 1 .. m : f[i] = k

KeptBy(f, q, S, m) ==
    /\ Picks(f, q, S, m)
    /\ m = Cardinality({k \in 1 .. Len(q) : q[k] \in S})
    /\ Kept(q, S) = [i \in 1 .. m |-> q[f[i]]]

LEMMA KeptPicks ==
    ASSUME NEW T, NEW q \in Seq(T), NEW S
    PROVE  \E f, m : KeptBy(f, q, S, m)
<1> DEFINE at == {k \in DOMAIN q : q[k] \in S}
           m  == Cardinality(at)
           f  == [i \in 1 .. m |-> CHOOSE k \in at : Place(at, k) = i]
<1>1. IsFiniteSet(at) /\ m \in Nat /\ Len(q) \in Nat /\ DOMAIN q = 1 .. Len(q)
    BY Finite
<1>2. at = {k \in 1 .. Len(q) : q[k] \in S} /\ at \subseteq Int
    BY <1>1
<1>3. Kept(q, S) = [i \in 1 .. m |-> q[CHOOSE k \in at : Place(at, k) = i]]
    BY DEF Kept, Place
<1> HIDE DEF at
<1>4. /\ \A k \in at : Place(at, k) \in 1 .. m
      /\ \A k, l \in at : k < l => Place(at, k) < Place(at, l)
      /\ \A i \in 1 .. m : \E k \in at : Place(at, k) = i
    BY <1>1, <1>2, PlaceFacts
<1> HIDE DEF m
<1>5. \A i \in 1 .. m : f[i] \in at /\ Place(at, f[i]) = i
    BY <1>4
<1>6. [i \in 1 .. m |-> q[CHOOSE k \in at : Place(at, k) = i]] = [i \in 1 .. m |-> q[f[i]]]
    OBVIOUS
<1> HIDE DEF f
<1>7. \A i, j \in 1 .. m : i < j => f[i] < f[j]
  <2> SUFFICES ASSUME NEW i \in 1 .. m, NEW j \in 1 .. m, i < j PROVE f[i] < f[j]
    OBVIOUS
  <2>1. f[i] \in at /\ f[j] \in at /\ f[i] \in Int /\ f[j] \in Int
    BY <1>2, <1>5
  <2>2. f[j] # f[i]
    BY <1>5
  <2>3. ~ (f[j] < f[i])
    <3> SUFFICES ASSUME f[j] < f[i] PROVE FALSE
        OBVIOUS
    <3>1. Place(at, f[j]) < Place(at, f[i])
        BY <1>4, <2>1
    <3> QED  BY <1>1, <1>5, <3>1
  <2> QED  BY <2>1, <2>2, <2>3
<1>8. \A k \in 1 .. Len(q) : q[k] \in S => \E i \in 1 .. m : f[i] = k
  <2> SUFFICES ASSUME NEW k \in 1 .. Len(q), q[k] \in S PROVE \E i \in 1 .. m : f[i] = k
    OBVIOUS
  <2>1. k \in at /\ k \in Int
    BY <1>2
  <2>2. PICK i \in 1 .. m : i = Place(at, k)
    BY <1>4, <2>1
  <2>3. f[i] \in at /\ Place(at, f[i]) = Place(at, k) /\ f[i] \in Int
    BY <1>2, <1>5, <2>2
  <2>4. ~ (f[i] < k) /\ ~ (k < f[i])
    <3>1. f[i] < k => Place(at, f[i]) < Place(at, k)
        BY <1>4, <2>1, <2>3
    <3>2. k < f[i] => Place(at, k) < Place(at, f[i])
        BY <1>4, <2>1, <2>3
    <3>3. Place(at, k) \in Nat
        BY <1>1, <2>2
    <3> QED  BY <2>3, <3>1, <3>2, <3>3
  <2>5. f[i] = k
    BY <2>1, <2>3, <2>4
  <2> QED  BY <2>5
<1>9. \A i \in 1 .. m : f[i] \in 1 .. Len(q) /\ q[f[i]] \in S
    BY <1>2, <1>5
<1>10. Picks(f, q, S, m)
    BY <1>1, <1>7, <1>8, <1>9 DEF m, Picks
<1>11. m = Cardinality({k \in 1 .. Len(q) : q[k] \in S})
    BY <1>2 DEF m
<1>12. Kept(q, S) = [i \in 1 .. m |-> q[f[i]]]
    BY <1>3, <1>6
<1> QED  BY <1>10, <1>11, <1>12 DEF KeptBy

\* z is a part of q, in its order.
PartOf(z, q) ==
    /\ \A i \in 1 .. Len(z) : \E k \in 1 .. Len(q) : z[i] = q[k]
    /\ \A i, j \in 1 .. Len(z) : i < j =>
            \E k, l \in 1 .. Len(q) : k < l /\ z[i] = q[k] /\ z[j] = q[l]

LEMMA KeptFacts ==
    ASSUME NEW T, NEW q \in Seq(T), NEW S, NEW z, z = Kept(q, S)
    PROVE  /\ z \in Seq(T) /\ PartOf(z, q)
           /\ Len(z) = Cardinality({k \in 1 .. Len(q) : q[k] \in S})
           /\ \A i \in 1 .. Len(z) : z[i] \in S
<1>1. PICK f, m : KeptBy(f, q, S, m)
    BY KeptPicks
<1>2. /\ m \in Nat
      /\ \A i \in 1 .. m : f[i] \in 1 .. Len(q) /\ q[f[i]] \in S
      /\ \A i, j \in 1 .. m : i < j => f[i] < f[j]
      /\ \A k \in 1 .. Len(q) : q[k] \in S => \E i \in 1 .. m : f[i] = k
    BY <1>1 DEF Picks, KeptBy
<1>3. z = [i \in 1 .. m |-> q[f[i]]]
    BY <1>1 DEF KeptBy
<1>4. z \in Seq(T) /\ Len(z) = m /\ \A i \in 1 .. m : z[i] = q[f[i]]
    BY <1>2, <1>3
<1>5. \A i \in 1 .. m : z[i] \in S /\ \E k \in 1 .. Len(q) : z[i] = q[k]
    BY <1>2, <1>4
<1>6. ASSUME NEW i \in 1 .. m, NEW j \in 1 .. m, i < j
      PROVE  \E k, l \in 1 .. Len(q) : k < l /\ z[i] = q[k] /\ z[j] = q[l]
  <2>1. PICK k, l \in 1 .. Len(q) : k = f[i] /\ l = f[j]
    BY <1>2
  <2>2. k < l
    BY <1>2, <1>6, <2>1
  <2>3. z[i] = q[k] /\ z[j] = q[l]
    BY <1>4, <2>1
  <2> QED  BY <2>2, <2>3
<1>8. PartOf(z, q)
    BY <1>4, <1>5, <1>6 DEF PartOf
<1>9. Len(z) = Cardinality({k \in 1 .. Len(q) : q[k] \in S})
    BY <1>1, <1>4 DEF KeptBy
<1>10. \A i \in 1 .. Len(z) : z[i] \in S
    BY <1>4, <1>5
<1> QED  BY <1>4, <1>8, <1>9, <1>10

LEMMA KeptCount ==
    ASSUME NEW T, NEW q \in Seq(T), NEW S, NEW z, z = Kept(q, S), NEW x
    PROVE  /\ x \in S => Count(z, x) = Count(q, x)
           /\ x \notin S => Count(z, x) = 0
<1>1. PICK f, m : KeptBy(f, q, S, m)
    BY KeptPicks
<1>2. /\ m \in Nat
      /\ \A i \in 1 .. m : f[i] \in 1 .. Len(q) /\ q[f[i]] \in S
      /\ \A i, j \in 1 .. m : i < j => f[i] < f[j]
      /\ \A k \in 1 .. Len(q) : q[k] \in S => \E i \in 1 .. m : f[i] = k
    BY <1>1 DEF Picks, KeptBy
<1>3. z = [i \in 1 .. m |-> q[f[i]]]
    BY <1>1 DEF KeptBy
<1>4. z \in Seq(T) /\ Len(z) = m /\ \A i \in 1 .. m : z[i] = q[f[i]]
    BY <1>2, <1>3
<1>5. \A i \in 1 .. m : z[i] \in S /\ \E k \in 1 .. Len(q) : z[i] = q[k]
    BY <1>2, <1>4
<1>7. Count(z, x) = IF x \in S THEN Count(q, x) ELSE 0
  <2>1. CASE x \notin S
    <3>1. \A i \in 1 .. Len(z) : z[i] # x
        BY <1>4, <1>5, <2>1
    <3>2. Count(z, x) = 0
        BY <1>4, <3>1, CountNone
    <3> QED  BY <2>1, <3>2
  <2>2. CASE x \in S
    <3> DEFINE g == [i \in At(z, x) |-> f[i]]
    <3>1. /\ \A i \in At(z, x) : i \in 1 .. m /\ z[i] = x
          /\ \A i \in 1 .. m : z[i] = x => i \in At(z, x)
        BY <1>4 DEF At
    <3>2. /\ \A k \in At(q, x) : k \in 1 .. Len(q) /\ q[k] = x
          /\ \A k \in 1 .. Len(q) : q[k] = x => k \in At(q, x)
        BY DEF At
    <3>3. \A i \in At(z, x) : f[i] \in At(q, x)
        BY <1>2, <1>4, <3>1, <3>2
    <3>4. \A i, j \in At(z, x) : f[i] = f[j] => i = j
      <4> SUFFICES ASSUME NEW i \in At(z, x), NEW j \in At(z, x), f[i] = f[j] PROVE i = j
        OBVIOUS
      <4>1. i \in 1 .. m /\ j \in 1 .. m /\ f[i] \in 1 .. Len(q)
        BY <1>2, <3>1
      <4>2. ~ (i < j) /\ ~ (j < i)
        BY <1>2, <4>1
      <4> QED  BY <4>1, <4>2
    <3>5. \A k \in At(q, x) : \E i \in At(z, x) : f[i] = k
        BY <1>2, <1>4, <2>2, <3>1, <3>2
    <3>6. g \in Bijection(At(z, x), At(q, x))
        BY <3>3, <3>4, <3>5 DEF Bijection, Injection, Surjection, IsInjective
    <3>7. ExistsBijection(At(z, x), At(q, x))
        BY <3>6 DEF ExistsBijection
    <3>8. IsFiniteSet(At(z, x)) /\ Count(z, x) = Cardinality(At(z, x))
        BY <1>4, CountAt
    <3>9. Cardinality(At(q, x)) = Cardinality(At(z, x))
        BY <3>7, <3>8, FS_Bijection
    <3>10. Count(q, x) = Cardinality(At(q, x))
        BY CountAt
    <3> QED  BY <2>2, <3>8, <3>9, <3>10
  <2> QED  BY <2>1, <2>2
<1> QED  BY <1>7

-----------------------------------------------------------------------------
(* Types.                                                                  *)

LEMMA IdFacts ==
    /\ \A r \in Requests : \A id \in Ids(r) :
            /\ id \in AllIds /\ id[1] = r /\ id # NoId
            /\ id[2] \in 1 .. Len(Body[r].prompts) /\ id = <<r, id[2]>>
    /\ \A id \in AllIds :
            /\ id[1] \in Requests /\ id \in Ids(id[1])
            /\ Prompt(id) \in Nat /\ Stream(id) \in BOOLEAN /\ IdSlot(id) \in Int
    /\ \A r \in Requests : /\ Body[r].prompts \in Seq(Nat) /\ Len(Body[r].prompts) \in Nat \ {0}
                           /\ DOMAIN Body[r].prompts = 1 .. Len(Body[r].prompts)
                           /\ \A i \in 1 .. Len(Body[r].prompts) : <<r, i>> \in Ids(r)
<1>1. ASSUME NEW r \in Requests
      PROVE  /\ Body[r].prompts \in Seq(Nat) /\ Len(Body[r].prompts) \in Nat \ {0}
             /\ DOMAIN Body[r].prompts = 1 .. Len(Body[r].prompts)
             /\ Body[r].stream \in BOOLEAN /\ Body[r].id_slot \in Int
  <2>1. Body[r] \in BodyType /\ Body[r].prompts # <<>>
    BY ServerAssumption
  <2>2. Body[r].prompts \in Seq(Nat) /\ Body[r].stream \in BOOLEAN /\ Body[r].id_slot \in Int
    BY <2>1 DEF BodyType
  <2> QED  BY <2>1, <2>2
<1>2. ASSUME NEW r \in Requests, NEW id \in Ids(r)
      PROVE  /\ id \in AllIds /\ id[1] = r /\ id # NoId
             /\ id[2] \in 1 .. Len(Body[r].prompts) /\ id = <<r, id[2]>>
  <2>1. PICK i \in 1 .. Len(Body[r].prompts) : id = <<r, i>>
    BY <1>1 DEF Ids
  <2>2. id \in AllIds
    BY DEF AllIds
  <2> QED  BY <2>1, <2>2 DEF NoId
<1>3. ASSUME NEW id \in AllIds
      PROVE  /\ id[1] \in Requests /\ id \in Ids(id[1])
             /\ Prompt(id) \in Nat /\ Stream(id) \in BOOLEAN /\ IdSlot(id) \in Int
  <2>1. PICK r \in Requests : id \in Ids(r)
    BY DEF AllIds
  <2>2. id[1] = r /\ id[2] \in 1 .. Len(Body[r].prompts)
    BY <1>2, <2>1
  <2>3. Body[r].prompts[id[2]] \in Nat
    BY <1>1, <2>2
  <2> QED  BY <1>1, <2>1, <2>2, <2>3 DEF Prompt, Stream, IdSlot
<1>4. \A r \in Requests : \A i \in 1 .. Len(Body[r].prompts) : <<r, i>> \in Ids(r)
    BY <1>1 DEF Ids
<1> QED  BY <1>1, <1>2, <1>3, <1>4

LEMMA NoIdFacts == NoId \notin AllIds
<1> SUFFICES ASSUME NoId \in AllIds PROVE FALSE
    OBVIOUS
<1>1. NoId[1] \in Requests /\ NoId \in Ids(NoId[1])
    BY IdFacts
<1> QED  BY <1>1, IdFacts

LEMMA TaskFacts ==
    /\ NextResponse \in Task /\ NextResponse.type = "next"
    /\ \A id \in AllIds :
            /\ Completion(id) \in Task /\ Completion(id).type = "completion"
            /\ Completion(id).id = id /\ Completion(id).id_target = NoId
            /\ Cancel(id) \in Task /\ Cancel(id).type = "cancel" /\ Cancel(id).id_target = id
            /\ Completion(id) # NextResponse /\ Cancel(id) # NextResponse
    /\ \A id, di \in AllIds : /\ Completion(id) # Cancel(di)
                              /\ Completion(id) = Completion(di) => id = di
    /\ \A t \in Task : /\ t.type \in {"completion", "cancel", "next"}
                       /\ t.type = "completion" => t.id \in AllIds /\ t = Completion(t.id)
                       /\ t.type = "cancel" => t.id_target \in AllIds /\ t = Cancel(t.id_target)
                       /\ t.type = "next" => t = NextResponse
  BY DEF Task, Completion, Cancel, NextResponse

LEMMA ResultFacts ==
    /\ \A id \in AllIds : /\ Partial(id) \in Result /\ Partial(id).id = id /\ ~ Partial(id).stop
                          /\ Final(id) \in Result /\ Final(id).id = id /\ Final(id).stop
    /\ \A res \in Result : res.id \in AllIds /\ (res.stop => res = Final(res.id))
    /\ \A id, di \in AllIds : Final(id) = Final(di) => id = di
<1>1. \A id \in AllIds : /\ Partial(id) \in Result /\ Partial(id).id = id /\ ~ Partial(id).stop
                         /\ Final(id) \in Result /\ Final(id).id = id /\ Final(id).stop
    BY DEF Result, Partial, Final
<1>2. ASSUME NEW res \in Result, res.stop PROVE res = Final(res.id)
  <2>1. res.stop = TRUE
    BY <1>2, Zenon DEF Result
  <2> QED  BY <2>1 DEF Result, Final
<1>3. \A res \in Result : res.id \in AllIds
    BY DEF Result
<1> QED  BY <1>1, <1>2, <1>3

MainPhases == {"pick", "process", "update", "prompt", "decode", "sample", "fail", "commit", "wait"}

MainType == [pc : MainPhases, task : Task, i : Slots, n_tokens : 0 .. BatchSize,
             view : 0 .. BatchSize, n_batch : 1 .. NBatch]

\* Only completions are ever deferred.
QueuesOK == /\ queue_tasks \in Seq(Task) /\ queue_tasks_deferred \in Seq(Task)
            /\ \A k \in 1 .. Len(queue_tasks_deferred) :
                    queue_tasks_deferred[k].type = "completion"

ResultsOK == waiting_task_ids \subseteq AllIds /\ queue_results \in Seq(Result)

SendOK == send_buffer \in Seq(Result)

\* A busy slot has a task.
SlotsOK == /\ slots \in [Slots -> Slot]
           /\ \A s \in Slots : IsProcessing(s) => slots[s].id_task \in AllIds

\* Every slot has one place in the order of use.
LruOK == lru \in Seq(Slots) /\ Len(lru) = NSlots /\ \A s \in Slots : Count(lru, s) = 1

MainOK == main \in MainType

HttpOK ==
    /\ hpc \in [Requests -> {"new", "added", "posted", "recv", "cancel", "complete", "done"}]
    /\ to_cancel \in [Requests -> SUBSET AllIds]
    /\ \A r \in Requests : to_cancel[r] \subseteq Ids(r)
    /\ n_finished \in [Requests -> Nat]
    /\ closed \in [Requests -> BOOLEAN]

TypeInv == QueuesOK /\ ResultsOK /\ SendOK /\ SlotsOK /\ LruOK /\ MainOK /\ HttpOK

\* Room in the batch.
LEMMA BatchFacts ==
    /\ NSlots \in Nat \ {0} /\ NBatch \in Nat \ {0} /\ BatchSize \in Nat \ {0}
    /\ NSlots <= BatchSize /\ NBatch <= BatchSize
  BY ServerAssumption DEF BatchSize

LEMMA TypeInvImplies == TypeInv => TypeOK
<1> SUFFICES ASSUME TypeInv PROVE TypeOK
    OBVIOUS
<1>1. lru \in [1 .. NSlots -> Slots]
    BY DEF TypeInv, LruOK
<1> QED  BY <1>1
    DEF TypeInv, QueuesOK, ResultsOK, SendOK, SlotsOK, MainOK, HttpOK, TypeOK, MainType, MainPhases

\* What is in the order of use stays there, used last.
LEMMA UsedOK ==
    ASSUME LruOK, NEW s \in Slots
    PROVE  Used(s) \in Seq(Slots) /\ Len(Used(s)) = NSlots /\ \A u \in Slots : Count(Used(s), u) = 1
<1>1. NSlots \in Nat \ {0}
    BY ServerAssumption
<1>2. lru \in Seq(Slots) /\ Len(lru) = NSlots /\ \A u \in Slots : Count(lru, u) = 1
    BY DEF LruOK
<1>3. PICK z, S : z = Kept(lru, S) /\ S = Slots \ {s}
    OBVIOUS
<1> DEFINE rest == {k \in 1 .. Len(lru) : lru[k] \in S}
<1>4. /\ z \in Seq(Slots) /\ Len(z) = Cardinality(rest)
    BY <1>2, <1>3, KeptFacts
<1>5. Used(s) = Append(z, s)
    BY <1>3 DEF Used
<1>6. ASSUME NEW u \in Slots PROVE Count(Used(s), u) = 1
  <2>1. Count(Append(z, s), u) = Count(z, u) + IF s = u THEN 1 ELSE 0
    BY <1>4, CountAppend
  <2>2. /\ u \in S => Count(z, u) = Count(lru, u)
        /\ u \notin S => Count(z, u) = 0
    BY <1>2, <1>3, KeptCount
  <2>3. CASE s = u
    <3>1. Count(z, u) = 0
        BY <1>3, <2>2, <2>3
    <3>2. Count(Append(z, s), u) = Count(z, u) + 1
        BY <2>1, <2>3
    <3> QED  BY <1>5, <3>1, <3>2
  <2>4. CASE s # u
    <3>1. u \in S /\ Count(lru, u) = 1
        BY <1>2, <1>3, <2>4
    <3>2. Count(z, u) = 1
        BY <2>2, <3>1
    <3>3. Count(Append(z, s), u) = Count(z, u) + 0
        BY <2>1, <2>4
    <3> QED  BY <1>5, <3>2, <3>3
  <2> QED  BY <2>3, <2>4
<1>7. Cardinality(rest) = NSlots - 1
  <2>1. IsFiniteSet(1 .. NSlots) /\ Cardinality(1 .. NSlots) = NSlots
    BY <1>1, FS_Interval
  <2>2. Count(lru, s) = Cardinality(At(lru, s)) /\ Count(lru, s) = 1
    BY <1>2, CountAt
  <2>3. rest = (1 .. NSlots) \ At(lru, s) /\ (1 .. NSlots) \cap At(lru, s) = At(lru, s)
    BY <1>2, <1>3 DEF At
  <2>4. Cardinality((1 .. NSlots) \ At(lru, s)) = NSlots - Cardinality((1 .. NSlots) \cap At(lru, s))
    BY <2>1, FS_Difference
  <2>5. Cardinality(rest) = NSlots - Cardinality(At(lru, s))
    BY <2>3, <2>4
  <2> QED  BY <2>2, <2>5
<1> HIDE DEF rest
<1>8. Append(z, s) \in Seq(Slots) /\ Len(Append(z, s)) = NSlots
    BY <1>1, <1>4, <1>7
<1> QED  BY <1>5, <1>6, <1>8

\* pop_deferred_task moves a completion from one queue to the other.
LEMMA PopFacts ==
    ASSUME QueuesOK, PopDeferred
    PROVE  /\ QueuesOK'
           /\ \A x : Count(queue_tasks, x)' + Count(queue_tasks_deferred, x)'
                        = Count(queue_tasks, x) + Count(queue_tasks_deferred, x)
           /\ \A x : x.type # "completion" => Count(queue_tasks, x)' = Count(queue_tasks, x)
<1>1. /\ queue_tasks \in Seq(Task) /\ queue_tasks_deferred \in Seq(Task)
      /\ \A k \in 1 .. Len(queue_tasks_deferred) : queue_tasks_deferred[k].type = "completion"
    BY DEF QueuesOK
<1>2. CASE queue_tasks_deferred = <<>>
    BY <1>2 DEF PopDeferred, queuevars, QueuesOK, Count
<1>3. CASE queue_tasks_deferred # <<>>
  <2>1. PICK d, q : d = queue_tasks_deferred /\ q = queue_tasks
    OBVIOUS
  <2>2. queue_tasks' = Append(q, Head(d)) /\ queue_tasks_deferred' = Tail(d)
    BY <1>3, <2>1 DEF PopDeferred
  <2>3. /\ d \in Seq(Task) /\ q \in Seq(Task) /\ d # <<>>
        /\ \A k \in 1 .. Len(d) : d[k].type = "completion"
    BY <1>1, <1>3, <2>1
  <2>4. /\ Head(d) \in Task /\ Tail(d) \in Seq(Task) /\ Append(q, Head(d)) \in Seq(Task)
        /\ Head(d).type = "completion"
        /\ \A k \in 1 .. Len(Tail(d)) : Tail(d)[k].type = "completion"
    BY <2>3
  <2>5. QueuesOK'
    BY <2>2, <2>4 DEF QueuesOK
  <2>6. ASSUME NEW x
        PROVE  /\ Count(Append(q, Head(d)), x) + Count(Tail(d), x) = Count(q, x) + Count(d, x)
               /\ x.type # "completion" => Count(Append(q, Head(d)), x) = Count(q, x)
    <3>1. Count(Append(q, Head(d)), x) = Count(q, x) + IF Head(d) = x THEN 1 ELSE 0
        BY <2>3, <2>4, CountAppend
    <3>2. Count(d, x) = Count(Tail(d), x) + IF Head(d) = x THEN 1 ELSE 0
        BY <2>3, CountHeadTail
    <3>3. Count(q, x) \in Nat /\ Count(Tail(d), x) \in Nat
        BY <2>3, <2>4, CountAt
    <3>4. CASE Head(d) = x
      <4>1. Count(Append(q, Head(d)), x) = Count(q, x) + 1 /\ Count(d, x) = Count(Tail(d), x) + 1
        BY <3>1, <3>2, <3>4
      <4>2. ~ (x.type # "completion")
        BY <2>4, <3>4
      <4> QED  BY <3>3, <4>1, <4>2
    <3>5. CASE Head(d) # x
        BY <3>1, <3>2, <3>3, <3>5
    <3> QED  BY <3>4, <3>5
  <2>7. ASSUME NEW x
        PROVE  /\ Count(queue_tasks, x)' = Count(Append(q, Head(d)), x)
               /\ Count(queue_tasks_deferred, x)' = Count(Tail(d), x)
    BY <2>2 DEF Count
  <2> QED  BY <2>1, <2>5, <2>6, <2>7
<1> QED  BY <1>2, <1>3

-----------------------------------------------------------------------------
(* The slots.                                                              *)

\* The slots, as sl has them, that run the task id.
RunOn(sl, id) == {s \in Slots : sl[s].state # "idle" /\ sl[s].id_task = id}

LEMMA SlotsFinite == IsFiniteSet(Slots) /\ Slots # {} /\ Slots \subseteq Int
<1>1. NSlots \in Nat \ {0}
    BY ServerAssumption
<1>2. IsFiniteSet(0 .. NSlots - 1)
    BY <1>1, FS_Interval
<1>3. 0 \in 0 .. NSlots - 1 /\ 0 .. NSlots - 1 \subseteq Int
    BY <1>1
<1> QED  BY <1>2, <1>3 DEF Slots

LEMMA OnSlotsNat ==
    \A id : /\ IsFiniteSet(RunOn(slots, id)) /\ OnSlots(id) = Cardinality(RunOn(slots, id))
            /\ OnSlots(id) \in Nat
            /\ OnSlots(id) = 0 <=> \A s \in Slots : ~ (IsProcessing(s) /\ slots[s].id_task = id)
<1> TAKE id
<1>1. RunOn(slots, id) \subseteq Slots /\ OnSlots(id) = Cardinality(RunOn(slots, id))
    BY DEF RunOn, OnSlots, IsProcessing
<1>2. IsFiniteSet(RunOn(slots, id))
    BY <1>1, SlotsFinite, FS_Subset
<1>3. Cardinality(RunOn(slots, id)) \in Nat /\ (Cardinality(RunOn(slots, id)) = 0 <=> RunOn(slots, id) = {})
    BY <1>2, FS_CardinalityType, FS_EmptySet
<1> QED  BY <1>1, <1>2, <1>3 DEF RunOn, IsProcessing

\* One slot changes: it starts to run a task, ends it, or neither.
LEMMA OneSlot ==
    ASSUME NEW s \in Slots, \A u \in Slots \ {s} : slots'[u] = slots[u], NEW id
    PROVE  /\ s \in RunOn(slots, id) /\ s \in RunOn(slots', id) => OnSlots(id)' = OnSlots(id)
           /\ s \notin RunOn(slots, id) /\ s \notin RunOn(slots', id) => OnSlots(id)' = OnSlots(id)
           /\ s \in RunOn(slots, id) /\ s \notin RunOn(slots', id) => OnSlots(id)' = OnSlots(id) - 1
           /\ s \notin RunOn(slots, id) /\ s \in RunOn(slots', id) => OnSlots(id)' = OnSlots(id) + 1
<1>1. PICK a, b : a = RunOn(slots, id) /\ b = RunOn(slots', id)
    OBVIOUS
<1>2. OnSlots(id) = Cardinality(a) /\ IsFiniteSet(a) /\ Cardinality(a) \in Nat
    BY <1>1, OnSlotsNat
<1>3. OnSlots(id)' = Cardinality(b)
    BY <1>1 DEF OnSlots, RunOn, IsProcessing
<1>4. \A u : u # s => (u \in a <=> u \in b)
    BY <1>1 DEF RunOn
<1>5. s \in a /\ s \in b => a = b
    BY <1>4
<1>6. s \notin a /\ s \notin b => a = b
    BY <1>4
<1>7. s \in a /\ s \notin b => b = a \ {s}
    BY <1>4
<1>8. s \notin a /\ s \in b => b = a \cup {s}
    BY <1>4
<1>9. /\ s \notin a => Cardinality(a \cup {s}) = Cardinality(a) + 1
      /\ s \in a => Cardinality(a \ {s}) = Cardinality(a) - 1
    BY <1>2, FS_AddElement, FS_RemoveElement
<1> QED  BY <1>1, <1>2, <1>3, <1>5, <1>6, <1>7, <1>8, <1>9

LEMMA SameRunning ==
    ASSUME \A s \in Slots : /\ slots'[s].state = "idle" <=> slots[s].state = "idle"
                            /\ slots'[s].id_task = slots[s].id_task
    PROVE  \A id : OnSlots(id)' = OnSlots(id)
<1> TAKE id
<1>1. RunOn(slots', id) = RunOn(slots, id)
    BY DEF RunOn
<1>2. OnSlots(id)' = Cardinality(RunOn(slots', id)) /\ OnSlots(id) = Cardinality(RunOn(slots, id))
    BY DEF OnSlots, RunOn, IsProcessing
<1> QED  BY <1>1, <1>2

\* What a step does to the two queues when it only moves deferred tasks.
OnlyMoves ==
    /\ \A x : Count(queue_tasks, x)' + Count(queue_tasks_deferred, x)'
                = Count(queue_tasks, x) + Count(queue_tasks_deferred, x)
    /\ \A x : x.type # "completion" => Count(queue_tasks, x)' = Count(queue_tasks, x)

LEMMA UnchangedMoves == UNCHANGED queuevars => OnlyMoves
  BY DEF queuevars, OnlyMoves, Count

LEMMA ReleaseFacts ==
    ASSUME QueuesOK, SlotsOK, LruOK, NEW s \in Slots, Release(s)
    PROVE  /\ QueuesOK' /\ SlotsOK' /\ LruOK' /\ OnlyMoves
           /\ \A u \in Slots \ {s} : slots'[u] = slots[u]
           /\ slots'[s].state = "idle" /\ slots'[s].id_task = slots[s].id_task
<1>1. slots \in [Slots -> Slot] /\ \A u \in Slots : slots[u].state # "idle" => slots[u].id_task \in AllIds
    BY DEF SlotsOK, IsProcessing
<1>2. CASE IsProcessing(s)
  <2>1. slots' = Released(slots, s) /\ lru' = Used(s) /\ PopDeferred
    BY <1>2 DEF Release
  <2>2. PICK z : z = slots[s]
    OBVIOUS
  <2>3. slots' = [slots EXCEPT ![s] = [z EXCEPT !.state = "idle"]]
    BY <2>1, <2>2 DEF Released
  <2>4. z \in Slot
    BY <1>1, <2>2
  <2>5. [z EXCEPT !.state = "idle"] \in Slot /\ [z EXCEPT !.state = "idle"].id_task = z.id_task
        /\ [z EXCEPT !.state = "idle"].state = "idle"
    BY <2>4 DEF Slot, SlotStates
  <2>6. slots' \in [Slots -> Slot] /\ slots'[s] = [z EXCEPT !.state = "idle"]
        /\ \A u \in Slots \ {s} : slots'[u] = slots[u]
    BY <1>1, <2>3, <2>5
  <2>7. SlotsOK'
    BY <1>1, <2>5, <2>6 DEF SlotsOK, IsProcessing
  <2>8. LruOK'
    <3>1. Used(s) \in Seq(Slots) /\ Len(Used(s)) = NSlots /\ \A u \in Slots : Count(Used(s), u) = 1
        BY UsedOK
    <3> QED  BY <2>1, <3>1 DEF LruOK
  <2>9. QueuesOK' /\ OnlyMoves
    BY <2>1, PopFacts DEF OnlyMoves
  <2> QED  BY <2>2, <2>5, <2>6, <2>7, <2>8, <2>9
<1>3. CASE ~ IsProcessing(s)
  <2>1. UNCHANGED <<slots, lru, queue_tasks, queue_tasks_deferred>>
    BY <1>3 DEF Release
  <2>2. QueuesOK' /\ SlotsOK' /\ LruOK'
    BY <2>1 DEF QueuesOK, SlotsOK, LruOK, IsProcessing, Count
  <2>3. OnlyMoves
    BY <2>1, UnchangedMoves DEF queuevars
  <2> QED  BY <1>3, <2>1, <2>2, <2>3 DEF IsProcessing
<1> QED  BY <1>2, <1>3

-----------------------------------------------------------------------------
(* Every step keeps the types.                                             *)

\* What a step leaves alone keeps its type.
LEMMA SameTypes ==
    TypeInv =>
        /\ UNCHANGED queuevars => QueuesOK'
        /\ UNCHANGED resultvars => ResultsOK'
        /\ UNCHANGED send_buffer => SendOK'
        /\ UNCHANGED slots => SlotsOK'
        /\ UNCHANGED lru => LruOK'
        /\ UNCHANGED main => MainOK'
        /\ UNCHANGED httpvars => HttpOK'
<1> SUFFICES ASSUME TypeInv
             PROVE  /\ UNCHANGED queuevars => QueuesOK'
                    /\ UNCHANGED resultvars => ResultsOK'
                    /\ UNCHANGED send_buffer => SendOK'
                    /\ UNCHANGED slots => SlotsOK'
                    /\ UNCHANGED lru => LruOK'
                    /\ UNCHANGED main => MainOK'
                    /\ UNCHANGED httpvars => HttpOK'
    OBVIOUS
<1>1. UNCHANGED queuevars => QueuesOK'
    BY DEF TypeInv, queuevars, QueuesOK
<1>2. UNCHANGED resultvars => ResultsOK'
    BY DEF TypeInv, resultvars, ResultsOK
<1>3. UNCHANGED send_buffer => SendOK'
    BY DEF TypeInv, SendOK
<1>4. UNCHANGED slots => SlotsOK'
    BY DEF TypeInv, SlotsOK, IsProcessing
<1>5. UNCHANGED lru => LruOK'
    BY DEF TypeInv, LruOK, Count
<1>6. UNCHANGED main => MainOK'
    BY DEF TypeInv, MainOK
<1>7. UNCHANGED httpvars => HttpOK'
    BY DEF TypeInv, httpvars, HttpOK
<1> QED  BY <1>1, <1>2, <1>3, <1>4, <1>5, <1>6, <1>7

LEMMA InitTypes == Init => TypeInv
<1> SUFFICES ASSUME Init PROVE TypeInv
    OBVIOUS
<1>1. NSlots \in Nat \ {0}
    BY ServerAssumption
<1>2. QueuesOK /\ ResultsOK /\ SendOK /\ HttpOK
    BY DEF Init, QueuesOK, ResultsOK, SendOK, HttpOK
<1>3. MainOK
  <2>1. 0 \in Slots /\ 0 \in 0 .. BatchSize /\ NBatch \in 1 .. NBatch
    BY BatchFacts DEF Slots
  <2> QED  BY <2>1, TaskFacts DEF Init, MainOK, MainType, MainPhases
<1>4. SlotsOK
  <2>1. [state |-> "idle", id_task |-> NoId, left |-> 0, n_decoded |-> 0, i_batch |-> -1] \in Slot
    BY BatchFacts DEF Slot, SlotStates
  <2> QED  BY <2>1 DEF Init, SlotsOK, IsProcessing
<1>5. LruOK
  <2> DEFINE q == [k \in 1 .. NSlots |-> k - 1]
  <2>1. q \in Seq(Slots) /\ Len(q) = NSlots /\ DOMAIN q = 1 .. NSlots
    BY <1>1 DEF Slots
  <2>2. ASSUME NEW s \in Slots PROVE Count(q, s) = 1
    <3>1. s + 1 \in 1 .. NSlots
        BY <1>1 DEF Slots
    <3>2. \A k \in 1 .. NSlots : q[k] = s <=> k = s + 1
        BY <1>1 DEF Slots
    <3>3. At(q, s) = {s + 1}
        BY <2>1, <3>1, <3>2 DEF At
    <3>4. Count(q, s) = Cardinality(At(q, s))
        BY <2>1, CountAt
    <3> QED  BY <3>3, <3>4, FS_Singleton
  <2> HIDE DEF q
  <2>3. lru = q
    BY DEF Init, q
  <2> QED  BY <2>1, <2>2, <2>3 DEF LruOK
<1> QED  BY <1>2, <1>3, <1>4, <1>5 DEF TypeInv

LEMMA IsSeq ==
    ASSUME NEW T, NEW n \in Nat, NEW z \in [1 .. n -> T]
    PROVE  z \in Seq(T) /\ Len(z) = n /\ DOMAIN z = 1 .. n
  OBVIOUS

\* The tasks a request posts.
LEMMA PostedFacts ==
    ASSUME NEW r \in Requests, NEW z, z = [i \in DOMAIN Body[r].prompts |-> Completion(<<r, i>>)]
    PROVE  /\ z \in Seq(Task)
           /\ \A id \in AllIds : Count(z, Completion(id)) = IF id \in Ids(r) THEN 1 ELSE 0
           /\ \A x : x.type # "completion" => Count(z, x) = 0
<1>0. PICK n : n = Len(Body[r].prompts)
    OBVIOUS
<1>1. /\ n \in Nat /\ DOMAIN Body[r].prompts = 1 .. n
      /\ \A i \in 1 .. n : <<r, i>> \in Ids(r)
    BY <1>0, IdFacts
<1>2. /\ z = [i \in 1 .. n |-> Completion(<<r, i>>)]
      /\ \A i \in 1 .. n : <<r, i>> \in AllIds /\ z[i] = Completion(<<r, i>>)
    BY <1>1, IdFacts
<1>3. z \in Seq(Task) /\ Len(z) = n /\ DOMAIN z = 1 .. n
  <2>1. \A i \in 1 .. n : Completion(<<r, i>>) \in Task
    BY <1>2, TaskFacts
  <2>2. z \in [1 .. n -> Task]
    BY <1>2, <2>1
  <2> QED  BY <1>1, <2>2, IsSeq
<1>4. ASSUME NEW id \in AllIds PROVE Count(z, Completion(id)) = IF id \in Ids(r) THEN 1 ELSE 0
  <2>1. CASE id \in Ids(r)
    <3>1. PICK i \in 1 .. n : id = <<r, i>>
        BY <1>0, <1>1, <2>1, IdFacts
    <3>2. \A k \in 1 .. n : z[k] = Completion(id) <=> k = i
      <4> TAKE k \in 1 .. n
      <4>1. z[k] = Completion(id) => <<r, k>> = id
        BY <1>2, TaskFacts
      <4>2. k = i => z[k] = Completion(id)
        BY <1>2, <3>1
      <4> QED  BY <3>1, <4>1, <4>2
    <3>3. At(z, Completion(id)) = {i}
        BY <1>3, <3>2 DEF At
    <3>4. Count(z, Completion(id)) = Cardinality(At(z, Completion(id)))
        BY <1>3, CountAt
    <3>5. Cardinality({i}) = 1
        BY FS_Singleton
    <3> QED  BY <2>1, <3>3, <3>4, <3>5
  <2>2. CASE id \notin Ids(r)
    <3>1. \A k \in 1 .. Len(z) : z[k] # Completion(id)
        BY <1>1, <1>2, <1>3, <2>2, TaskFacts
    <3>2. Count(z, Completion(id)) = 0
        BY <1>3, <3>1, CountNone
    <3> QED  BY <2>2, <3>2
  <2> QED  BY <2>1, <2>2
<1>5. ASSUME NEW x, x.type # "completion" PROVE Count(z, x) = 0
  <2>1. \A k \in 1 .. n : z[k].type = "completion"
    BY <1>2, TaskFacts
  <2>2. \A k \in 1 .. Len(z) : z[k] # x
    BY <1>3, <1>5, <2>1
  <2> QED  BY <1>3, <2>2, CountNone
<1> QED  BY <1>3, <1>4, <1>5

\* The cancellations a request posts.
LEMMA CancelFacts ==
    ASSUME NEW r \in Requests, NEW n, n = Len(Body[r].prompts),
           NEW z, z = [i \in 1 .. n |-> Cancel(<<r, n + 1 - i>>)]
    PROVE  /\ z \in Seq(Task)
           /\ \A x : x.type # "cancel" => Count(z, x) = 0
           /\ \A id \in AllIds : id \notin Ids(r) => Count(z, Cancel(id)) = 0
<1>1. n \in Nat /\ \A i \in 1 .. n : <<r, i>> \in Ids(r)
    BY IdFacts
<1>2. \A i \in 1 .. n : n + 1 - i \in 1 .. n
    BY <1>1
<1>3. \A i \in 1 .. n : <<r, n + 1 - i>> \in Ids(r) /\ <<r, n + 1 - i>> \in AllIds
    BY <1>1, <1>2, IdFacts
<1>4. \A i \in 1 .. n : z[i] = Cancel(<<r, n + 1 - i>>) /\ z[i] \in Task /\ z[i].type = "cancel"
                        /\ z[i].id_target \in Ids(r)
    BY <1>3, TaskFacts
<1>5. z \in Seq(Task) /\ Len(z) = n
  <2>1. n \in Nat /\ z \in [1 .. n -> Task]
    BY <1>1, <1>4
  <2> QED  BY ONLY <2>1, IsSeq
<1>6. ASSUME NEW x, x.type # "cancel" PROVE Count(z, x) = 0
  <2>1. \A k \in 1 .. Len(z) : z[k] # x
    BY <1>4, <1>5, <1>6
  <2> QED  BY <1>5, <2>1, CountNone
<1>7. ASSUME NEW id \in AllIds, id \notin Ids(r) PROVE Count(z, Cancel(id)) = 0
  <2>1. Cancel(id).id_target \notin Ids(r)
    BY <1>7, TaskFacts
  <2>2. \A k \in 1 .. Len(z) : z[k] # Cancel(id)
    BY <1>4, <1>5, <2>1
  <2> QED  BY <1>5, <2>2, CountNone
<1> QED  BY <1>5, <1>6, <1>7

\* cleanup_pending_task leaves completions and NEXT_RESPONSE tasks alone.
LEMMA CleanedUpFacts ==
    ASSUME NEW q \in Seq(Task), NEW r \in Requests, NEW z, z = CleanedUp(q, Ids(r))
    PROVE  /\ z \in Seq(Task) /\ PartOf(z, q)
           /\ \A x \in Task : x.type # "cancel" => Count(z, x) = Count(q, x)
           /\ \A x : Count(z, x) <= Count(q, x) /\ Count(z, x) \in Nat /\ Count(q, x) \in Nat
<1>1. PICK S : S = {t \in Task : t.id_target \notin Ids(r)} /\ z = Kept(q, S)
    BY DEF CleanedUp
<1>2. \A x \in Task : x.type # "cancel" => x \in S
  <2>1. ASSUME NEW x \in Task, x.type # "cancel" PROVE x.id_target \notin Ids(r)
    <3>1. x.id_target = NoId
        BY <2>1 DEF Task, Completion, Cancel, NextResponse
    <3> QED  BY <3>1, IdFacts
  <2> QED  BY <1>1, <2>1
<1>3. z \in Seq(Task) /\ PartOf(z, q)
    BY <1>1, KeptFacts
<1>4. \A x : Count(z, x) \in Nat /\ Count(q, x) \in Nat
    BY <1>3, CountAt
<1>5. ASSUME NEW x
      PROVE  /\ x \in S => Count(z, x) = Count(q, x)
             /\ x \notin S => Count(z, x) = 0
    BY <1>1, KeptCount
<1>6. \A x : Count(z, x) <= Count(q, x)
  <2> TAKE x
  <2>1. Count(z, x) = Count(q, x) \/ Count(z, x) = 0
    BY <1>5
  <2> QED  BY <1>4, <2>1
<1> QED  BY <1>2, <1>3, <1>4, <1>5, <1>6

\* Steps of one HTTP thread: its own state, and the queues.
LEMMA AddWaitingTypes ==
    ASSUME TypeInv, NEW r \in Requests, AddWaiting(r)
    PROVE  TypeInv'
<1>1. Ids(r) \subseteq AllIds
    BY DEF AllIds
<1>2. ResultsOK'
    BY <1>1 DEF TypeInv, ResultsOK, AddWaiting
<1>3. HttpOK'
    BY DEF TypeInv, HttpOK, AddWaiting
<1> QED  BY <1>2, <1>3, SameTypes DEF TypeInv, AddWaiting, queuevars, mainvars

LEMMA PostTasksTypes ==
    ASSUME TypeInv, NEW r \in Requests, PostTasks(r)
    PROVE  TypeInv'
<1>1. PICK z, q : /\ z = [i \in DOMAIN Body[r].prompts |-> Completion(<<r, i>>)]
                  /\ q = queue_tasks
    OBVIOUS
<1>2. z \in Seq(Task) /\ q \in Seq(Task) /\ queue_tasks' = q \o z
    BY <1>1, PostedFacts DEF PostTasks, TypeInv, QueuesOK
<1>3. q \o z \in Seq(Task)
    BY <1>2, ConcatProperties
<1>4. QueuesOK'
    BY <1>2, <1>3 DEF TypeInv, QueuesOK, PostTasks
<1>5. HttpOK'
    BY DEF TypeInv, HttpOK, PostTasks
<1> QED  BY <1>4, <1>5, SameTypes DEF TypeInv, PostTasks, mainvars

\* Receive, as it is used: the first result of the request, and its place.
LEMMA ReceiveFacts ==
    ASSUME TypeInv, NEW r \in Requests, Receive(r)
    PROVE  \E k \in 1 .. Len(queue_results), res \in Result, fin \in Nat :
                /\ res = queue_results[k] /\ res.id \in Ids(r)
                /\ \A j \in 1 .. k - 1 : queue_results[j].id \notin Ids(r)
                /\ queue_results' = RemoveAt(queue_results, k)
                /\ fin = n_finished[r] + (IF res.stop THEN 1 ELSE 0)
                /\ IF closed[r]
                   THEN /\ hpc' = [hpc EXCEPT ![r] = "cancel"]
                        /\ to_cancel' = [to_cancel EXCEPT ![r] = Ids(r)]
                        /\ UNCHANGED n_finished
                   ELSE /\ n_finished' = [n_finished EXCEPT ![r] = fin]
                        /\ hpc' = [hpc EXCEPT ![r] =
                                    IF fin = Cardinality(Ids(r)) THEN "complete" ELSE "recv"]
                        /\ UNCHANGED to_cancel
<1>1. PICK k \in DOMAIN queue_results :
        /\ queue_results[k].id \in Ids(r)
        /\ \A j \in 1 .. k - 1 : queue_results[j].id \notin Ids(r)
        /\ queue_results' = RemoveAt(queue_results, k)
        /\ IF closed[r]
           THEN /\ hpc' = [hpc EXCEPT ![r] = "cancel"]
                /\ to_cancel' = [to_cancel EXCEPT ![r] = Ids(r)]
                /\ UNCHANGED n_finished
           ELSE /\ n_finished' = [n_finished EXCEPT ![r] =
                                    n_finished[r] + IF queue_results[k].stop THEN 1 ELSE 0]
                /\ hpc' = [hpc EXCEPT ![r] =
                            IF n_finished[r] + (IF queue_results[k].stop THEN 1 ELSE 0)
                                = Cardinality(Ids(r)) THEN "complete" ELSE "recv"]
                /\ UNCHANGED to_cancel
    BY DEF Receive
<1>2. queue_results \in Seq(Result) /\ n_finished[r] \in Nat
    BY DEF TypeInv, ResultsOK, HttpOK
<1>3. PICK res, fin : /\ res = queue_results[k]
                      /\ fin = n_finished[r] + (IF res.stop THEN 1 ELSE 0)
    OBVIOUS
<1>4. k \in 1 .. Len(queue_results) /\ res \in Result /\ fin \in Nat
    BY <1>2, <1>3
<1> QED  BY <1>1, <1>3, <1>4

LEMMA ReceiveTypes ==
    ASSUME TypeInv, NEW r \in Requests, Receive(r)
    PROVE  TypeInv'
<1>1. PICK k \in 1 .. Len(queue_results), res \in Result, fin \in Nat :
        /\ res = queue_results[k] /\ res.id \in Ids(r)
        /\ \A j \in 1 .. k - 1 : queue_results[j].id \notin Ids(r)
        /\ queue_results' = RemoveAt(queue_results, k)
        /\ fin = n_finished[r] + (IF res.stop THEN 1 ELSE 0)
        /\ IF closed[r]
           THEN /\ hpc' = [hpc EXCEPT ![r] = "cancel"]
                /\ to_cancel' = [to_cancel EXCEPT ![r] = Ids(r)]
                /\ UNCHANGED n_finished
           ELSE /\ n_finished' = [n_finished EXCEPT ![r] = fin]
                /\ hpc' = [hpc EXCEPT ![r] =
                            IF fin = Cardinality(Ids(r)) THEN "complete" ELSE "recv"]
                /\ UNCHANGED to_cancel
    BY ReceiveFacts
<1>2. queue_results \in Seq(Result)
    BY DEF TypeInv, ResultsOK
<1>3. RemoveAt(queue_results, k) \in Seq(Result)
    BY <1>2, RemoveAtFacts
<1>4. ResultsOK'
    BY <1>1, <1>3 DEF TypeInv, ResultsOK, Receive
<1>5. HttpOK'
  <2>1. Ids(r) \subseteq AllIds
    BY DEF AllIds
  <2>2. UNCHANGED closed
    BY DEF Receive
  <2>3. CASE closed[r]
    BY <1>1, <2>1, <2>2, <2>3 DEF TypeInv, HttpOK
  <2>4. CASE ~ closed[r]
    BY <1>1, <2>2, <2>4 DEF TypeInv, HttpOK
  <2> QED  BY <2>3, <2>4
<1> QED  BY <1>4, <1>5, SameTypes DEF TypeInv, Receive, mainvars

LEMMA RemoveWaitingTypes ==
    ASSUME TypeInv, NEW r \in Requests, RemoveWaiting(r)
    PROVE  TypeInv'
<1>1. PICK id \in to_cancel[r] :
        /\ to_cancel' = [to_cancel EXCEPT ![r] = @ \ {id}]
        /\ waiting_task_ids' = waiting_task_ids \ {id}
        /\ queue_results' = Kept(queue_results, {res \in Result : res.id # id})
    BY DEF RemoveWaiting
<1>2. PICK q, S : q = queue_results /\ S = {res \in Result : res.id # id}
    OBVIOUS
<1>3. q \in Seq(Result) /\ queue_results' = Kept(q, S)
    BY <1>1, <1>2 DEF TypeInv, ResultsOK
<1>4. PICK z : z = Kept(q, S)
    OBVIOUS
<1>5. z \in Seq(Result)
    BY <1>3, <1>4, KeptFacts
<1>6. ResultsOK'
    BY <1>1, <1>3, <1>4, <1>5 DEF TypeInv, ResultsOK
<1>7. HttpOK'
    BY <1>1 DEF TypeInv, HttpOK, RemoveWaiting
<1> QED  BY <1>6, <1>7, SameTypes DEF TypeInv, RemoveWaiting, mainvars

\* PostCancel: what was queued, without the cancellations, after those of r.
LEMMA PostCancelFacts ==
    ASSUME QueuesOK, NEW r \in Requests, PostCancel(r)
    PROVE  /\ QueuesOK'
           /\ \A x \in Task : x.type # "cancel" =>
                    /\ Count(queue_tasks, x)' = Count(queue_tasks, x)
                    /\ Count(queue_tasks_deferred, x)' = Count(queue_tasks_deferred, x)
           /\ \A id \in AllIds : id \notin Ids(r) =>
                    Count(queue_tasks, Cancel(id))' <= Count(queue_tasks, Cancel(id))
           /\ queue_tasks_deferred' # <<>> => queue_tasks_deferred # <<>>
<1>1. PICK n, q, d : n = Len(Body[r].prompts) /\ q = queue_tasks /\ d = queue_tasks_deferred
    OBVIOUS
<1>2. PICK c, qq, dd : /\ c = [i \in 1 .. n |-> Cancel(<<r, n + 1 - i>>)]
                       /\ qq = CleanedUp(q, Ids(r)) /\ dd = CleanedUp(d, Ids(r))
    OBVIOUS
<1>3. queue_tasks' = c \o qq /\ queue_tasks_deferred' = dd
    BY <1>1, <1>2 DEF PostCancel
<1>4. /\ q \in Seq(Task) /\ d \in Seq(Task)
      /\ \A k \in 1 .. Len(d) : d[k].type = "completion"
    BY <1>1 DEF QueuesOK
<1>5. /\ c \in Seq(Task)
      /\ \A x : x.type # "cancel" => Count(c, x) = 0
      /\ \A id \in AllIds : id \notin Ids(r) => Count(c, Cancel(id)) = 0
    BY <1>1, <1>2, CancelFacts
<1>6. /\ qq \in Seq(Task)
      /\ \A x \in Task : x.type # "cancel" => Count(qq, x) = Count(q, x)
      /\ \A x : Count(qq, x) <= Count(q, x) /\ Count(qq, x) \in Nat /\ Count(q, x) \in Nat
    BY <1>2, <1>4, CleanedUpFacts
<1>7. /\ dd \in Seq(Task) /\ PartOf(dd, d)
      /\ \A x \in Task : x.type # "cancel" => Count(dd, x) = Count(d, x)
    BY <1>2, <1>4, CleanedUpFacts
<1>8. \A x : Count(c \o qq, x) = Count(c, x) + Count(qq, x)
    BY <1>5, <1>6, CountConcat
<1>9. \A k \in 1 .. Len(dd) : \E j \in 1 .. Len(d) : dd[k] = d[j]
    BY <1>7 DEF PartOf
<1>10. QueuesOK'
  <2>1. c \o qq \in Seq(Task)
    BY <1>5, <1>6, ConcatProperties
  <2>2. \A k \in 1 .. Len(dd) : dd[k].type = "completion"
    BY <1>4, <1>9
  <2> QED  BY <1>3, <1>7, <2>1, <2>2 DEF QueuesOK
<1>11. ASSUME NEW x PROVE /\ Count(queue_tasks, x)' = Count(c, x) + Count(qq, x)
                          /\ Count(queue_tasks_deferred, x)' = Count(dd, x)
                          /\ Count(queue_tasks, x) = Count(q, x)
                          /\ Count(queue_tasks_deferred, x) = Count(d, x)
    BY <1>1, <1>3, <1>8 DEF Count
<1>12. ASSUME NEW x \in Task, x.type # "cancel"
       PROVE  /\ Count(queue_tasks, x)' = Count(queue_tasks, x)
              /\ Count(queue_tasks_deferred, x)' = Count(queue_tasks_deferred, x)
  <2>1. Count(c, x) = 0 /\ Count(qq, x) = Count(q, x) /\ Count(dd, x) = Count(d, x) /\ Count(q, x) \in Nat
    BY <1>5, <1>6, <1>7, <1>12
  <2> QED  BY <1>11, <2>1
<1>13. ASSUME NEW id \in AllIds, id \notin Ids(r)
       PROVE  Count(queue_tasks, Cancel(id))' <= Count(queue_tasks, Cancel(id))
  <2>1. PICK x : x = Cancel(id)
    OBVIOUS
  <2>2. Count(c, x) = 0 /\ Count(qq, x) <= Count(q, x) /\ Count(qq, x) \in Nat
    BY <1>5, <1>6, <1>13, <2>1
  <2>3. Count(queue_tasks, x)' <= Count(queue_tasks, x)
    BY <1>11, <2>2
  <2>4. Count(queue_tasks, Cancel(id))' = Count(queue_tasks, x)'
    BY <2>1 DEF Count
  <2> QED  BY <2>1, <2>3, <2>4
<1>14. queue_tasks_deferred' # <<>> => queue_tasks_deferred # <<>>
  <2>1. CASE d = <<>>
    <3>1. Len(d) = 0
        BY <2>1
    <3>2. Len(dd) = 0
        BY <1>7, <1>9, <3>1
    <3>3. dd = <<>>
        BY <1>7, <3>2
    <3> QED  BY <1>3, <3>3
  <2> QED  BY <1>1, <2>1
<1> QED  BY <1>10, <1>12, <1>13, <1>14

LEMMA OtherHttpTypes ==
    ASSUME TypeInv, NEW r \in Requests,
           StartStream(r) \/ Timeout(r) \/ PostCancel(r) \/ Complete(r) \/ Disconnect(r)
    PROVE  TypeInv'
<1>1. CASE StartStream(r)
  <2>1. HttpOK'
    BY <1>1 DEF TypeInv, HttpOK, StartStream
  <2> QED  BY <1>1, <2>1, SameTypes DEF TypeInv, StartStream, mainvars
<1>2. CASE Timeout(r)
  <2>1. Ids(r) \subseteq AllIds
    BY DEF AllIds
  <2>2. HttpOK'
    BY <1>2, <2>1 DEF TypeInv, HttpOK, Timeout
  <2> QED  BY <1>2, <2>2, SameTypes DEF TypeInv, Timeout, mainvars
<1>3. CASE PostCancel(r)
  <2>1. QueuesOK'
    BY <1>3, PostCancelFacts DEF TypeInv
  <2>2. HttpOK'
    BY <1>3 DEF TypeInv, HttpOK, PostCancel
  <2> QED  BY <1>3, <2>1, <2>2, SameTypes DEF TypeInv, PostCancel, mainvars
<1>4. CASE Complete(r)
  <2>1. HttpOK' /\ ResultsOK'
    BY <1>4 DEF TypeInv, HttpOK, ResultsOK, Complete
  <2> QED  BY <1>4, <2>1, SameTypes DEF TypeInv, Complete, mainvars
<1>5. CASE Disconnect(r)
  <2>1. HttpOK'
    BY <1>5 DEF TypeInv, HttpOK, Disconnect
  <2> QED  BY <1>5, <2>1, SameTypes DEF TypeInv, Disconnect, mainvars
<1> QED  BY <1>1, <1>2, <1>3, <1>4, <1>5

\* Steps of the main thread.
LEMMA MainFacts ==
    TypeInv => /\ main \in MainType /\ main.task \in Task /\ main.pc \in MainPhases
               /\ main.i \in Slots /\ main.n_tokens \in 0 .. BatchSize
               /\ main.view \in 0 .. BatchSize /\ main.n_batch \in 1 .. NBatch
               /\ NSlots \in Nat \ {0}
<1> SUFFICES ASSUME TypeInv
             PROVE  main \in MainType /\ NSlots \in Nat \ {0}
    BY DEF MainType
<1> QED  BY BatchFacts DEF TypeInv, MainOK

LEMMA PcChanges ==
    ASSUME TypeInv, NEW c \in MainPhases,
           main' = [main EXCEPT !.pc = c]
    PROVE  MainOK'
  BY MainFacts DEF MainOK, MainType

LEMMA PickFacts ==
    ASSUME TypeInv, Pick, NEW q, q = queue_tasks, q # <<>>
    PROVE  /\ q \in Seq(Task) /\ Head(q) \in Task /\ queue_tasks' = Tail(q)
           /\ main' = [main EXCEPT !.pc = "process", !.task = Head(q)]
           /\ main'.pc = "process" /\ main'.task = Head(q)
<1>1. /\ main' = [main EXCEPT !.pc = "process", !.task = Head(q)]
      /\ queue_tasks' = Tail(q)
    BY DEF Pick
<1>2. q \in Seq(Task)
    BY DEF TypeInv, QueuesOK
<1>3. Head(q) \in Task
    BY <1>2
<1>4. main'.pc = "process" /\ main'.task = Head(q)
    BY <1>1, MainFacts DEF MainType
<1> QED  BY <1>1, <1>2, <1>3, <1>4

LEMMA PickTypes ==
    ASSUME TypeInv, Pick
    PROVE  TypeInv'
<1>1. CASE queue_tasks = <<>>
  <2>1. main' = [main EXCEPT !.pc = "update"] /\ UNCHANGED <<queue_tasks, queue_tasks_deferred>>
    BY <1>1 DEF Pick
  <2>2. MainOK'
    BY <2>1, PcChanges DEF MainPhases
  <2> QED  BY <2>1, <2>2, SameTypes DEF TypeInv, Pick, queuevars
<1>2. CASE queue_tasks # <<>>
  <2>1. PICK q : q = queue_tasks
    OBVIOUS
  <2>2. /\ q \in Seq(Task) /\ Head(q) \in Task /\ queue_tasks' = Tail(q)
        /\ main' = [main EXCEPT !.pc = "process", !.task = Head(q)]
    BY <1>2, <2>1, PickFacts
  <2>3. Tail(q) \in Seq(Task)
    BY <1>2, <2>1, <2>2
  <2>4. QueuesOK'
    BY <2>2, <2>3 DEF TypeInv, QueuesOK, Pick
  <2>5. MainOK'
    BY <2>2, MainFacts DEF MainOK, MainType, MainPhases
  <2> QED  BY <2>4, <2>5, SameTypes DEF TypeInv, Pick
<1> QED  BY <1>1, <1>2

LEMMA DeferFacts ==
    ASSUME TypeInv, Defer, NEW t, t = main.task, NEW d, d = queue_tasks_deferred
    PROVE  /\ t \in Task /\ t.type = "completion" /\ d \in Seq(Task) /\ main.pc = "process"
           /\ queue_tasks_deferred' = Append(d, t) /\ main'.pc = "pick"
           /\ UNCHANGED queue_tasks
  BY MainFacts DEF Defer, TypeInv, QueuesOK, MainType

LEMMA DeferTypes ==
    ASSUME TypeInv, Defer
    PROVE  TypeInv'
<1>1. PICK d, t : d = queue_tasks_deferred /\ t = main.task
    OBVIOUS
<1>2. /\ d \in Seq(Task) /\ \A k \in 1 .. Len(d) : d[k].type = "completion"
      /\ t \in Task /\ t.type = "completion"
    BY <1>1, MainFacts DEF TypeInv, QueuesOK, Defer
<1>3. queue_tasks_deferred' = Append(d, t) /\ main' = [main EXCEPT !.pc = "pick"]
    BY <1>1 DEF Defer
<1>4. Append(d, t) \in Seq(Task) /\ \A k \in 1 .. Len(Append(d, t)) : Append(d, t)[k].type = "completion"
  <2>1. Append(d, t) \in Seq(Task) /\ Len(Append(d, t)) = Len(d) + 1 /\ Len(d) \in Nat
    BY <1>2
  <2>2. /\ \A k \in 1 .. Len(d) : Append(d, t)[k] = d[k]
        /\ Append(d, t)[Len(d) + 1] = t
    BY <1>2
  <2>3. \A k \in 1 .. Len(d) + 1 : k \in 1 .. Len(d) \/ k = Len(d) + 1
    BY <2>1
  <2> QED  BY <1>2, <2>1, <2>2, <2>3
<1>5. QueuesOK'
    BY <1>3, <1>4 DEF TypeInv, QueuesOK, Defer
<1>6. MainOK'
    BY <1>3, PcChanges DEF MainPhases
<1> QED  BY <1>5, <1>6, SameTypes DEF TypeInv, Defer

LEMMA CandidateFacts ==
    ASSUME TypeInv, NEW id \in AllIds, NEW s \in Candidates(id)
    PROVE  s \in Slots /\ ~ IsProcessing(s)
<1>1. CASE IdSlot(id) # -1
    BY <1>1 DEF Candidates
<1>2. CASE IdSlot(id) = -1
  <2>1. PICK k \in 1 .. NSlots : ~ IsProcessing(lru[k]) /\ s = lru[k]
    BY <1>2 DEF Candidates
  <2>2. lru[k] \in Slots
    BY DEF TypeInv, LruOK
  <2> QED  BY <2>1, <2>2
<1> QED  BY <1>1, <1>2

LEMMA LaunchFacts ==
    ASSUME TypeInv, Launch
    PROVE  \E s \in Slots, id \in AllIds, ok \in BOOLEAN :
                /\ main.pc = "process" /\ main.task = Completion(id)
                /\ ~ IsProcessing(s) /\ (ok \/ LaunchFails)
                /\ slots' \in [Slots -> Slot]
                /\ \A u \in Slots \ {s} : slots'[u] = slots[u]
                /\ slots'[s].id_task = id
                /\ slots'[s].state = IF ok THEN "started" ELSE "idle"
<1>1. PICK id : id = main.task.id
    OBVIOUS
<1>2. id \in AllIds /\ main.task = Completion(id) /\ main.pc = "process"
    BY <1>1, MainFacts, TaskFacts DEF Launch
<1>3. PICK s \in Candidates(id), ok \in IF LaunchFails THEN BOOLEAN ELSE {TRUE} :
        slots' = [slots EXCEPT ![s].id_task = id, ![s].left = Prompt(id),
                               ![s].state = IF ok THEN "started" ELSE "idle"]
    BY <1>1 DEF Launch
<1>4. s \in Slots /\ ~ IsProcessing(s)
    BY <1>2, CandidateFacts
<1>5. ok \in BOOLEAN /\ (ok \/ LaunchFails)
  <2>1. CASE LaunchFails
    BY <2>1
  <2>2. CASE ~ LaunchFails
    BY <2>2
  <2> QED  BY <2>1, <2>2
<1>6. PICK z, p, st : z = slots[s] /\ p = Prompt(id) /\ st = IF ok THEN "started" ELSE "idle"
    OBVIOUS
<1>7. z \in Slot /\ slots \in [Slots -> Slot] /\ p \in Nat /\ st \in SlotStates
    BY <1>2, <1>4, <1>6, IdFacts DEF TypeInv, SlotsOK, SlotStates
<1>8. PICK y : y = [z EXCEPT !.id_task = id, !.left = p, !.state = st]
    OBVIOUS
<1>9. slots' = [slots EXCEPT ![s] = y]
    BY <1>3, <1>4, <1>6, <1>7, <1>8
<1>10. y \in Slot /\ y.id_task = id /\ y.state = st
    BY <1>2, <1>7, <1>8 DEF Slot
<1>11. slots' \in [Slots -> Slot] /\ slots'[s] = y /\ \A u \in Slots \ {s} : slots'[u] = slots[u]
    BY <1>4, <1>7, <1>9, <1>10
<1> QED  BY <1>2, <1>4, <1>5, <1>6, <1>10, <1>11

LEMMA LaunchTypes ==
    ASSUME TypeInv, Launch
    PROVE  TypeInv'
<1>1. SlotsOK'
  <2>1. PICK s \in Slots, id \in AllIds : 
            /\ slots' \in [Slots -> Slot] /\ slots'[s].id_task = id
            /\ \A u \in Slots \ {s} : slots'[u] = slots[u]
    BY LaunchFacts
  <2>2. \A u \in Slots : slots[u].state # "idle" => slots[u].id_task \in AllIds
    BY DEF TypeInv, SlotsOK, IsProcessing
  <2>3. \A u \in Slots : slots'[u].state # "idle" => slots'[u].id_task \in AllIds
    BY <2>1, <2>2
  <2> QED  BY <2>1, <2>3 DEF SlotsOK, IsProcessing
<1>2. MainOK'
  <2>1. main' = [main EXCEPT !.pc = "pick"]
    BY DEF Launch
  <2> QED  BY <2>1, PcChanges DEF MainPhases
<1> QED  BY <1>1, <1>2, SameTypes DEF TypeInv, Launch

\* A set of natural numbers has a least element.
LEMMA LeastNat ==
    ASSUME NEW S \in SUBSET Nat, S # {}
    PROVE  \E m \in S : \A x \in S : m <= x
<1>1. PICK m \in S : \A x \in S : ~ (<<x, m>> \in OpToRel(<, Nat))
    BY WFMin, NatLessThanWellFounded
<1>2. \A x \in S : ~ (x < m)
    BY <1>1 DEF OpToRel
<1> QED  BY <1>2

LEMMA ProcessCancelFacts ==
    ASSUME TypeInv, ProcessCancel
    PROVE  /\ main.pc = "process" /\ main.task.type = "cancel"
           /\ \/ UNCHANGED <<slots, lru, queuevars>>
              \/ \E s \in Slots : slots[s].id_task = main.task.id_target /\ Release(s)
<1> DEFINE hit == {s \in Slots : slots[s].id_task = main.task.id_target}
<1>1. /\ main.pc = "process" /\ main.task.type = "cancel"
      /\ IF hit = {} THEN UNCHANGED <<slots, lru, queuevars>>
         ELSE Release(CHOOSE s \in hit : \A x \in hit : s <= x)
    BY DEF ProcessCancel
<1>2. ASSUME hit # {} PROVE \E s \in hit : \A x \in hit : s <= x
  <2>1. hit \in SUBSET Nat
    BY ServerAssumption DEF Slots
  <2> HIDE DEF hit
  <2> QED  BY <1>2, <2>1, LeastNat
<1>3. CASE hit = {}
    BY <1>1, <1>3
<1>4. CASE hit # {}
  <2>1. PICK s : s = CHOOSE u \in hit : \A x \in hit : u <= x
    OBVIOUS
  <2>2. s \in hit
    BY <1>2, <1>4, <2>1
  <2>3. Release(s)
    BY <1>1, <1>4, <2>1
  <2> QED  BY <1>1, <2>2, <2>3
<1> QED  BY <1>3, <1>4

LEMMA ProcessTypes ==
    ASSUME TypeInv, ProcessCancel \/ ProcessNext \/ Wait
    PROVE  TypeInv'
<1>1. MainOK'
  <2>1. main' = [main EXCEPT !.pc = "pick"]
    BY DEF ProcessCancel, ProcessNext, Wait
  <2> QED  BY <2>1, PcChanges DEF MainPhases
<1>2. CASE ProcessCancel
  <2>1. QueuesOK' /\ SlotsOK' /\ LruOK'
    <3>1. CASE UNCHANGED <<slots, lru, queuevars>>
        BY <3>1, SameTypes
    <3>2. CASE \E s \in Slots : Release(s)
        BY <3>2, ReleaseFacts DEF TypeInv
    <3> QED  BY <1>2, <3>1, <3>2, ProcessCancelFacts
  <2> QED  BY <1>1, <1>2, <2>1, SameTypes DEF TypeInv, ProcessCancel
<1>3. CASE ProcessNext
    BY <1>1, <1>3, SameTypes DEF TypeInv, ProcessNext
<1>4. CASE Wait
    BY <1>1, <1>4, SameTypes DEF TypeInv, Wait
<1> QED  BY <1>2, <1>3, <1>4

LEMMA MainGoes ==
    ASSUME TypeInv, NEW c \in MainPhases, NEW i \in Slots, NEW n \in 0 .. BatchSize,
           main' = [main EXCEPT !.n_tokens = n, !.i = i, !.pc = c]
    PROVE  MainOK' /\ main'.pc = c /\ main'.i = i
  BY MainFacts DEF MainType, MainOK

LEMMA UpdateFacts ==
    ASSUME TypeInv, Update
    PROVE  /\ main.pc = "update" /\ MainOK' /\ SlotsOK'
           /\ \A s \in Slots : /\ slots'[s].state = slots[s].state
                               /\ slots'[s].id_task = slots[s].id_task
           /\ \/ /\ main'.pc = "wait" /\ UNCHANGED queue_tasks
                 /\ \A s \in Slots : ~ IsProcessing(s)
              \/ /\ main'.pc \in {"prompt", "decode"}
                 /\ queue_tasks' = Append(queue_tasks, NextResponse)
<1> DEFINE gen == {s \in Slots : slots[s].state = "generating"}
           Rank(s) == Cardinality({x \in gen : x < s})
<1>1. main.pc = "update"
    BY DEF Update
<1>2. /\ main \in MainType /\ NSlots \in Nat \ {0}
      /\ slots \in [Slots -> Slot] /\ \A u \in Slots : slots[u].state # "idle" => slots[u].id_task \in AllIds
    BY MainFacts DEF TypeInv, SlotsOK, IsProcessing
<1>3. /\ IsFiniteSet(gen) /\ Cardinality(gen) \in Nat /\ Cardinality(gen) <= NSlots
      /\ \A s \in Slots : Rank(s) \in Nat /\ Rank(s) < NSlots
  <2>1. IsFiniteSet(Slots) /\ Cardinality(Slots) = NSlots
    BY <1>2, FS_Interval DEF Slots
  <2>2. IsFiniteSet(gen) /\ Cardinality(gen) \in Nat /\ Cardinality(gen) <= NSlots
    <3>1. gen \in SUBSET Slots
        OBVIOUS
    <3> QED  BY <2>1, <3>1, FS_Subset, FS_CardinalityType
  <2>3. ASSUME NEW s \in Slots PROVE Rank(s) \in Nat /\ Rank(s) < NSlots
    <3>1. PICK T : T = {x \in gen : x < s}
        OBVIOUS
    <3>2. T \in SUBSET Slots /\ s \notin T
      <4>1. ~ (s < s)
        BY DEF Slots
      <4> QED  BY <3>1, <4>1
    <3>3. /\ IsFiniteSet(T) /\ Cardinality(T) <= NSlots
          /\ Cardinality(T) = NSlots => T = Slots
        BY <2>1, <3>2, FS_Subset
    <3>4. Cardinality(T) \in Nat /\ Cardinality(T) # NSlots
        BY <3>2, <3>3, FS_CardinalityType
    <3> QED  BY <1>2, <3>1, <3>3, <3>4
  <2> QED  BY <2>2, <2>3
<1>4. CASE \A s \in Slots : ~ IsProcessing(s)
  <2>1. main' = [main EXCEPT !.pc = "wait"] /\ UNCHANGED <<queue_tasks, slots>>
    BY <1>4 DEF Update
  <2>2. MainOK' /\ main'.pc = "wait"
    BY <1>2, <2>1, PcChanges DEF MainPhases, MainType
  <2> QED  BY <1>1, <1>4, <2>1, <2>2, SameTypes
<1>5. CASE ~ \A s \in Slots : ~ IsProcessing(s)
  <2>1. /\ queue_tasks' = Append(queue_tasks, NextResponse)
        /\ slots' = [s \in Slots |-> IF s \in gen THEN [slots[s] EXCEPT !.i_batch = Rank(s)]
                                                  ELSE slots[s]]
        /\ main' = [main EXCEPT !.n_tokens = Cardinality(gen), !.i = 0,
                                !.pc = IF ContBatching \/ gen = {} THEN "prompt" ELSE "decode"]
    BY <1>5 DEF Update, AskForRound
  <2>2. /\ Cardinality(gen) \in 0 .. BatchSize
        /\ \A s \in Slots : Rank(s) \in -1 .. BatchSize - 1
    BY <1>3, BatchFacts
  <2> HIDE DEF gen, Rank
  <2>3. MainOK' /\ main'.pc \in {"prompt", "decode"}
    <3>1. PICK c, n : /\ c = (IF ContBatching \/ gen = {} THEN "prompt" ELSE "decode")
                      /\ n = Cardinality(gen)
        OBVIOUS
    <3>2. c \in {"prompt", "decode"} /\ c \in MainPhases /\ n \in 0 .. BatchSize
        BY <2>2, <3>1 DEF MainPhases
    <3>3. 0 \in Slots
        BY <1>2 DEF Slots
    <3>4. main' = [main EXCEPT !.n_tokens = n, !.i = 0, !.pc = c]
        BY <2>1, <3>1
    <3> QED  BY <3>2, <3>3, <3>4, MainGoes
  <2>4. ASSUME NEW s \in Slots
        PROVE  /\ slots'[s] \in Slot /\ slots'[s].state = slots[s].state
               /\ slots'[s].id_task = slots[s].id_task
    <3>1. PICK z, n : z = slots[s] /\ n = Rank(s)
        OBVIOUS
    <3>2. z \in Slot /\ n \in -1 .. BatchSize - 1
        BY <1>2, <2>2, <3>1
    <3>3. slots'[s] = [z EXCEPT !.i_batch = n] \/ slots'[s] = z
        BY <2>1, <3>1
    <3> QED  BY <3>1, <3>2, <3>3 DEF Slot
  <2>5. slots' \in [Slots -> Slot]
    BY <2>1, <2>4
  <2>6. SlotsOK'
    BY <1>2, <2>4, <2>5 DEF SlotsOK, IsProcessing
  <2> QED  BY <1>1, <2>1, <2>3, <2>4, <2>6
<1> QED  BY <1>4, <1>5

LEMMA UpdateTypes ==
    ASSUME TypeInv, Update
    PROVE  TypeInv'
<1>1. QueuesOK'
  <2>1. Append(queue_tasks, NextResponse) \in Seq(Task)
    BY TaskFacts DEF TypeInv, QueuesOK
  <2>2. queue_tasks' \in Seq(Task)
    BY <2>1, UpdateFacts DEF TypeInv, QueuesOK
  <2> QED  BY <2>2 DEF TypeInv, QueuesOK, Update
<1> QED  BY <1>1, UpdateFacts, SameTypes DEF TypeInv, Update

LEMMA PromptStepFacts ==
    ASSUME TypeInv, main.pc = "prompt", NEW n \in 0 .. BatchSize, PromptStep(n)
    PROVE  MainOK' /\ main'.pc \in {"prompt", "decode", "wait"}
<1>1. main \in MainType /\ main.i \in 0 .. NSlots - 1 /\ NSlots \in Nat \ {0}
    BY MainFacts DEF Slots
<1>2. PICK i, c : /\ i = (IF PromptsEnd(main.i + 1, n) THEN 0 ELSE main.i + 1)
                  /\ c = (IF PromptsEnd(main.i + 1, n) THEN AfterPrompts(n) ELSE "prompt")
    OBVIOUS
<1>3. main' = [main EXCEPT !.n_tokens = n, !.i = i, !.pc = c]
    BY <1>1, <1>2 DEF PromptStep, MainType
<1>4. i \in Slots
    BY <1>1, <1>2 DEF PromptsEnd, Slots
<1>5. c \in {"prompt", "decode", "wait"} /\ c \in MainPhases
    BY <1>2 DEF AfterPrompts, MainPhases
<1> QED  BY <1>3, <1>4, <1>5, MainGoes

LEMMA PromptNoneTypes ==
    ASSUME TypeInv, PromptNone
    PROVE  TypeInv' /\ main'.pc \in {"prompt", "decode", "wait"}
<1>1. MainOK' /\ main'.pc \in {"prompt", "decode", "wait"}
    BY MainFacts, PromptStepFacts DEF PromptNone
<1> QED  BY <1>1, SameTypes DEF TypeInv, PromptNone

LEMMA PromptEmptyFacts ==
    ASSUME TypeInv, PromptEmpty, NEW s, s = main.i
    PROVE  /\ s \in Slots /\ IsProcessing(s) /\ slots[s].id_task \in AllIds /\ Release(s)
           /\ send_buffer' = Append(send_buffer, Final(slots[s].id_task))
           /\ MainOK' /\ main.pc = "prompt" /\ main'.pc \in {"prompt", "decode", "wait"}
<1>1. /\ main.pc = "prompt" /\ slots[s].state = "started" /\ Release(s)
      /\ send_buffer' = Append(send_buffer, Final(slots[s].id_task))
      /\ main' = IF s + 1 = NSlots
                 THEN [main EXCEPT !.i = 0, !.pc = AfterPrompts(main.n_tokens)]
                 ELSE [main EXCEPT !.i = s + 1]
    BY DEF PromptEmpty
<1>2. s \in Slots /\ main \in MainType /\ NSlots \in Nat \ {0}
    BY <1>1, MainFacts
<1>3. IsProcessing(s) /\ slots[s].id_task \in AllIds
    BY <1>1, <1>2 DEF TypeInv, SlotsOK, IsProcessing
<1>4. CASE s + 1 = NSlots
  <2>1. PICK c : c = AfterPrompts(main.n_tokens)
    OBVIOUS
  <2>2. c \in {"decode", "wait"} /\ c \in MainPhases
    BY <2>1 DEF AfterPrompts, MainPhases
  <2>3. PICK n : n = main.n_tokens
    OBVIOUS
  <2>4. n \in 0 .. BatchSize /\ 0 \in Slots
    BY <1>2, <2>3 DEF MainType, Slots
  <2>5. main' = [main EXCEPT !.i = 0, !.pc = c]
    BY <1>1, <1>4, <2>1
  <2>6. main' = [main EXCEPT !.n_tokens = n, !.i = 0, !.pc = c]
    BY <1>2, <2>3, <2>5 DEF MainType
  <2>7. MainOK' /\ main'.pc \in {"prompt", "decode", "wait"}
    BY <2>2, <2>4, <2>6, MainGoes
  <2> QED  BY <1>1, <1>2, <1>3, <2>7
<1>5. CASE s + 1 # NSlots
  <2>1. main' = [main EXCEPT !.i = s + 1]
    BY <1>1, <1>5
  <2>2. s + 1 \in Slots
    BY <1>2, <1>5 DEF Slots
  <2>3. MainOK' /\ main'.pc \in {"prompt", "decode", "wait"}
    BY <1>1, <1>2, <2>1, <2>2 DEF MainOK, MainType, MainPhases
  <2> QED  BY <1>1, <1>2, <1>3, <2>3
<1> QED  BY <1>4, <1>5

LEMMA PromptEmptyTypes ==
    ASSUME TypeInv, PromptEmpty
    PROVE  TypeInv'
<1>1. PICK s, id : s = main.i /\ id = slots[s].id_task
    OBVIOUS
<1>2. /\ s \in Slots /\ id \in AllIds /\ Release(s) /\ MainOK'
      /\ send_buffer' = Append(send_buffer, Final(id))
    BY <1>1, PromptEmptyFacts
<1>3. QueuesOK' /\ SlotsOK' /\ LruOK'
    BY <1>2, ReleaseFacts DEF TypeInv
<1>4. SendOK'
    BY <1>2, ResultFacts DEF TypeInv, SendOK
<1> QED  BY <1>2, <1>3, <1>4, SameTypes DEF TypeInv, PromptEmpty

LEMMA PromptTokensFacts ==
    ASSUME TypeInv, PromptTokens, NEW s, s = main.i
    PROVE  /\ s \in Slots /\ IsProcessing(s) /\ main.pc = "prompt"
           /\ slots' \in [Slots -> Slot] /\ slots'[s].state # "idle"
           /\ slots'[s].id_task = slots[s].id_task
           /\ \A u \in Slots \ {s} : slots'[u] = slots[u]
           /\ MainOK' /\ main'.pc \in {"prompt", "decode", "wait"}
<1>1. main.pc = "prompt" /\ slots[s].state \in {"started", "processing_prompt"} /\ slots[s].left > 0
    BY DEF PromptTokens
<1>2. /\ s \in Slots /\ main \in MainType /\ main.n_tokens \in 0 .. BatchSize
      /\ slots \in [Slots -> Slot]
    BY <1>1, MainFacts DEF TypeInv, SlotsOK
<1>3. PICK z : z = slots[s]
    OBVIOUS
<1>4. z \in Slot /\ z.left \in Nat
    BY <1>2, <1>3 DEF Slot
<1>5. PICK left \in IF z.state = "started" THEN 1 .. z.left ELSE {z.left} :
        LET add == IF left <= Room THEN left ELSE Room
            n   == main.n_tokens + add
        IN  /\ slots' = [slots EXCEPT ![s] =
                   IF add = left
                   THEN [@ EXCEPT !.state = "done_prompt", !.left = 0, !.n_decoded = 0,
                                  !.i_batch = n - 1]
                   ELSE [@ EXCEPT !.state = "processing_prompt", !.left = left - add]]
            /\ PromptStep(n)
    BY <1>3 DEF PromptTokens
<1>6. left \in Nat /\ left > 0
    BY <1>1, <1>3, <1>4, <1>5
<1>7. PICK add, n : /\ add = (IF left <= Room THEN left ELSE Room)
                    /\ n = main.n_tokens + add
    OBVIOUS
<1>8. /\ add \in Nat /\ add <= left /\ n \in 0 .. BatchSize
      /\ n - 1 \in -1 .. BatchSize - 1
  <2>1. Room \in Nat /\ (Room > 0 => main.n_tokens + Room = NBatch)
    BY <1>2, BatchFacts DEF Room
  <2>2. add \in Nat /\ add <= left /\ add <= Room
    BY <1>6, <1>7, <2>1
  <2>3. n \in 0 .. BatchSize
    BY <1>2, <1>7, <2>1, <2>2, BatchFacts
  <2> QED  BY <2>2, <2>3, BatchFacts
<1>9. PICK y : y = IF add = left
                   THEN [z EXCEPT !.state = "done_prompt", !.left = 0, !.n_decoded = 0,
                                  !.i_batch = n - 1]
                   ELSE [z EXCEPT !.state = "processing_prompt", !.left = left - add]
    OBVIOUS
<1>10. slots' = [slots EXCEPT ![s] = y] /\ PromptStep(n)
    BY <1>2, <1>3, <1>5, <1>7, <1>9
<1>11. y \in Slot /\ y.state # "idle" /\ y.id_task = z.id_task
  <2>1. CASE add = left
    BY <1>4, <1>8, <1>9, <2>1 DEF Slot, SlotStates
  <2>2. CASE add # left
    <3>1. left - add \in Nat
        BY <1>6, <1>8
    <3> QED  BY <1>4, <1>9, <2>2, <3>1 DEF Slot, SlotStates
  <2> QED  BY <2>1, <2>2
<1>12. /\ slots' \in [Slots -> Slot] /\ slots'[s] = y
       /\ \A u \in Slots \ {s} : slots'[u] = slots[u]
    BY <1>2, <1>10, <1>11
<1>13. MainOK' /\ main'.pc \in {"prompt", "decode", "wait"}
    BY <1>1, <1>8, <1>10, PromptStepFacts
<1>14. IsProcessing(s)
    BY <1>1 DEF IsProcessing
<1> QED  BY <1>1, <1>2, <1>3, <1>11, <1>12, <1>13, <1>14

LEMMA PromptTokensTypes ==
    ASSUME TypeInv, PromptTokens
    PROVE  TypeInv'
<1>1. PICK s : s = main.i
    OBVIOUS
<1>2. /\ s \in Slots /\ slots[s].state # "idle"
      /\ slots' \in [Slots -> Slot] /\ slots'[s].id_task = slots[s].id_task
      /\ \A u \in Slots \ {s} : slots'[u] = slots[u]
      /\ MainOK'
    BY <1>1, PromptTokensFacts DEF IsProcessing
<1>3. SlotsOK'
  <2>1. \A u \in Slots : slots[u].state # "idle" => slots[u].id_task \in AllIds
    BY DEF TypeInv, SlotsOK, IsProcessing
  <2>2. \A u \in Slots : slots'[u].state # "idle" => slots'[u].id_task \in AllIds
    BY <1>2, <2>1
  <2> QED  BY <1>2, <2>2 DEF SlotsOK, IsProcessing
<1> QED  BY <1>2, <1>3, SameTypes DEF TypeInv, PromptTokens

LEMMA DecodeTypes ==
    ASSUME TypeInv, Decode
    PROVE  /\ TypeInv' /\ main.pc = "decode" /\ main'.pc \in {"decode", "sample", "fail"}
           /\ main'.pc = "fail" => DecodeFails
<1>1. main.pc = "decode"
    BY DEF Decode
<1>2. main \in MainType /\ 0 \in Slots
    BY MainFacts DEF Slots
<1>3. CASE main' = [main EXCEPT !.pc = "sample", !.i = 0]
  <2>1. MainOK' /\ main'.pc = "sample"
    BY <1>2, <1>3 DEF MainOK, MainType, MainPhases
  <2> QED  BY <1>1, <2>1, SameTypes DEF TypeInv, Decode
<1>4. CASE main.n_batch > 1 /\ main' = [main EXCEPT !.n_batch = @ \div 2]
  <2>1. PICK b : b = main.n_batch
    OBVIOUS
  <2>2. b \div 2 \in 1 .. NBatch
    BY <1>4, <2>1, MainFacts, BatchFacts
  <2>3. MainOK' /\ main'.pc = "decode"
    BY <1>1, <1>2, <1>4, <2>1, <2>2 DEF MainOK, MainType
  <2> QED  BY <1>1, <2>3, SameTypes DEF TypeInv, Decode
<1>5. CASE DecodeFails /\ main' = [main EXCEPT !.pc = "fail", !.i = 0]
  <2>1. MainOK' /\ main'.pc = "fail"
    BY <1>2, <1>5 DEF MainOK, MainType, MainPhases
  <2> QED  BY <1>1, <1>5, <2>1, SameTypes DEF TypeInv, Decode
<1> QED  BY <1>3, <1>4, <1>5 DEF Decode

LEMMA NextSlotFacts ==
    ASSUME TypeInv, main.pc = "sample", NextSlot
    PROVE  MainOK' /\ main'.pc \in {"sample", "decode", "commit"}
<1>1. /\ main \in MainType /\ main.i \in Slots /\ 0 \in Slots
      /\ main.i + 1 < NSlots => main.i + 1 \in Slots
    BY MainFacts DEF Slots
<1>2. ViewEnd \in 0 .. BatchSize
    BY MainFacts, BatchFacts DEF ViewEnd
<1>3. CASE main.i + 1 < NSlots
  <2>1. main' = [main EXCEPT !.i = main.i + 1]
    BY <1>1, <1>3 DEF NextSlot, MainType
  <2> QED  BY <1>1, <1>3, <2>1 DEF MainOK, MainType
<1>4. CASE ~ (main.i + 1 < NSlots) /\ ViewEnd < main.n_tokens
  <2>1. main' = [main EXCEPT !.i = 0, !.pc = "decode", !.view = ViewEnd]
    BY <1>4 DEF NextSlot
  <2>2. "decode" \in MainPhases
    BY DEF MainPhases
  <2> HIDE DEF MainPhases
  <2> QED  BY <1>1, <1>2, <2>1, <2>2 DEF MainOK, MainType
<1>5. CASE ~ (main.i + 1 < NSlots) /\ ~ (ViewEnd < main.n_tokens)
  <2>1. main' = [main EXCEPT !.i = 0, !.pc = "commit"]
    BY <1>5 DEF NextSlot
  <2>2. "commit" \in MainPhases
    BY DEF MainPhases
  <2> QED  BY <1>1, <2>1, <2>2 DEF MainOK, MainType
<1> QED  BY <1>3, <1>4, <1>5

LEMMA FailFacts ==
    ASSUME TypeInv, Fail
    PROVE  /\ main.pc = "fail" /\ main.i \in Slots /\ Release(main.i)
           /\ MainOK' /\ main'.pc \in {"fail", "commit"}
<1>1. /\ main.pc = "fail" /\ Release(main.i)
      /\ main' = IF main.i + 1 = NSlots THEN [main EXCEPT !.i = 0, !.pc = "commit"]
                                        ELSE [main EXCEPT !.i = @ + 1]
    BY DEF Fail
<1>2. /\ main \in MainType /\ main.i \in Slots /\ 0 \in Slots
      /\ main.i + 1 # NSlots => main.i + 1 \in Slots
    BY MainFacts DEF Slots
<1>3. MainOK' /\ main'.pc \in {"fail", "commit"}
  <2>1. CASE main.i + 1 = NSlots
    <3>1. main' = [main EXCEPT !.i = 0, !.pc = "commit"] /\ "commit" \in MainPhases
        BY <1>1, <2>1 DEF MainPhases
    <3> QED  BY <1>2, <3>1 DEF MainOK, MainType
  <2>2. CASE main.i + 1 # NSlots
    <3>1. main' = [main EXCEPT !.i = main.i + 1]
        BY <1>1, <1>2, <2>2 DEF MainType
    <3> QED  BY <1>1, <1>2, <2>2, <3>1 DEF MainOK, MainType
  <2> QED  BY <2>1, <2>2
<1> QED  BY <1>1, <1>2, <1>3

LEMMA FailTypes ==
    ASSUME TypeInv, Fail
    PROVE  TypeInv'
<1>1. PICK s : s = main.i
    OBVIOUS
<1>2. s \in Slots /\ Release(s) /\ MainOK'
    BY <1>1, FailFacts
<1>3. QueuesOK' /\ SlotsOK' /\ LruOK'
    BY <1>2, ReleaseFacts DEF TypeInv
<1> QED  BY <1>2, <1>3, SameTypes DEF TypeInv, Fail

LEMMA SampleNoneTypes ==
    ASSUME TypeInv, SampleNone
    PROVE  TypeInv'
<1>1. MainOK'
    BY NextSlotFacts DEF SampleNone
<1> QED  BY <1>1, SameTypes DEF TypeInv, SampleNone

\* Sample, as it is used: what is sent, and whether it is the end.
LEMMA SampleFacts ==
    ASSUME TypeInv, Sample, NEW s, s = main.i, NEW id, id = slots[s].id_task
    PROVE  /\ s \in Slots /\ IsProcessing(s) /\ id \in AllIds /\ main.pc = "sample"
           /\ QueuesOK' /\ SlotsOK' /\ LruOK' /\ MainOK' /\ OnlyMoves
           /\ main'.pc \in {"sample", "decode", "commit"}
           /\ \A u \in Slots \ {s} : slots'[u] = slots[u]
           /\ slots'[s].id_task = id
           /\ \E partial \in {<<>>, <<Partial(id)>>}, stop \in BOOLEAN :
                /\ send_buffer' = (send_buffer \o partial) \o (IF stop THEN <<Final(id)>> ELSE <<>>)
                /\ slots'[s].state = IF stop THEN "idle" ELSE "generating"
                /\ stop => PopDeferred
                /\ ~ stop => UNCHANGED queuevars
<1> DEFINE n  == slots[s].n_decoded + 1
           sl == [slots EXCEPT ![s].state = "generating", ![s].i_batch = -1, ![s].n_decoded = n]
<1>1. main.pc = "sample" /\ Sampled(s) /\ NextSlot
    BY DEF Sample
<1>2. s \in Slots /\ slots \in [Slots -> Slot]
    BY <1>1, MainFacts DEF TypeInv, SlotsOK
<1>3. IsProcessing(s) /\ id \in AllIds
  <2>1. IsProcessing(s)
    BY <1>1 DEF Sampled, IsProcessing
  <2> QED  BY <1>2, <2>1 DEF TypeInv, SlotsOK
<1>4. PICK z : z = slots[s]
    OBVIOUS
<1>5. PICK y : y = [z EXCEPT !.state = "generating", !.i_batch = -1, !.n_decoded = z.n_decoded + 1]
    OBVIOUS
<1>6. z \in Slot /\ z.id_task = id /\ sl = [slots EXCEPT ![s] = y]
    BY <1>2, <1>4, <1>5
<1>7. y \in Slot /\ y.state = "generating" /\ y.id_task = id
  <2>1. z.n_decoded + 1 \in Nat /\ -1 \in -1 .. BatchSize - 1
    BY <1>6, BatchFacts DEF Slot
  <2> QED  BY <1>5, <1>6, <2>1 DEF Slot, SlotStates
<1>8. sl \in [Slots -> Slot] /\ sl[s] = y /\ \A u \in Slots \ {s} : sl[u] = slots[u]
    BY <1>2, <1>6, <1>7
<1>9. PICK incomplete \in (IF Stream(id) THEN BOOLEAN ELSE {FALSE}),
           stop \in IF n >= MaxNew THEN {TRUE} ELSE BOOLEAN :
        LET partial == IF Stream(id) /\ ~ incomplete THEN <<Partial(id)>> ELSE <<>>
            final   == IF stop THEN <<Final(id)>> ELSE <<>>
        IN  /\ send_buffer' = send_buffer \o partial \o final
            /\ IF stop
               THEN /\ slots' = Released(sl, s)
                    /\ lru' = Used(s)
                    /\ PopDeferred
               ELSE /\ slots' = sl
                    /\ UNCHANGED <<lru, queuevars>>
    BY DEF Sample
<1> HIDE DEF sl
<1>10. stop \in BOOLEAN
  <2>1. CASE n >= MaxNew
    BY <2>1
  <2>2. CASE ~ (n >= MaxNew)
    BY <2>2
  <2> QED  BY <2>1, <2>2
<1> HIDE DEF n
<1>11. PICK partial : partial = IF Stream(id) /\ ~ incomplete THEN <<Partial(id)>> ELSE <<>>
    OBVIOUS
<1>12. /\ partial \in {<<>>, <<Partial(id)>>}
       /\ send_buffer' = (send_buffer \o partial) \o (IF stop THEN <<Final(id)>> ELSE <<>>)
       /\ stop => slots' = Released(sl, s) /\ lru' = Used(s) /\ PopDeferred
       /\ ~ stop => slots' = sl /\ UNCHANGED <<lru, queuevars>>
    BY <1>9, <1>11
<1>13. MainOK' /\ main'.pc \in {"sample", "decode", "commit"}
    BY <1>1, NextSlotFacts
<1>14. \A u \in Slots : slots[u].state # "idle" => slots[u].id_task \in AllIds
    BY DEF TypeInv, SlotsOK, IsProcessing
<1>15. CASE stop
  <2>1. PICK x : x = [y EXCEPT !.state = "idle"]
    OBVIOUS
  <2>2. x \in Slot /\ x.state = "idle" /\ x.id_task = id
    BY <1>7, <2>1 DEF Slot, SlotStates
  <2>3. slots' = [sl EXCEPT ![s] = x]
    BY <1>2, <1>8, <1>12, <1>15, <2>1 DEF Released
  <2>4. /\ slots' \in [Slots -> Slot] /\ slots'[s] = x
        /\ \A u \in Slots \ {s} : slots'[u] = slots[u]
    BY <1>2, <1>8, <2>2, <2>3
  <2>5. SlotsOK'
    BY <1>14, <2>2, <2>4 DEF SlotsOK, IsProcessing
  <2>6. LruOK'
    <3>1. Used(s) \in Seq(Slots) /\ Len(Used(s)) = NSlots /\ \A u \in Slots : Count(Used(s), u) = 1
        BY <1>2, UsedOK DEF TypeInv
    <3> QED  BY <1>12, <1>15, <3>1 DEF LruOK
  <2>7. QueuesOK' /\ OnlyMoves
    BY <1>12, <1>15, PopFacts DEF OnlyMoves, TypeInv
  <2> QED  BY <1>1, <1>2, <1>3, <1>10, <1>12, <1>13, <1>15, <2>2, <2>4, <2>5, <2>6, <2>7
<1>16. CASE ~ stop
  <2>1. slots' = sl /\ UNCHANGED <<lru, queuevars>>
    BY <1>12, <1>16
  <2>2. SlotsOK'
    BY <1>3, <1>7, <1>8, <1>14, <2>1 DEF SlotsOK, IsProcessing
  <2>3. QueuesOK' /\ LruOK' /\ OnlyMoves
    BY <2>1, SameTypes, UnchangedMoves
  <2> QED  BY <1>1, <1>2, <1>3, <1>7, <1>8, <1>10, <1>12, <1>13, <1>16, <2>1, <2>2, <2>3
<1> QED  BY <1>15, <1>16

LEMMA SampleTypes ==
    ASSUME TypeInv, Sample
    PROVE  TypeInv'
<1>1. PICK s, id : s = main.i /\ id = slots[s].id_task
    OBVIOUS
<1>2. id \in AllIds /\ QueuesOK' /\ SlotsOK' /\ LruOK' /\ MainOK'
    BY <1>1, SampleFacts
<1>3. PICK partial \in {<<>>, <<Partial(id)>>}, stop \in BOOLEAN :
        send_buffer' = (send_buffer \o partial) \o (IF stop THEN <<Final(id)>> ELSE <<>>)
    BY <1>1, SampleFacts
<1>4. PICK final : final = IF stop THEN <<Final(id)>> ELSE <<>>
    OBVIOUS
<1>5. partial \in Seq(Result) /\ final \in Seq(Result) /\ send_buffer \in Seq(Result)
  <2>1. Partial(id) \in Result /\ Final(id) \in Result
    BY <1>2, ResultFacts
  <2>2. <<Partial(id)>> \in Seq(Result) /\ <<Final(id)>> \in Seq(Result) /\ <<>> \in Seq(Result)
    BY <2>1
  <2>3. partial \in Seq(Result) /\ final \in Seq(Result)
    BY <1>3, <1>4, <2>2
  <2> QED  BY <2>3 DEF TypeInv, SendOK
<1>6. SendOK'
    BY <1>3, <1>4, <1>5, ConcatProperties DEF SendOK
<1> QED  BY <1>2, <1>6, SameTypes DEF TypeInv, Sample

LEMMA SendCommitTypes ==
    ASSUME TypeInv, SendCommit
    PROVE  TypeInv'
<1>1. PICK q, b, S : /\ q = queue_results /\ b = send_buffer
                     /\ S = {res \in Result : res.id \in waiting_task_ids}
    OBVIOUS
<1>2. PICK z : z = Kept(b, S)
    OBVIOUS
<1>3. /\ queue_results' = q \o z /\ send_buffer' = <<>>
      /\ main' = [main EXCEPT !.pc = "wait", !.view = 0, !.n_batch = NBatch]
    BY <1>1, <1>2 DEF SendCommit, Commit
<1>4. q \in Seq(Result) /\ b \in Seq(Result)
    BY <1>1 DEF TypeInv, ResultsOK, SendOK
<1>5. z \in Seq(Result)
    BY <1>2, <1>4, KeptFacts
<1>6. ResultsOK' /\ SendOK'
    BY <1>3, <1>4, <1>5, ConcatProperties DEF TypeInv, ResultsOK, SendOK, SendCommit
<1>7. MainOK'
  <2>1. 0 \in 0 .. BatchSize /\ NBatch \in 1 .. NBatch /\ "wait" \in MainPhases
    BY BatchFacts DEF MainPhases
  <2> QED  BY <1>3, <2>1, MainFacts DEF MainOK, MainType
<1> QED  BY <1>6, <1>7, SameTypes DEF TypeInv, SendCommit

LEMMA TypesStay == TypeInv /\ [Next]_vars => TypeInv'
<1> SUFFICES ASSUME TypeInv, [Next]_vars PROVE TypeInv'
    OBVIOUS
<1>1. CASE UNCHANGED vars
    BY <1>1, SameTypes DEF TypeInv, vars, queuevars, resultvars, httpvars
<1>2. ASSUME NEW r \in Requests, AddWaiting(r) \/ HttpStep(r) \/ Disconnect(r) PROVE TypeInv'
    BY <1>2, AddWaitingTypes, PostTasksTypes, ReceiveTypes, RemoveWaitingTypes, OtherHttpTypes
        DEF HttpStep
<1>3. CASE MainStep
    BY <1>3, PickTypes, DeferTypes, LaunchTypes, ProcessTypes, UpdateTypes, PromptNoneTypes,
       PromptEmptyTypes, PromptTokensTypes, DecodeTypes, FailTypes, SampleNoneTypes, SampleTypes,
       SendCommitTypes DEF MainStep
<1>4. CASE Quiet
    BY <1>1, <1>4 DEF Quiet
<1> QED  BY <1>1, <1>2, <1>3, <1>4 DEF Next

LEMMA TypesHold == Spec => []TypeInv
  BY InitTypes, TypesStay, PTL DEF Spec

(***************************************************************************)
(* TypeOK holds, for every number of slots and every set of requests,      *)
(* whether or not decodes and samplers fail: in particular the batch never *)
(* has more tokens than llama_batch_init made room for, generating slots   *)
(* and prompts together.                                                   *)
(***************************************************************************)
THEOREM ServerTypeCorrect == Spec => []TypeOK
  BY TypesHold, TypeInvImplies, PTL

-----------------------------------------------------------------------------
(* Rounds.                                                                 *)

Working == {"prompt", "decode", "sample", "fail", "commit"}

\* A round is asked for where the main thread updates the slots, and the
\* NEXT_RESPONSE task is in the queue until the main thread takes it.
RoundInv ==
    /\ main.pc = "pick" => Pending <= 1
    /\ main.pc = "process" => Pending <= 1 /\ (main.task = NextResponse => Pending = 0)
    /\ main.pc = "update" => Pending = 0
    /\ main.pc \in Working => Pending = 1
    /\ main.pc = "wait" => Pending = 1 \/ (Pending = 0 /\ \A s \in Slots : ~ IsProcessing(s))

LEMMA PendingNat == TypeInv => Pending \in Nat
  BY CountAt DEF TypeInv, QueuesOK, Pending

LEMMA MovesKeepPending == OnlyMoves => Pending' = Pending
<1> SUFFICES ASSUME OnlyMoves PROVE Pending' = Pending
    OBVIOUS
<1>1. PICK x : x = NextResponse
    OBVIOUS
<1>2. x.type # "completion"
    BY <1>1, TaskFacts
<1>3. Count(queue_tasks, x)' = Count(queue_tasks, x)
    BY <1>2 DEF OnlyMoves
<1> QED  BY <1>1, <1>3 DEF Pending, Count

LEMMA RoundSame ==
    ASSUME RoundInv, Pending' = Pending, UNCHANGED <<main, slots>>
    PROVE  RoundInv'
  BY DEF RoundInv, IsProcessing

LEMMA RoundWorks ==
    ASSUME RoundInv, Pending' = Pending, main.pc \in Working,
           main'.pc \in Working \cup {"wait"}
    PROVE  RoundInv'
  BY DEF RoundInv, Working

LEMMA RoundPicks ==
    ASSUME TypeInv, RoundInv, Pending' = Pending, main.pc \in {"process", "wait"},
           main' = [main EXCEPT !.pc = "pick"]
    PROVE  RoundInv'
<1>1. main'.pc = "pick"
    BY MainFacts DEF MainType
<1> QED  BY <1>1, PendingNat DEF RoundInv, Working

LEMMA HttpRounds ==
    ASSUME TypeInv, RoundInv, NEW r \in Requests, AddWaiting(r) \/ HttpStep(r) \/ Disconnect(r)
    PROVE  RoundInv'
<1>1. UNCHANGED <<main, slots>>
    BY DEF HttpStep, AddWaiting, PostTasks, StartStream, Receive, Timeout, RemoveWaiting,
           PostCancel, Complete, Disconnect, mainvars
<1>2. CASE PostTasks(r)
  <2>1. PICK z, q : /\ z = [i \in DOMAIN Body[r].prompts |-> Completion(<<r, i>>)]
                    /\ q = queue_tasks
    OBVIOUS
  <2>2. z \in Seq(Task) /\ q \in Seq(Task) /\ queue_tasks' = q \o z
    BY <1>2, <2>1, PostedFacts DEF PostTasks, TypeInv, QueuesOK
  <2>3. Count(z, NextResponse) = 0
    BY <2>1, PostedFacts, TaskFacts
  <2>4. Count(q \o z, NextResponse) = Count(q, NextResponse) + Count(z, NextResponse)
    BY <2>2, CountConcat
  <2>5. Count(q, NextResponse) \in Nat
    BY <2>2, CountAt
  <2>6. Pending = Count(q, NextResponse) /\ Pending' = Count(q \o z, NextResponse)
    BY <2>1, <2>2 DEF Pending, NextResponse, NoId
  <2>7. Pending' = Pending
    BY <2>3, <2>4, <2>5, <2>6
  <2> QED  BY <1>1, <2>7, RoundSame
<1>3. CASE PostCancel(r)
  <2>1. PICK x \in Task : x = NextResponse /\ x.type # "cancel"
    BY TaskFacts
  <2>2. Count(queue_tasks, x)' = Count(queue_tasks, x)
    BY <1>3, <2>1, PostCancelFacts DEF TypeInv
  <2>3. Pending' = Pending
    BY <2>1, <2>2 DEF Pending, Count, NextResponse, NoId
  <2> QED  BY <1>1, <2>3, RoundSame
<1>4. CASE AddWaiting(r) \/ StartStream(r) \/ Receive(r) \/ Timeout(r) \/ RemoveWaiting(r)
           \/ Complete(r) \/ Disconnect(r)
  <2>1. UNCHANGED queuevars
    BY <1>4 DEF AddWaiting, StartStream, Receive, Timeout, RemoveWaiting, Complete, Disconnect
  <2> QED  BY <1>1, <2>1, RoundSame, UnchangedMoves, MovesKeepPending
<1> QED  BY <1>2, <1>3, <1>4 DEF HttpStep

LEMMA PickRounds ==
    ASSUME TypeInv, RoundInv, Pick
    PROVE  RoundInv'
<1>1. main.pc = "pick" /\ Pending <= 1 /\ Pending \in Nat
    BY PendingNat DEF RoundInv, Pick
<1>2. CASE queue_tasks = <<>>
  <2>1. main' = [main EXCEPT !.pc = "update"] /\ queue_tasks' = <<>>
    BY <1>2 DEF Pick
  <2>2. main'.pc = "update"
    BY <2>1, MainFacts DEF MainType
  <2>3. Pending' = 0
    BY <2>1, CountEmpty DEF Pending, NextResponse, NoId
  <2> QED  BY <2>2, <2>3 DEF RoundInv, Working
<1>3. CASE queue_tasks # <<>>
  <2>1. PICK q : q = queue_tasks
    OBVIOUS
  <2>2. /\ q \in Seq(Task) /\ Head(q) \in Task /\ queue_tasks' = Tail(q)
        /\ main'.pc = "process" /\ main'.task = Head(q)
    BY <1>3, <2>1, PickFacts
  <2>3. Count(q, NextResponse) = Count(Tail(q), NextResponse) + IF Head(q) = NextResponse THEN 1 ELSE 0
    BY <1>3, <2>1, <2>2, CountHeadTail
  <2>4. Tail(q) \in Seq(Task)
    BY <1>3, <2>1, <2>2
  <2>5. Count(Tail(q), NextResponse) \in Nat
    BY <2>4, CountAt
  <2>6. Pending = Count(q, NextResponse) /\ Pending' = Count(Tail(q), NextResponse)
    BY <2>1, <2>2 DEF Pending, NextResponse, NoId
  <2>7. CASE Head(q) = NextResponse
    <3>1. Count(q, NextResponse) = Count(Tail(q), NextResponse) + 1
        BY <2>3, <2>7
    <3>2. Pending' = 0
        BY <1>1, <2>5, <2>6, <3>1
    <3> QED  BY <2>2, <3>2 DEF RoundInv, Working
  <2>8. CASE Head(q) # NextResponse
    <3>1. Count(q, NextResponse) = Count(Tail(q), NextResponse)
        BY <2>3, <2>5, <2>8
    <3>2. Pending' <= 1
        BY <1>1, <2>6, <3>1
    <3>3. main'.task # NextResponse'
        BY <2>2, <2>8 DEF NextResponse, NoId
    <3> QED  BY <2>2, <3>2, <3>3 DEF RoundInv, Working
  <2> QED  BY <2>7, <2>8
<1> QED  BY <1>2, <1>3

LEMMA UpdateRounds ==
    ASSUME TypeInv, RoundInv, Update
    PROVE  RoundInv'
<1>1. main.pc = "update" /\ Pending = 0
    BY UpdateFacts DEF RoundInv
<1>2. CASE main'.pc = "wait" /\ UNCHANGED queue_tasks /\ \A s \in Slots : ~ IsProcessing(s)
  <2>1. \A s \in Slots : ~ IsProcessing(s)'
    BY <1>2, UpdateFacts DEF IsProcessing
  <2>2. Pending' = 0
    BY <1>1, <1>2 DEF Pending, Count
  <2> QED  BY <1>2, <2>1, <2>2 DEF RoundInv, Working
<1>3. CASE main'.pc \in {"prompt", "decode"} /\ queue_tasks' = Append(queue_tasks, NextResponse)
  <2>1. PICK q, x : q = queue_tasks /\ x = NextResponse
    OBVIOUS
  <2>2. q \in Seq(Task) /\ x \in Task /\ Count(q, x) = 0
    BY <1>1, <2>1, TaskFacts DEF TypeInv, QueuesOK, Pending
  <2>3. Count(Append(q, x), x) = Count(q, x) + 1
    BY <2>2, CountAppend
  <2>4. Pending' = Count(Append(q, x), x)
    BY <1>3, <2>1 DEF Pending, NextResponse, NoId
  <2>5. Pending' = 1
    BY <2>2, <2>3, <2>4
  <2> QED  BY <1>3, <2>5 DEF RoundInv, Working
<1> QED  BY <1>2, <1>3, UpdateFacts

LEMMA RoundsStay == TypeInv /\ RoundInv /\ [Next]_vars => RoundInv'
<1> SUFFICES ASSUME TypeInv, RoundInv, [Next]_vars PROVE RoundInv'
    OBVIOUS
<1>1. CASE UNCHANGED vars
  <2>1. UNCHANGED queuevars /\ UNCHANGED <<main, slots>>
    BY <1>1 DEF vars, queuevars
  <2> QED  BY <2>1, RoundSame, UnchangedMoves, MovesKeepPending
<1>2. ASSUME UNCHANGED queuevars PROVE Pending' = Pending
    BY <1>2, UnchangedMoves, MovesKeepPending
<1>3. CASE ProcessCancel
  <2>1. OnlyMoves
    BY <1>3, ProcessCancelFacts, ReleaseFacts, UnchangedMoves DEF TypeInv
  <2> QED  BY <1>3, <2>1, MovesKeepPending, RoundPicks DEF ProcessCancel
<1>4. CASE Defer
  <2>1. Pending' = Pending
    BY <1>4 DEF Defer, Pending, Count, NextResponse, NoId
  <2> QED  BY <1>4, <2>1, RoundPicks DEF Defer
<1>5. CASE Launch \/ ProcessNext \/ Wait
    BY <1>2, <1>5, RoundPicks DEF Launch, ProcessNext, Wait
<1>6. CASE PromptNone
    BY <1>2, <1>6, PromptNoneTypes, RoundWorks DEF PromptNone, Working
<1>7. CASE PromptEmpty
  <2>1. PICK s : s = main.i
    OBVIOUS
  <2>2. s \in Slots /\ Release(s) /\ main.pc = "prompt" /\ main'.pc \in {"prompt", "decode", "wait"}
    BY <1>7, <2>1, PromptEmptyFacts
  <2>3. OnlyMoves
    BY <2>2, ReleaseFacts DEF TypeInv
  <2> QED  BY <2>2, <2>3, MovesKeepPending, RoundWorks DEF Working
<1>8. CASE PromptTokens
  <2>1. main.pc = "prompt" /\ main'.pc \in {"prompt", "decode", "wait"}
    BY <1>8, PromptTokensFacts
  <2>2. UNCHANGED queuevars
    BY <1>8 DEF PromptTokens
  <2> QED  BY <1>2, <2>1, <2>2, RoundWorks DEF Working
<1>9. CASE Decode
    BY <1>2, <1>9, DecodeTypes, RoundWorks DEF Decode, Working
<1>10. CASE Fail
  <2>1. PICK s : s = main.i
    OBVIOUS
  <2>2. s \in Slots /\ Release(s) /\ main.pc = "fail" /\ main'.pc \in {"fail", "commit"}
    BY <1>10, <2>1, FailFacts
  <2>3. OnlyMoves
    BY <2>2, ReleaseFacts DEF TypeInv
  <2> QED  BY <2>2, <2>3, MovesKeepPending, RoundWorks DEF Working
<1>11. CASE SampleNone
  <2>1. main.pc = "sample" /\ main'.pc \in {"sample", "decode", "commit"}
    BY <1>11, NextSlotFacts DEF SampleNone
  <2> QED  BY <1>2, <1>11, <2>1, RoundWorks DEF SampleNone, Working
<1>12. CASE Sample
  <2>1. OnlyMoves /\ main.pc = "sample" /\ main'.pc \in {"sample", "decode", "commit"}
    BY <1>12, SampleFacts
  <2> QED  BY <2>1, MovesKeepPending, RoundWorks DEF Working
<1>13. CASE SendCommit
  <2>1. main.pc = "commit" /\ main'.pc = "wait" /\ UNCHANGED queuevars
    BY <1>13, MainFacts DEF SendCommit, MainType
  <2> QED  BY <1>2, <2>1, RoundWorks DEF Working
<1>14. CASE MainStep
    BY <1>3, <1>4, <1>5, <1>6, <1>7, <1>8, <1>9, <1>10, <1>11, <1>12, <1>13, <1>14,
       PickRounds, UpdateRounds DEF MainStep
<1> QED  BY <1>1, <1>14, HttpRounds DEF Next, Quiet

LEMMA RoundImplies == TypeInv /\ RoundInv => GenerationGoesOn
<1> SUFFICES ASSUME TypeInv, RoundInv PROVE GenerationGoesOn
    OBVIOUS
<1>1. main.pc \in MainPhases /\ Pending \in Nat
    BY MainFacts, PendingNat
<1>2. Pending <= 1
    BY <1>1 DEF RoundInv, MainPhases, Working
<1>3. ASSUME main.pc = "wait", queue_tasks = <<>> PROVE \A s \in Slots : ~ IsProcessing(s)
  <2>1. Pending = 0
    BY <1>3, CountEmpty DEF Pending
  <2> QED  BY <1>3, <2>1 DEF RoundInv
<1> QED  BY <1>2, <1>3 DEF GenerationGoesOn

LEMMA InitRounds == Init => RoundInv
<1> SUFFICES ASSUME Init PROVE RoundInv
    OBVIOUS
<1>1. Pending = 0 /\ main.pc = "pick"
    BY CountEmpty DEF Init, Pending
<1> QED  BY <1>1 DEF RoundInv, Working

LEMMA RoundsHold == Spec => []RoundInv
  BY InitRounds, RoundsStay, TypesHold, PTL DEF Spec

(***************************************************************************)
(* The main thread goes to sleep only with every slot idle, and a round of *)
(* decoding is never asked for twice: for every number of slots, batch     *)
(* size and set of requests, with failures and cancellations.              *)
(***************************************************************************)
THEOREM ServerGoesOn == Spec => []GenerationGoesOn
  BY TypesHold, RoundsHold, RoundImplies, PTL

-----------------------------------------------------------------------------
(* Deferred tasks.                                                         *)

HasCompletion == \E id \in AllIds : Count(queue_tasks, Completion(id)) > 0

\* A task is deferred only while something is under way that will bring it back.
StrandInv ==
    queue_tasks_deferred # <<>> =>
        \/ \E s \in Slots : IsProcessing(s)
        \/ HasCompletion
        \/ main.pc = "process" /\ main.task.type = "completion"

LEMMA StrandSame ==
    ASSUME StrandInv, main.pc # "process" \/ main.task.type # "completion",
           queue_tasks_deferred' # <<>> => queue_tasks_deferred # <<>>,
           \A s \in Slots : IsProcessing(s) => slots'[s].state # "idle",
           \A id \in AllIds : Count(queue_tasks, Completion(id)) > 0
                                    => Count(queue_tasks, Completion(id))' > 0
    PROVE  StrandInv'
  BY DEF StrandInv, HasCompletion, IsProcessing, Completion, NoId

LEMMA StrandUnchanged ==
    ASSUME StrandInv, UNCHANGED <<slots, queuevars>>,
           UNCHANGED main \/ main.pc # "process" \/ main.task.type # "completion"
    PROVE  StrandInv'
<1>1. CASE UNCHANGED main
    BY <1>1 DEF StrandInv, HasCompletion, IsProcessing, Completion, NoId, queuevars, Count
<1>2. CASE main.pc # "process" \/ main.task.type # "completion"
  <2>1. \A id \in AllIds : Count(queue_tasks, Completion(id))' = Count(queue_tasks, Completion(id))
    BY DEF queuevars, Count, Completion, NoId
  <2> QED  BY <1>2, <2>1, StrandSame DEF queuevars, IsProcessing
<1> QED  BY <1>1, <1>2

\* What pop_deferred_task leaves behind waits for the task it has taken.
LEMMA PopStrands ==
    ASSUME QueuesOK, PopDeferred
    PROVE  StrandInv'
<1>1. CASE queue_tasks_deferred = <<>>
    BY <1>1 DEF PopDeferred, queuevars, StrandInv
<1>2. CASE queue_tasks_deferred # <<>>
  <2>1. PICK d, q : d = queue_tasks_deferred /\ q = queue_tasks
    OBVIOUS
  <2>2. /\ d \in Seq(Task) /\ q \in Seq(Task) /\ d # <<>> /\ queue_tasks' = Append(q, Head(d))
        /\ \A k \in 1 .. Len(d) : d[k].type = "completion"
    BY <1>2, <2>1 DEF PopDeferred, QueuesOK
  <2>3. PICK x : x = Head(d)
    OBVIOUS
  <2>4. x \in Task /\ x.type = "completion"
    BY <2>2, <2>3
  <2>5. PICK id \in AllIds : x = Completion(id)
    BY <2>4, TaskFacts
  <2>6. Count(Append(q, x), x) = Count(q, x) + 1 /\ Count(q, x) \in Nat
    BY <2>2, <2>4, CountAppend, CountAt
  <2>7. Count(queue_tasks, Completion(id))' = Count(Append(q, x), x)
    BY <2>2, <2>3, <2>5 DEF Completion, NoId
  <2>8. Count(queue_tasks, Completion(id))' > 0
    BY <2>6, <2>7
  <2> QED  BY <2>8 DEF StrandInv, HasCompletion
<1> QED  BY <1>1, <1>2

LEMMA ReleaseStrands ==
    ASSUME TypeInv, StrandInv, main.pc # "process" \/ main.task.type # "completion",
           NEW s \in Slots, Release(s)
    PROVE  StrandInv'
<1>1. CASE IsProcessing(s)
  <2>1. PopDeferred
    BY <1>1 DEF Release
  <2> QED  BY <2>1, PopStrands DEF TypeInv
<1>2. CASE ~ IsProcessing(s)
  <2>1. UNCHANGED <<slots, queuevars>>
    BY <1>2 DEF Release, queuevars
  <2> QED  BY <2>1, StrandUnchanged
<1> QED  BY <1>1, <1>2

LEMMA HttpStrands ==
    ASSUME TypeInv, StrandInv, NEW r \in Requests, AddWaiting(r) \/ HttpStep(r) \/ Disconnect(r)
    PROVE  StrandInv'
<1>1. UNCHANGED <<main, slots>>
    BY DEF HttpStep, AddWaiting, PostTasks, StartStream, Receive, Timeout, RemoveWaiting,
           PostCancel, Complete, Disconnect, mainvars
<1>2. ASSUME queue_tasks_deferred' # <<>> => queue_tasks_deferred # <<>>,
             \A id \in AllIds : Count(queue_tasks, Completion(id)) > 0
                                    => Count(queue_tasks, Completion(id))' > 0
      PROVE  StrandInv'
    BY <1>1, <1>2 DEF StrandInv, HasCompletion, IsProcessing, Completion, NoId
<1>3. CASE PostTasks(r)
  <2>1. PICK z, q : /\ z = [i \in DOMAIN Body[r].prompts |-> Completion(<<r, i>>)]
                    /\ q = queue_tasks
    OBVIOUS
  <2>2. z \in Seq(Task) /\ q \in Seq(Task) /\ queue_tasks' = q \o z
    BY <1>3, <2>1, PostedFacts DEF PostTasks, TypeInv, QueuesOK
  <2>3. ASSUME NEW id \in AllIds, Count(queue_tasks, Completion(id)) > 0
        PROVE  Count(queue_tasks, Completion(id))' > 0
    <3>1. PICK x : x = Completion(id)
        OBVIOUS
    <3>2. Count(q \o z, x) = Count(q, x) + Count(z, x) /\ Count(q, x) \in Nat /\ Count(z, x) \in Nat
        BY <2>2, CountConcat, CountAt
    <3>3. Count(q, x) > 0
        BY <2>1, <2>3, <3>1
    <3>4. Count(queue_tasks, Completion(id))' = Count(q \o z, x)
        BY <2>2, <3>1 DEF Completion, NoId
    <3> QED  BY <3>2, <3>3, <3>4
  <2>4. UNCHANGED queue_tasks_deferred
    BY <1>3 DEF PostTasks
  <2> QED  BY <1>2, <2>3, <2>4
<1>4. CASE PostCancel(r)
  <2>1. ASSUME NEW id \in AllIds, Count(queue_tasks, Completion(id)) > 0
        PROVE  Count(queue_tasks, Completion(id))' > 0
    <3>1. PICK x \in Task : x = Completion(id) /\ x.type # "cancel"
        BY TaskFacts
    <3>2. Count(queue_tasks, x)' = Count(queue_tasks, x)
        BY <1>4, <3>1, PostCancelFacts DEF TypeInv
    <3>3. Count(queue_tasks, Completion(id))' = Count(queue_tasks, x)'
        BY <3>1 DEF Completion, NoId
    <3> QED  BY <2>1, <3>1, <3>2, <3>3
  <2>2. queue_tasks_deferred' # <<>> => queue_tasks_deferred # <<>>
    BY <1>4, PostCancelFacts DEF TypeInv
  <2> QED  BY <1>2, <2>1, <2>2
<1>5. CASE AddWaiting(r) \/ StartStream(r) \/ Receive(r) \/ Timeout(r) \/ RemoveWaiting(r)
           \/ Complete(r) \/ Disconnect(r)
  <2>1. UNCHANGED queuevars
    BY <1>5 DEF AddWaiting, StartStream, Receive, Timeout, RemoveWaiting, Complete, Disconnect
  <2> QED  BY <1>1, <2>1, StrandUnchanged
<1> QED  BY <1>3, <1>4, <1>5 DEF HttpStep

\* With no request for a slot of its own, a task is deferred for want of any.
LEMMA DeferStrands ==
    ASSUME TypeInv, Defer, \A id \in AllIds : IdSlot(id) = -1
    PROVE  StrandInv'
<1>1. PICK id : id = main.task.id
    OBVIOUS
<1>2. id \in AllIds /\ Candidates(id) = {} /\ UNCHANGED slots
    BY <1>1, MainFacts, TaskFacts DEF Defer
<1> DEFINE idle == {k \in 1 .. NSlots : ~ IsProcessing(lru[k])}
<1>3. {lru[k] : k \in {j \in idle : \A i \in idle : j <= i}} = {}
    BY <1>2 DEF Candidates
<1>4. NSlots \in Nat \ {0}
    BY ServerAssumption
<1>5. idle = {}
  <2>1. idle \in SUBSET Nat
    BY <1>4
  <2> HIDE DEF idle
  <2>2. idle # {} => \E m \in idle : \A x \in idle : m <= x
    BY <2>1, LeastNat
  <2> QED  BY <1>3, <2>2
<1>6. IsProcessing(lru[1]) /\ lru[1] \in Slots
  <2>1. 1 \in 1 .. NSlots
    BY <1>4
  <2> QED  BY <1>5, <2>1 DEF TypeInv, LruOK
<1> QED  BY <1>2, <1>6 DEF StrandInv, IsProcessing

LEMMA PickStrands ==
    ASSUME TypeInv, StrandInv, Pick
    PROVE  StrandInv'
<1>1. main.pc = "pick"
    BY DEF Pick
<1>2. CASE queue_tasks = <<>>
  <2>1. UNCHANGED <<slots, queuevars>>
    BY <1>2 DEF Pick, queuevars
  <2> QED  BY <1>1, <2>1, StrandUnchanged
<1>3. CASE queue_tasks # <<>>
  <2>1. PICK q : q = queue_tasks
    OBVIOUS
  <2>2. /\ q \in Seq(Task) /\ Head(q) \in Task /\ queue_tasks' = Tail(q)
        /\ main'.pc = "process" /\ main'.task = Head(q)
    BY <1>3, <2>1, PickFacts
  <2>3. CASE Head(q).type = "completion"
    BY <2>2, <2>3 DEF StrandInv
  <2>4. CASE Head(q).type # "completion"
    <3>1. ASSUME NEW id \in AllIds, Count(queue_tasks, Completion(id)) > 0
          PROVE  Count(queue_tasks, Completion(id))' > 0
      <4>1. PICK x : x = Completion(id) /\ x.type = "completion"
        BY TaskFacts
      <4>2. Count(q, x) = Count(Tail(q), x) + IF Head(q) = x THEN 1 ELSE 0
        BY <1>3, <2>1, <2>2, CountHeadTail
      <4>3. Tail(q) \in Seq(Task)
        BY <1>3, <2>1, <2>2
      <4>4. Count(Tail(q), x) \in Nat
        BY <4>3, CountAt
      <4>5. Head(q) # x
        BY <2>4, <4>1
      <4>6. Count(q, x) = Count(Tail(q), x)
        BY <4>2, <4>4, <4>5
      <4>7. Count(queue_tasks, Completion(id))' = Count(Tail(q), x)
        BY <2>2, <4>1 DEF Completion, NoId
      <4> QED  BY <2>1, <3>1, <4>1, <4>6, <4>7
    <3>2. UNCHANGED <<slots, queue_tasks_deferred>>
        BY DEF Pick
    <3> QED  BY <1>1, <3>1, <3>2, StrandSame DEF IsProcessing
  <2> QED  BY <2>3, <2>4
<1> QED  BY <1>2, <1>3

LEMMA StrandsStay ==
    ASSUME \A id \in AllIds : IdSlot(id) = -1, ~ LaunchFails
    PROVE  TypeInv /\ StrandInv /\ [Next]_vars => StrandInv'
<1> SUFFICES ASSUME TypeInv, StrandInv, [Next]_vars PROVE StrandInv'
    OBVIOUS
<1>1. CASE UNCHANGED vars
  <2>1. UNCHANGED <<slots, queuevars, main>>
    BY <1>1 DEF vars, queuevars
  <2> QED  BY <2>1, StrandUnchanged
<1>2. CASE Launch
  <2>1. PICK s \in Slots, id \in AllIds, ok \in BOOLEAN :
            /\ ok \/ LaunchFails
            /\ slots'[s].state = IF ok THEN "started" ELSE "idle"
    BY <1>2, LaunchFacts
  <2>2. slots'[s].state = "started"
    BY <2>1
  <2> QED  BY <2>2 DEF StrandInv, IsProcessing
<1>3. CASE ProcessCancel
  <2>1. main.task.type # "completion"
    BY <1>3 DEF ProcessCancel
  <2>2. CASE UNCHANGED <<slots, lru, queuevars>>
    BY <2>1, <2>2, StrandUnchanged
  <2>3. CASE \E s \in Slots : Release(s)
    BY <2>1, <2>3, ReleaseStrands
  <2> QED  BY <1>3, <2>2, <2>3, ProcessCancelFacts
<1>4. CASE ProcessNext \/ Wait \/ PromptNone \/ Decode \/ SampleNone \/ SendCommit
  <2>1. UNCHANGED <<slots, queuevars>> /\ (main.pc # "process" \/ main.task.type # "completion")
    BY <1>4 DEF ProcessNext, Wait, PromptNone, Decode, SampleNone, SendCommit
  <2> QED  BY <2>1, StrandUnchanged
<1>5. CASE Update
  <2>1. ASSUME NEW id \in AllIds, Count(queue_tasks, Completion(id)) > 0
        PROVE  Count(queue_tasks, Completion(id))' > 0
    <3>1. PICK q, x, y : q = queue_tasks /\ x = Completion(id) /\ y = NextResponse
        OBVIOUS
    <3>2. q \in Seq(Task) /\ x # y /\ y \in Task
        BY <3>1, TaskFacts DEF TypeInv, QueuesOK
    <3>3. queue_tasks' = q \/ queue_tasks' = Append(q, y)
        BY <1>5, <3>1, UpdateFacts
    <3>4. Count(Append(q, y), x) = Count(q, x) + (IF y = x THEN 1 ELSE 0) /\ Count(q, x) \in Nat
        BY <3>2, CountAppend, CountAt
    <3>5. Count(Append(q, y), x) = Count(q, x)
        BY <3>2, <3>4
    <3>6. Count(queue_tasks, Completion(id))' = Count(queue_tasks', x)
        BY <3>1 DEF Completion, NoId
    <3> QED  BY <2>1, <3>1, <3>3, <3>5, <3>6
  <2>2. \A s \in Slots : IsProcessing(s) => slots'[s].state # "idle"
    BY <1>5, UpdateFacts DEF IsProcessing
  <2>3. main.pc = "update" /\ UNCHANGED queue_tasks_deferred
    BY <1>5 DEF Update
  <2> QED  BY <2>1, <2>2, <2>3, StrandSame
<1>6. CASE PromptEmpty
  <2>1. PICK s : s = main.i
    OBVIOUS
  <2>2. s \in Slots /\ Release(s) /\ main.pc = "prompt"
    BY <1>6, <2>1, PromptEmptyFacts
  <2> QED  BY <2>2, ReleaseStrands
<1>7. CASE PromptTokens
  <2>1. PICK s : s = main.i
    OBVIOUS
  <2>2. s \in Slots /\ slots'[s].state # "idle"
    BY <1>7, <2>1, PromptTokensFacts
  <2> QED  BY <2>2 DEF StrandInv, IsProcessing
<1>8. CASE Fail
  <2>1. PICK s : s = main.i
    OBVIOUS
  <2>2. s \in Slots /\ Release(s) /\ main.pc = "fail"
    BY <1>8, <2>1, MainFacts DEF Fail
  <2> QED  BY <2>2, ReleaseStrands
<1>9. CASE Sample
  <2>1. PICK s, id : s = main.i /\ id = slots[s].id_task
    OBVIOUS
  <2>2. s \in Slots
    BY <1>9, <2>1, SampleFacts
  <2>3. PICK stop \in BOOLEAN : /\ slots'[s].state = IF stop THEN "idle" ELSE "generating"
                                /\ stop => PopDeferred
    BY <1>9, <2>1, SampleFacts
  <2>4. CASE stop
    BY <2>3, <2>4, PopStrands DEF TypeInv
  <2>5. CASE ~ stop
    <3>1. slots'[s].state = "generating"
        BY <2>3, <2>5
    <3> QED  BY <2>2, <3>1 DEF StrandInv, IsProcessing
  <2> QED  BY <2>4, <2>5
<1>10. CASE MainStep
    BY <1>2, <1>3, <1>4, <1>5, <1>6, <1>7, <1>8, <1>9, <1>10, PickStrands, DeferStrands DEF MainStep
<1> QED  BY <1>1, <1>10, HttpStrands DEF Next, Quiet

LEMMA StrandImplies == TypeInv /\ RoundInv /\ StrandInv => NothingStranded
<1> SUFFICES ASSUME TypeInv, RoundInv, StrandInv, main.pc = "wait", queue_tasks = <<>>
             PROVE  queue_tasks_deferred = <<>>
    BY DEF NothingStranded
<1>1. \A s \in Slots : ~ IsProcessing(s)
    BY RoundImplies DEF GenerationGoesOn
<1>2. ~ HasCompletion
    BY CountEmpty DEF HasCompletion
<1> QED  BY <1>1, <1>2 DEF StrandInv

LEMMA InitStrands == Init => StrandInv
  BY DEF Init, StrandInv

(***************************************************************************)
(* When no request asks for a slot of its own and the sampler is always    *)
(* made, the main thread never goes to sleep with a task deferred,         *)
(* whatever decodes fail and whatever is cancelled.                        *)
(***************************************************************************)
THEOREM ServerStrandsNothing ==
    ASSUME \A id \in AllIds : IdSlot(id) = -1, ~ LaunchFails
    PROVE  Spec => []NothingStranded
<1>1. TypeInv /\ StrandInv /\ [Next]_vars => StrandInv'
    BY StrandsStay
<1> QED  BY <1>1, InitStrands, TypesHold, RoundsHold, StrandImplies, PTL DEF Spec

-----------------------------------------------------------------------------
(* Places.                                                                 *)

Queued(id) == Count(queue_tasks, Completion(id)) + Count(queue_tasks_deferred, Completion(id))
Hand(id)   == IF InHand(Completion(id)) THEN 1 ELSE 0
Unsent(id) == Count(send_buffer, Final(id))
Unread(id) == Count(queue_results, Final(id))

LEMMA PlacesSum ==
    TypeInv => \A id \in AllIds :
        /\ Queued(id) \in Nat /\ Hand(id) \in Nat /\ OnSlots(id) \in Nat
        /\ Unsent(id) \in Nat /\ Unread(id) \in Nat
        /\ Places(id) = Queued(id) + Hand(id) + OnSlots(id) + Unsent(id) + Unread(id)
        /\ Places(id) \in Nat
<1> SUFFICES ASSUME TypeInv, NEW id \in AllIds
             PROVE  /\ Queued(id) \in Nat /\ Hand(id) \in Nat /\ OnSlots(id) \in Nat
                    /\ Unsent(id) \in Nat /\ Unread(id) \in Nat
                    /\ Places(id) = Queued(id) + Hand(id) + OnSlots(id) + Unsent(id) + Unread(id)
                    /\ Places(id) \in Nat
    OBVIOUS
<1>1. PICK c, f : c = Completion(id) /\ f = Final(id)
    OBVIOUS
<1>2. Count(queue_tasks, c) \in Nat /\ Count(queue_tasks_deferred, c) \in Nat
    BY CountAt DEF TypeInv, QueuesOK
<1>3. Count(send_buffer, f) \in Nat /\ Count(queue_results, f) \in Nat
    BY CountAt DEF TypeInv, SendOK, ResultsOK
<1>4. OnSlots(id) \in Nat /\ Hand(id) \in Nat
    BY OnSlotsNat DEF Hand
<1>5. Places(id) = (Count(queue_tasks, c) + Count(queue_tasks_deferred, c) + Hand(id)) + OnSlots(id)
                        + (Count(send_buffer, f) + Count(queue_results, f))
    BY <1>1 DEF Places, InQueues, Finals, Hand
<1>6. Queued(id) = Count(queue_tasks, c) + Count(queue_tasks_deferred, c)
      /\ Unsent(id) = Count(send_buffer, f) /\ Unread(id) = Count(queue_results, f)
    BY <1>1 DEF Queued, Unsent, Unread
<1> QED  BY <1>2, <1>3, <1>4, <1>5, <1>6

LEMMA PlacesSumNext ==
    TypeInv' => \A id \in AllIds :
        /\ Queued(id)' \in Nat /\ Hand(id)' \in Nat /\ OnSlots(id)' \in Nat
        /\ Unsent(id)' \in Nat /\ Unread(id)' \in Nat
        /\ Places(id)' = Queued(id)' + Hand(id)' + OnSlots(id)' + Unsent(id)' + Unread(id)'
        /\ Places(id)' \in Nat
<1> SUFFICES ASSUME TypeInv', NEW id \in AllIds
             PROVE  /\ Queued(id)' \in Nat /\ Hand(id)' \in Nat /\ OnSlots(id)' \in Nat
                    /\ Unsent(id)' \in Nat /\ Unread(id)' \in Nat
                    /\ Places(id)' = Queued(id)' + Hand(id)' + OnSlots(id)' + Unsent(id)' + Unread(id)'
                    /\ Places(id)' \in Nat
    OBVIOUS
<1>1. PICK c, f : c = Completion(id) /\ f = Final(id)
    OBVIOUS
<1>2. Count(queue_tasks', c) \in Nat /\ Count(queue_tasks_deferred', c) \in Nat
    BY CountAt DEF TypeInv, QueuesOK
<1>3. Count(send_buffer', f) \in Nat /\ Count(queue_results', f) \in Nat
    BY CountAt DEF TypeInv, SendOK, ResultsOK
<1>4. OnSlots(id)' \in Nat /\ Hand(id)' \in Nat
  <2>1. OnSlots(id)' = Cardinality(RunOn(slots', id)) /\ RunOn(slots', id) \subseteq Slots
    BY DEF OnSlots, RunOn, IsProcessing
  <2>2. OnSlots(id)' \in Nat
    BY <2>1, SlotsFinite, FS_Subset, FS_CardinalityType
  <2> QED  BY <2>2 DEF Hand
<1>5. Queued(id)' = Count(queue_tasks', c) + Count(queue_tasks_deferred', c)
      /\ Unsent(id)' = Count(send_buffer', f) /\ Unread(id)' = Count(queue_results', f)
    BY <1>1 DEF Queued, Unsent, Unread, Completion, Final, NoId
<1>6. InQueues(id)' = Count(queue_tasks', c) + Count(queue_tasks_deferred', c) + Hand(id)'
    BY <1>1 DEF InQueues, Hand, InHand, Completion, NoId
<1>7. Finals(id)' = Count(send_buffer', f) + Count(queue_results', f)
    BY <1>1 DEF Finals, Final
<1>8. Places(id)' = InQueues(id)' + OnSlots(id)' + Finals(id)'
    BY DEF Places
<1> QED  BY <1>2, <1>3, <1>4, <1>5, <1>6, <1>7, <1>8

\* What a step leaves alone.
LEMMA SamePlaces ==
    \A id \in AllIds :
        /\ OnlyMoves => Queued(id)' = Queued(id)
        /\ UNCHANGED main => Hand(id)' = Hand(id)
        /\ main.pc # "process" => Hand(id) = 0
        /\ main'.pc # "process" => Hand(id)' = 0
        /\ UNCHANGED slots => OnSlots(id)' = OnSlots(id)
        /\ UNCHANGED send_buffer => Unsent(id)' = Unsent(id)
        /\ UNCHANGED queue_results => Unread(id)' = Unread(id)
<1> TAKE id \in AllIds
<1>1. ASSUME OnlyMoves PROVE Queued(id)' = Queued(id)
  <2>1. PICK c : c = Completion(id)
    OBVIOUS
  <2>2. Count(queue_tasks, c)' + Count(queue_tasks_deferred, c)'
            = Count(queue_tasks, c) + Count(queue_tasks_deferred, c)
    BY <1>1 DEF OnlyMoves
  <2> QED  BY <2>1, <2>2 DEF Queued, Count, Completion, NoId
<1>2. UNCHANGED main => Hand(id)' = Hand(id)
    BY DEF Hand, InHand, Completion, NoId
<1>3. /\ main.pc # "process" => Hand(id) = 0
      /\ main'.pc # "process" => Hand(id)' = 0
    BY DEF Hand, InHand
<1>4. UNCHANGED slots => OnSlots(id)' = OnSlots(id)
    BY SameRunning
<1>5. UNCHANGED send_buffer => Unsent(id)' = Unsent(id)
    BY DEF Unsent, Count, Final
<1>6. UNCHANGED queue_results => Unread(id)' = Unread(id)
    BY DEF Unread, Count, Final
<1> QED  BY <1>1, <1>2, <1>3, <1>4, <1>5, <1>6

LEMMA PostTasksPlaces ==
    ASSUME TypeInv, TypeInv', NEW r \in Requests, PostTasks(r), NEW id \in AllIds
    PROVE  Places(id)' = Places(id) + (IF id \in Ids(r) THEN 1 ELSE 0)
<1>1. PICK z, q, d, c : /\ z = [i \in DOMAIN Body[r].prompts |-> Completion(<<r, i>>)]
                        /\ q = queue_tasks /\ d = queue_tasks_deferred /\ c = Completion(id)
    OBVIOUS
<1>2. z \in Seq(Task) /\ q \in Seq(Task) /\ d \in Seq(Task) /\ queue_tasks' = q \o z
    BY <1>1, PostedFacts DEF PostTasks, TypeInv, QueuesOK
<1>3. Count(z, c) = IF id \in Ids(r) THEN 1 ELSE 0
    BY <1>1, PostedFacts
<1>4. Count(q \o z, c) = Count(q, c) + Count(z, c) /\ Count(q, c) \in Nat /\ Count(d, c) \in Nat
      /\ Count(z, c) \in Nat
    BY <1>2, CountConcat, CountAt
<1>5. Queued(id) = Count(q, c) + Count(d, c) /\ Queued(id)' = Count(q \o z, c) + Count(d, c)
    BY <1>1, <1>2 DEF Queued, Completion, NoId, PostTasks
<1>6. Queued(id)' = Queued(id) + Count(z, c)
    BY <1>4, <1>5
<1>7. /\ Hand(id)' = Hand(id) /\ OnSlots(id)' = OnSlots(id)
      /\ Unsent(id)' = Unsent(id) /\ Unread(id)' = Unread(id)
    BY SamePlaces DEF PostTasks, mainvars, resultvars
<1>8. Places(id)' = Places(id) + Count(z, c)
    BY <1>4, <1>6, <1>7, PlacesSum, PlacesSumNext
<1> QED  BY <1>3, <1>8

LEMMA OtherHttpPlaces ==
    ASSUME TypeInv, TypeInv', NEW r \in Requests,
           \/ AddWaiting(r) \/ StartStream(r) \/ Timeout(r) \/ PostCancel(r) \/ Complete(r)
           \/ Disconnect(r),
           NEW id \in AllIds
    PROVE  Places(id)' = Places(id)
<1>1. Queued(id)' = Queued(id)
  <2>1. CASE PostCancel(r)
    <3>1. PICK x \in Task : x = Completion(id) /\ x.type # "cancel"
        BY TaskFacts
    <3>2. /\ Count(queue_tasks, x)' = Count(queue_tasks, x)
          /\ Count(queue_tasks_deferred, x)' = Count(queue_tasks_deferred, x)
        BY <2>1, <3>1, PostCancelFacts DEF TypeInv
    <3>3. Queued(id)' = Count(queue_tasks, x)' + Count(queue_tasks_deferred, x)'
        BY <3>1 DEF Queued, Count, Completion, NoId
    <3>4. Queued(id) = Count(queue_tasks, x) + Count(queue_tasks_deferred, x)
        BY <3>1 DEF Queued
    <3> QED  BY <3>2, <3>3, <3>4
  <2>2. CASE ~ PostCancel(r)
    <3>1. UNCHANGED queuevars
        BY <2>2 DEF AddWaiting, StartStream, Timeout, Complete, Disconnect
    <3> QED  BY <3>1, UnchangedMoves, SamePlaces
  <2> QED  BY <2>1, <2>2
<1>2. /\ Hand(id)' = Hand(id) /\ OnSlots(id)' = OnSlots(id)
      /\ Unsent(id)' = Unsent(id) /\ Unread(id)' = Unread(id)
  <2>1. UNCHANGED <<main, slots, send_buffer, queue_results>>
    BY DEF AddWaiting, StartStream, Timeout, PostCancel, Complete, Disconnect, mainvars, resultvars
  <2> QED  BY <2>1, SamePlaces
<1> QED  BY <1>1, <1>2, PlacesSum, PlacesSumNext

LEMMA ReceivePlaces ==
    ASSUME TypeInv, TypeInv', NEW r \in Requests, Receive(r),
           NEW k \in 1 .. Len(queue_results), queue_results' = RemoveAt(queue_results, k),
           NEW id \in AllIds
    PROVE  Places(id) = Places(id)' + (IF queue_results[k] = Final(id) THEN 1 ELSE 0)
<1>1. PICK q, f : q = queue_results /\ f = Final(id)
    OBVIOUS
<1>2. q \in Seq(Result) /\ k \in 1 .. Len(q)
    BY <1>1 DEF TypeInv, ResultsOK
<1>3. Count(q, f) = Count(RemoveAt(q, k), f) + IF q[k] = f THEN 1 ELSE 0
    BY <1>2, RemoveAtFacts
<1>4. Unread(id) = Count(q, f) /\ Unread(id)' = Count(RemoveAt(q, k), f)
    BY <1>1 DEF Unread, Final
<1>5. /\ Queued(id)' = Queued(id) /\ Hand(id)' = Hand(id) /\ OnSlots(id)' = OnSlots(id)
      /\ Unsent(id)' = Unsent(id)
  <2>1. UNCHANGED queuevars /\ UNCHANGED <<main, slots, send_buffer>>
    BY DEF Receive, mainvars
  <2> QED  BY <2>1, UnchangedMoves, SamePlaces
<1>6. Unread(id) = Unread(id)' + (IF queue_results[k] = Final(id) THEN 1 ELSE 0)
    BY <1>1, <1>3, <1>4
<1>7. CASE queue_results[k] = Final(id)
  <2>1. Unread(id) = Unread(id)' + 1
    BY <1>6, <1>7
  <2>2. Places(id) = Places(id)' + 1
    BY <1>5, <2>1, PlacesSum, PlacesSumNext
  <2> QED  BY <1>7, <2>2
<1>8. CASE queue_results[k] # Final(id)
  <2>1. Unread(id) = Unread(id)' + 0
    BY <1>6, <1>8
  <2>2. Places(id) = Places(id)' + 0
    BY <1>5, <2>1, PlacesSum, PlacesSumNext
  <2> QED  BY <1>8, <2>2
<1> QED  BY <1>7, <1>8

LEMMA RemoveWaitingPlaces ==
    ASSUME TypeInv, TypeInv', NEW r \in Requests, RemoveWaiting(r), NEW id \in AllIds
    PROVE  /\ Places(id)' <= Places(id)
           /\ id \notin Ids(r) => Places(id)' = Places(id)
<1>1. PICK x \in to_cancel[r] : queue_results' = Kept(queue_results, {res \in Result : res.id # x})
    BY DEF RemoveWaiting
<1>2. x \in Ids(r)
    BY DEF TypeInv, HttpOK
<1>3. PICK q, f, S : q = queue_results /\ f = Final(id) /\ S = {res \in Result : res.id # x}
    OBVIOUS
<1>4. q \in Seq(Result)
    BY <1>3 DEF TypeInv, ResultsOK
<1>5. PICK z : z = Kept(q, S)
    OBVIOUS
<1>6. (f \in S => Count(z, f) = Count(q, f)) /\ (f \notin S => Count(z, f) = 0)
    BY <1>4, <1>5, KeptCount
<1>7. id \notin Ids(r) => f \in S
    BY <1>2, <1>3, ResultFacts
<1>8. Unread(id) = Count(q, f) /\ Unread(id)' = Count(z, f)
    BY <1>1, <1>3, <1>5 DEF Unread, Final
<1>9. /\ Queued(id)' = Queued(id) /\ Hand(id)' = Hand(id) /\ OnSlots(id)' = OnSlots(id)
      /\ Unsent(id)' = Unsent(id)
  <2>1. UNCHANGED queuevars /\ UNCHANGED <<main, slots, send_buffer>>
    BY DEF RemoveWaiting, mainvars
  <2> QED  BY <2>1, UnchangedMoves, SamePlaces
<1>10. Unread(id)' <= Unread(id) /\ (id \notin Ids(r) => Unread(id)' = Unread(id))
    BY <1>6, <1>7, <1>8, PlacesSum
<1> QED  BY <1>9, <1>10, PlacesSum, PlacesSumNext

\* Why the main thread may drop a task.
Excused(id) ==
    \/ main.pc = "fail" \/ LaunchFails \/ InHand(Cancel(id))
    \/ main.pc = "commit" /\ id \notin waiting_task_ids

LEMMA PickPlaces ==
    ASSUME TypeInv, TypeInv', Pick, NEW id \in AllIds
    PROVE  Places(id)' = Places(id)
<1>1. /\ Hand(id) = 0 /\ OnSlots(id)' = OnSlots(id)
      /\ Unsent(id)' = Unsent(id) /\ Unread(id)' = Unread(id)
    BY SamePlaces DEF Pick, resultvars
<1>2. CASE queue_tasks = <<>>
  <2>1. UNCHANGED queuevars /\ main'.pc = "update"
    BY <1>2, MainFacts DEF Pick, queuevars, MainType
  <2>2. Hand(id)' = 0 /\ Queued(id)' = Queued(id)
    BY <2>1, SamePlaces, UnchangedMoves
  <2> QED  BY <1>1, <2>2, PlacesSum, PlacesSumNext
<1>3. CASE queue_tasks # <<>>
  <2>1. PICK q, d, c : q = queue_tasks /\ d = queue_tasks_deferred /\ c = Completion(id)
    OBVIOUS
  <2>2. /\ q \in Seq(Task) /\ Head(q) \in Task /\ queue_tasks' = Tail(q)
        /\ main'.pc = "process" /\ main'.task = Head(q)
    BY <1>3, <2>1, PickFacts
  <2>3. Count(q, c) = Count(Tail(q), c) + IF Head(q) = c THEN 1 ELSE 0
    BY <1>3, <2>1, <2>2, CountHeadTail
  <2>4. Hand(id)' = IF Head(q) = c THEN 1 ELSE 0
    BY <2>1, <2>2 DEF Hand, InHand, Completion, NoId
  <2>5. Count(q, c) = Count(Tail(q), c) + Hand(id)'
    BY <2>3, <2>4
  <2>6. Queued(id) = Count(q, c) + Count(d, c) /\ Queued(id)' = Count(Tail(q), c) + Count(d, c)
    BY <2>1, <2>2 DEF Queued, Completion, NoId, Pick
  <2>7. Tail(q) \in Seq(Task) /\ d \in Seq(Task)
    BY <1>3, <2>1, <2>2 DEF TypeInv, QueuesOK
  <2>8. Count(Tail(q), c) \in Nat /\ Count(d, c) \in Nat
    BY <2>7, CountAt
  <2>9. Queued(id) = Queued(id)' + Hand(id)'
    BY <2>5, <2>6, <2>8, PlacesSumNext
  <2> QED  BY <1>1, <2>9, PlacesSum, PlacesSumNext
<1> QED  BY <1>2, <1>3

LEMMA DeferPlaces ==
    ASSUME TypeInv, TypeInv', Defer, NEW id \in AllIds
    PROVE  Places(id)' = Places(id)
<1>1. /\ OnSlots(id)' = OnSlots(id)
      /\ Unsent(id)' = Unsent(id) /\ Unread(id)' = Unread(id)
    BY SamePlaces DEF Defer, resultvars
<1>2. PICK q, d, c, t : /\ q = queue_tasks /\ d = queue_tasks_deferred /\ c = Completion(id)
                        /\ t = main.task
    OBVIOUS
<1>3. /\ t \in Task /\ d \in Seq(Task) /\ q \in Seq(Task)
      /\ queue_tasks_deferred' = Append(d, t) /\ queue_tasks' = q
      /\ main.pc = "process" /\ main'.pc = "pick"
    BY <1>2, DeferFacts DEF TypeInv, QueuesOK
<1>4. Hand(id)' = 0 /\ Hand(id) = IF t = c THEN 1 ELSE 0
    BY <1>2, <1>3, SamePlaces DEF Hand, InHand
<1>5. Count(Append(d, t), c) = Count(d, c) + (IF t = c THEN 1 ELSE 0)
    BY <1>3, CountAppend
<1>6. Count(Append(d, t), c) = Count(d, c) + Hand(id)
    BY <1>4, <1>5
<1>7. Queued(id) = Count(q, c) + Count(d, c) /\ Queued(id)' = Count(q, c) + Count(Append(d, t), c)
    BY <1>2, <1>3 DEF Queued, Completion, NoId
<1>8. Count(q, c) \in Nat /\ Count(d, c) \in Nat
    BY <1>3, CountAt
<1>9. Queued(id)' = Queued(id) + Hand(id)
    BY <1>6, <1>7, <1>8, PlacesSum
<1> QED  BY <1>1, <1>4, <1>9, PlacesSum, PlacesSumNext

LEMMA LaunchPlaces ==
    ASSUME TypeInv, TypeInv', Launch, NEW id \in AllIds
    PROVE  /\ Places(id)' = Places(id) \/ LaunchFails
           /\ Places(id)' <= Places(id)
<1>1. UNCHANGED queuevars /\ UNCHANGED <<send_buffer, queue_results>> /\ main'.pc = "pick"
    BY MainFacts DEF Launch, resultvars, MainType
<1>2. /\ Queued(id)' = Queued(id) /\ Unsent(id)' = Unsent(id) /\ Unread(id)' = Unread(id)
      /\ Hand(id)' = 0
    BY <1>1, SamePlaces, UnchangedMoves
<1>3. PICK s \in Slots, x \in AllIds, ok \in BOOLEAN :
        /\ main.pc = "process" /\ main.task = Completion(x)
        /\ ~ IsProcessing(s) /\ (ok \/ LaunchFails)
        /\ \A u \in Slots \ {s} : slots'[u] = slots[u]
        /\ slots'[s].id_task = x
        /\ slots'[s].state = IF ok THEN "started" ELSE "idle"
    BY LaunchFacts
<1>4. s \notin RunOn(slots, id)
    BY <1>3 DEF RunOn, IsProcessing
<1>5. s \in RunOn(slots', id) <=> ok /\ x = id
    BY <1>3 DEF RunOn
<1>6. CASE x = id
  <2>1. Hand(id) = 1
    BY <1>3, <1>6 DEF Hand, InHand
  <2>2. ok => OnSlots(id)' = OnSlots(id) + 1
    BY <1>3, <1>4, <1>5, <1>6, OneSlot
  <2>3. ~ ok => OnSlots(id)' = OnSlots(id)
    BY <1>3, <1>4, <1>5, OneSlot
  <2> QED  BY <1>2, <1>3, <2>1, <2>2, <2>3, PlacesSum, PlacesSumNext
<1>7. CASE x # id
  <2>1. Hand(id) = 0
    BY <1>3, <1>7, TaskFacts DEF Hand, InHand
  <2>2. OnSlots(id)' = OnSlots(id)
    BY <1>3, <1>4, <1>5, <1>7, OneSlot
  <2> QED  BY <1>2, <2>1, <2>2, PlacesSum, PlacesSumNext
<1> QED  BY <1>6, <1>7

\* A release takes a task off its slot; the task it brings back stays queued.
LEMMA ReleasePlaces ==
    ASSUME TypeInv, NEW s \in Slots, Release(s), NEW id \in AllIds
    PROVE  /\ Queued(id)' = Queued(id)
           /\ IsProcessing(s) /\ slots[s].id_task = id => OnSlots(id)' = OnSlots(id) - 1
           /\ ~ (IsProcessing(s) /\ slots[s].id_task = id) => OnSlots(id)' = OnSlots(id)
<1>1. /\ OnlyMoves /\ \A u \in Slots \ {s} : slots'[u] = slots[u]
      /\ slots'[s].state = "idle"
    BY ReleaseFacts DEF TypeInv
<1>2. s \notin RunOn(slots', id) /\ (s \in RunOn(slots, id) <=> IsProcessing(s) /\ slots[s].id_task = id)
    BY <1>1 DEF RunOn, IsProcessing
<1> QED  BY <1>1, <1>2, OneSlot, SamePlaces

LEMMA ProcessCancelPlaces ==
    ASSUME TypeInv, TypeInv', ProcessCancel, NEW id \in AllIds
    PROVE  /\ Places(id)' = Places(id) \/ InHand(Cancel(id))
           /\ Places(id)' <= Places(id)
<1>1. /\ UNCHANGED <<send_buffer, queue_results>> /\ main'.pc = "pick"
      /\ main.task.type = "cancel" /\ main.pc = "process"
    BY MainFacts DEF ProcessCancel, resultvars, MainType
<1>2. Hand(id) = 0
    BY <1>1, TaskFacts DEF Hand, InHand
<1>3. Hand(id)' = 0 /\ Unsent(id)' = Unsent(id) /\ Unread(id)' = Unread(id)
    BY <1>1, SamePlaces
<1>4. CASE UNCHANGED <<slots, lru, queuevars>>
  <2>1. Queued(id)' = Queued(id) /\ OnSlots(id)' = OnSlots(id)
    BY <1>4, SamePlaces, UnchangedMoves
  <2> QED  BY <1>2, <1>3, <2>1, PlacesSum, PlacesSumNext
<1>5. CASE \E s \in Slots : slots[s].id_task = main.task.id_target /\ Release(s)
  <2>1. PICK s \in Slots : slots[s].id_task = main.task.id_target /\ Release(s)
    BY <1>5
  <2>2. /\ Queued(id)' = Queued(id)
        /\ IsProcessing(s) /\ slots[s].id_task = id => OnSlots(id)' = OnSlots(id) - 1
        /\ ~ (IsProcessing(s) /\ slots[s].id_task = id) => OnSlots(id)' = OnSlots(id)
    BY <2>1, ReleasePlaces
  <2>3. slots[s].id_task = id => InHand(Cancel(id))
    <3>1. PICK t : t = main.task
        OBVIOUS
    <3>2. t \in Task /\ t.type = "cancel"
        BY <1>1, <3>1, MainFacts
    <3>3. t = Cancel(t.id_target)
        BY <3>2, TaskFacts
    <3> QED  BY <1>1, <2>1, <3>1, <3>3 DEF InHand
  <2> QED  BY <1>2, <1>3, <2>2, <2>3, PlacesSum, PlacesSumNext
<1> QED  BY <1>4, <1>5, ProcessCancelFacts

\* Steps that leave the queues, the slots' tasks and the results alone.
LEMMA QuietPlaces ==
    ASSUME TypeInv, TypeInv', NEW id \in AllIds,
           ProcessNext \/ Wait \/ PromptNone \/ PromptTokens \/ Decode \/ SampleNone
    PROVE  Places(id)' = Places(id)
<1>1. UNCHANGED queuevars /\ UNCHANGED <<send_buffer, queue_results>>
    BY DEF ProcessNext, Wait, PromptNone, PromptTokens, Decode, SampleNone, resultvars
<1>2. Queued(id)' = Queued(id) /\ Unsent(id)' = Unsent(id) /\ Unread(id)' = Unread(id)
    BY <1>1, SamePlaces, UnchangedMoves
<1>3. Hand(id) = 0
  <2>1. CASE ProcessNext
    BY <2>1, TaskFacts DEF ProcessNext, Hand, InHand
  <2>2. CASE Wait \/ PromptNone \/ PromptTokens \/ Decode \/ SampleNone
    BY <2>2 DEF Wait, PromptNone, PromptTokens, Decode, SampleNone, Hand, InHand
  <2> QED  BY <2>1, <2>2
<1>4. Hand(id)' = 0
  <2>1. CASE ProcessNext \/ Wait
    <3>1. main'.pc = "pick"
        BY <2>1, MainFacts DEF ProcessNext, Wait, MainType
    <3> QED  BY <3>1, SamePlaces
  <2>2. CASE PromptNone
    BY <2>2, PromptNoneTypes, SamePlaces
  <2>3. CASE PromptTokens
    BY <2>3, PromptTokensFacts, SamePlaces
  <2>4. CASE Decode
    BY <2>4, DecodeTypes, SamePlaces
  <2>5. CASE SampleNone
    <3>1. main'.pc \in {"sample", "decode", "commit"}
        BY <2>5, NextSlotFacts DEF SampleNone
    <3> QED  BY <3>1, SamePlaces
  <2> QED  BY <2>1, <2>2, <2>3, <2>4, <2>5
<1>5. OnSlots(id)' = OnSlots(id)
  <2>1. CASE PromptTokens
    <3>1. PICK s : s = main.i
        OBVIOUS
    <3>2. /\ s \in Slots /\ slots[s].state # "idle" /\ slots'[s].state # "idle"
          /\ slots'[s].id_task = slots[s].id_task
          /\ \A u \in Slots \ {s} : slots'[u] = slots[u]
        BY <2>1, <3>1, PromptTokensFacts DEF IsProcessing
    <3>3. \A u \in Slots : /\ slots'[u].state = "idle" <=> slots[u].state = "idle"
                           /\ slots'[u].id_task = slots[u].id_task
        BY <3>2
    <3> QED  BY <3>3, SameRunning
  <2>2. CASE ProcessNext \/ Wait \/ PromptNone \/ Decode \/ SampleNone
    <3>1. UNCHANGED slots
        BY <2>2 DEF ProcessNext, Wait, PromptNone, Decode, SampleNone
    <3> QED  BY <3>1, SamePlaces
  <2> QED  BY <2>1, <2>2
<1> QED  BY <1>2, <1>3, <1>4, <1>5, PlacesSum, PlacesSumNext

LEMMA UpdatePlaces ==
    ASSUME TypeInv, TypeInv', Update, NEW id \in AllIds
    PROVE  Places(id)' = Places(id)
<1>1. /\ main.pc = "update" /\ main'.pc # "process"
      /\ \A s \in Slots : /\ slots'[s].state = slots[s].state
                          /\ slots'[s].id_task = slots[s].id_task
      /\ UNCHANGED <<send_buffer, queue_results, queue_tasks_deferred>>
  <2>1. main'.pc # "process"
    BY UpdateFacts
  <2> QED  BY <2>1, UpdateFacts DEF Update, resultvars
<1>2. /\ Hand(id) = 0 /\ Hand(id)' = 0
      /\ Unsent(id)' = Unsent(id) /\ Unread(id)' = Unread(id)
    BY <1>1, SamePlaces
<1>3. OnSlots(id)' = OnSlots(id)
    BY <1>1, SameRunning
<1>4. PICK q, c, y : q = queue_tasks /\ c = Completion(id) /\ y = NextResponse
    OBVIOUS
<1>5. q \in Seq(Task) /\ c # y /\ y \in Task
    BY <1>4, TaskFacts DEF TypeInv, QueuesOK
<1>6. queue_tasks' = q \/ queue_tasks' = Append(q, y)
    BY <1>4, UpdateFacts
<1>7. Count(Append(q, y), c) = Count(q, c) + (IF y = c THEN 1 ELSE 0) /\ Count(q, c) \in Nat
    BY <1>5, CountAppend, CountAt
<1>8. Count(Append(q, y), c) = Count(q, c)
    BY <1>5, <1>7
<1>9. Count(queue_tasks', c) = Count(q, c)
    BY <1>6, <1>8
<1>10. Queued(id)' = Count(queue_tasks', c) + Count(queue_tasks_deferred, c)
    BY <1>1, <1>4 DEF Queued, Completion, NoId
<1>11. Queued(id) = Count(q, c) + Count(queue_tasks_deferred, c)
    BY <1>4 DEF Queued
<1>12. Queued(id)' = Queued(id)
    BY <1>9, <1>10, <1>11
<1> QED  BY <1>2, <1>3, <1>12, PlacesSum, PlacesSumNext

LEMMA PromptEmptyPlaces ==
    ASSUME TypeInv, TypeInv', PromptEmpty, NEW id \in AllIds
    PROVE  Places(id)' = Places(id)
<1>1. PICK s, x : s = main.i /\ x = slots[s].id_task
    OBVIOUS
<1>2. /\ s \in Slots /\ IsProcessing(s) /\ x \in AllIds /\ Release(s)
      /\ send_buffer' = Append(send_buffer, Final(x))
      /\ main.pc = "prompt" /\ main'.pc \in {"prompt", "decode", "wait"}
    BY <1>1, PromptEmptyFacts
<1>3. UNCHANGED queue_results
    BY DEF PromptEmpty, resultvars
<1>4. Hand(id) = 0 /\ Hand(id)' = 0 /\ Unread(id)' = Unread(id)
    BY <1>2, <1>3, SamePlaces
<1>5. /\ Queued(id)' = Queued(id)
      /\ x = id => OnSlots(id)' = OnSlots(id) - 1
      /\ x # id => OnSlots(id)' = OnSlots(id)
    BY <1>1, <1>2, ReleasePlaces
<1>6. PICK b, f, y : b = send_buffer /\ f = Final(id) /\ y = Final(x)
    OBVIOUS
<1>7. b \in Seq(Result) /\ y \in Result
    BY <1>2, <1>6, ResultFacts DEF TypeInv, SendOK
<1>8. Count(Append(b, y), f) = Count(b, f) + (IF y = f THEN 1 ELSE 0) /\ Count(b, f) \in Nat
    BY <1>7, CountAppend, CountAt
<1>9. Unsent(id)' = Count(Append(b, y), f) /\ Unsent(id) = Count(b, f)
    BY <1>2, <1>6 DEF Unsent, Final
<1>10. y = f <=> x = id
    BY <1>2, <1>6, ResultFacts
<1>11. CASE x = id
  <2>1. Unsent(id)' = Unsent(id) + 1
    BY <1>8, <1>9, <1>10, <1>11
  <2> QED  BY <1>4, <1>5, <1>11, <2>1, PlacesSum, PlacesSumNext
<1>12. CASE x # id
  <2>1. Unsent(id)' = Unsent(id)
    BY <1>8, <1>9, <1>10, <1>12
  <2> QED  BY <1>4, <1>5, <1>12, <2>1, PlacesSum, PlacesSumNext
<1> QED  BY <1>11, <1>12

LEMMA FailPlaces ==
    ASSUME TypeInv, TypeInv', Fail, NEW id \in AllIds
    PROVE  main.pc = "fail" /\ Places(id)' <= Places(id)
<1>1. PICK s : s = main.i
    OBVIOUS
<1>2. main.pc = "fail" /\ s \in Slots /\ Release(s)
    BY <1>1, FailFacts
<1>3. main'.pc \in {"fail", "commit"}
    BY FailFacts
<1>4. UNCHANGED <<send_buffer, queue_results>>
    BY DEF Fail, resultvars
<1>5. /\ Hand(id) = 0 /\ Hand(id)' = 0
      /\ Unsent(id)' = Unsent(id) /\ Unread(id)' = Unread(id)
    BY <1>2, <1>3, <1>4, SamePlaces
<1>6. /\ Queued(id)' = Queued(id)
      /\ OnSlots(id)' = OnSlots(id) \/ OnSlots(id)' = OnSlots(id) - 1
    BY <1>2, ReleasePlaces
<1> QED  BY <1>2, <1>5, <1>6, PlacesSum, PlacesSumNext

LEMMA SamplePlaces ==
    ASSUME TypeInv, TypeInv', Sample, NEW id \in AllIds
    PROVE  Places(id)' = Places(id)
<1>1. PICK s, x : s = main.i /\ x = slots[s].id_task
    OBVIOUS
<1>2. /\ s \in Slots /\ IsProcessing(s) /\ x \in AllIds /\ main.pc = "sample" /\ OnlyMoves
      /\ main'.pc \in {"sample", "decode", "commit"}
      /\ \A u \in Slots \ {s} : slots'[u] = slots[u]
      /\ slots'[s].id_task = x
    BY <1>1, SampleFacts
<1>3. PICK partial \in {<<>>, <<Partial(x)>>}, stop \in BOOLEAN :
        /\ send_buffer' = (send_buffer \o partial) \o (IF stop THEN <<Final(x)>> ELSE <<>>)
        /\ slots'[s].state = IF stop THEN "idle" ELSE "generating"
    BY <1>1, SampleFacts
<1>4. /\ Hand(id) = 0 /\ Hand(id)' = 0 /\ Queued(id)' = Queued(id) /\ Unread(id)' = Unread(id)
    BY <1>2, SamePlaces DEF Sample, resultvars
<1>5. /\ s \in RunOn(slots, id) <=> x = id
      /\ s \in RunOn(slots', id) <=> ~ stop /\ x = id
    BY <1>1, <1>2, <1>3 DEF RunOn, IsProcessing
<1>6. /\ stop /\ x = id => OnSlots(id)' = OnSlots(id) - 1
      /\ ~ (stop /\ x = id) => OnSlots(id)' = OnSlots(id)
    BY <1>2, <1>5, OneSlot
<1>7. PICK b, f, final : /\ b = send_buffer /\ f = Final(id)
                         /\ final = IF stop THEN <<Final(x)>> ELSE <<>>
    OBVIOUS
<1>8. /\ b \in Seq(Result) /\ partial \in Seq(Result) /\ final \in Seq(Result)
      /\ b \o partial \in Seq(Result)
  <2>1. Partial(x) \in Result /\ Final(x) \in Result
    BY <1>2, ResultFacts
  <2>2. <<Partial(x)>> \in Seq(Result) /\ <<Final(x)>> \in Seq(Result) /\ <<>> \in Seq(Result)
    BY <2>1
  <2>3. partial \in Seq(Result) /\ final \in Seq(Result) /\ b \in Seq(Result)
    BY <1>3, <1>7, <2>2 DEF TypeInv, SendOK
  <2> QED  BY <2>3, ConcatProperties
<1>9. Count((b \o partial) \o final, f) = Count(b \o partial, f) + Count(final, f)
      /\ Count(b \o partial, f) = Count(b, f) + Count(partial, f) /\ Count(b, f) \in Nat
  <2>1. PICK bp : bp = b \o partial
    OBVIOUS
  <2>2. Count(bp \o final, f) = Count(bp, f) + Count(final, f)
    BY <1>8, <2>1, CountConcat
  <2>3. Count(b \o partial, f) = Count(b, f) + Count(partial, f)
    BY <1>8, CountConcat
  <2>4. Count(b, f) \in Nat
    BY <1>8, CountAt
  <2> QED  BY <2>1, <2>2, <2>3, <2>4
<1>10. Count(partial, f) = 0
  <2>1. Count(<<Partial(x)>>, f) = 0
    <3>1. Partial(x) # f
        BY <1>2, <1>7, ResultFacts
    <3> QED  BY <3>1, CountOne
  <2> QED  BY <1>3, <2>1, CountEmpty
<1>11. Count(final, f) = IF stop /\ x = id THEN 1 ELSE 0
  <2>1. Final(x) = f <=> x = id
    BY <1>2, <1>7, ResultFacts
  <2>2. Count(<<Final(x)>>, f) = IF Final(x) = f THEN 1 ELSE 0
    BY CountOne
  <2>3. CASE stop
    BY <1>7, <2>1, <2>2, <2>3
  <2>4. CASE ~ stop
    BY <1>7, <2>4, CountEmpty
  <2> QED  BY <2>3, <2>4
<1>12. Unsent(id) = Count(b, f) /\ Unsent(id)' = Count((b \o partial) \o final, f)
    BY <1>3, <1>7 DEF Unsent, Final
<1>13. CASE stop /\ x = id
  <2>1. Count(final, f) = 1
    BY <1>11, <1>13
  <2>2. Unsent(id)' = Unsent(id) + 1
    BY <1>9, <1>10, <1>12, <2>1
  <2> QED  BY <1>4, <1>6, <1>13, <2>2, PlacesSum, PlacesSumNext
<1>14. CASE ~ (stop /\ x = id)
  <2>1. Count(final, f) = 0
    BY <1>11, <1>14
  <2>2. Unsent(id)' = Unsent(id)
    BY <1>9, <1>10, <1>12, <2>1
  <2> QED  BY <1>4, <1>6, <1>14, <2>2, PlacesSum, PlacesSumNext
<1> QED  BY <1>13, <1>14

LEMMA SendCommitPlaces ==
    ASSUME TypeInv, TypeInv', SendCommit, NEW id \in AllIds
    PROVE  /\ Places(id)' = Places(id) \/ (main.pc = "commit" /\ id \notin waiting_task_ids)
           /\ Places(id)' <= Places(id)
<1>1. PICK q, b, S, f : /\ q = queue_results /\ b = send_buffer /\ f = Final(id)
                        /\ S = {res \in Result : res.id \in waiting_task_ids}
    OBVIOUS
<1>2. PICK z : z = Kept(b, S)
    OBVIOUS
<1>3. /\ queue_results' = q \o z /\ send_buffer' = <<>> /\ main.pc = "commit"
      /\ main'.pc = "wait" /\ UNCHANGED queuevars /\ UNCHANGED slots
    BY <1>1, <1>2, MainFacts DEF SendCommit, Commit, MainType
<1>4. q \in Seq(Result) /\ b \in Seq(Result)
    BY <1>1 DEF TypeInv, ResultsOK, SendOK
<1>5. z \in Seq(Result)
    BY <1>2, <1>4, KeptFacts
<1>6. (f \in S => Count(z, f) = Count(b, f)) /\ (f \notin S => Count(z, f) = 0)
    BY <1>2, <1>4, KeptCount
<1>7. f \in S <=> id \in waiting_task_ids
    BY <1>1, ResultFacts
<1>8. Count(q \o z, f) = Count(q, f) + Count(z, f) /\ Count(q, f) \in Nat /\ Count(z, f) \in Nat
      /\ Count(b, f) \in Nat /\ Count(<<>>, f) = 0
    BY <1>4, <1>5, CountConcat, CountAt, CountEmpty
<1>9. /\ Unread(id) = Count(q, f) /\ Unread(id)' = Count(q \o z, f)
      /\ Unsent(id) = Count(b, f) /\ Unsent(id)' = Count(<<>>, f)
    BY <1>1, <1>3 DEF Unread, Unsent, Final
<1>10. /\ Hand(id) = 0 /\ Hand(id)' = 0 /\ Queued(id)' = Queued(id)
       /\ OnSlots(id)' = OnSlots(id)
    BY <1>3, SamePlaces, UnchangedMoves
<1>11. /\ id \in waiting_task_ids => Unread(id)' + Unsent(id)' = Unread(id) + Unsent(id)
       /\ Unread(id)' + Unsent(id)' <= Unread(id) + Unsent(id)
    BY <1>6, <1>7, <1>8, <1>9
<1>12. /\ Unread(id)' \in Nat /\ Unsent(id)' \in Nat /\ Unread(id) \in Nat /\ Unsent(id) \in Nat
       /\ OnSlots(id) \in Nat /\ Queued(id) \in Nat
       /\ Places(id) = Queued(id) + 0 + OnSlots(id) + Unsent(id) + Unread(id)
       /\ Places(id)' = Queued(id) + 0 + OnSlots(id) + Unsent(id)' + Unread(id)'
    BY <1>10, PlacesSum, PlacesSumNext
<1>13. Places(id)' <= Places(id)
    BY <1>11, <1>12
<1>14. id \in waiting_task_ids => Places(id)' = Places(id)
    BY <1>11, <1>12
<1> QED  BY <1>3, <1>13, <1>14

LEMMA MainPlaces ==
    ASSUME TypeInv, TypeInv', MainStep, NEW id \in AllIds
    PROVE  /\ Places(id)' = Places(id) \/ Excused(id)
           /\ Places(id)' <= Places(id)
<1>1. Places(id)' \in Nat /\ Places(id) \in Nat
    BY PlacesSum, PlacesSumNext
<1>2. ASSUME Places(id)' = Places(id)
      PROVE  /\ Places(id)' = Places(id) \/ Excused(id)
             /\ Places(id)' <= Places(id)
    BY <1>1, <1>2
<1>3. CASE Launch
    BY <1>3, LaunchPlaces DEF Excused
<1>4. CASE ProcessCancel
    BY <1>4, ProcessCancelPlaces DEF Excused
<1>5. CASE Fail
    BY <1>5, FailPlaces DEF Excused
<1>6. CASE SendCommit
    BY <1>6, SendCommitPlaces DEF Excused
<1> QED  BY <1>2, <1>3, <1>4, <1>5, <1>6, PickPlaces, DeferPlaces, QuietPlaces, UpdatePlaces,
            PromptEmptyPlaces, SamplePlaces DEF MainStep

\* A task that has not been posted is nowhere; one that has is in one place.
PlacesInv ==
    /\ \A id \in AllIds : Places(id) <= 1
    /\ \A id \in AllIds : hpc[id[1]] \in {"new", "added"} => Places(id) = 0

\* Another thread's step leaves the state of an HTTP thread alone.
LEMMA OneThread ==
    ASSUME TypeInv, NEW r \in Requests, AddWaiting(r) \/ HttpStep(r) \/ Disconnect(r)
    PROVE  /\ \A x \in Requests \ {r} :
                    /\ hpc'[x] = hpc[x] /\ n_finished'[x] = n_finished[x]
                    /\ to_cancel'[x] = to_cancel[x] /\ closed'[x] = closed[x]
           /\ hpc[r] \notin {"new", "added"} => hpc'[r] \notin {"new", "added"}
           /\ hpc[r] = "added" => hpc'[r] = "added" \/ PostTasks(r)
           /\ hpc'[r] = "new" => FALSE
<1>1. /\ hpc \in [Requests -> {"new", "added", "posted", "recv", "cancel", "complete", "done"}]
      /\ n_finished \in [Requests -> Nat] /\ closed \in [Requests -> BOOLEAN]
      /\ to_cancel \in [Requests -> SUBSET AllIds]
    BY DEF TypeInv, HttpOK
<1>2. CASE AddWaiting(r)
    BY <1>1, <1>2 DEF AddWaiting
<1>3. CASE PostTasks(r)
    BY <1>1, <1>3 DEF PostTasks
<1>4. CASE StartStream(r)
    BY <1>1, <1>4 DEF StartStream
<1>5. CASE Receive(r)
  <2>1. hpc[r] = "recv" /\ UNCHANGED closed
    BY <1>5 DEF Receive
  <2>2. PICK fin \in Nat :
            IF closed[r]
            THEN /\ hpc' = [hpc EXCEPT ![r] = "cancel"]
                 /\ to_cancel' = [to_cancel EXCEPT ![r] = Ids(r)]
                 /\ UNCHANGED n_finished
            ELSE /\ n_finished' = [n_finished EXCEPT ![r] = fin]
                 /\ hpc' = [hpc EXCEPT ![r] =
                             IF fin = Cardinality(Ids(r)) THEN "complete" ELSE "recv"]
                 /\ UNCHANGED to_cancel
    BY <1>5, ReceiveFacts
  <2>3. CASE closed[r]
    BY <1>1, <2>1, <2>2, <2>3
  <2>4. CASE ~ closed[r]
    BY <1>1, <2>1, <2>2, <2>4
  <2> QED  BY <2>3, <2>4
<1>6. CASE Timeout(r)
    BY <1>1, <1>6 DEF Timeout
<1>7. CASE RemoveWaiting(r)
    BY <1>1, <1>7 DEF RemoveWaiting
<1>8. CASE PostCancel(r)
    BY <1>1, <1>8 DEF PostCancel
<1>9. CASE Complete(r)
    BY <1>1, <1>9 DEF Complete
<1>10. CASE Disconnect(r)
    BY <1>1, <1>10 DEF Disconnect
<1> QED  BY <1>2, <1>3, <1>4, <1>5, <1>6, <1>7, <1>8, <1>9, <1>10 DEF HttpStep

\* A step of one HTTP thread, seen from a task.
LEMMA HttpPlaces ==
    ASSUME TypeInv, TypeInv', NEW r \in Requests, AddWaiting(r) \/ HttpStep(r) \/ Disconnect(r),
           NEW id \in AllIds
    PROVE  /\ PostTasks(r) /\ id \in Ids(r) => Places(id)' = Places(id) + 1
           /\ ~ (PostTasks(r) /\ id \in Ids(r)) => Places(id)' <= Places(id)
           /\ id \notin Ids(r) => Places(id)' = Places(id)
           /\ hpc[r] \notin {"recv", "cancel"} /\ ~ PostTasks(r) => Places(id)' = Places(id)
<1>1. Places(id)' \in Nat /\ Places(id) \in Nat
    BY PlacesSum, PlacesSumNext
<1>2. CASE PostTasks(r)
    BY <1>1, <1>2, PostTasksPlaces
<1>3. CASE Receive(r)
  <2>1. PICK k \in 1 .. Len(queue_results) :
            queue_results[k].id \in Ids(r) /\ queue_results' = RemoveAt(queue_results, k)
    BY <1>3, ReceiveFacts
  <2>2. Places(id) = Places(id)' + (IF queue_results[k] = Final(id) THEN 1 ELSE 0)
    BY <1>3, <2>1, ReceivePlaces
  <2>3. queue_results[k] = Final(id) => id \in Ids(r)
    BY <2>1, ResultFacts
  <2>4. hpc[r] = "recv"
    BY <1>3 DEF Receive
  <2>5. ~ PostTasks(r)
    BY <2>4 DEF PostTasks
  <2>6. CASE queue_results[k] = Final(id)
    <3>1. Places(id) = Places(id)' + 1
        BY <2>2, <2>6
    <3> QED  BY <1>1, <2>3, <2>4, <2>5, <2>6, <3>1
  <2>7. CASE queue_results[k] # Final(id)
    <3>1. Places(id) = Places(id)' + 0
        BY <2>2, <2>7
    <3> QED  BY <1>1, <2>5, <3>1
  <2> QED  BY <2>6, <2>7
<1>4. CASE RemoveWaiting(r)
  <2>1. hpc[r] = "cancel"
    BY <1>4 DEF RemoveWaiting
  <2>2. ~ PostTasks(r)
    BY <2>1 DEF PostTasks
  <2> QED  BY <1>4, <2>1, <2>2, RemoveWaitingPlaces
<1>5. CASE /\ ~ PostTasks(r)
           /\ \/ AddWaiting(r) \/ StartStream(r) \/ Timeout(r) \/ PostCancel(r) \/ Complete(r)
              \/ Disconnect(r)
    BY <1>1, <1>5, OtherHttpPlaces
<1> QED  BY <1>2, <1>3, <1>4, <1>5 DEF HttpStep

LEMMA PlacesStay == TypeInv /\ PlacesInv /\ [Next]_vars => PlacesInv'
<1> SUFFICES ASSUME TypeInv, PlacesInv, [Next]_vars PROVE PlacesInv'
    OBVIOUS
<1>0. TypeInv'
    BY TypesStay
<1>1. ASSUME NEW id \in AllIds PROVE Places(id)' \in Nat /\ Places(id) \in Nat /\ id[1] \in Requests
    BY <1>0, PlacesSum, PlacesSumNext, IdFacts
<1>2. CASE UNCHANGED vars
  <2>1. \A id \in AllIds : Places(id)' = Places(id)
    <3> TAKE id \in AllIds
    <3>1. UNCHANGED queuevars /\ UNCHANGED <<main, slots, send_buffer, queue_results>>
        BY <1>2 DEF vars, queuevars
    <3> QED  BY <1>0, <3>1, UnchangedMoves, SamePlaces, PlacesSum, PlacesSumNext
  <2> QED  BY <1>2, <2>1 DEF PlacesInv, vars
<1>3. ASSUME NEW r \in Requests, AddWaiting(r) \/ HttpStep(r) \/ Disconnect(r) PROVE PlacesInv'
  <2>1. ASSUME NEW id \in AllIds PROVE Places(id)' <= 1
    <3>1. CASE PostTasks(r) /\ id \in Ids(r)
      <4>1. hpc[id[1]] = "added"
        BY <3>1, IdFacts DEF PostTasks
      <4>2. Places(id) = 0
        BY <4>1 DEF PlacesInv
      <4>3. Places(id)' = Places(id) + 1
        BY <1>0, <1>3, <3>1, HttpPlaces
      <4> QED  BY <4>2, <4>3
    <3>2. CASE ~ (PostTasks(r) /\ id \in Ids(r))
      <4>1. Places(id)' <= Places(id)
        BY <1>0, <1>3, <3>2, HttpPlaces
      <4> QED  BY <1>1, <4>1 DEF PlacesInv
    <3> QED  BY <3>1, <3>2
  <2>2. ASSUME NEW id \in AllIds, hpc'[id[1]] \in {"new", "added"} PROVE Places(id)' = 0
    <3>1. PICK x \in Requests : x = id[1]
        BY <1>1
    <3>2. hpc[x] \in {"new", "added"}
      <4>1. CASE x = r
        BY <1>3, <2>2, <3>1, <4>1, OneThread
      <4>2. CASE x # r
        BY <1>3, <2>2, <3>1, <4>2, OneThread
      <4> QED  BY <4>1, <4>2
    <3>3. Places(id) = 0
        BY <3>1, <3>2 DEF PlacesInv
    <3>4. ~ (PostTasks(r) /\ id \in Ids(r))
      <4> SUFFICES ASSUME PostTasks(r), id \in Ids(r) PROVE FALSE
        OBVIOUS
      <4>1. id[1] = r
        BY IdFacts
      <4>2. hpc'[r] \in {"posted", "recv"}
        BY DEF PostTasks, TypeInv, HttpOK
      <4> QED  BY <2>2, <4>1, <4>2
    <3>5. Places(id)' <= Places(id)
        BY <1>0, <1>3, <3>4, HttpPlaces
    <3> QED  BY <1>1, <3>3, <3>5
  <2> QED  BY <2>1, <2>2 DEF PlacesInv
<1>4. CASE MainStep
  <2>1. UNCHANGED hpc
    BY <1>4 DEF MainStep, Pick, Defer, Launch, ProcessCancel, ProcessNext, Wait, Update, PromptNone,
           PromptEmpty, PromptTokens, Decode, Fail, SampleNone, Sample, SendCommit, httpvars
  <2>2. \A id \in AllIds : Places(id)' <= Places(id)
    BY <1>0, <1>4, MainPlaces
  <2>3. \A id \in AllIds : Places(id)' <= 1
    BY <1>1, <2>2 DEF PlacesInv
  <2>4. \A id \in AllIds : hpc[id[1]] \in {"new", "added"} => Places(id)' = 0
    BY <1>1, <2>2 DEF PlacesInv
  <2> QED  BY <2>1, <2>3, <2>4 DEF PlacesInv
<1> QED  BY <1>2, <1>3, <1>4 DEF Next, Quiet

LEMMA InitPlaces == Init => PlacesInv
<1> SUFFICES ASSUME Init PROVE PlacesInv
    OBVIOUS
<1>1. ASSUME NEW id \in AllIds PROVE Places(id) = 0
  <2>1. Queued(id) = 0 /\ Unsent(id) = 0 /\ Unread(id) = 0
    BY CountEmpty DEF Init, Queued, Unsent, Unread
  <2>2. Hand(id) = 0
    BY DEF Init, Hand, InHand
  <2>3. OnSlots(id) = 0
    <3>1. \A s \in Slots : ~ IsProcessing(s)
        BY DEF Init, IsProcessing
    <3> QED  BY <3>1, OnSlotsNat
  <2> QED  BY <2>1, <2>2, <2>3, InitTypes, PlacesSum
<1> QED  BY <1>1 DEF PlacesInv

LEMMA PlacesHold == Spec => []PlacesInv
  BY InitPlaces, PlacesStay, TypesHold, PTL DEF Spec

LEMMA PlacesImply == PlacesInv => TaskInOnePlace
  BY DEF PlacesInv, TaskInOnePlace

(***************************************************************************)
(* No task is ever in two places: it is never run twice and never answered *)
(* twice, whatever is cancelled and whatever fails, for every number of    *)
(* slots and every set of requests.                                        *)
(***************************************************************************)
THEOREM ServerOnePlace == Spec => []TaskInOnePlace
  BY PlacesHold, PlacesImply, PTL

-----------------------------------------------------------------------------
(* Cancellations, and what is waited for.                                  *)

LEMMA OneThreadMore ==
    ASSUME TypeInv, NEW r \in Requests, AddWaiting(r) \/ HttpStep(r) \/ Disconnect(r)
    PROVE  /\ hpc[r] \in {"complete", "done"} => hpc'[r] \in {"complete", "done"}
           /\ hpc'[r] \in {"new", "added", "posted"} =>
                hpc[r] \in {"new", "added", "posted"} /\ n_finished'[r] = n_finished[r]
           /\ hpc'[r] \in {"added", "posted", "recv"} =>
                hpc[r] \in {"added", "posted", "recv"} \/ AddWaiting(r)
           /\ hpc'[r] \in {"posted", "recv"} =>
                \/ PostTasks(r) /\ n_finished'[r] = n_finished[r]
                \/ hpc[r] = "recv" /\ Receive(r) /\ ~ closed[r]
                \/ /\ hpc[r] \in {"posted", "recv"} /\ n_finished'[r] = n_finished[r]
                   /\ StartStream(r) \/ Disconnect(r)
<1>1. /\ hpc \in [Requests -> {"new", "added", "posted", "recv", "cancel", "complete", "done"}]
      /\ n_finished \in [Requests -> Nat]
    BY DEF TypeInv, HttpOK
<1>2. CASE AddWaiting(r)
    BY <1>1, <1>2 DEF AddWaiting
<1>3. CASE PostTasks(r)
    BY <1>1, <1>3 DEF PostTasks
<1>4. CASE StartStream(r)
    BY <1>1, <1>4 DEF StartStream
<1>5. CASE Receive(r)
  <2>1. hpc[r] = "recv"
    BY <1>5 DEF Receive
  <2>2. PICK fin \in Nat :
            IF closed[r]
            THEN hpc' = [hpc EXCEPT ![r] = "cancel"]
            ELSE hpc' = [hpc EXCEPT ![r] =
                             IF fin = Cardinality(Ids(r)) THEN "complete" ELSE "recv"]
    BY <1>5, ReceiveFacts
  <2>3. CASE closed[r]
    BY <1>1, <2>1, <2>2, <2>3
  <2>4. CASE ~ closed[r]
    BY <1>1, <1>5, <2>1, <2>2, <2>4
  <2> QED  BY <2>3, <2>4
<1>6. CASE Timeout(r)
    BY <1>1, <1>6 DEF Timeout
<1>7. CASE RemoveWaiting(r)
    BY <1>1, <1>7 DEF RemoveWaiting
<1>8. CASE PostCancel(r)
    BY <1>1, <1>8 DEF PostCancel
<1>9. CASE Complete(r)
    BY <1>1, <1>9 DEF Complete
<1>10. CASE Disconnect(r)
    BY <1>1, <1>10 DEF Disconnect
<1> QED  BY <1>2, <1>3, <1>4, <1>5, <1>6, <1>7, <1>8, <1>9, <1>10 DEF HttpStep

LEMMA MainOnly ==
    MainStep => UNCHANGED <<hpc, to_cancel, n_finished, closed, waiting_task_ids>>
  BY DEF MainStep, Pick, Defer, Launch, ProcessCancel, ProcessNext, Wait, Update, PromptNone,
         PromptEmpty, PromptTokens, Decode, Fail, SampleNone, Sample, SendCommit, httpvars,
         resultvars

\* Only Pick takes a task in hand; no step of the main thread posts a
\* cancellation, and decoding alone can fail.
LEMMA MainQueue ==
    ASSUME TypeInv, MainStep, ~ Pick
    PROVE  /\ main'.pc # "process"
           /\ main'.pc = "fail" => main.pc = "fail" \/ DecodeFails
           /\ \A id \in AllIds : Count(queue_tasks, Cancel(id))' = Count(queue_tasks, Cancel(id))
<1>1. ASSUME OnlyMoves, NEW id \in AllIds
      PROVE  Count(queue_tasks, Cancel(id))' = Count(queue_tasks, Cancel(id))
  <2>1. PICK x : x = Cancel(id)
    OBVIOUS
  <2>2. x.type # "completion"
    BY <2>1, TaskFacts
  <2>3. Count(queue_tasks, x)' = Count(queue_tasks, x)
    BY <1>1, <2>2 DEF OnlyMoves
  <2> QED  BY <2>1, <2>3 DEF Count, Cancel, NoId
<1>2. ASSUME UNCHANGED queue_tasks, NEW id \in AllIds
      PROVE  Count(queue_tasks, Cancel(id))' = Count(queue_tasks, Cancel(id))
    BY <1>2 DEF Count, Cancel, NoId
<1>3. CASE Defer \/ Launch \/ ProcessNext \/ Wait
  <2>1. main' = [main EXCEPT !.pc = "pick"] /\ UNCHANGED queue_tasks
    BY <1>3 DEF Defer, Launch, ProcessNext, Wait, queuevars
  <2>2. main'.pc = "pick"
    BY <2>1, MainFacts DEF MainType
  <2> QED  BY <1>2, <2>1, <2>2
<1>4. CASE ProcessCancel
  <2>1. main' = [main EXCEPT !.pc = "pick"]
    BY <1>4 DEF ProcessCancel
  <2>2. main'.pc = "pick"
    BY <2>1, MainFacts DEF MainType
  <2>3. OnlyMoves
    BY <1>4, ProcessCancelFacts, ReleaseFacts, UnchangedMoves DEF TypeInv
  <2> QED  BY <1>1, <2>2, <2>3
<1>5. CASE Update
  <2>1. main'.pc \in {"wait", "prompt", "decode"}
    BY <1>5, UpdateFacts
  <2>2. ASSUME NEW id \in AllIds
        PROVE  Count(queue_tasks, Cancel(id))' = Count(queue_tasks, Cancel(id))
    <3>1. PICK q, x, y : q = queue_tasks /\ x = Cancel(id) /\ y = NextResponse
        OBVIOUS
    <3>2. q \in Seq(Task) /\ x # y /\ y \in Task
        BY <3>1, TaskFacts DEF TypeInv, QueuesOK
    <3>3. queue_tasks' = q \/ queue_tasks' = Append(q, y)
        BY <1>5, <3>1, UpdateFacts
    <3>4. Count(Append(q, y), x) = Count(q, x) + (IF y = x THEN 1 ELSE 0) /\ Count(q, x) \in Nat
        BY <3>2, CountAppend, CountAt
    <3>5. Count(Append(q, y), x) = Count(q, x)
        BY <3>2, <3>4
    <3>6. Count(queue_tasks, Cancel(id))' = Count(queue_tasks', x)
        BY <3>1 DEF Cancel, NoId
    <3> QED  BY <3>1, <3>3, <3>5, <3>6
  <2> QED  BY <2>1, <2>2
<1>6. CASE PromptNone \/ PromptTokens
  <2>1. main'.pc \in {"wait", "prompt", "decode"}
    BY <1>6, PromptNoneTypes, PromptTokensFacts
  <2>2. UNCHANGED queue_tasks
    BY <1>6 DEF PromptNone, PromptTokens, queuevars
  <2> QED  BY <1>2, <2>1, <2>2
<1>7. CASE PromptEmpty
  <2>1. PICK s : s = main.i
    OBVIOUS
  <2>2. s \in Slots /\ Release(s) /\ main'.pc \in {"prompt", "decode", "wait"}
    BY <1>7, <2>1, PromptEmptyFacts
  <2>3. OnlyMoves
    BY <2>2, ReleaseFacts DEF TypeInv
  <2> QED  BY <1>1, <2>2, <2>3
<1>8. CASE Decode
  <2>1. UNCHANGED queue_tasks
    BY <1>8 DEF Decode, queuevars
  <2> QED  BY <1>2, <1>8, <2>1, DecodeTypes
<1>9. CASE Fail
  <2>1. PICK s : s = main.i
    OBVIOUS
  <2>2. s \in Slots /\ Release(s) /\ main.pc = "fail" /\ main'.pc \in {"fail", "commit"}
    BY <1>9, <2>1, FailFacts
  <2>3. OnlyMoves
    BY <2>2, ReleaseFacts DEF TypeInv
  <2> QED  BY <1>1, <2>2, <2>3
<1>10. CASE SampleNone
  <2>1. main'.pc \in {"sample", "decode", "commit"} /\ UNCHANGED queue_tasks
    BY <1>10, NextSlotFacts DEF SampleNone, queuevars
  <2> QED  BY <1>2, <2>1
<1>11. CASE Sample
  <2>1. OnlyMoves /\ main'.pc \in {"sample", "decode", "commit"}
    BY <1>11, SampleFacts
  <2> QED  BY <1>1, <2>1
<1>12. CASE SendCommit
  <2>1. main'.pc = "wait" /\ UNCHANGED queue_tasks
    BY <1>12, MainFacts DEF SendCommit, MainType, queuevars
  <2> QED  BY <1>2, <2>1
<1> QED  BY <1>3, <1>4, <1>5, <1>6, <1>7, <1>8, <1>9, <1>10, <1>11, <1>12 DEF MainStep

\* No cancellation precedes the end of its request.
CancelInv ==
    \A id \in AllIds : hpc[id[1]] \notin {"complete", "done"} =>
        Count(queue_tasks, Cancel(id)) = 0 /\ ~ InHand(Cancel(id))

LEMMA MainCancels ==
    ASSUME TypeInv, MainStep, NEW id \in AllIds, Count(queue_tasks, Cancel(id)) = 0
    PROVE  Count(queue_tasks, Cancel(id))' = 0 /\ ~ InHand(Cancel(id))'
<1>1. CASE ~ Pick
    BY <1>1, MainQueue DEF InHand
<1>2. CASE Pick /\ queue_tasks = <<>>
  <2>1. UNCHANGED queue_tasks /\ main'.pc = "update"
    BY <1>2, MainFacts DEF Pick, MainType
  <2> QED  BY <2>1 DEF InHand, Count, Cancel, NoId
<1>3. CASE Pick /\ queue_tasks # <<>>
  <2>1. PICK q, x : q = queue_tasks /\ x = Cancel(id)
    OBVIOUS
  <2>2. /\ q \in Seq(Task) /\ Head(q) \in Task /\ queue_tasks' = Tail(q)
        /\ main'.pc = "process" /\ main'.task = Head(q)
    BY <1>3, <2>1, PickFacts
  <2>3. Count(q, x) = Count(Tail(q), x) + IF Head(q) = x THEN 1 ELSE 0
    BY <1>3, <2>1, <2>2, CountHeadTail
  <2>4. Tail(q) \in Seq(Task)
    BY <1>3, <2>1, <2>2
  <2>5. Count(Tail(q), x) \in Nat /\ Count(q, x) = 0
    BY <2>1, <2>4, CountAt
  <2>6. Head(q) # x
    <3> SUFFICES ASSUME Head(q) = x PROVE FALSE
        OBVIOUS
    <3>1. Count(q, x) = Count(Tail(q), x) + 1
        BY <2>3
    <3> QED  BY <2>5, <3>1
  <2>7. Count(Tail(q), x) = 0
    BY <2>3, <2>5, <2>6
  <2>8. Count(queue_tasks, Cancel(id))' = Count(Tail(q), x)
    BY <2>1, <2>2 DEF Cancel, NoId
  <2>9. ~ InHand(Cancel(id))'
    BY <2>1, <2>2, <2>6 DEF InHand, Cancel, NoId
  <2> QED  BY <2>7, <2>8, <2>9
<1> QED  BY <1>1, <1>2, <1>3

LEMMA HttpCancels ==
    ASSUME TypeInv, NEW r \in Requests, AddWaiting(r) \/ HttpStep(r) \/ Disconnect(r),
           NEW id \in AllIds, id \in Ids(r) => ~ PostCancel(r),
           Count(queue_tasks, Cancel(id)) = 0
    PROVE  Count(queue_tasks, Cancel(id))' = 0
<1>1. PICK x : x = Cancel(id)
    OBVIOUS
<1>2. Count(queue_tasks, x) = 0 /\ x.type # "completion"
    BY <1>1, TaskFacts
<1>3. Count(queue_tasks, Cancel(id))' = Count(queue_tasks', x)
    BY <1>1 DEF Cancel, NoId
<1>4. CASE PostTasks(r)
  <2>1. PICK z, q : /\ z = [i \in DOMAIN Body[r].prompts |-> Completion(<<r, i>>)]
                    /\ q = queue_tasks
    OBVIOUS
  <2>2. z \in Seq(Task) /\ q \in Seq(Task) /\ queue_tasks' = q \o z
    BY <1>4, <2>1, PostedFacts DEF PostTasks, TypeInv, QueuesOK
  <2>3. Count(z, x) = 0
    BY <1>2, <2>1, PostedFacts
  <2>4. Count(q \o z, x) = Count(q, x) + Count(z, x)
    BY <2>2, CountConcat
  <2> QED  BY <1>2, <1>3, <2>1, <2>2, <2>3, <2>4
<1>5. CASE PostCancel(r)
  <2>1. id \notin Ids(r)
    BY <1>5
  <2>2. Count(queue_tasks, Cancel(id))' <= Count(queue_tasks, Cancel(id))
    BY <1>5, <2>1, PostCancelFacts DEF TypeInv
  <2>3. queue_tasks' \in Seq(Task)
    BY <1>5, PostCancelFacts DEF TypeInv, QueuesOK
  <2>4. Count(queue_tasks', x) \in Nat
    BY <2>3, CountAt
  <2> QED  BY <1>1, <1>2, <1>3, <2>2, <2>4
<1>6. CASE ~ PostTasks(r) /\ ~ PostCancel(r)
  <2>1. UNCHANGED queue_tasks
    BY <1>6 DEF HttpStep, AddWaiting, StartStream, Receive, Timeout, RemoveWaiting, Complete,
                Disconnect, queuevars
  <2> QED  BY <1>2, <1>3, <2>1
<1> QED  BY <1>4, <1>5, <1>6

\* What is waited for by a request that can still receive.
WaitInv ==
    \A r \in Requests : hpc[r] \in {"added", "posted", "recv"} => Ids(r) \subseteq waiting_task_ids

LEMMA CancelsStay == TypeInv /\ CancelInv /\ [Next]_vars => CancelInv'
<1> SUFFICES ASSUME TypeInv, CancelInv, [Next]_vars PROVE CancelInv'
    OBVIOUS
<1>1. CASE UNCHANGED vars
    BY <1>1 DEF CancelInv, vars, InHand, Count, Cancel, NoId
<1>2. ASSUME NEW r \in Requests, AddWaiting(r) \/ HttpStep(r) \/ Disconnect(r),
             NEW id \in AllIds, hpc'[id[1]] \notin {"complete", "done"}
      PROVE  Count(queue_tasks, Cancel(id))' = 0 /\ ~ InHand(Cancel(id))'
  <2>1. PICK x \in Requests : x = id[1]
    BY IdFacts
  <2>2. hpc[x] \notin {"complete", "done"}
    <3>1. CASE x = r
        BY <1>2, <2>1, <3>1, OneThreadMore
    <3>2. CASE x # r
        BY <1>2, <2>1, <3>2, OneThread
    <3> QED  BY <3>1, <3>2
  <2>3. Count(queue_tasks, Cancel(id)) = 0 /\ ~ InHand(Cancel(id))
    BY <2>1, <2>2 DEF CancelInv
  <2>4. UNCHANGED main
    BY <1>2 DEF HttpStep, AddWaiting, PostTasks, StartStream, Receive, Timeout, RemoveWaiting,
           PostCancel, Complete, Disconnect, mainvars
  <2>5. id \in Ids(r) => ~ PostCancel(r)
    <3> SUFFICES ASSUME id \in Ids(r), PostCancel(r) PROVE FALSE
        OBVIOUS
    <3>1. hpc'[r] = "complete"
        BY DEF PostCancel, TypeInv, HttpOK
    <3>2. id[1] = r
        BY IdFacts
    <3> QED  BY <1>2, <3>1, <3>2
  <2>6. ~ InHand(Cancel(id))'
    BY <2>3, <2>4 DEF InHand, Cancel, NoId
  <2> QED  BY <1>2, <2>3, <2>5, <2>6, HttpCancels
<1>3. CASE MainStep
    BY <1>3, MainOnly, MainCancels DEF CancelInv
<1>4. CASE \E r \in Requests : AddWaiting(r) \/ HttpStep(r) \/ Disconnect(r)
    BY <1>2, <1>4 DEF CancelInv
<1> QED  BY <1>1, <1>3, <1>4 DEF Next, Quiet

LEMMA WaitsStay == TypeInv /\ WaitInv /\ [Next]_vars => WaitInv'
<1> SUFFICES ASSUME TypeInv, WaitInv, [Next]_vars PROVE WaitInv'
    OBVIOUS
<1>1. CASE UNCHANGED vars
    BY <1>1 DEF WaitInv, vars
<1>2. ASSUME NEW r \in Requests, AddWaiting(r) \/ HttpStep(r) \/ Disconnect(r),
             NEW x \in Requests, hpc'[x] \in {"added", "posted", "recv"}, NEW id \in Ids(x)
      PROVE  id \in waiting_task_ids'
  <2>1. hpc[x] \in {"added", "posted", "recv"} \/ (x = r /\ AddWaiting(r))
    BY <1>2, OneThread, OneThreadMore
  <2>2. CASE x = r /\ AddWaiting(r)
    BY <2>2 DEF AddWaiting
  <2>3. CASE hpc[x] \in {"added", "posted", "recv"}
    <3>1. id \in waiting_task_ids
        BY <2>3 DEF WaitInv
    <3>2. CASE RemoveWaiting(r)
      <4>1. PICK y \in to_cancel[r] : waiting_task_ids' = waiting_task_ids \ {y}
        BY <3>2 DEF RemoveWaiting
      <4>2. y \in Ids(r)
        BY DEF TypeInv, HttpOK
      <4>3. x # r
        BY <2>3, <3>2 DEF RemoveWaiting
      <4>4. y # id
        BY <4>2, <4>3, IdFacts
      <4> QED  BY <3>1, <4>1, <4>4
    <3>3. CASE Complete(r)
      <4>1. x # r
        BY <2>3, <3>3 DEF Complete
      <4>2. id \notin Ids(r)
        BY <4>1, IdFacts
      <4> QED  BY <3>1, <3>3, <4>2 DEF Complete
    <3>4. CASE ~ RemoveWaiting(r) /\ ~ Complete(r)
      <4>1. waiting_task_ids \subseteq waiting_task_ids'
        BY <1>2, <3>4 DEF HttpStep, AddWaiting, PostTasks, StartStream, Receive, Timeout, PostCancel,
            Disconnect, resultvars
      <4> QED  BY <3>1, <4>1
    <3> QED  BY <3>2, <3>3, <3>4
  <2> QED  BY <2>1, <2>2, <2>3
<1>3. CASE MainStep
    BY <1>3, MainOnly DEF WaitInv
<1>4. CASE \E r \in Requests : AddWaiting(r) \/ HttpStep(r) \/ Disconnect(r)
    BY <1>2, <1>4 DEF WaitInv
<1> QED  BY <1>1, <1>3, <1>4 DEF Next, Quiet

LEMMA InitWaits == Init => CancelInv /\ WaitInv
<1> SUFFICES ASSUME Init PROVE CancelInv /\ WaitInv
    OBVIOUS
<1>1. CancelInv
    BY CountEmpty DEF Init, CancelInv, InHand
<1>2. \A r \in Requests : hpc[r] = "new"
    BY DEF Init
<1> QED  BY <1>1, <1>2 DEF WaitInv

LEMMA WaitsHold == Spec => [](CancelInv /\ WaitInv)
  BY InitWaits, CancelsStay, WaitsStay, TypesHold, PTL DEF Spec

-----------------------------------------------------------------------------
(* TasksConserved.                                                         *)

\* Nothing is received before it is asked for.
FreshInv == \A r \in Requests : hpc[r] \in {"new", "added", "posted"} => n_finished[r] = 0

LEMMA FreshStays == TypeInv /\ FreshInv /\ [Next]_vars => FreshInv'
<1> SUFFICES ASSUME TypeInv, FreshInv, [Next]_vars PROVE FreshInv'
    OBVIOUS
<1>1. CASE UNCHANGED vars
    BY <1>1 DEF FreshInv, vars
<1>2. CASE \E r \in Requests : AddWaiting(r) \/ HttpStep(r) \/ Disconnect(r)
    BY <1>2, OneThread, OneThreadMore DEF FreshInv
<1>3. CASE MainStep
    BY <1>3, MainOnly DEF FreshInv
<1> QED  BY <1>1, <1>2, <1>3 DEF Next, Quiet

LEMMA FreshHolds == Spec => []FreshInv
<1>1. Init => FreshInv
    BY DEF Init, FreshInv
<1> QED  BY <1>1, FreshStays, TypesHold, PTL DEF Spec

Lot(r) == {id \in Ids(r) : Places(id) = 1}

LEMMA LotFacts ==
    ASSUME NEW r \in Requests
    PROVE  /\ IsFiniteSet(Ids(r)) /\ IsFiniteSet(Lot(r)) /\ Lot(r) \subseteq Ids(r)
           /\ Cardinality(Ids(r)) \in Nat /\ Cardinality(Lot(r)) \in Nat
<1>1. PICK n \in Nat : DOMAIN Body[r].prompts = 1 .. n
    BY IdFacts
<1>2. Ids(r) = {<<r, i>> : i \in 1 .. n}
    BY <1>1 DEF Ids
<1>3. IsFiniteSet(1 .. n)
    BY <1>1, FS_Interval
<1>4. IsFiniteSet(Ids(r))
  <2> DEFINE f == [i \in 1 .. n |-> <<r, i>>]
  <2>1. f \in Surjection(1 .. n, Ids(r))
    BY <1>2 DEF Surjection
  <2> QED  BY <1>3, <2>1, FS_Surjection
<1>5. Lot(r) \subseteq Ids(r)
    BY DEF Lot
<1>6. IsFiniteSet(Ids(r)) /\ IsFiniteSet(Lot(r))
    BY <1>4, <1>5, FS_Subset
<1> QED  BY <1>5, <1>6, FS_CardinalityType

LEMMA SameLot ==
    ASSUME NEW r \in Requests, \A id \in Ids(r) : Places(id)' = Places(id)
    PROVE  Lot(r)' = Lot(r)
  BY DEF Lot

ConservedInv ==
    /\ main.pc # "fail"
    /\ \A r \in Requests : hpc[r] \in {"posted", "recv"} =>
            n_finished[r] + Cardinality(Lot(r)) = Cardinality(Ids(r))

LEMMA PostTasksConserves ==
    ASSUME TypeInv, TypeInv', PlacesInv, FreshInv, ConservedInv, NEW r \in Requests,
           PostTasks(r)
    PROVE  n_finished[r] + Cardinality(Lot(r)') = Cardinality(Ids(r))
<1>1. hpc[r] = "added"
    BY DEF PostTasks
<1>2. ASSUME NEW id \in Ids(r)
      PROVE  Places(id)' = 1
  <2>1. id \in AllIds /\ id[1] = r
    BY IdFacts
  <2>2. Places(id) = 0
    BY <1>1, <2>1 DEF PlacesInv
  <2>3. Places(id)' = Places(id) + 1
    BY <2>1, HttpPlaces DEF HttpStep
  <2> QED  BY <2>2, <2>3
<1>3. Lot(r)' = Ids(r)
    BY <1>2 DEF Lot
<1> QED  BY <1>1, <1>3, LotFacts DEF FreshInv

LEMMA ReceiveConserves ==
    ASSUME TypeInv, TypeInv', PlacesInv, ConservedInv, NEW r \in Requests,
           Receive(r), ~ closed[r]
    PROVE  n_finished'[r] + Cardinality(Lot(r)') = Cardinality(Ids(r))
<1>1. PICK k \in 1 .. Len(queue_results), res \in Result, fin \in Nat :
                /\ res = queue_results[k] /\ res.id \in Ids(r)
                /\ queue_results' = RemoveAt(queue_results, k)
                /\ fin = n_finished[r] + (IF res.stop THEN 1 ELSE 0)
                /\ n_finished' = [n_finished EXCEPT ![r] = fin]
    BY ReceiveFacts
<1>2. n_finished'[r] = fin /\ n_finished[r] \in Nat
    BY <1>1 DEF TypeInv, HttpOK
<1>3. n_finished[r] + Cardinality(Lot(r)) = Cardinality(Ids(r))
    BY DEF ConservedInv, Receive
<1>4. ASSUME NEW id \in Ids(r)
      PROVE  /\ res = Final(id) => Places(id) = Places(id)' + 1
             /\ res # Final(id) => Places(id) = Places(id)'
             /\ Places(id) \in Nat /\ Places(id)' \in Nat /\ Places(id) <= 1
  <2>1. id \in AllIds
    BY IdFacts
  <2>2. Places(id) = Places(id)' + (IF queue_results[k] = Final(id) THEN 1 ELSE 0)
    BY <1>1, <2>1, ReceivePlaces
  <2>3. Places(id) \in Nat /\ Places(id)' \in Nat /\ Places(id) <= 1
    BY <2>1, PlacesSum, PlacesSumNext DEF PlacesInv
  <2> QED  BY <1>1, <2>2, <2>3
<1>5. CASE ~ res.stop
  <2>1. \A id \in Ids(r) : res # Final(id)
    BY <1>5, IdFacts, ResultFacts
  <2>2. Lot(r)' = Lot(r)
    BY <1>4, <2>1, SameLot
  <2> QED  BY <1>1, <1>2, <1>3, <1>5, <2>2
<1>6. CASE res.stop
  <2>1. PICK x \in Ids(r) : x = res.id
    BY <1>1
  <2>2. res = Final(x) /\ \A id \in Ids(r) : res = Final(id) => id = x
    BY <1>6, <2>1, IdFacts, ResultFacts
  <2>3. Places(x) = 1 /\ Places(x)' = 0
    BY <1>4, <2>2
  <2>4. \A id \in Ids(r) : id # x => Places(id)' = Places(id)
    BY <1>4, <2>2
  <2>5. Lot(r)' = Lot(r) \ {x} /\ x \in Lot(r)
    BY <2>3, <2>4 DEF Lot
  <2>6. Cardinality(Lot(r)') = Cardinality(Lot(r)) - 1
    BY <2>5, LotFacts, FS_RemoveElement
  <2>7. fin = n_finished[r] + 1
    BY <1>1, <1>6
  <2> QED  BY <1>2, <1>3, <2>6, <2>7, LotFacts
<1> QED  BY <1>5, <1>6

LEMMA HttpConserves ==
    ASSUME TypeInv, TypeInv', PlacesInv, FreshInv, ConservedInv,
           NEW r \in Requests, AddWaiting(r) \/ HttpStep(r) \/ Disconnect(r)
    PROVE  ConservedInv'
<1>1. UNCHANGED main
    BY DEF HttpStep, AddWaiting, PostTasks, StartStream, Receive, Timeout, RemoveWaiting,
           PostCancel, Complete, Disconnect, mainvars
<1>3. ASSUME NEW x \in Requests \ {r}, hpc'[x] \in {"posted", "recv"}
      PROVE  n_finished'[x] + Cardinality(Lot(x)') = Cardinality(Ids(x))
  <2>1. \A id \in Ids(x) : id \in AllIds /\ id \notin Ids(r)
    BY IdFacts
  <2>2. \A id \in Ids(x) : Places(id)' = Places(id)
    BY <2>1, HttpPlaces
  <2>3. hpc[x] \in {"posted", "recv"} /\ n_finished'[x] = n_finished[x]
    BY <1>3, OneThread
  <2>4. Lot(x)' = Lot(x)
    BY <2>2, SameLot
  <2> QED  BY <2>3, <2>4 DEF ConservedInv
<1>4. ASSUME hpc'[r] \in {"posted", "recv"}
      PROVE  n_finished'[r] + Cardinality(Lot(r)') = Cardinality(Ids(r))
  <2>1. CASE PostTasks(r) /\ n_finished'[r] = n_finished[r]
    BY <2>1, PostTasksConserves
  <2>2. CASE Receive(r) /\ ~ closed[r]
    BY <2>2, ReceiveConserves
  <2>3. CASE /\ hpc[r] \in {"posted", "recv"} /\ n_finished'[r] = n_finished[r]
             /\ StartStream(r) \/ Disconnect(r)
    <3>1. \A id \in Ids(r) : Places(id)' = Places(id)
        BY <2>3, IdFacts, OtherHttpPlaces
    <3>2. Lot(r)' = Lot(r)
        BY <3>1, SameLot
    <3> QED  BY <2>3, <3>2 DEF ConservedInv
  <2> QED  BY <1>4, <2>1, <2>2, <2>3, OneThreadMore
<1> QED  BY <1>1, <1>3, <1>4 DEF ConservedInv

LEMMA MainConserves ==
    ASSUME ~ DecodeFails, ~ LaunchFails, TypeInv, TypeInv', CancelInv, WaitInv, ConservedInv,
           MainStep
    PROVE  ConservedInv'
<1>1. main'.pc # "fail"
  <2>1. CASE Pick
    <3>1. main'.pc \in {"process", "update"}
        BY <2>1, MainFacts DEF Pick, MainType
    <3> QED  BY <3>1
  <2>2. CASE ~ Pick
    BY <2>2, MainQueue DEF ConservedInv
  <2> QED  BY <2>1, <2>2
<1>2. UNCHANGED <<hpc, n_finished>>
    BY MainOnly
<1>3. ASSUME NEW r \in Requests, hpc[r] \in {"posted", "recv"}
      PROVE  Lot(r)' = Lot(r)
  <2>1. ASSUME NEW id \in Ids(r)
        PROVE  Places(id)' = Places(id)
    <3>1. id \in AllIds /\ id[1] = r
        BY IdFacts
    <3>2. ~ InHand(Cancel(id))
        BY <1>3, <3>1 DEF CancelInv
    <3>3. id \in waiting_task_ids
        BY <1>3 DEF WaitInv
    <3>4. ~ Excused(id)
        BY <3>2, <3>3 DEF Excused, ConservedInv
    <3> QED  BY <3>1, <3>4, MainPlaces
  <2> QED  BY <2>1, SameLot
<1> QED  BY <1>1, <1>2, <1>3 DEF ConservedInv

LEMMA ConservedStays ==
    ASSUME ~ DecodeFails, ~ LaunchFails
    PROVE  TypeInv /\ TypeInv' /\ PlacesInv /\ FreshInv /\ CancelInv /\ WaitInv /\ ConservedInv
            /\ [Next]_vars
                => ConservedInv'
<1> SUFFICES ASSUME TypeInv, TypeInv', PlacesInv, FreshInv, CancelInv, WaitInv, ConservedInv,
                    [Next]_vars
             PROVE  ConservedInv'
    OBVIOUS
<1>1. CASE UNCHANGED vars
    BY <1>1 DEF ConservedInv, Lot, Places, InQueues, InHand, OnSlots, Finals, Count, Completion,
                Final, NoId, IsProcessing, vars
<1>2. CASE \E r \in Requests : AddWaiting(r) \/ HttpStep(r) \/ Disconnect(r)
    BY <1>2, HttpConserves
<1>3. CASE MainStep
    BY <1>3, MainConserves
<1> QED  BY <1>1, <1>2, <1>3 DEF Next, Quiet

LEMMA InitConserved == Init => ConservedInv
  BY DEF Init, ConservedInv

LEMMA ConservedImplies == ConservedInv => TasksConserved
  BY DEF ConservedInv, TasksConserved, Lot

(***************************************************************************)
(* No task of a request that still waits is lost, whatever its size and    *)
(* whoever leaves: with decodes and samplers that do not fail (the two     *)
(* cases in which the code does drop tasks).                               *)
(***************************************************************************)
THEOREM ServerLosesNoTask ==
    ASSUME ~ DecodeFails, ~ LaunchFails
    PROVE  Spec => []TasksConserved
<1>1. TypeInv /\ TypeInv' /\ PlacesInv /\ FreshInv /\ CancelInv /\ WaitInv /\ ConservedInv
            /\ [Next]_vars
        => ConservedInv'
    BY ConservedStays
<1> QED  BY <1>1, InitConserved, ConservedImplies, TypesHold, PlacesHold, FreshHolds, WaitsHold, PTL DEF Spec

-----------------------------------------------------------------------------
(* ResultsHaveReaders.                                                     *)

Mentions(q, id) == \E k \in 1 .. Len(q) : q[k].id = id

\* Nothing about a task comes after its final result.
Ordered(q) == \A i, j \in 1 .. Len(q) : i < j /\ q[i].stop => q[j].id # q[i].id

LEMMA RemovePart ==
    ASSUME NEW T, NEW q \in Seq(T), NEW k \in 1 .. Len(q), NEW z, z = RemoveAt(q, k)
    PROVE  PartOf(z, q)
<1>1. /\ Len(q) \in Nat /\ Len(z) = Len(q) - 1
      /\ \A i \in 1 .. Len(z) : z[i] = q[IF i < k THEN i ELSE i + 1]
  <2>1. /\ Len(z) = Len(q) - 1
        /\ \A i \in 1 .. Len(q) - 1 : z[i] = q[IF i < k THEN i ELSE i + 1]
    BY ONLY q \in Seq(T), k \in 1 .. Len(q), z = RemoveAt(q, k), RemoveAtFacts
  <2> QED  BY ONLY q \in Seq(T), <2>1
<1> DEFINE g(i) == IF i < k THEN i ELSE i + 1
<1>2. \A i \in 1 .. Len(z) : g(i) \in 1 .. Len(q) /\ z[i] = q[g(i)]
    BY <1>1
<1>3. \A i, j \in 1 .. Len(z) : i < j => g(i) < g(j)
    BY <1>1
<1> HIDE DEF g
<1> QED  BY <1>2, <1>3 DEF PartOf

LEMMA PartReads ==
    ASSUME NEW q \in Seq(Result), NEW z \in Seq(Result), PartOf(z, q)
    PROVE  /\ Ordered(q) => Ordered(z)
           /\ \A id : Mentions(z, id) => Mentions(q, id)
           /\ \A i \in 1 .. Len(z) : \E k \in 1 .. Len(q) : z[i] = q[k]
<1>1. ASSUME Ordered(q), NEW i \in 1 .. Len(z), NEW j \in 1 .. Len(z), i < j, z[i].stop
      PROVE  z[j].id # z[i].id
  <2>1. PICK k, l \in 1 .. Len(q) : k < l /\ z[i] = q[k] /\ z[j] = q[l]
    BY <1>1 DEF PartOf
  <2>2. q[k].stop
    BY <1>1, <2>1
  <2>3. q[l].id # q[k].id
    BY <1>1, <2>1, <2>2 DEF Ordered
  <2> QED  BY <2>1, <2>3
<1>2. \A i \in 1 .. Len(z) : \E k \in 1 .. Len(q) : z[i] = q[k]
    BY DEF PartOf
<1>3. ASSUME NEW id, Mentions(z, id)
      PROVE  Mentions(q, id)
  <2>1. PICK i \in 1 .. Len(z) : z[i].id = id
    BY <1>3 DEF Mentions
  <2>2. PICK k \in 1 .. Len(q) : z[i] = q[k]
    BY <1>2
  <2> QED  BY <2>1, <2>2 DEF Mentions
<1> QED  BY <1>1, <1>2, <1>3 DEF Ordered

LEMMA ConcatReads ==
    ASSUME NEW p \in Seq(Result), NEW q \in Seq(Result), NEW z, Joined(z, p, q)
    PROVE  /\ \A id : Mentions(z, id) <=> Mentions(p, id) \/ Mentions(q, id)
           /\ \A i \in 1 .. Len(z) : \/ \E k \in 1 .. Len(p) : z[i] = p[k]
                                     \/ \E k \in 1 .. Len(q) : z[i] = q[k]
           /\ Ordered(p) /\ Ordered(q)
                /\ (\A i \in 1 .. Len(p) : p[i].stop => ~ Mentions(q, p[i].id)) => Ordered(z)
<1>1. PICK m, n \in Nat : m = Len(p) /\ n = Len(q)
    OBVIOUS
<1>2. /\ Len(z) = m + n
      /\ \A i \in 1 .. m : i \in 1 .. Len(z) /\ z[i] = p[i]
      /\ \A i \in 1 .. n : m + i \in 1 .. Len(z) /\ z[m + i] = q[i]
    BY <1>1 DEF Joined
<1>3. \A i \in 1 .. Len(z) : \/ i \in 1 .. m /\ z[i] = p[i]
                             \/ i - m \in 1 .. n /\ z[i] = q[i - m]
  <2> TAKE i \in 1 .. Len(z)
  <2>1. CASE i <= m
    BY <1>2, <2>1
  <2>2. CASE i > m
    <3>1. i - m \in 1 .. n /\ m + (i - m) = i
        BY <1>2, <2>2
    <3> QED  BY <1>2, <3>1
  <2> QED  BY <2>1, <2>2
<1>4. \A id : Mentions(z, id) <=> Mentions(p, id) \/ Mentions(q, id)
  <2>1. ASSUME NEW id, Mentions(z, id)
        PROVE  Mentions(p, id) \/ Mentions(q, id)
    <3>1. PICK i \in 1 .. Len(z) : z[i].id = id
        BY <2>1 DEF Mentions
    <3>2. CASE i \in 1 .. m /\ z[i] = p[i]
        BY <1>1, <3>1, <3>2 DEF Mentions
    <3>3. CASE i - m \in 1 .. n /\ z[i] = q[i - m]
      <4>1. PICK j \in 1 .. Len(q) : z[i] = q[j]
        BY <1>1, <3>3
      <4> QED  BY <3>1, <4>1 DEF Mentions
    <3> QED  BY <1>3, <3>2, <3>3
  <2>2. ASSUME NEW id, Mentions(p, id)
        PROVE  Mentions(z, id)
    <3>1. PICK i \in 1 .. m : p[i].id = id
        BY <1>1, <2>2 DEF Mentions
    <3> QED  BY <1>2, <3>1 DEF Mentions
  <2>3. ASSUME NEW id, Mentions(q, id)
        PROVE  Mentions(z, id)
    <3>1. PICK i \in 1 .. n : q[i].id = id
        BY <1>1, <2>3 DEF Mentions
    <3>2. PICK j \in 1 .. Len(z) : z[j] = q[i]
        BY <1>2
    <3> QED  BY <3>1, <3>2 DEF Mentions
  <2> QED  BY <2>1, <2>2, <2>3
<1>5. ASSUME Ordered(p), Ordered(q), \A i \in 1 .. Len(p) : p[i].stop => ~ Mentions(q, p[i].id),
             NEW i \in 1 .. Len(z), NEW j \in 1 .. Len(z), i < j, z[i].stop
      PROVE  z[j].id # z[i].id
  <2>1. CASE j \in 1 .. m
    <3>1. i \in 1 .. m
        BY <1>5, <2>1
    <3> QED  BY <1>1, <1>2, <1>5, <2>1, <3>1 DEF Ordered
  <2>2. CASE i \in 1 .. m /\ j \notin 1 .. m
    <3>1. j - m \in 1 .. n /\ z[j] = q[j - m]
        BY <1>3, <2>2
    <3>2. z[i] = p[i] /\ i \in 1 .. Len(p)
        BY <1>1, <1>2, <2>2
    <3>3. ~ Mentions(q, z[i].id)
        BY <1>5, <3>2
    <3>4. PICK k \in 1 .. Len(q) : z[j] = q[k]
        BY <1>1, <3>1
    <3> QED  BY <3>3, <3>4 DEF Mentions
  <2>3. CASE i \notin 1 .. m
    <3>1. i - m \in 1 .. n /\ z[i] = q[i - m] /\ j \notin 1 .. m
        BY <1>1, <1>2, <1>3, <1>5, <2>3
    <3>2. j - m \in 1 .. n /\ z[j] = q[j - m]
        BY <1>3, <3>1
    <3>3. i - m < j - m
        BY <1>1, <1>2, <1>5
    <3> QED  BY <1>1, <1>5, <3>1, <3>2, <3>3 DEF Ordered
  <2> QED  BY <2>1, <2>2, <2>3
<1>6. \A i \in 1 .. Len(z) : \/ \E k \in 1 .. Len(p) : z[i] = p[k]
                             \/ \E k \in 1 .. Len(q) : z[i] = q[k]
    BY <1>1, <1>3
<1> QED  BY <1>4, <1>5, <1>6 DEF Ordered

\* What the main thread does to the results: it sends some about a task that
\* is running, or commits what it has sent.
Sends(id, w) ==
    /\ w \in Seq(Result) /\ Ordered(w) /\ \A i \in 1 .. Len(w) : w[i].id = id
    /\ OnSlots(id) >= 1
    /\ send_buffer' = send_buffer \o w

Commits(z) ==
    /\ z \in Seq(Result) /\ PartOf(z, send_buffer)
    /\ \A i \in 1 .. Len(z) : z[i].id \in waiting_task_ids
    /\ queue_results' = queue_results \o z
    /\ send_buffer' = <<>>

LEMMA SmallOrdered ==
    ASSUME NEW id \in AllIds, NEW w, w = <<>> \/ w = <<Partial(id)>> \/ w = <<Final(id)>>
    PROVE  /\ w \in Seq(Result) /\ Ordered(w) /\ \A i \in 1 .. Len(w) : w[i].id = id
           /\ w # <<Final(id)>> => \A i \in 1 .. Len(w) : ~ w[i].stop
<1>1. PICK a, b \in Result : /\ a = Partial(id) /\ b = Final(id)
                             /\ a.id = id /\ b.id = id /\ ~ a.stop
    BY ResultFacts
<1>2. CASE w = <<>>
    BY <1>2 DEF Ordered
<1>3. CASE w = <<a>>
  <2>1. w \in Seq(Result) /\ Len(w) = 1 /\ w[1] = a
    BY <1>3
  <2>2. \A i, j \in 1 .. Len(w) : ~ (i < j) /\ w[i] = a
    BY <2>1
  <2> QED  BY <1>1, <2>1, <2>2 DEF Ordered
<1>4. CASE w = <<b>>
  <2>1. w \in Seq(Result) /\ Len(w) = 1 /\ w[1] = b
    BY <1>4
  <2>2. \A i, j \in 1 .. Len(w) : ~ (i < j) /\ w[i] = b
    BY <2>1
  <2> QED  BY <1>1, <1>4, <2>1, <2>2 DEF Ordered
<1> QED  BY <1>1, <1>2, <1>3, <1>4

LEMMA OrderedConcat ==
    ASSUME NEW id, NEW p \in Seq(Result), NEW q \in Seq(Result), Ordered(p), Ordered(q),
           \A i \in 1 .. Len(p) : p[i].id = id /\ ~ p[i].stop,
           \A i \in 1 .. Len(q) : q[i].id = id,
           NEW z, Joined(z, p, q)
    PROVE  z \in Seq(Result) /\ Ordered(z) /\ \A i \in 1 .. Len(z) : z[i].id = id
<1>1. z \in Seq(Result)
    BY DEF Joined
<1>2. Ordered(z) /\ \A i \in 1 .. Len(z) : \/ \E k \in 1 .. Len(p) : z[i] = p[k]
                                          \/ \E k \in 1 .. Len(q) : z[i] = q[k]
    BY ConcatReads
<1> QED  BY <1>1, <1>2

LEMMA OneIsOn ==
    ASSUME TypeInv, NEW s \in Slots, IsProcessing(s), NEW id, id = slots[s].id_task
    PROVE  OnSlots(id) >= 1
<1>1. OnSlots(id) \in Nat /\ OnSlots(id) # 0
    BY OnSlotsNat
<1> QED  BY <1>1

LEMMA MainResults ==
    ASSUME TypeInv, MainStep
    PROVE  \/ UNCHANGED <<queue_results, send_buffer>>
           \/ UNCHANGED queue_results /\ \E id \in AllIds : \E w : Sends(id, w)
           \/ \E z : Commits(z)
<1>1. CASE SendCommit
  <2>1. PICK S, z : S = {res \in Result : res.id \in waiting_task_ids} /\ z = Kept(send_buffer, S)
    OBVIOUS
  <2>2. queue_results' = queue_results \o z /\ send_buffer' = <<>>
    BY <1>1, <2>1 DEF SendCommit, Commit
  <2>3. send_buffer \in Seq(Result)
    BY DEF TypeInv, SendOK
  <2>4. z \in Seq(Result) /\ PartOf(z, send_buffer) /\ \A i \in 1 .. Len(z) : z[i] \in S
    BY <2>1, <2>3, KeptFacts
  <2> QED  BY <2>1, <2>2, <2>4 DEF Commits
<1>2. CASE PromptEmpty
  <2>1. PICK s : s = main.i
    OBVIOUS
  <2>2. PICK id : id = slots[s].id_task
    OBVIOUS
  <2>3. /\ s \in Slots /\ IsProcessing(s) /\ id \in AllIds
        /\ send_buffer' = Append(send_buffer, Final(id))
    BY <1>2, <2>1, <2>2, PromptEmptyFacts
  <2>4. send_buffer' = send_buffer \o <<Final(id)>>
    BY <2>3, ResultFacts DEF TypeInv, SendOK
  <2>5. Sends(id, <<Final(id)>>)
    <3>1. OnSlots(id) >= 1
        BY <2>2, <2>3, OneIsOn
    <3>2. PICK w : w = <<Final(id)>>
        OBVIOUS
    <3> QED  BY <2>3, <2>4, <3>1, <3>2, SmallOrdered DEF Sends
  <2>6. UNCHANGED queue_results
    BY <1>2 DEF PromptEmpty, resultvars
  <2> QED  BY <2>3, <2>5, <2>6
<1>3. CASE Sample
  <2>1. PICK s : s = main.i
    OBVIOUS
  <2>2. PICK id : id = slots[s].id_task
    OBVIOUS
  <2>3. s \in Slots /\ IsProcessing(s) /\ id \in AllIds
    BY <1>3, <2>1, <2>2, SampleFacts
  <2>4. PICK partial \in {<<>>, <<Partial(id)>>}, stop \in BOOLEAN :
            send_buffer' = (send_buffer \o partial) \o (IF stop THEN <<Final(id)>> ELSE <<>>)
    BY <1>3, <2>1, <2>2, SampleFacts
  <2>5. PICK p : /\ p = <<>> \/ p = <<Partial(id)>>
                 /\ send_buffer' = (send_buffer \o p) \o (IF stop THEN <<Final(id)>> ELSE <<>>)
    BY <2>4
  <2>6. PICK f : f = IF stop THEN <<Final(id)>> ELSE <<>>
    OBVIOUS
  <2>7. /\ p \in Seq(Result) /\ Ordered(p) /\ \A i \in 1 .. Len(p) : p[i].id = id
        /\ f \in Seq(Result) /\ Ordered(f) /\ \A i \in 1 .. Len(f) : f[i].id = id
    <3>1. f = <<>> \/ f = <<Final(id)>>
        BY <2>6
    <3> QED  BY <2>3, <2>5, <3>1, SmallOrdered
  <2>8. \A i \in 1 .. Len(p) : ~ p[i].stop
    <3>1. CASE p = <<>>
        BY <3>1
    <3>2. CASE p = <<Partial(id)>>
      <4>1. PICK a \in Result : a = Partial(id) /\ ~ a.stop
        BY <2>3, ResultFacts
      <4>2. p = <<a>>
        BY <3>2, <4>1
      <4>3. \A i \in 1 .. Len(p) : p[i] = a
        BY <4>2
      <4> QED  BY <4>1, <4>3
    <3> QED  BY <2>5, <3>1, <3>2
  <2>9. Sends(id, p \o f)
    <3>1. PICK w : w = p \o f /\ Joined(w, p, f)
        BY DEF Joined
    <3>2. w \in Seq(Result) /\ Ordered(w) /\ \A i \in 1 .. Len(w) : w[i].id = id
      <4>1. p \in Seq(Result) /\ f \in Seq(Result) /\ Ordered(p) /\ Ordered(f) /\ Joined(w, p, f)
        BY <2>7, <3>1
      <4>2. \A i \in 1 .. Len(p) : p[i].id = id /\ ~ p[i].stop
        BY <2>7, <2>8
      <4>3. \A i \in 1 .. Len(f) : f[i].id = id
        BY <2>7
      <4> QED  BY ONLY <4>1, <4>2, <4>3, OrderedConcat
    <3>3. send_buffer' = send_buffer \o w
      <4>1. send_buffer \in Seq(Result)
        BY DEF TypeInv, SendOK
      <4>2. (send_buffer \o p) \o f = send_buffer \o (p \o f)
        BY <2>7, <4>1
      <4> QED  BY <2>5, <2>6, <3>1, <4>2
    <3>4. OnSlots(id) >= 1
        BY <2>2, <2>3, OneIsOn
    <3> QED  BY <3>1, <3>2, <3>3, <3>4 DEF Sends
  <2>10. UNCHANGED queue_results
    BY <1>3 DEF Sample, resultvars
  <2> QED  BY <2>3, <2>9, <2>10
<1>4. CASE ~ SendCommit /\ ~ PromptEmpty /\ ~ Sample
    BY <1>4 DEF MainStep, Pick, Defer, Launch, ProcessCancel, ProcessNext, Wait, Update, PromptNone,
                PromptTokens, Decode, Fail, SampleNone, resultvars
<1> QED  BY <1>1, <1>2, <1>3, <1>4

\* A request takes results out, and changes nothing else about them.
LEMMA HttpResults ==
    ASSUME TypeInv, NEW r \in Requests, AddWaiting(r) \/ HttpStep(r) \/ Disconnect(r)
    PROVE  /\ UNCHANGED send_buffer
           /\ PartOf(queue_results', queue_results)
           /\ \/ UNCHANGED queue_results
              \/ hpc[r] = "recv" /\ Receive(r)
              \/ hpc[r] = "cancel" /\ RemoveWaiting(r)
<1>1. PICK q \in Seq(Result) : q = queue_results
    BY DEF TypeInv, ResultsOK
<1>2. PartOf(q, q)
    BY DEF PartOf
<1>3. CASE Receive(r)
  <2>1. PICK k \in 1 .. Len(q) : queue_results' = RemoveAt(q, k)
    BY <1>1, <1>3, ReceiveFacts
  <2>2. UNCHANGED send_buffer /\ hpc[r] = "recv"
    BY <1>3 DEF Receive, mainvars
  <2> QED  BY <1>1, <1>3, <2>1, <2>2, RemovePart
<1>4. CASE RemoveWaiting(r)
  <2>1. PICK S : queue_results' = Kept(q, S)
    BY <1>1, <1>4 DEF RemoveWaiting
  <2>2. UNCHANGED send_buffer /\ hpc[r] = "cancel"
    BY <1>4 DEF RemoveWaiting, mainvars
  <2>3. PartOf(Kept(q, S), q)
    BY KeptFacts
  <2> QED  BY <1>1, <1>4, <2>1, <2>2, <2>3
<1>5. CASE ~ Receive(r) /\ ~ RemoveWaiting(r)
  <2>1. UNCHANGED <<send_buffer, queue_results>>
    BY <1>5 DEF HttpStep, AddWaiting, PostTasks, StartStream, Timeout, PostCancel, Complete,
                Disconnect, mainvars, resultvars
  <2> QED  BY <1>1, <1>2, <2>1
<1> QED  BY <1>3, <1>4, <1>5

\* Nothing about a task comes after its final result: neither committed nor
\* still to be committed.
OrderInv ==
    /\ Ordered(queue_results) /\ Ordered(send_buffer)
    /\ \A i \in 1 .. Len(queue_results) : queue_results[i].stop =>
            ~ Mentions(send_buffer, queue_results[i].id)

\* A task that is nowhere and of which nothing more will be heard.
Dead(id) == Places(id) = 0 /\ ~ Mentions(queue_results, id) /\ ~ Mentions(send_buffer, id)

DeadOf(r) == {id \in Ids(r) : Dead(id)}

\* What has been received in full is over.
FinishedInv == \A r \in Requests : n_finished[r] <= Cardinality(DeadOf(r))

\* No thread will find results of this task, which is not waited for.
Unheard(id) == id \notin waiting_task_ids /\ ~ Mentions(queue_results, id)

LEMMA BothSeqs == TypeInv => queue_results \in Seq(Result) /\ send_buffer \in Seq(Result)
  BY DEF TypeInv, ResultsOK, SendOK

LEMMA BothSeqsNext == TypeInv' => queue_results' \in Seq(Result) /\ send_buffer' \in Seq(Result)
  BY DEF TypeInv, ResultsOK, SendOK

\* A final result takes the one place of its task, which runs no more.
LEMMA NoFinals ==
    ASSUME TypeInv, PlacesInv, NEW id \in AllIds, OnSlots(id) >= 1
    PROVE  /\ \A i \in 1 .. Len(queue_results) : queue_results[i].stop => queue_results[i].id # id
           /\ \A i \in 1 .. Len(send_buffer) : send_buffer[i].stop => send_buffer[i].id # id
<1>1. Unsent(id) = 0 /\ Unread(id) = 0
  <2>1. Places(id) <= 1
    BY DEF PlacesInv
  <2> QED  BY <2>1, PlacesSum
<1>2. ASSUME NEW q \in Seq(Result), Count(q, Final(id)) = 0,
             NEW i \in 1 .. Len(q), q[i].stop, q[i].id = id
      PROVE  FALSE
  <2>1. q[i] \in Result
    OBVIOUS
  <2>2. q[i] = Final(id)
    BY <1>2, <2>1, ResultFacts
  <2>3. PICK x : x = Final(id)
    OBVIOUS
  <2> QED  BY <1>2, <2>2, <2>3, CountNone
<1>3. queue_results \in Seq(Result) /\ send_buffer \in Seq(Result)
    BY BothSeqs
<1> QED  BY <1>1, <1>2, <1>3 DEF Unsent, Unread

LEMMA HttpOrder ==
    ASSUME TypeInv, TypeInv', OrderInv,
           NEW r \in Requests, AddWaiting(r) \/ HttpStep(r) \/ Disconnect(r)
    PROVE  OrderInv'
<1>1. PICK q, z \in Seq(Result) : q = queue_results /\ z = queue_results'
    BY BothSeqs, BothSeqsNext
<1>2. UNCHANGED send_buffer /\ PartOf(z, q)
    BY <1>1, HttpResults
<1>3. Ordered(z) /\ \A i \in 1 .. Len(z) : \E k \in 1 .. Len(q) : z[i] = q[k]
    BY <1>1, <1>2, PartReads DEF OrderInv
<1> QED  BY <1>1, <1>2, <1>3 DEF OrderInv

LEMMA SendsOrder ==
    ASSUME TypeInv, PlacesInv, OrderInv, UNCHANGED queue_results,
           NEW id \in AllIds, NEW w, Sends(id, w)
    PROVE  OrderInv'
<1>1. PICK q, b, c : q = queue_results /\ b = send_buffer /\ c = send_buffer'
    OBVIOUS
<1>2. /\ q \in Seq(Result) /\ b \in Seq(Result) /\ w \in Seq(Result) /\ Joined(c, b, w)
      /\ Ordered(q) /\ Ordered(b) /\ Ordered(w)
    BY <1>1, BothSeqs DEF Sends, Joined, OrderInv
<1>3. /\ \A i \in 1 .. Len(q) : q[i].stop => q[i].id # id
      /\ \A i \in 1 .. Len(b) : b[i].stop => b[i].id # id
    BY <1>1, NoFinals DEF Sends
<1>4. \A x : Mentions(w, x) => x = id
    BY DEF Mentions, Sends
<1>5. \A i \in 1 .. Len(b) : b[i].stop => ~ Mentions(w, b[i].id)
    BY <1>3, <1>4
<1>6. Ordered(c) /\ \A x : Mentions(c, x) <=> Mentions(b, x) \/ Mentions(w, x)
    BY <1>2, <1>5, ConcatReads
<1>7. \A i \in 1 .. Len(q) : q[i].stop => ~ Mentions(c, q[i].id)
    BY <1>1, <1>3, <1>4, <1>6 DEF OrderInv
<1> QED  BY <1>1, <1>2, <1>6, <1>7 DEF OrderInv

LEMMA CommitsOrder ==
    ASSUME TypeInv, OrderInv, NEW z, Commits(z)
    PROVE  OrderInv'
<1>1. PICK q, b, p : q = queue_results /\ b = send_buffer /\ p = queue_results'
    OBVIOUS
<1>2. /\ q \in Seq(Result) /\ b \in Seq(Result) /\ z \in Seq(Result) /\ PartOf(z, b)
      /\ Joined(p, q, z) /\ Ordered(q) /\ Ordered(b)
    BY <1>1, BothSeqs DEF Commits, Joined, OrderInv
<1>3. Ordered(z) /\ \A x : Mentions(z, x) => Mentions(b, x)
    BY <1>2, PartReads
<1>4. \A i \in 1 .. Len(q) : q[i].stop => ~ Mentions(z, q[i].id)
    BY <1>1, <1>3 DEF OrderInv
<1>5. Ordered(p)
    BY <1>2, <1>3, <1>4, ConcatReads
<1>6. send_buffer' = <<>>
    BY DEF Commits
<1>7. Ordered(send_buffer') /\ \A x : ~ Mentions(send_buffer', x)
    BY <1>6 DEF Ordered, Mentions
<1> QED  BY <1>1, <1>5, <1>7 DEF OrderInv

LEMMA OrderStays == TypeInv /\ TypeInv' /\ PlacesInv /\ OrderInv /\ [Next]_vars => OrderInv'
<1> SUFFICES ASSUME TypeInv, TypeInv', PlacesInv, OrderInv, [Next]_vars PROVE OrderInv'
    OBVIOUS
<1>1. CASE UNCHANGED <<queue_results, send_buffer>>
    BY <1>1 DEF OrderInv
<1>2. CASE \E r \in Requests : AddWaiting(r) \/ HttpStep(r) \/ Disconnect(r)
    BY <1>2, HttpOrder
<1>3. CASE MainStep
    BY <1>1, <1>3, MainResults, SendsOrder, CommitsOrder
<1>4. CASE UNCHANGED vars
    BY <1>1, <1>4 DEF vars
<1> QED  BY <1>2, <1>3, <1>4 DEF Next, Quiet

LEMMA OrderHolds == Spec => []OrderInv
<1>1. Init => OrderInv
    BY DEF Init, OrderInv, Ordered
<1> QED  BY <1>1, OrderStays, TypesHold, PlacesHold, PTL DEF Spec

-----------------------------------------------------------------------------
(* The dead stay dead, and the main thread disturbs nobody.                *)

LEMMA MainDead ==
    ASSUME TypeInv, TypeInv', MainStep, NEW id \in AllIds
    PROVE  Dead(id) => Dead(id)'
<1> SUFFICES ASSUME Dead(id) PROVE Dead(id)'
    OBVIOUS
<1>1. Places(id) = 0 /\ ~ Mentions(queue_results, id) /\ ~ Mentions(send_buffer, id)
    BY DEF Dead
<1>2. Places(id)' = 0
    BY <1>1, MainPlaces, PlacesSumNext
<1>3. ~ Mentions(queue_results', id) /\ ~ Mentions(send_buffer', id)
  <2>1. CASE UNCHANGED <<queue_results, send_buffer>>
    BY <1>1, <2>1
  <2>2. ASSUME UNCHANGED queue_results, NEW x \in AllIds, NEW w, Sends(x, w)
        PROVE  ~ Mentions(queue_results', id) /\ ~ Mentions(send_buffer', id)
    <3>1. PICK b, c : b = send_buffer /\ c = send_buffer'
        OBVIOUS
    <3>2. b \in Seq(Result) /\ w \in Seq(Result) /\ Joined(c, b, w)
        BY <2>2, <3>1, BothSeqs DEF Sends, Joined
    <3>3. x # id
        BY <1>1, <2>2, PlacesSum DEF Sends
    <3>4. ~ Mentions(w, id)
        BY <2>2, <3>3 DEF Sends, Mentions
    <3>5. ~ Mentions(c, id)
        BY <1>1, <3>1, <3>2, <3>4, ConcatReads
    <3> QED  BY <1>1, <2>2, <3>1, <3>5
  <2>3. ASSUME NEW z, Commits(z)
        PROVE  ~ Mentions(queue_results', id) /\ ~ Mentions(send_buffer', id)
    <3>1. PICK q, b, p : q = queue_results /\ b = send_buffer /\ p = queue_results'
        OBVIOUS
    <3>2. /\ q \in Seq(Result) /\ b \in Seq(Result) /\ z \in Seq(Result) /\ PartOf(z, b)
          /\ Joined(p, q, z) /\ send_buffer' = <<>>
        BY <2>3, <3>1, BothSeqs DEF Commits, Joined
    <3>3. ~ Mentions(z, id)
        BY <1>1, <3>1, <3>2, PartReads
    <3>4. ~ Mentions(p, id)
        BY <1>1, <3>1, <3>2, <3>3, ConcatReads
    <3>5. ~ Mentions(send_buffer', id)
        BY <3>2 DEF Mentions
    <3> QED  BY <3>1, <3>4, <3>5
  <2> QED  BY <2>1, <2>2, <2>3, MainResults
<1> QED  BY <1>2, <1>3 DEF Dead

LEMMA MainUnheard ==
    ASSUME TypeInv, MainStep, NEW id
    PROVE  Unheard(id) => Unheard(id)'
<1> SUFFICES ASSUME Unheard(id) PROVE Unheard(id)'
    OBVIOUS
<1>1. UNCHANGED waiting_task_ids
    BY MainOnly
<1>2. CASE UNCHANGED queue_results
    BY <1>1, <1>2 DEF Unheard
<1>3. ASSUME NEW z, Commits(z)
      PROVE  Unheard(id)'
  <2>1. PICK q, p : q = queue_results /\ p = queue_results'
    OBVIOUS
  <2>2. q \in Seq(Result) /\ z \in Seq(Result) /\ Joined(p, q, z)
    BY <1>3, <2>1, BothSeqs DEF Commits, Joined
  <2>3. ~ Mentions(z, id)
    BY <1>3 DEF Commits, Mentions, Unheard
  <2>4. ~ Mentions(p, id)
    BY <2>1, <2>2, <2>3, ConcatReads DEF Unheard
  <2> QED  BY <1>1, <2>1, <2>4 DEF Unheard
<1> QED  BY <1>2, <1>3, MainResults

LEMMA MainReaders ==
    ASSUME TypeInv, MainStep, ResultsHaveReaders
    PROVE  ResultsHaveReaders'
<1>1. UNCHANGED <<waiting_task_ids, closed>>
    BY MainOnly
<1>2. CASE UNCHANGED queue_results
    BY <1>1, <1>2 DEF ResultsHaveReaders, Stream
<1>3. ASSUME NEW z, Commits(z)
      PROVE  ResultsHaveReaders'
  <2>1. PICK q, p : q = queue_results /\ p = queue_results'
    OBVIOUS
  <2>2. q \in Seq(Result) /\ z \in Seq(Result) /\ Joined(p, q, z) /\ DOMAIN q = 1 .. Len(q)
    BY <1>3, <2>1, BothSeqs DEF Commits, Joined
  <2>3. DOMAIN p = 1 .. Len(p)
    BY <2>2 DEF Joined
  <2>4. \A i \in 1 .. Len(p) : \/ \E k \in 1 .. Len(q) : p[i] = q[k]
                               \/ \E k \in 1 .. Len(z) : p[i] = z[k]
    BY <2>2, ConcatReads
  <2>5. \A i \in 1 .. Len(z) : z[i].id \in waiting_task_ids
    BY <1>3 DEF Commits
  <2>6. ASSUME NEW i \in 1 .. Len(p)
        PROVE  p[i].id \in waiting_task_ids \/ (Stream(p[i].id) /\ closed[p[i].id[1]])
    <3>1. CASE \E k \in 1 .. Len(q) : p[i] = q[k]
        BY <2>1, <2>2, <3>1 DEF ResultsHaveReaders
    <3>2. CASE \E k \in 1 .. Len(z) : p[i] = z[k]
        BY <2>5, <3>2
    <3> QED  BY <2>4, <3>1, <3>2
  <2> QED  BY <1>1, <2>1, <2>3, <2>6 DEF ResultsHaveReaders, Stream
<1> QED  BY <1>2, <1>3, MainResults

LEMMA HttpDead ==
    ASSUME TypeInv, TypeInv', NEW r \in Requests, AddWaiting(r) \/ HttpStep(r) \/ Disconnect(r),
           NEW id \in AllIds, ~ (PostTasks(r) /\ id \in Ids(r))
    PROVE  /\ Mentions(queue_results', id) => Mentions(queue_results, id)
           /\ Dead(id) => Dead(id)'
<1>1. queue_results \in Seq(Result) /\ queue_results' \in Seq(Result)
    BY BothSeqs, BothSeqsNext
<1>2. UNCHANGED send_buffer /\ PartOf(queue_results', queue_results)
    BY HttpResults
<1>3. Mentions(queue_results', id) => Mentions(queue_results, id)
    BY <1>1, <1>2, PartReads
<1>4. Places(id)' <= Places(id) /\ Places(id)' \in Nat
    BY HttpPlaces, PlacesSumNext
<1> QED  BY <1>2, <1>3, <1>4 DEF Dead

-----------------------------------------------------------------------------
(* Final results are received from tasks that are then dead.               *)

LEMMA DeadGrows ==
    ASSUME NEW r \in Requests, \A id \in Ids(r) : Dead(id) => Dead(id)'
    PROVE  /\ Cardinality(DeadOf(r)) \in Nat /\ Cardinality(DeadOf(r)') \in Nat
           /\ Cardinality(DeadOf(r)) <= Cardinality(DeadOf(r)')
           /\ IsFiniteSet(DeadOf(r)) /\ IsFiniteSet(DeadOf(r)')
<1>1. DeadOf(r) \subseteq Ids(r) /\ DeadOf(r)' \subseteq Ids(r) /\ DeadOf(r) \subseteq DeadOf(r)'
    BY DEF DeadOf
<1>2. IsFiniteSet(Ids(r))
    BY LotFacts
<1>3. IsFiniteSet(DeadOf(r)) /\ IsFiniteSet(DeadOf(r)')
    BY <1>1, <1>2, FS_Subset
<1>4. Cardinality(DeadOf(r)) \in Nat /\ Cardinality(DeadOf(r)') \in Nat
    BY <1>3, FS_CardinalityType
<1>5. Cardinality(DeadOf(r)) <= Cardinality(DeadOf(r)')
    BY <1>1, <1>3, FS_Subset
<1> QED  BY <1>3, <1>4, <1>5

LEMMA ReceiveFinal ==
    ASSUME TypeInv, TypeInv', PlacesInv, OrderInv, NEW r \in Requests, Receive(r),
           NEW k \in 1 .. Len(queue_results), queue_results' = RemoveAt(queue_results, k),
           NEW x \in Ids(r), queue_results[k].id = x, queue_results[k].stop,
           \A j \in 1 .. k - 1 : queue_results[j].id \notin Ids(r)
    PROVE  ~ Dead(x) /\ Dead(x)'
<1>1. PICK q, z \in Seq(Result) : q = queue_results /\ z = queue_results'
    BY BothSeqs, BothSeqsNext
<1>2. x \in AllIds
    BY IdFacts
<1>3. q[k] = Final(x)
  <2>1. q[k] \in Result
    BY <1>1
  <2> QED  BY <1>1, <2>1, ResultFacts
<1>4. Places(x)' = 0
  <2>1. Places(x) = Places(x)' + (IF queue_results[k] = Final(x) THEN 1 ELSE 0)
    BY <1>2, ReceivePlaces
  <2>2. Places(x) = Places(x)' + 1
    BY <1>1, <1>3, <2>1
  <2>3. Places(x) <= 1 /\ Places(x)' \in Nat
    BY <1>2, PlacesSumNext DEF PlacesInv
  <2> QED  BY <2>2, <2>3
<1>5. ~ Mentions(z, x)
  <2>1. /\ Len(q) \in Nat /\ Len(z) = Len(q) - 1
        /\ \A i \in 1 .. Len(q) - 1 : z[i] = q[IF i < k THEN i ELSE i + 1]
    <3>1. q \in Seq(Result) /\ k \in 1 .. Len(q) /\ z = RemoveAt(q, k)
        BY <1>1
    <3> QED  BY ONLY <3>1, RemoveAtFacts
  <2>2. SUFFICES ASSUME NEW i \in 1 .. Len(z), z[i].id = x PROVE FALSE
    BY DEF Mentions
  <2>3. CASE i < k
    <3>1. z[i] = q[i] /\ i \in 1 .. k - 1
        BY <2>1, <2>3
    <3> QED  BY <1>1, <2>2, <3>1
  <2>4. CASE ~ (i < k)
    <3>1. z[i] = q[i + 1] /\ i + 1 \in 1 .. Len(q) /\ k < i + 1
        BY <1>1, <2>1, <2>4
    <3>2. q[i + 1].id # q[k].id
        BY <1>1, <3>1 DEF OrderInv, Ordered
    <3> QED  BY <1>1, <2>2, <3>1, <3>2
  <2> QED  BY <2>3, <2>4
<1>6. ~ Mentions(send_buffer, x) /\ UNCHANGED send_buffer
  <2>1. UNCHANGED send_buffer
    BY DEF Receive, mainvars
  <2> QED  BY <2>1 DEF OrderInv
<1>7. Mentions(queue_results, x)
    BY DEF Mentions
<1> QED  BY <1>1, <1>4, <1>5, <1>6, <1>7 DEF Dead

LEMMA HttpFinished ==
    ASSUME TypeInv, TypeInv', PlacesInv, FreshInv, OrderInv, FinishedInv,
           NEW r \in Requests, AddWaiting(r) \/ HttpStep(r) \/ Disconnect(r)
    PROVE  FinishedInv'
<1> SUFFICES ASSUME NEW x \in Requests
             PROVE  n_finished'[x] <= Cardinality(DeadOf(x)')
    BY DEF FinishedInv
<1>1. /\ n_finished[x] <= Cardinality(DeadOf(x)) /\ n_finished[x] \in Nat
      /\ n_finished'[x] \in Nat /\ n_finished \in [Requests -> Nat]
    BY DEF FinishedInv, TypeInv, HttpOK
<1>2. CASE x # r
  <2>1. \A id \in Ids(x) : id \in AllIds /\ id \notin Ids(r)
    BY <1>2, IdFacts
  <2>2. \A id \in Ids(x) : Dead(id) => Dead(id)'
    BY <2>1, HttpDead
  <2>3. n_finished'[x] = n_finished[x]
    BY <1>2, OneThread
  <2> QED  BY <1>1, <2>2, <2>3, DeadGrows
<1>3. CASE x = r /\ PostTasks(r)
  <2>1. n_finished'[r] = 0
    BY <1>3 DEF PostTasks, FreshInv
  <2>2. IsFiniteSet(DeadOf(r)')
    <3>1. DeadOf(r)' \subseteq Ids(r)
        BY DEF DeadOf
    <3> QED  BY <3>1, LotFacts, FS_Subset
  <2> QED  BY <1>3, <2>1, <2>2, FS_CardinalityType
<1>4. CASE x = r /\ ~ PostTasks(r)
  <2>1. \A id \in Ids(x) : Dead(id) => Dead(id)'
    BY <1>4, IdFacts, HttpDead
  <2>2. CASE n_finished'[x] = n_finished[x]
    BY <1>1, <2>1, <2>2, DeadGrows
  <2>3. CASE Receive(r)
    <3>1. PICK k \in 1 .. Len(queue_results), res \in Result, fin \in Nat :
                /\ res = queue_results[k] /\ res.id \in Ids(r)
                /\ \A j \in 1 .. k - 1 : queue_results[j].id \notin Ids(r)
                /\ queue_results' = RemoveAt(queue_results, k)
                /\ fin = n_finished[r] + (IF res.stop THEN 1 ELSE 0)
                /\ n_finished' = n_finished \/ n_finished' = [n_finished EXCEPT ![r] = fin]
        BY <2>3, ReceiveFacts
    <3>2. CASE res.stop
      <4>1. PICK y \in Ids(r) : y = res.id
        BY <3>1
      <4>2. ~ Dead(y) /\ Dead(y)'
        BY <2>3, <3>1, <3>2, <4>1, ReceiveFinal
      <4>3. y \notin DeadOf(x) /\ DeadOf(x) \cup {y} \subseteq DeadOf(x)'
        BY <1>4, <2>1, <4>2 DEF DeadOf
      <4>4. /\ IsFiniteSet(DeadOf(x)) /\ IsFiniteSet(DeadOf(x)')
            /\ Cardinality(DeadOf(x)) \in Nat /\ Cardinality(DeadOf(x)') \in Nat
        BY <2>1, DeadGrows
      <4>5. Cardinality(DeadOf(x) \cup {y}) = Cardinality(DeadOf(x)) + 1
        BY <4>3, <4>4, FS_AddElement
      <4>6. Cardinality(DeadOf(x) \cup {y}) <= Cardinality(DeadOf(x)')
        BY <4>3, <4>4, FS_Subset
      <4>7. n_finished'[x] <= n_finished[x] + 1
        BY <1>1, <1>4, <3>1, <3>2
      <4> QED  BY <1>1, <4>4, <4>5, <4>6, <4>7
    <3>3. CASE ~ res.stop
      <4>1. n_finished'[x] = n_finished[x]
        BY <1>1, <1>4, <3>1, <3>3
      <4> QED  BY <2>2, <4>1
    <3> QED  BY <3>2, <3>3
  <2>4. CASE ~ Receive(r)
    <3>1. UNCHANGED n_finished
        BY <1>4, <2>4 DEF HttpStep, AddWaiting, StartStream, Timeout, RemoveWaiting, PostCancel,
            Complete, Disconnect
    <3> QED  BY <2>2, <3>1
  <2> QED  BY <2>3, <2>4
<1> QED  BY <1>2, <1>3, <1>4

LEMMA FinishedStays ==
    TypeInv /\ TypeInv' /\ PlacesInv /\ FreshInv /\ OrderInv /\ FinishedInv /\ [Next]_vars
        => FinishedInv'
<1> SUFFICES ASSUME TypeInv, TypeInv', PlacesInv, FreshInv, OrderInv, FinishedInv, [Next]_vars
             PROVE  FinishedInv'
    OBVIOUS
<1>1. CASE UNCHANGED vars
    BY <1>1 DEF FinishedInv, DeadOf, Dead, Mentions, Places, InQueues, InHand, OnSlots, Finals,
                Count, Completion, Final, NoId, IsProcessing, vars
<1>2. CASE \E r \in Requests : AddWaiting(r) \/ HttpStep(r) \/ Disconnect(r)
    BY <1>2, HttpFinished
<1>3. CASE MainStep
  <2>1. UNCHANGED n_finished
    BY <1>3, MainOnly
  <2>2. ASSUME NEW r \in Requests
        PROVE  n_finished[r] <= Cardinality(DeadOf(r)')
    <3>1. \A id \in Ids(r) : Dead(id) => Dead(id)'
        BY <1>3, IdFacts, MainDead
    <3>2. n_finished[r] <= Cardinality(DeadOf(r)) /\ n_finished[r] \in Nat
        BY DEF FinishedInv, TypeInv, HttpOK
    <3> QED  BY <3>1, <3>2, DeadGrows
  <2> QED  BY <2>1, <2>2 DEF FinishedInv
<1> QED  BY <1>1, <1>2, <1>3 DEF Next, Quiet

LEMMA FinishedHolds == Spec => []FinishedInv
<1>1. Init => FinishedInv
  <2> SUFFICES ASSUME Init, NEW r \in Requests PROVE n_finished[r] <= Cardinality(DeadOf(r))
    BY DEF FinishedInv
  <2>1. n_finished[r] = 0
    BY DEF Init
  <2>2. DeadOf(r) \subseteq Ids(r)
    BY DEF DeadOf
  <2>3. Cardinality(DeadOf(r)) \in Nat
    BY <2>2, LotFacts, FS_Subset, FS_CardinalityType
  <2> QED  BY <2>1, <2>3
<1> QED  BY <1>1, FinishedStays, TypesHold, PlacesHold, FreshHolds, OrderHolds, PTL DEF Spec

-----------------------------------------------------------------------------
(* What is left in queue_results when a request ends.                      *)

ReadOK(r) ==
    /\ hpc[r] = "posted" => Body[r].stream
    /\ hpc[r] = "cancel" => \A id \in Ids(r) \ to_cancel[r] : Unheard(id)
    /\ hpc[r] = "complete" => \/ Body[r].stream /\ closed[r]
                              \/ \A id \in Ids(r) : Dead(id) \/ Unheard(id)

ReadInv == (\A r \in Requests : ReadOK(r)) /\ ResultsHaveReaders

LEMMA OthersRead ==
    ASSUME TypeInv, TypeInv', NEW r \in Requests, AddWaiting(r) \/ HttpStep(r) \/ Disconnect(r),
           NEW x \in Requests, x # r, ReadOK(x)
    PROVE  ReadOK(x)'
<1>1. \A id \in Ids(x) : id \in AllIds /\ id \notin Ids(r)
    BY IdFacts
<1>2. waiting_task_ids' \subseteq waiting_task_ids \cup Ids(r)
    BY DEF HttpStep, AddWaiting, PostTasks, StartStream, Receive, Timeout, RemoveWaiting, PostCancel,
           Complete, Disconnect, resultvars
<1>3. ASSUME NEW id \in Ids(x)
      PROVE  (Dead(id) => Dead(id)') /\ (Unheard(id) => Unheard(id)')
  <2>1. (Mentions(queue_results', id) => Mentions(queue_results, id)) /\ (Dead(id) => Dead(id)')
    BY <1>1, HttpDead
  <2> QED  BY <1>1, <1>2, <2>1 DEF Unheard
<1>4. hpc'[x] = hpc[x] /\ to_cancel'[x] = to_cancel[x] /\ closed'[x] = closed[x]
    BY OneThread
<1> QED  BY <1>3, <1>4 DEF ReadOK

LEMMA OwnRead ==
    ASSUME TypeInv, TypeInv', FinishedInv', NEW r \in Requests,
           AddWaiting(r) \/ HttpStep(r) \/ Disconnect(r), ReadOK(r)
    PROVE  ReadOK(r)'
<1>1. /\ hpc \in [Requests -> {"new", "added", "posted", "recv", "cancel", "complete", "done"}]
      /\ to_cancel \in [Requests -> SUBSET AllIds]
      /\ n_finished \in [Requests -> Nat]
    BY DEF TypeInv, HttpOK
<1>2. CASE AddWaiting(r)
  <2>1. hpc'[r] = "added"
    BY <1>1, <1>2 DEF AddWaiting
  <2> QED  BY <2>1 DEF ReadOK
<1>3. CASE PostTasks(r)
  <2>1. hpc'[r] = IF Body[r].stream THEN "posted" ELSE "recv"
    BY <1>1, <1>3 DEF PostTasks
  <2> QED  BY <2>1 DEF ReadOK
<1>4. CASE StartStream(r)
  <2>1. /\ hpc[r] = "posted" /\ UNCHANGED closed
        /\ hpc'[r] = IF closed[r] THEN "complete" ELSE "recv"
    BY <1>1, <1>4 DEF StartStream
  <2>2. Body[r].stream
    BY <2>1 DEF ReadOK
  <2> QED  BY <2>1, <2>2 DEF ReadOK
<1>5. CASE Receive(r)
  <2>1. PICK fin \in Nat :
            IF closed[r]
            THEN /\ hpc' = [hpc EXCEPT ![r] = "cancel"]
                 /\ to_cancel' = [to_cancel EXCEPT ![r] = Ids(r)]
            ELSE /\ n_finished' = [n_finished EXCEPT ![r] = fin]
                 /\ hpc' = [hpc EXCEPT ![r] =
                                IF fin = Cardinality(Ids(r)) THEN "complete" ELSE "recv"]
    BY <1>5, ReceiveFacts
  <2>2. CASE closed[r]
    <3>1. hpc'[r] = "cancel" /\ to_cancel'[r] = Ids(r)
        BY <1>1, <2>1, <2>2
    <3> QED  BY <3>1 DEF ReadOK
  <2>3. CASE ~ closed[r] /\ fin = Cardinality(Ids(r))
    <3>1. hpc'[r] = "complete" /\ n_finished'[r] = Cardinality(Ids(r))
        BY <1>1, <2>1, <2>3
    <3>2. n_finished'[r] <= Cardinality(DeadOf(r)')
        BY DEF FinishedInv
    <3>3. DeadOf(r)' \subseteq Ids(r)
        BY DEF DeadOf
    <3>4. IsFiniteSet(Ids(r)) /\ Cardinality(Ids(r)) \in Nat
        BY LotFacts
    <3>5. Cardinality(DeadOf(r)') <= Cardinality(Ids(r)) /\ Cardinality(DeadOf(r)') \in Nat
        BY <3>3, <3>4, FS_Subset, FS_CardinalityType
    <3>6. DeadOf(r)' = Ids(r)
        BY <3>1, <3>2, <3>3, <3>4, <3>5, FS_Subset
    <3>7. \A id \in Ids(r) : Dead(id)'
        BY <3>6 DEF DeadOf
    <3> QED  BY <3>1, <3>7 DEF ReadOK
  <2>4. CASE ~ closed[r] /\ fin # Cardinality(Ids(r))
    <3>1. hpc'[r] = "recv"
        BY <1>1, <2>1, <2>4
    <3> QED  BY <3>1 DEF ReadOK
  <2> QED  BY <2>2, <2>3, <2>4
<1>6. CASE Timeout(r)
  <2>1. hpc'[r] = "cancel" /\ to_cancel'[r] = Ids(r)
    BY <1>1, <1>6 DEF Timeout
  <2> QED  BY <2>1 DEF ReadOK
<1>7. CASE RemoveWaiting(r)
  <2>1. hpc[r] = "cancel" /\ hpc'[r] = "cancel"
    BY <1>7 DEF RemoveWaiting
  <2>2. PICK y \in to_cancel[r] :
            /\ to_cancel' = [to_cancel EXCEPT ![r] = @ \ {y}]
            /\ waiting_task_ids' = waiting_task_ids \ {y}
            /\ queue_results' = Kept(queue_results, {res \in Result : res.id # y})
    BY <1>7 DEF RemoveWaiting
  <2>3. to_cancel'[r] = to_cancel[r] \ {y}
    BY <1>1, <2>2
  <2>4. Unheard(y)'
    <3>1. PICK S, z : S = {res \in Result : res.id # y} /\ z = queue_results' /\ z = Kept(queue_results, S)
        BY <2>2
    <3>2. \A i \in 1 .. Len(z) : z[i] \in S
        BY <3>1, BothSeqs, KeptFacts
    <3>3. ~ Mentions(z, y)
        BY <3>1, <3>2 DEF Mentions
    <3> QED  BY <2>2, <3>1, <3>3 DEF Unheard
  <2>5. ASSUME NEW id \in Ids(r), Unheard(id)
        PROVE  Unheard(id)'
    <3>1. Mentions(queue_results', id) => Mentions(queue_results, id)
      <4>1. ~ PostTasks(r)
        BY <2>1 DEF PostTasks
      <4> QED  BY <4>1, IdFacts, HttpDead
    <3> QED  BY <2>2, <2>5, <3>1 DEF Unheard
  <2>6. \A id \in Ids(r) \ to_cancel[r] : Unheard(id)
    BY <2>1 DEF ReadOK
  <2>7. \A id \in Ids(r) \ to_cancel'[r] : Unheard(id)'
    BY <2>3, <2>4, <2>5, <2>6
  <2> QED  BY <2>1, <2>7 DEF ReadOK
<1>8. CASE PostCancel(r)
  <2>1. hpc[r] = "cancel" /\ to_cancel[r] = {} /\ hpc'[r] = "complete" /\ UNCHANGED resultvars
    BY <1>1, <1>8 DEF PostCancel
  <2>2. \A id \in Ids(r) : Unheard(id)
    BY <2>1 DEF ReadOK
  <2>3. \A id \in Ids(r) : Unheard(id)'
    BY <2>1, <2>2 DEF Unheard, resultvars
  <2> QED  BY <2>1, <2>3 DEF ReadOK
<1>9. CASE Complete(r)
  <2>1. hpc'[r] = "done"
    BY <1>1, <1>9 DEF Complete
  <2> QED  BY <2>1 DEF ReadOK
<1>10. CASE Disconnect(r)
  <2>1. hpc'[r] = hpc[r] /\ hpc[r] \in {"added", "posted", "recv"}
    BY <1>10 DEF Disconnect
  <2> QED  BY <2>1 DEF ReadOK
<1> QED  BY <1>2, <1>3, <1>4, <1>5, <1>6, <1>7, <1>8, <1>9, <1>10 DEF HttpStep

LEMMA HttpReaders ==
    ASSUME TypeInv, TypeInv', NEW r \in Requests, AddWaiting(r) \/ HttpStep(r) \/ Disconnect(r),
           ReadOK(r), ResultsHaveReaders
    PROVE  ResultsHaveReaders'
<1>1. PICK q, z \in Seq(Result) : q = queue_results /\ z = queue_results'
    BY BothSeqs, BothSeqsNext
<1>2. \A i \in 1 .. Len(z) : \E k \in 1 .. Len(q) : z[i] = q[k]
    BY <1>1, HttpResults, PartReads
<1>3. ASSUME NEW i \in 1 .. Len(z), NEW id, id = z[i].id
      PROVE  id \in waiting_task_ids' \/ (Stream(id) /\ closed'[id[1]])
  <2>1. PICK k \in 1 .. Len(q) : z[i] = q[k]
    BY <1>2
  <2>2. id \in AllIds /\ id[1] \in Requests
    <3>1. z[i] \in Result
        OBVIOUS
    <3> QED  BY <1>3, <3>1, ResultFacts, IdFacts
  <2>3. id \in waiting_task_ids \/ (Stream(id) /\ closed[id[1]])
    BY <1>1, <1>3, <2>1 DEF ResultsHaveReaders
  <2>4. CASE Stream(id) /\ closed[id[1]]
    <3>1. closed'[id[1]]
        BY <2>2, <2>4 DEF HttpStep, AddWaiting, PostTasks, StartStream, Receive, Timeout,
            RemoveWaiting, PostCancel, Complete, Disconnect, TypeInv, HttpOK
    <3> QED  BY <2>4, <3>1
  <2>5. CASE id \in waiting_task_ids
    <3>1. CASE RemoveWaiting(r)
      <4>1. PICK y : /\ waiting_task_ids' = waiting_task_ids \ {y}
                     /\ queue_results' = Kept(queue_results, {res \in Result : res.id # y})
        BY <3>1 DEF RemoveWaiting
      <4>2. PICK S : S = {res \in Result : res.id # y} /\ z = Kept(q, S)
        BY <1>1, <4>1
      <4>3. z[i] \in S
        BY <4>2, KeptFacts
      <4> QED  BY <1>3, <2>5, <4>1, <4>2, <4>3
    <3>2. CASE Complete(r) /\ id \in Ids(r)
      <4>1. hpc[r] = "complete" /\ UNCHANGED closed
        BY <3>2 DEF Complete
      <4>2. Mentions(queue_results, id)
        BY <1>1, <1>3, <2>1 DEF Mentions
      <4>3. ~ Dead(id) /\ ~ Unheard(id)
        BY <4>2 DEF Dead, Unheard
      <4>4. Body[r].stream /\ closed[r]
        BY <3>2, <4>1, <4>3 DEF ReadOK
      <4>5. id[1] = r
        BY <3>2, IdFacts
      <4> QED  BY <4>1, <4>4, <4>5 DEF Stream
    <3>3. CASE Complete(r) /\ id \notin Ids(r)
        BY <2>5, <3>3 DEF Complete
    <3>4. CASE ~ RemoveWaiting(r) /\ ~ Complete(r)
      <4>1. waiting_task_ids \subseteq waiting_task_ids'
        BY <3>4 DEF HttpStep, AddWaiting, PostTasks, StartStream, Receive, Timeout, PostCancel,
            Disconnect, resultvars
      <4> QED  BY <2>5, <4>1
    <3> QED  BY <3>1, <3>2, <3>3, <3>4
  <2> QED  BY <2>3, <2>4, <2>5
<1>4. DOMAIN z = 1 .. Len(z)
    OBVIOUS
<1> QED  BY <1>1, <1>3, <1>4 DEF ResultsHaveReaders, Stream

LEMMA ReadsStay == TypeInv /\ TypeInv' /\ FinishedInv' /\ ReadInv /\ [Next]_vars => ReadInv'
<1> SUFFICES ASSUME TypeInv, TypeInv', FinishedInv', ReadInv, [Next]_vars PROVE ReadInv'
    OBVIOUS
<1>1. CASE UNCHANGED vars
    BY <1>1 DEF ReadInv, ReadOK, ResultsHaveReaders, Stream, Unheard, Dead, Mentions, Places,
                InQueues, InHand, OnSlots, Finals, Count, Completion, Final, NoId, IsProcessing, vars
<1>2. CASE \E r \in Requests : AddWaiting(r) \/ HttpStep(r) \/ Disconnect(r)
    BY <1>2, OthersRead, OwnRead, HttpReaders DEF ReadInv
<1>3. CASE MainStep
  <2>1. UNCHANGED <<hpc, to_cancel, closed>>
    BY <1>3, MainOnly
  <2>2. ASSUME NEW r \in Requests, ReadOK(r)
        PROVE  ReadOK(r)'
    <3>1. \A id \in Ids(r) : (Dead(id) => Dead(id)') /\ (Unheard(id) => Unheard(id)')
        BY <1>3, IdFacts, MainDead, MainUnheard
    <3> QED  BY <2>1, <2>2, <3>1 DEF ReadOK
  <2> QED  BY <1>3, <2>2, MainReaders DEF ReadInv
<1> QED  BY <1>1, <1>2, <1>3 DEF Next, Quiet

(***************************************************************************)
(* No result is left behind for a finished or cancelled request, but for   *)
(* streams whose client has left: whatever the order in which the HTTP     *)
(* threads receive, time out, cancel and leave while the main thread       *)
(* sends and commits.                                                      *)
(***************************************************************************)
THEOREM ServerLeavesNoResults == Spec => []ResultsHaveReaders
<1>1. Init => ReadInv
    BY DEF Init, ReadInv, ReadOK, ResultsHaveReaders
<1>2. ReadInv => ResultsHaveReaders
    BY DEF ReadInv
<1> QED  BY <1>1, <1>2, ReadsStay, TypesHold, FinishedHolds, PTL DEF Spec
=============================================================================
