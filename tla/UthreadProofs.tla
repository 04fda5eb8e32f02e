--------------------------- MODULE UthreadProofs ---------------------------
(***************************************************************************)
(* Proofs about module Uthread, for any set of threads and priorities: the *)
(* ring invariant of the scheduler, the room in the buffer of              *)
(* uthread_create, and the mutex: its wait queue, mutual exclusion and the *)
(* order in which it is handed over.                                       *)
(***************************************************************************)
EXTENDS Uthread, FiniteSetTheorems, FunctionTheorems, SequenceTheorems,
        WellFoundedInduction, TLAPS

-----------------------------------------------------------------------------
(* Sequences that list a finite set.                                       *)

\* The members of SetToSeqs(S) are the injective sequences that meet all of S.
LEMMA ListsSet ==
  ASSUME NEW S, IsFiniteSet(S), NEW s
  PROVE  s \in SetToSeqs(S) <=>
           /\ s \in Seq(S)
           /\ \A i, j \in 1..Len(s) : i # j => s[i] # s[j]
           /\ \A x \in S : \E i \in 1..Len(s) : s[i] = x
<1> DEFINE n == Cardinality(S)
<1>n. n \in Nat
  BY FS_CardinalityType
<1>1. ASSUME s \in SetToSeqs(S)
      PROVE  /\ s \in Seq(S)
             /\ \A i, j \in 1..Len(s) : i # j => s[i] # s[j]
             /\ \A x \in S : \E i \in 1..Len(s) : s[i] = x
  <2>1. s \in [1..n -> S] /\ \A i, j \in 1..n : i # j => s[i] # s[j]
    BY <1>1 DEF SetToSeqs
  <2>2. s \in Seq(S) /\ Len(s) = n
    BY <2>1, <1>n
  <2>3. s \in Injection(1..n, S)
    BY <2>1 DEF Injection, IsInjective
  <2>4. Cardinality(1..n) = n
    BY <1>n, FS_Interval
  <2>5. s \in Surjection(1..n, S)
    BY <2>3, <2>4, FS_Injection
  <2> QED
    BY <2>1, <2>2, <2>5 DEF Surjection
<1>2. ASSUME s \in Seq(S),
             \A i, j \in 1..Len(s) : i # j => s[i] # s[j],
             \A x \in S : \E i \in 1..Len(s) : s[i] = x
      PROVE  s \in SetToSeqs(S)
  <2>1. Len(s) \in Nat /\ s \in [1..Len(s) -> S]
    BY <1>2, LenProperties
  <2>2. s \in Bijection(1..Len(s), S)
    BY <1>2, <2>1 DEF Bijection, Injection, Surjection, IsInjective
  <2>3. Cardinality(S) = Len(s)
    BY <2>1, <2>2, FS_CountingElements DEF ExistsBijection
  <2> QED
    BY <1>2, <2>1, <2>3 DEF SetToSeqs
<1> QED
  BY <1>1, <1>2

\* What RemoveAt leaves.
LEMMA RemoveAtFacts ==
  ASSUME NEW S, NEW s \in Seq(S), NEW k \in 1..Len(s)
  PROVE  /\ RemoveAt(s, k) \in Seq(S)
         /\ Len(RemoveAt(s, k)) = Len(s) - 1
         /\ \A i \in 1..(Len(s) - 1) :
              RemoveAt(s, k)[i] = IF i < k THEN s[i] ELSE s[i + 1]
<1> DEFINE l == SubSeq(s, 1, k - 1)
           r == SubSeq(s, k + 1, Len(s))
<1>0. Len(s) \in Nat /\ k \in Nat
  BY LenProperties
<1>e. \A i \in 1..Len(s) : s[i] \in S
  BY ElementOfSeq
<1>1. /\ l \in Seq(S)
      /\ Len(l) = k - 1
      /\ \A i \in 1..(k - 1) : l[i] = s[i]
  BY <1>0, <1>e
<1>2. /\ r \in Seq(S)
      /\ Len(r) = Len(s) - k
      /\ \A i \in 1..(Len(s) - k) : r[i] = s[k + i]
  BY <1>0, <1>e
<1> HIDE DEF l, r
<1>3. /\ l \o r \in Seq(S)
      /\ Len(l \o r) = Len(s) - 1
      /\ \A i \in 1..(Len(s) - 1) :
           (l \o r)[i] = IF i <= k - 1 THEN l[i] ELSE r[i - (k - 1)]
  <2>1. Len(l) + Len(r) = Len(s) - 1
    BY <1>0, <1>1, <1>2
  <2>2. /\ l \o r \in Seq(S)
        /\ Len(l \o r) = Len(l) + Len(r)
        /\ \A i \in 1..(Len(l) + Len(r)) :
             (l \o r)[i] = IF i <= Len(l) THEN l[i] ELSE r[i - Len(l)]
    BY <1>1, <1>2, ConcatProperties
  <2> QED
    BY <1>1, <2>1, <2>2
<1>4. RemoveAt(s, k) = l \o r
  BY DEF RemoveAt, l, r
<1>5. ASSUME NEW i \in 1..(Len(s) - 1)
      PROVE  (l \o r)[i] = IF i < k THEN s[i] ELSE s[i + 1]
  <2>1. CASE i < k
    <3>1. i \in 1..(k - 1) /\ i <= k - 1
      BY <2>1, <1>0
    <3> QED
      BY <3>1, <2>1, <1>1, <1>3
  <2>2. CASE ~(i < k)
    <3>1. i - (k - 1) \in 1..(Len(s) - k) /\ ~(i <= k - 1)
      BY <2>2, <1>0
    <3>2. k + (i - (k - 1)) = i + 1
      BY <1>0
    <3>3. r[i - (k - 1)] = s[i + 1]
      BY <3>1, <3>2, <1>2
    <3> QED
      BY <3>1, <3>3, <2>2, <1>3
  <2> QED
    BY <2>1, <2>2
<1> QED
  BY <1>3, <1>4, <1>5

\* Sorted(S, p) in the terms of ListsSet.
LEMMA SortedFacts ==
  ASSUME NEW S, IsFiniteSet(S), NEW p, NEW s
  PROVE  s \in Sorted(S, p) <=>
           /\ s \in Seq(S)
           /\ \A i, j \in 1..Len(s) : i # j => s[i] # s[j]
           /\ \A x \in S : \E i \in 1..Len(s) : s[i] = x
           /\ \A i, j \in 1..Len(s) : i < j => p[s[i]] <= p[s[j]]
<1> DEFINE lists == /\ s \in Seq(S)
                    /\ \A i, j \in 1..Len(s) : i # j => s[i] # s[j]
                    /\ \A x \in S : \E i \in 1..Len(s) : s[i] = x
<1>1. s \in SetToSeqs(S) <=> lists
  BY ListsSet
<1>2. lists => DOMAIN s = 1..Len(s)
  BY LenProperties
<1>3. s \in Sorted(S, p) <=>
        s \in SetToSeqs(S) /\ \A i, j \in DOMAIN s : i < j => p[s[i]] <= p[s[j]]
  BY DEF Sorted
<1> HIDE DEF lists
<1>4. s \in Sorted(S, p) <=>
        lists /\ \A i, j \in 1..Len(s) : i < j => p[s[i]] <= p[s[j]]
  BY <1>1, <1>2, <1>3
<1> QED
  BY <1>4 DEF lists

\* A sorted list is as long as the set it lists.
LEMMA SortedLen ==
  ASSUME NEW S, IsFiniteSet(S), NEW p, NEW s \in Sorted(S, p)
  PROVE  Len(s) = Cardinality(S)
<1>1. Cardinality(S) \in Nat
  BY FS_CardinalityType
<1>2. s \in [1..Cardinality(S) -> S]
  BY DEF Sorted, SetToSeqs
<1> QED
  BY <1>1, <1>2

\* The sorted lists of no thread and of one.
LEMMA SortedSmall ==
  ASSUME NEW c, NEW p
  PROVE  <<>> \in Sorted({}, p) /\ <<c>> \in Sorted({c}, p)
<1>1. Cardinality({}) = 0 /\ Cardinality({c}) = 1
  BY FS_EmptySet, FS_Singleton
<1>2. <<>> \in SetToSeqs({})
  <2>1. <<>> \in [1..0 -> {}]
    OBVIOUS
  <2> QED
    BY <2>1, <1>1 DEF SetToSeqs
<1>3. <<c>> \in SetToSeqs({c})
  <2>1. <<c>> \in [1..1 -> {c}]
    OBVIOUS
  <2>2. \A i, j \in 1..1 : i = j
    OBVIOUS
  <2> QED
    BY <2>1, <2>2, <1>1 DEF SetToSeqs
<1>4. DOMAIN <<>> = {} /\ DOMAIN <<c>> = {1}
  OBVIOUS
<1> QED
  BY <1>2, <1>3, <1>4 DEF Sorted

\* Removing a thread from a sorted list leaves a sorted list of the others.
LEMMA SortedRemove ==
  ASSUME NEW S, IsFiniteSet(S), NEW p, NEW s \in Sorted(S, p),
         NEW k \in 1..Len(s)
  PROVE  RemoveAt(s, k) \in Sorted(S \ {s[k]}, p)
<1> DEFINE r == RemoveAt(s, k)
           T == S \ {s[k]}
<1>1. /\ s \in Seq(S)
      /\ \A i, j \in 1..Len(s) : i # j => s[i] # s[j]
      /\ \A x \in S : \E i \in 1..Len(s) : s[i] = x
      /\ \A i, j \in 1..Len(s) : i < j => p[s[i]] <= p[s[j]]
  BY SortedFacts
<1>a. \A i, j \in 1..Len(s) : i # j => s[i] # s[j]
  BY <1>1
<1>b. \A i, j \in 1..Len(s) : i < j => p[s[i]] <= p[s[j]]
  BY <1>1
<1>2. Len(s) \in Nat /\ \A i \in 1..Len(s) : s[i] \in S
  BY <1>1, LenProperties, ElementOfSeq
<1>3. /\ r \in Seq(S)
      /\ Len(r) = Len(s) - 1
      /\ \A i \in 1..(Len(s) - 1) : r[i] = IF i < k THEN s[i] ELSE s[i + 1]
  BY <1>1, RemoveAtFacts
<1> HIDE DEF r
<1> DEFINE o == [i \in 1..Len(r) |-> IF i < k THEN i ELSE i + 1]
<1>o. \A i \in 1..Len(r) : o[i] \in 1..Len(s) /\ o[i] # k /\ r[i] = s[o[i]]
  BY <1>2, <1>3
<1>m. \A i, j \in 1..Len(r) : i < j => o[i] < o[j]
  BY <1>2, <1>3
<1>i. \A i, j \in 1..Len(r) : i # j => o[i] # o[j]
  BY <1>2, <1>3
<1> HIDE DEF o
<1>4. \A i \in 1..Len(r) : r[i] \in T
  BY <1>a, <1>2, <1>o
<1>5. r \in Seq(T)
  <2>1. r \in [1..Len(r) -> T]
    BY <1>3, <1>4, LenProperties
  <2> QED
    BY <2>1, <1>2, <1>3
<1>6. \A i, j \in 1..Len(r) : i # j => r[i] # r[j]
  <2> TAKE i, j \in 1..Len(r)
  <2> HAVE i # j
  <2>1. o[i] \in 1..Len(s) /\ o[j] \in 1..Len(s) /\ o[i] # o[j]
    BY <1>o, <1>i
  <2>2. s[o[i]] # s[o[j]]
    BY <2>1, <1>a
  <2> QED
    BY <2>2, <1>o
<1>7. ASSUME NEW x \in T PROVE \E i \in 1..Len(r) : r[i] = x
  <2>1. PICK i \in 1..Len(s) : s[i] = x
    BY <1>1
  <2>2. i # k
    BY <2>1
  <2>3. CASE i < k
    BY <2>1, <2>3, <1>2, <1>3
  <2>4. CASE i > k
    <3>1. i - 1 \in 1..Len(r) /\ ~(i - 1 < k) /\ (i - 1) + 1 = i
      BY <2>4, <1>2, <1>3
    <3> QED
      BY <3>1, <2>1, <1>2, <1>3
  <2> QED
    BY <2>2, <2>3, <2>4, <1>2
<1>8. \A i, j \in 1..Len(r) : i < j => p[r[i]] <= p[r[j]]
  BY <1>b, <1>o, <1>m
<1>9. IsFiniteSet(T)
  BY FS_RemoveElement
<1> QED
  BY <1>5, <1>6, <1>7, <1>8, <1>9, SortedFacts DEF r

-----------------------------------------------------------------------------
(* Walking the ring.                                                       *)

\* Induction over an interval, by its least counterexample.
LEMMA IntervalInduction ==
  ASSUME NEW a \in Nat, NEW b \in Nat, NEW Q,
         a \in Q, \A i \in a..(b - 1) : i \in Q => i + 1 \in Q
  PROVE  \A i \in a..b : i \in Q
<1> DEFINE T == {i \in a..b : i \notin Q}
<1>1. SUFFICES ASSUME T # {} PROVE FALSE
  OBVIOUS
<1>2. T \subseteq Nat
  OBVIOUS
<1>3. PICK m \in T : \A y \in T : ~(<<y, m>> \in OpToRel(<, Nat))
  BY <1>1, <1>2, WFMin, NatLessThanWellFounded
<1>4. \A y \in T : ~(y < m)
  BY <1>2, <1>3 DEF OpToRel
<1>5. m \in Nat /\ m # a /\ m > a /\ m <= b /\ m \notin Q
  <2>1. m \in a..b /\ m \notin Q
    OBVIOUS
  <2> QED
    BY <2>1
<1>6. m - 1 \in a..(b - 1) /\ m - 1 \in a..b /\ m - 1 < m
  BY <1>5
<1>7. m - 1 \in Q
  BY <1>4, <1>6
<1>8. (m - 1) + 1 = m
  BY <1>5
<1> QED
  BY <1>5, <1>6, <1>7, <1>8

\* The index after one of a ring is one of the ring.
LEMMA AfterInRange ==
  ASSUME NEW n \in Nat, NEW i \in 1..n
  PROVE  After(i, n) \in 1..n
  BY DEF After

\* Following next from any thread of a circle meets the whole circle, and
\* nothing else: what the copy loop of uthread_create relies on.
LEMMA LinkedIsRing ==
  ASSUME NEW A \in SUBSET Threads, NEW s \in Seq(A),
         \A x \in A : \E i \in 1..Len(s) : s[i] = x,
         \A i \in 1..Len(s) : next[s[i]] = s[After(i, Len(s))],
         NEW t \in A
  PROVE  Linked(t) = A
<1> DEFINE n == Len(s)
<1>1. n \in Nat /\ \A i \in 1..n : s[i] \in A
  BY LenProperties, ElementOfSeq
<1>2. \A v \in A : next[v] \in A
  <2> TAKE v \in A
  <2>1. PICK i \in 1..n : s[i] = v
    OBVIOUS
  <2> HIDE DEF n
  <2>2. After(i, n) \in 1..n
    BY <1>1, AfterInRange
  <2>3. next[v] = s[After(i, n)]
    BY <2>1 DEF n
  <2> QED
    BY <2>2, <2>3, <1>1
<1>3. Linked(t) \subseteq A
  BY <1>2 DEF Linked
<1>4. ASSUME NEW S \in SUBSET Threads, t \in S, \A v \in S : next[v] \in S,
             NEW u \in A
      PROVE  u \in S
  <2> DEFINE Q == {i \in 1..n : s[i] \in S}
  <2>1. PICK j \in 1..n : s[j] = t
    OBVIOUS
  <2>2. \A i \in 1..(n - 1) : i \in Q => i + 1 \in Q
    <3> TAKE i \in 1..(n - 1)
    <3> HAVE i \in Q
    <3>1. i \in 1..n /\ i + 1 \in 1..n /\ i # n
      BY <1>1
    <3>2. next[s[i]] = s[i + 1]
      BY <3>1 DEF After
    <3> QED
      BY <3>1, <3>2, <1>4
  <2>3. j \in Nat /\ j \in Q /\ n \in j..n /\ n \in 1..n /\ 1 \in 1..n
    <3>1. j \in Q
      BY <1>4, <2>1
    <3>2. j \in Nat /\ n \in j..n /\ n \in 1..n /\ 1 \in 1..n
      BY <1>1
    <3> QED
      BY <3>1, <3>2
  <2>4. \A i \in j..(n - 1) : i \in Q => i + 1 \in Q
    <3>1. \A i \in j..(n - 1) : i \in 1..(n - 1)
      BY <1>1
    <3> HIDE DEF Q
    <3> QED
      BY <3>1, <2>2
  <2> HIDE DEF Q
  <2>5. n \in Q
    BY <1>1, <2>3, <2>4, IntervalInduction
  <2>6. next[s[n]] = s[1]
    BY <2>3 DEF After
  <2>7. 1 \in Q
    BY <2>3, <2>5, <2>6, <1>4 DEF Q
  <2>8. \A i \in 1..n : i \in Q
    BY <1>1, <2>2, <2>7, IntervalInduction
  <2>9. PICK m \in 1..n : s[m] = u
    OBVIOUS
  <2> QED
    BY <2>8, <2>9 DEF Q
<1>5. A \subseteq Linked(t)
  BY <1>4 DEF Linked
<1> QED
  BY <1>3, <1>5

\* Retied ties a sequence without repetitions into a circle.
LEMMA RetiedFacts ==
  ASSUME NEW s \in Seq(Threads),
         \A i, j \in 1..Len(s) : i # j => s[i] # s[j],
         NEW k \in 1..Len(s)
  PROVE  Retied(s)[s[k]] = s[After(k, Len(s))]
<1>1. DOMAIN s = 1..Len(s) /\ s[k] \in Threads
  BY LenProperties, ElementOfSeq
<1>2. (CHOOSE i \in DOMAIN s : s[i] = s[k]) = k
  BY <1>1
<1> QED
  BY <1>1, <1>2 DEF Retied

-----------------------------------------------------------------------------
(* The inductive invariant.                                                *)

\* live_uthreads counts every live thread (and the exited ones).
CountInv == status = "running" => Cardinality(Alive) <= live_uthreads

\* The thread between uthread_mutex_lock and uthread_mutex_unlock is the one
\* the mutex was granted to.
OwnerInv == \A t \in Threads : pc[t] = "holding" => locking_thread = t

IndInv == TypeOK /\ RingInv /\ CountInv /\ QueueInv /\ OwnerInv

\* Any set of threads is finite.
LEMMA FiniteThreads ==
  ASSUME NEW S \in SUBSET Threads
  PROVE  IsFiniteSet(S) /\ Cardinality(S) \in Nat
  BY ThreadsAssumption, FS_Subset, FS_CardinalityType

\* Priorities compare as integers.
LEMMA PriorityType ==
  ASSUME TypeOK, NEW t \in Threads
  PROVE  pri[t] \in Int
<1>1. pri[t] \in Priorities \cup {9}
  BY DEF TypeOK, MainPriority
<1>2. CASE pri[t] \in Priorities
  BY <1>2, PrioritiesAssumption
<1>3. CASE pri[t] = 9
  BY <1>3
<1> QED
  BY <1>1, <1>2, <1>3

\* The circle, in the terms the steps below use.
LEMMA RingFacts ==
  ASSUME TypeOK, NEW s, IsRing(s)
  PROVE  /\ s \in Seq(Alive)
         /\ Len(s) \in Nat
         /\ \A i \in 1..Len(s) : s[i] \in Alive
         /\ \A i, j \in 1..Len(s) : i # j => s[i] # s[j]
         /\ \A x \in Alive : \E i \in 1..Len(s) : s[i] = x
         /\ \A i, j \in 1..Len(s) : i < j => pri[s[i]] <= pri[s[j]]
         /\ \A i \in 1..Len(s) : next[s[i]] = s[After(i, Len(s))]
         /\ \A t \in Alive : Linked(t) = Alive
<1>0. Alive \in SUBSET Threads /\ IsFiniteSet(Alive)
  BY FiniteThreads DEF Alive
<1>1. /\ s \in Seq(Alive)
      /\ \A i, j \in 1..Len(s) : i # j => s[i] # s[j]
      /\ \A x \in Alive : \E i \in 1..Len(s) : s[i] = x
      /\ \A i, j \in 1..Len(s) : i < j => pri[s[i]] <= pri[s[j]]
  BY <1>0, SortedFacts DEF IsRing
<1>2. Len(s) \in Nat /\ \A i \in 1..Len(s) : s[i] \in Alive
  BY <1>1, LenProperties, ElementOfSeq
<1>3. DOMAIN s = 1..Len(s)
  BY <1>1, LenProperties
<1>4. \A i \in 1..Len(s) : next[s[i]] = s[After(i, Len(s))]
  BY <1>3 DEF IsRing
<1>5. \A t \in Alive : Linked(t) = Alive
  BY <1>0, <1>1, <1>4, LinkedIsRing
<1> QED
  BY <1>1, <1>2, <1>4, <1>5

\* The copy loop of uthread_create collects the live threads.
LEMMA LinkedIsAlive ==
  ASSUME TypeOK, RingInv, status = "running", current_thread # NULL
  PROVE  Linked(current_thread) = Alive
<1>1. current_thread \in Alive
  BY DEF RingInv
<1>2. CASE head_thread = NULL
  <2>1. Alive = {Main} /\ next[Main] = Main /\ current_thread = Main
    BY <1>1, <1>2 DEF RingInv, IsBare
  <2>2. Main \in Threads
    BY ThreadsAssumption
  <2> QED
    BY <2>1, <2>2 DEF Linked
<1>3. CASE head_thread # NULL
  <2>1. PICK s \in SetToSeqs(Alive) : IsRing(s)
    BY <1>3 DEF RingInv
  <2> QED
    BY <1>1, <2>1, RingFacts
<1> QED
  BY <1>2, <1>3

\* The queue, in the terms the steps below use.
LEMMA QueueFacts ==
  ASSUME TypeOK, QueueInv, status = "running"
  PROVE  /\ IsFiniteSet(Queued)
         /\ wait_queue \in Seq(Queued)
         /\ Len(wait_queue) \in Nat
         /\ DOMAIN wait_queue = 1..Len(wait_queue)
         /\ \A i \in 1..Len(wait_queue) : wait_queue[i] \in Queued
         /\ \A i, j \in 1..Len(wait_queue) : i # j => wait_queue[i] # wait_queue[j]
         /\ \A x \in Queued : \E i \in 1..Len(wait_queue) : wait_queue[i] = x
         /\ \A i, j \in 1..Len(wait_queue) :
              i < j => pri[wait_queue[i]] <= pri[wait_queue[j]]
         /\ Range(wait_queue) = Queued
<1>0. Queued \in SUBSET Threads /\ IsFiniteSet(Queued)
  BY FiniteThreads DEF Queued
<1>1. wait_queue \in Sorted(Queued, pri)
  BY DEF QueueInv
<1>2. /\ wait_queue \in Seq(Queued)
      /\ \A i, j \in 1..Len(wait_queue) : i # j => wait_queue[i] # wait_queue[j]
      /\ \A x \in Queued : \E i \in 1..Len(wait_queue) : wait_queue[i] = x
      /\ \A i, j \in 1..Len(wait_queue) :
           i < j => pri[wait_queue[i]] <= pri[wait_queue[j]]
  BY <1>0, <1>1, SortedFacts
<1>3. /\ Len(wait_queue) \in Nat
      /\ DOMAIN wait_queue = 1..Len(wait_queue)
      /\ \A i \in 1..Len(wait_queue) : wait_queue[i] \in Queued
  BY <1>2, LenProperties, ElementOfSeq
<1>4. Range(wait_queue) = Queued
  BY <1>2, <1>3 DEF Range
<1> QED
  BY <1>0, <1>2, <1>3, <1>4

-----------------------------------------------------------------------------
(* Every step keeps the types.                                             *)

\* The static variables start with values of their types (lines 60-64).
LEMMA TypeInit == Init => TypeOK
  BY ThreadsAssumption, EmptySeq DEF Init, TypeOK, ThreadStates, MainPriority

\* After stays within the ring.
LEMMA AfterType ==
  ASSUME NEW n \in Nat, NEW i \in 1..n
  PROVE  After(i, n) \in 1..n
  BY DEF After

\* The head, the tail and the next pointers that uthread_create writes.
LEMMA RetiedType ==
  ASSUME TypeOK, NEW S \in SUBSET Threads, S # {}, NEW p, NEW s \in Sorted(S, p)
  PROVE  /\ s[1] \in Threads
         /\ s[Len(s)] \in Threads
         /\ Retied(s) \in [Threads -> Threads \cup {NULL}]
<1>1. s \in Seq(S) /\ \A x \in S : \E i \in 1..Len(s) : s[i] = x
  BY FiniteThreads, SortedFacts
<1>2. /\ Len(s) \in Nat
      /\ DOMAIN s = 1..Len(s)
      /\ \A i \in 1..Len(s) : s[i] \in Threads
  BY <1>1, LenProperties, ElementOfSeq
<1>3. 1 \in 1..Len(s) /\ Len(s) \in 1..Len(s)
  BY <1>1, <1>2
<1>4. \A i \in 1..Len(s) : After(i, Len(s)) \in 1..Len(s)
  BY <1>2, AfterType
<1>5. \A t \in Threads : next[t] \in Threads \cup {NULL}
  BY DEF TypeOK
<1>6. ASSUME NEW t \in Threads
      PROVE  (IF \E i \in DOMAIN s : s[i] = t
              THEN s[After(CHOOSE i \in DOMAIN s : s[i] = t, Len(s))]
              ELSE next[t]) \in Threads \cup {NULL}
  <2>1. CASE \E i \in DOMAIN s : s[i] = t
    <3>1. (CHOOSE i \in DOMAIN s : s[i] = t) \in 1..Len(s)
      BY <2>1, <1>2
    <3> QED
      BY <2>1, <3>1, <1>2, <1>4
  <2> QED
    BY <2>1, <1>5
<1> QED
  BY <1>2, <1>3, <1>6 DEF Retied

\* Every call keeps the types.
LEMMA TypeStep == IndInv /\ [Next]_vars => TypeOK'
<1> SUFFICES ASSUME IndInv, [Next]_vars PROVE TypeOK'
  OBVIOUS
<1> USE DEF MainPriority
<1>t. TypeOK /\ QueueInv
  BY DEF IndInv
<1>1. CASE uthread_init
  BY <1>1, <1>t, ThreadsAssumption
     DEF uthread_init, TypeOK, mutexVars, ThreadStates
<1>2. ASSUME NEW new \in Threads, NEW p \in Priorities, uthread_create(new, p)
      PROVE  TypeOK'
  <2> USE <1>2 DEF uthread_create
  <2>1. /\ live_uthreads' \in Nat
        /\ pri' \in [Threads -> Priorities \cup {MainPriority}]
        /\ pc' \in [Threads -> ThreadStates]
        /\ UNCHANGED <<current_thread, locking_thread, wait_queue, wait_queue_length>>
    BY <1>t DEF TypeOK, ThreadStates, mutexVars
  <2>2. /\ status' \in {"running", "exit", "crash", "undefined"}
        /\ head_thread' \in Threads \cup {NULL}
        /\ tail_thread' \in Threads \cup {NULL}
        /\ next' \in [Threads -> Threads \cup {NULL}]
    <3>1. CASE status' = "undefined" /\ UNCHANGED <<head_thread, tail_thread, next>>
      BY <3>1, <1>t DEF TypeOK
    <3>2. ASSUME UNCHANGED status,
                 NEW s \in Sorted(Linked(current_thread) \cup {new}, [pri EXCEPT ![new] = p]),
                 head_thread' = s[1], tail_thread' = s[Len(s)], next' = Retied(s)
          PROVE  /\ status' \in {"running", "exit", "crash", "undefined"}
                 /\ head_thread' \in Threads \cup {NULL}
                 /\ tail_thread' \in Threads \cup {NULL}
                 /\ next' \in [Threads -> Threads \cup {NULL}]
      <4> HIDE <1>2 DEF uthread_create
      <4>1. Linked(current_thread) \cup {new} \in SUBSET Threads
        BY DEF Linked
      <4> QED
        BY <3>2, <4>1, <1>t, RetiedType DEF TypeOK
    <3> QED
      BY <3>1, <3>2
  <2> QED
    BY <2>1, <2>2, <1>t DEF TypeOK
<1>3. CASE uthread_yield
  <2>1. current_thread \in Threads
    BY <1>3, <1>t DEF uthread_yield, TypeOK
  <2> QED
    BY <2>1, <1>3, <1>t DEF uthread_yield, YieldTo, TypeOK, ringVars, mutexVars
<1>4. CASE uthread_exit
  <2>1. current_thread \in Threads
    BY <1>4, <1>t DEF uthread_exit, TypeOK
  <2>2. /\ pc' \in [Threads -> ThreadStates]
        /\ UNCHANGED <<pri, live_uthreads, mutexVars>>
    BY <2>1, <1>4, <1>t DEF uthread_exit, TypeOK, ThreadStates
  <2>3. next[current_thread] \in Threads \cup {NULL}
    BY <2>1, <1>t DEF TypeOK
  <2>4. CASE UnlinkHead(current_thread)
             /\ status' \in {"exit", status}
    BY <2>1, <2>2, <2>3, <2>4, <1>t DEF UnlinkHead, TypeOK, mutexVars
  <2>5. ASSUME NEW p \in Threads, UnlinkInner(current_thread, p), UNCHANGED status
        PROVE  TypeOK'
    BY <2>1, <2>2, <2>3, <2>5, <1>t DEF UnlinkInner, TypeOK, mutexVars
  <2>6. CASE status' = "crash" /\ UNCHANGED <<current_thread, head_thread, tail_thread, next>>
    BY <2>2, <2>6, <1>t DEF TypeOK, mutexVars
  <2> QED
    BY <1>4, <2>4, <2>5, <2>6 DEF uthread_exit, Linked
<1>5. CASE uthread_mutex_init
  BY <1>5, <1>t DEF uthread_mutex_init, TypeOK, ringVars
<1>6. CASE uthread_mutex_lock
  <2>1. current_thread \in Threads /\ status = "running"
    BY <1>6, <1>t DEF uthread_mutex_lock, TypeOK, Runs
  <2>2. wait_queue' \in Seq(Threads)
    <3>1. CASE wait_queue' = <<current_thread>>
      BY <3>1, <2>1
    <3>2. CASE wait_queue' \in Enqueued(wait_queue, current_thread)
      <4> DEFINE S == Range(wait_queue) \cup {current_thread}
      <4>1. S \in SUBSET Threads
        BY <2>1, <1>t, QueueFacts DEF Queued
      <4>2. wait_queue' \in Seq(S)
        BY <3>2, <4>1, FiniteThreads, SortedFacts DEF Enqueued
      <4> QED
        BY <4>1, <4>2, SeqMonotonic
    <3> QED
      BY <1>6, <3>1, <3>2 DEF uthread_mutex_lock
  <2> QED
    BY <2>1, <2>2, <1>6, <1>t DEF uthread_mutex_lock, TypeOK, ringVars, ThreadStates
<1>7. ASSUME NEW t \in Threads, Acquire(t) PROVE TypeOK'
  BY <1>7, <1>t DEF Acquire, TypeOK, ringVars, mutexVars, ThreadStates
<1>8. ASSUME NEW t \in Threads, uthread_mutex_unlock(t) PROVE TypeOK'
  <2>1. status = "running" /\ t \in Queued
    BY <1>8 DEF uthread_mutex_unlock, Runs, Queued
  <2>2. /\ wait_queue_length = Len(wait_queue)
        /\ Len(wait_queue) \in Nat \ {0}
        /\ DOMAIN wait_queue = 1..Len(wait_queue)
    BY <2>1, <1>t, QueueFacts DEF QueueInv
  <2>3. wait_queue' \in Seq(Threads) /\ locking_thread' \in Threads \cup {NULL}
    <3>1. CASE wait_queue_length = 1
      BY <3>1, <1>8, <1>t DEF uthread_mutex_unlock, TypeOK
    <3>2. CASE wait_queue_length # 1
      <4>1. PICK i \in 1..Len(wait_queue) : wait_queue' = RemoveAt(wait_queue, i)
        BY <3>2, <2>2, <1>8 DEF uthread_mutex_unlock
      <4>2. wait_queue' \in Seq(Threads) /\ Len(wait_queue') = Len(wait_queue) - 1
        BY <4>1, <1>t, RemoveAtFacts DEF TypeOK
      <4>3. wait_queue' # <<>>
        BY <4>2, <2>2, <3>2
      <4>4. Head(wait_queue') \in Threads
        BY <4>2, <4>3, HeadTailProperties
      <4> QED
        BY <3>2, <4>2, <4>4, <1>8 DEF uthread_mutex_unlock
    <3> QED
      BY <3>1, <3>2
  <2>4. wait_queue_length' \in Nat
    BY <2>2, <1>8 DEF uthread_mutex_unlock
  <2> QED
    BY <2>3, <2>4, <1>8, <1>t DEF uthread_mutex_unlock, TypeOK, ringVars, ThreadStates
<1>9. CASE Ended \/ UNCHANGED vars
  BY <1>9, <1>t DEF Ended, vars, ringVars, mutexVars, TypeOK
<1> QED
  BY <1>1, <1>2, <1>3, <1>4, <1>5, <1>6, <1>7, <1>8, <1>9 DEF Next

-----------------------------------------------------------------------------
(* Every step keeps the ring.                                              *)

\* Before uthread_init there is no ring and no thread.
LEMMA RingInit == Init => RingInv /\ CountInv
<1> SUFFICES ASSUME Init PROVE RingInv /\ CountInv
  OBVIOUS
<1>1. Alive = {}
  BY DEF Init, Alive
<1> QED
  BY <1>1, FS_EmptySet DEF Init, RingInv, CountInv

\* uthread_create: the sorted buffer is the new circle.
LEMMA RingCreate ==
  ASSUME IndInv, TypeOK',
         NEW new \in Threads, NEW p \in Priorities, uthread_create(new, p)
  PROVE  RingInv' /\ CountInv'
<1>1. CASE status' # "running"
  BY <1>1 DEF RingInv, CountInv
<1>2. CASE status' = "running"
  <2>1. /\ status = "running"
        /\ current_thread # NULL
        /\ current_thread' = current_thread
        /\ pc[new] = "unborn"
        /\ pc' = [pc EXCEPT ![new] = "running"]
        /\ live_uthreads' = live_uthreads + 1
        /\ pri' = [pri EXCEPT ![new] = p]
    BY DEF uthread_create, Runs
  <2>2. PICK s \in Sorted(Linked(current_thread) \cup {new}, [pri EXCEPT ![new] = p]) :
          /\ head_thread' = s[1]
          /\ tail_thread' = s[Len(s)]
          /\ next' = Retied(s)
    BY <1>2 DEF uthread_create
  <2>3. TypeOK /\ RingInv /\ CountInv
    BY DEF IndInv
  <2>4. Linked(current_thread) = Alive
    BY <2>1, <2>3, LinkedIsAlive
  <2>5. Alive' = Alive \cup {new} /\ new \notin Alive
    BY <2>1, <2>3 DEF Alive, TypeOK
  <2>6. s \in Sorted(Alive', pri')
    BY <2>1, <2>2, <2>4, <2>5
  <2>7. Alive' \in SUBSET Threads /\ IsFiniteSet(Alive') /\ Alive' # {}
    BY <2>5, FiniteThreads DEF Alive
  <2>8. /\ s \in Seq(Alive')
        /\ \A i, j \in 1..Len(s) : i # j => s[i] # s[j]
        /\ s \in SetToSeqs(Alive')
    BY <2>6, <2>7, SortedFacts DEF Sorted
  <2>9. s \in Seq(Threads) /\ DOMAIN s = 1..Len(s)
    BY <2>7, <2>8, SeqMonotonic, LenProperties
  <2>10. \A i \in DOMAIN s : next'[s[i]] = s[After(i, Len(s))]
    BY <2>2, <2>8, <2>9, RetiedFacts
  <2>11. IsRing(s)'
    BY <2>2, <2>6, <2>10 DEF IsRing
  <2>12. head_thread' # NULL
    BY <2>2, <2>3, <2>6, <2>7, RetiedType, NullAssumption
  <2>13. current_thread' \in Alive'
    BY <2>1, <2>3, <2>5 DEF RingInv
  <2>14. CountInv'
    <3>1. Cardinality(Alive') = Cardinality(Alive) + 1
      BY <2>5, FiniteThreads, FS_AddElement DEF Alive
    <3>2. Cardinality(Alive) \in Nat
      BY FiniteThreads DEF Alive
    <3> QED
      BY <3>1, <3>2, <2>1, <2>3 DEF CountInv, TypeOK
  <2> QED
    BY <2>1, <2>8, <2>11, <2>12, <2>13, <2>14 DEF RingInv
<1> QED
  BY <1>1, <1>2

\* The circle without the k-th of its threads: what each of the ways to unlink
\* a thread in uthread_exit must produce.
LEMMA RingRemove ==
  ASSUME TypeOK, NEW s, IsRing(s), NEW k \in 1..Len(s), Len(s) > 1,
         Alive' = Alive \ {s[k]}, pri' = pri,
         head_thread' = IF k = 1 THEN s[2] ELSE s[1],
         tail_thread' = IF k = Len(s) THEN s[Len(s) - 1] ELSE s[Len(s)],
         \A i \in 1..Len(s) : i # k /\ After(i, Len(s)) # k =>
             next'[s[i]] = next[s[i]],
         \A i \in 1..Len(s) : i # k /\ After(i, Len(s)) = k =>
             next'[s[i]] = next[s[k]]
  PROVE  IsRing(RemoveAt(s, k))' /\ RemoveAt(s, k) \in SetToSeqs(Alive')
<1> DEFINE n == Len(s)
           r == RemoveAt(s, k)
<1>1. /\ s \in Seq(Alive)
      /\ n \in Nat
      /\ \A i \in 1..n : next[s[i]] = s[After(i, n)]
  BY RingFacts
<1>2. /\ r \in Seq(Alive)
      /\ Len(r) = n - 1
      /\ \A i \in 1..(n - 1) : r[i] = IF i < k THEN s[i] ELSE s[i + 1]
  BY <1>1, RemoveAtFacts
<1>3. r \in Sorted(Alive', pri')
  BY FiniteThreads, SortedRemove DEF IsRing, Alive
<1>4. r \in SetToSeqs(Alive')
  BY <1>3 DEF Sorted
<1>5. DOMAIN r = 1..(n - 1)
  BY <1>2, LenProperties
<1> HIDE DEF r
<1> HIDE DEF n
<1>n. n = Len(s) /\ n > 1 /\ k \in 1..n
  BY DEF n
<1>6. head_thread' = r[1]
  BY <1>1, <1>2, <1>n
<1>7. tail_thread' = r[Len(r)]
  BY <1>1, <1>2, <1>n
<1>8. ASSUME NEW i \in 1..(n - 1) PROVE next'[r[i]] = r[After(i, n - 1)]
  <2> DEFINE o == IF i < k THEN i ELSE i + 1
  <2>1. o \in 1..n /\ o # k /\ r[i] = s[o]
    BY <1>1, <1>2, <1>n
  <2>2. CASE After(o, n) # k
    <3>1. next'[r[i]] = s[After(o, n)]
      BY <2>1, <2>2, <1>1, <1>n
    <3>2. r[After(i, n - 1)] = s[After(o, n)]
      BY <2>1, <2>2, <1>1, <1>2, <1>n DEF After
    <3> QED
      BY <3>1, <3>2
  <2>3. CASE After(o, n) = k
    <3>1. next'[r[i]] = s[After(k, n)]
      BY <2>1, <2>3, <1>1, <1>n
    <3>2. r[After(i, n - 1)] = s[After(k, n)]
      BY <2>1, <2>3, <1>1, <1>2, <1>n DEF After
    <3> QED
      BY <3>1, <3>2
  <2> QED
    BY <2>2, <2>3
<1>9. \A i \in DOMAIN r : next'[r[i]] = r[After(i, Len(r))]
  BY <1>2, <1>5, <1>8
<1>10. IsRing(r)'
  BY <1>3, <1>6, <1>7, <1>9 DEF IsRing
<1> QED
  BY <1>4, <1>10 DEF r

\* uthread_exit: whichever way the thread is unlinked, the others form the
\* circle and one of them runs.
LEMMA RingExit ==
  ASSUME IndInv, uthread_exit
  PROVE  RingInv' /\ CountInv'
<1> DEFINE c == current_thread
<1>1. CASE status' # "running"
  BY <1>1 DEF RingInv, CountInv
<1>2. CASE status' = "running"
  <2>1. /\ status = "running"
        /\ c # NULL
        /\ pc[c] = "running"
        /\ pc' = [pc EXCEPT ![c] = "unborn"]
        /\ pri' = pri
        /\ live_uthreads' = live_uthreads
        /\ head_thread # NULL
    BY <1>2 DEF uthread_exit, Runs
  <2>2. TypeOK /\ RingInv /\ CountInv
    BY DEF IndInv
  <2>3. Alive' = Alive \ {c} /\ c \in Alive /\ Alive \in SUBSET Threads
    BY <2>1, <2>2 DEF Alive, TypeOK, RingInv
  <2>4. PICK s \in SetToSeqs(Alive) : IsRing(s)
    BY <2>1, <2>2 DEF RingInv
  <2> DEFINE n == Len(s)
  <2>5. /\ n \in Nat
        /\ \A i \in 1..n : s[i] \in Alive
        /\ \A i, j \in 1..n : i # j => s[i] # s[j]
        /\ \A i, j \in 1..n : i < j => pri[s[i]] <= pri[s[j]]
        /\ \A i \in 1..n : next[s[i]] = s[After(i, n)]
        /\ \A t \in Alive : Linked(t) = Alive
        /\ head_thread = s[1]
        /\ tail_thread = s[n]
    BY <2>2, <2>4, RingFacts DEF IsRing
  <2>6. PICK k \in 1..n : s[k] = c
    BY <2>2, <2>3, <2>4, RingFacts
  <2>7. next \in [Threads -> Threads \cup {NULL}]
    BY <2>2 DEF TypeOK
  <2> HIDE DEF n
  <2>n. n = Len(s)
    BY DEF n
  <2>8. \A i \in 1..n : s[i] \in Threads /\ (s[i] = c <=> i = k)
    BY <2>3, <2>5, <2>6
  <2>9. 1 \in 1..n /\ n \in 1..n /\ k \in Nat
    BY <2>5, <2>6
  <2>10. /\ n > 1
         /\ head_thread' = (IF k = 1 THEN s[2] ELSE s[1])
         /\ tail_thread' = (IF k = n THEN s[n - 1] ELSE s[n])
         /\ \A i \in 1..n : i # k /\ After(i, n) # k => next'[s[i]] = next[s[i]]
         /\ \A i \in 1..n : i # k /\ After(i, n) = k => next'[s[i]] = next[s[k]]
         /\ \E i \in 1..n : i # k /\ current_thread' = s[i]
    <3>1. CASE c = head_thread
      <4>1. k = 1
        BY <3>1, <2>5, <2>8, <2>9
      <4>2. next[c] # c /\ UnlinkHead(c)
        BY <3>1, <1>2, <2>1 DEF uthread_exit
      <4>3. n > 1 /\ next[c] = s[2] /\ 2 \in 1..n
        <5>1. next[c] = s[After(1, n)]
          BY <4>1, <2>5, <2>6
        <5>2. n # 1
          BY <5>1, <4>1, <4>2, <2>6 DEF After
        <5> QED
          BY <5>1, <5>2, <2>5, <2>9 DEF After
      <4>4. /\ head_thread' = s[2]
            /\ current_thread' = s[2]
            /\ tail_thread' = s[n]
            /\ next' = [next EXCEPT ![s[n]] = next[c]]
        BY <4>2, <4>3, <2>5 DEF UnlinkHead
      <4>5. \A i \in 1..n : After(i, n) = 1 <=> i = n
        BY <2>5 DEF After
      <4>6. \A i \in 1..n : i # n => s[i] # s[n]
        BY <2>5, <2>9
      <4>7. \A i \in 1..n : next'[s[i]] = IF i = n THEN next[c] ELSE next[s[i]]
        BY <4>4, <4>6, <2>7, <2>8
      <4>8. k # n /\ 2 # k
        BY <4>1, <4>3
      <4>9. \A i \in 1..n : i # k /\ After(i, n) # k => next'[s[i]] = next[s[i]]
        BY <4>1, <4>5, <4>7
      <4>10. \A i \in 1..n : i # k /\ After(i, n) = k => next'[s[i]] = next[s[k]]
        BY <4>1, <4>5, <4>7, <2>6
      <4> QED
        BY <4>1, <4>3, <4>4, <4>8, <4>9, <4>10
    <3>2. CASE c # head_thread
      <4>1. k # 1 /\ k - 1 \in 1..n /\ n > 1
        BY <3>2, <2>5, <2>6, <2>9
      <4>2. PICK p \in Linked(head_thread) : next[p] = c /\ UnlinkInner(c, p)
        BY <3>2, <2>1 DEF uthread_exit
      <4>3. p = s[k - 1]
        <5>1. PICK m \in 1..n : s[m] = p
          <6>1. p \in Alive
            BY <4>2, <2>5, <2>9
          <6> QED
            BY <6>1, <2>2, <2>4, <2>n, RingFacts
        <5>2. s[After(m, n)] = c
          BY <5>1, <4>2, <2>5
        <5>3. After(m, n) = k
          BY <5>2, <2>5, <2>8, AfterType
        <5>4. m = k - 1
          BY <5>3, <4>1, <2>5 DEF After
        <5> QED
          BY <5>1, <5>4
      <4>4. \A i \in 1..n : After(i, n) = k <=> i = k - 1
        BY <4>1, <2>5, <2>9 DEF After
      <4>5. \A i \in 1..n : i # k - 1 => s[i] # s[k - 1]
        BY <4>1, <2>5
      <4>6. head_thread' = s[1] /\ s[1] # c
        BY <3>2, <4>2, <2>5 DEF UnlinkInner
      <4>7. tail_thread' = (IF k = n THEN s[n - 1] ELSE s[n])
            /\ next' = [next EXCEPT ![p] = next[c]]
            /\ \E i \in 1..n : i # k /\ current_thread' = s[i]
        <5>1. CASE k = n
          <6>1. c = tail_thread /\ next[c] = s[1]
            BY <5>1, <2>5, <2>6 DEF After
          <6>2. pri[s[1]] <= pri[c]
            <7>1. 1 < n
              BY <4>1
            <7>2. s[n] = c
              BY <5>1, <2>6
            <7> QED
              BY <7>1, <7>2, <2>5, <2>9
          <6>3. pri[s[1]] \in Int /\ pri[c] \in Int
            BY <2>2, <2>6, <2>8, <2>9, PriorityType
          <6>4. pri[c] >= pri[next[c]]
            BY <6>1, <6>2, <6>3
          <6>5. /\ tail_thread' = p
                /\ next' = [next EXCEPT ![p] = head_thread]
                /\ current_thread' = head_thread
            BY <6>1, <6>4, <4>2 DEF UnlinkInner
          <6> QED
            BY <6>1, <6>5, <5>1, <4>1, <4>3, <2>5, <2>9
        <5>2. CASE k # n
          <6>1. c # tail_thread
            BY <5>2, <2>5, <2>8, <2>9
          <6>2. next[c] = s[k + 1] /\ k + 1 \in 1..n /\ k + 1 # k
            BY <5>2, <2>5, <2>6, <2>9 DEF After
          <6>3. /\ tail_thread' = tail_thread
                /\ next' = [next EXCEPT ![p] = next[c]]
                /\ current_thread' \in {head_thread, next[c]}
            BY <6>1, <4>2 DEF UnlinkInner
          <6> QED
            BY <6>2, <6>3, <5>2, <4>1, <2>5, <2>9
        <5> QED
          BY <5>1, <5>2
      <4>8. \A i \in 1..n : next'[s[i]] = IF i = k - 1 THEN next[c] ELSE next[s[i]]
        BY <4>1, <4>3, <4>5, <4>7, <2>7, <2>8
      <4>9. \A i \in 1..n : i # k /\ After(i, n) # k => next'[s[i]] = next[s[i]]
        BY <4>4, <4>8
      <4>10. \A i \in 1..n : i # k /\ After(i, n) = k => next'[s[i]] = next[s[k]]
        BY <4>4, <4>8, <2>6
      <4> QED
        BY <4>1, <4>6, <4>7, <4>9, <4>10
    <3> QED
      BY <3>1, <3>2
  <2>11. /\ IsRing(RemoveAt(s, k))'
         /\ RemoveAt(s, k) \in SetToSeqs(Alive')
    BY <2>1, <2>2, <2>3, <2>4, <2>6, <2>10, RingRemove DEF n
  <2>12. current_thread' \in Alive' /\ head_thread' # NULL
    <3>1. current_thread' \in Alive'
      BY <2>3, <2>5, <2>8, <2>10
    <3>2. 2 \in 1..n
      BY <2>5, <2>10
    <3> QED
      BY <3>1, <3>2, <2>8, <2>9, <2>10, NullAssumption
  <2>13. CountInv'
    <3>1. Cardinality(Alive') <= Cardinality(Alive)
      BY <2>3, FiniteThreads, FS_Subset
    <3>2. Cardinality(Alive) \in Nat /\ Cardinality(Alive') \in Nat
      BY <2>3, FiniteThreads
    <3> QED
      BY <3>1, <3>2, <2>1, <2>2 DEF CountInv, TypeOK
  <2>14. current_thread' # NULL
    BY <2>3, <2>12, NullAssumption
  <2> QED
    BY <2>11, <2>12, <2>13, <2>14 DEF RingInv
<1> QED
  BY <1>1, <1>2

\* The steps that leave the ring and the set of live threads alone.
LEMMA RingUnchanged ==
  ASSUME RingInv, CountInv, Alive' = Alive, UNCHANGED <<status, ringVars>>,
         current_thread' \in Alive \/ current_thread' = current_thread,
         current_thread' = NULL <=> current_thread = NULL
  PROVE  RingInv' /\ CountInv'
<1>1. \A s : IsRing(s)' <=> IsRing(s)
  BY DEF IsRing, ringVars
<1>2. IsBare' <=> IsBare
  BY DEF IsBare, ringVars
<1> QED
  BY <1>1, <1>2 DEF RingInv, CountInv, ringVars

\* Every call keeps the ring, and a buffer large enough for it.
LEMMA RingStep == IndInv /\ TypeOK' /\ [Next]_vars => RingInv' /\ CountInv'
<1> SUFFICES ASSUME IndInv, TypeOK', [Next]_vars PROVE RingInv' /\ CountInv'
  OBVIOUS
<1>t. TypeOK /\ RingInv /\ CountInv
  BY DEF IndInv
<1>1. CASE uthread_init
  <2>1. /\ status = "running" /\ current_thread = NULL
        /\ current_thread' = Main /\ tail_thread' = Main
        /\ next' = [next EXCEPT ![Main] = Main]
        /\ live_uthreads' = live_uthreads + 1
        /\ pc' = [pc EXCEPT ![Main] = "running"]
        /\ head_thread' = head_thread
    BY <1>1 DEF uthread_init
  <2>2. Alive = {} /\ head_thread = NULL
    BY <2>1, <1>t DEF RingInv
  <2>3. Main \in Threads /\ Main # NULL
    BY ThreadsAssumption, NullAssumption
  <2>4. Alive' = {Main}
    BY <2>1, <2>2, <2>3, <1>t DEF Alive, TypeOK
  <2>5. next'[Main] = Main
    BY <2>1, <2>3, <1>t DEF TypeOK
  <2>6. CountInv'
    <3>1. Cardinality(Alive) = 0 /\ Cardinality(Alive') = 1
      BY <2>2, <2>4, FS_Singleton, FS_EmptySet
    <3> QED
      BY <3>1, <2>1, <1>t DEF CountInv, TypeOK
  <2> QED
    BY <2>1, <2>2, <2>3, <2>4, <2>5, <2>6 DEF RingInv, IsBare
<1>2. ASSUME NEW new \in Threads, NEW p \in Priorities, uthread_create(new, p)
      PROVE  RingInv' /\ CountInv'
  BY <1>2, RingCreate
<1>3. CASE uthread_yield
  <2>1. status = "running" /\ current_thread # NULL
        /\ current_thread' = YieldTo(current_thread)
    BY <1>3 DEF uthread_yield, Runs
  <2>2. current_thread \in Alive /\ Alive \in SUBSET Threads
    BY <2>1, <1>t DEF RingInv, Alive
  <2>3. current_thread' \in Alive
    <3>1. CASE head_thread = NULL
      BY <3>1, <2>1, <2>2, <1>t DEF RingInv, IsBare, YieldTo
    <3>2. CASE head_thread # NULL
      <4>1. PICK s \in SetToSeqs(Alive) : IsRing(s)
        BY <3>2, <2>1, <1>t DEF RingInv
      <4>2. /\ Len(s) \in Nat
            /\ \A i \in 1..Len(s) : s[i] \in Alive
            /\ \A i \in 1..Len(s) : next[s[i]] = s[After(i, Len(s))]
            /\ head_thread = s[1]
        BY <4>1, <1>t, RingFacts DEF IsRing
      <4>3. PICK k \in 1..Len(s) : s[k] = current_thread
        BY <4>1, <2>2, <1>t, RingFacts
      <4>4. next[current_thread] \in Alive
        BY <4>2, <4>3, AfterType
      <4>5. 1 \in 1..Len(s)
        BY <4>2, <4>3
      <4> QED
        BY <4>2, <4>4, <4>5, <2>1, <2>2 DEF YieldTo
    <3> QED
      BY <3>1, <3>2
  <2>4. Alive' = Alive /\ UNCHANGED <<status, ringVars>>
    BY <1>3 DEF uthread_yield, Alive
  <2>5. current_thread' # NULL
    BY <2>2, <2>3, NullAssumption
  <2> QED
    BY <2>1, <2>3, <2>4, <2>5, <1>t, RingUnchanged
<1>4. CASE uthread_exit
  BY <1>4, RingExit
<1>5. CASE uthread_mutex_init \/ Ended \/ UNCHANGED vars
  <2>1. Alive' = Alive /\ UNCHANGED <<status, ringVars, current_thread>>
    BY <1>5 DEF uthread_mutex_init, Ended, vars, Alive
  <2> QED
    BY <2>1, <1>t, RingUnchanged
<1>6. CASE uthread_mutex_lock
  <2>1. Alive' = Alive /\ UNCHANGED <<status, ringVars, current_thread>>
    BY <1>6, <1>t DEF uthread_mutex_lock, Alive, TypeOK
  <2> QED
    BY <2>1, <1>t, RingUnchanged
<1>7. ASSUME NEW t \in Threads, Acquire(t) \/ uthread_mutex_unlock(t)
      PROVE  RingInv' /\ CountInv'
  <2>1. Alive' = Alive /\ UNCHANGED <<status, ringVars, current_thread>>
    BY <1>7, <1>t DEF Acquire, uthread_mutex_unlock, Alive, TypeOK
  <2> QED
    BY <2>1, <1>t, RingUnchanged
<1> QED
  BY <1>1, <1>2, <1>3, <1>4, <1>5, <1>6, <1>7 DEF Next

-----------------------------------------------------------------------------
(* Every step keeps the mutex.                                             *)

\* Nobody waits for the mutex at first.
LEMMA QueueInit == Init => QueueInv /\ OwnerInv
<1> SUFFICES ASSUME Init PROVE QueueInv /\ OwnerInv
  OBVIOUS
<1>1. Queued = {} /\ wait_queue = <<>> /\ wait_queue_length = 0
  BY DEF Init, Queued
<1>2. wait_queue \in Sorted(Queued, pri)
  BY <1>1, SortedSmall
<1> QED
  BY <1>1, <1>2, EmptySeq DEF Init, QueueInv, OwnerInv

\* The steps that leave the mutex and the threads in its queue alone.
LEMMA QueueUnchanged ==
  ASSUME TypeOK, QueueInv, OwnerInv, UNCHANGED mutexVars,
         status' = "running" => status = "running",
         \A t \in Queued : pri'[t] = pri[t],
         \A t \in Threads : pc'[t] = pc[t]
                            \/ (pc[t] \notin {"waiting", "holding"}
                                /\ pc'[t] \notin {"waiting", "holding"})
  PROVE  QueueInv' /\ OwnerInv'
<1>1. Queued' = Queued
  BY DEF Queued
<1>2. OwnerInv'
  BY DEF OwnerInv, mutexVars
<1>3. ASSUME status' = "running" PROVE wait_queue' \in Sorted(Queued', pri')
  <2>1. status = "running"
    BY <1>3
  <2>2. /\ IsFiniteSet(Queued)
        /\ wait_queue \in Seq(Queued)
        /\ \A i \in 1..Len(wait_queue) : wait_queue[i] \in Queued
        /\ \A i, j \in 1..Len(wait_queue) : i # j => wait_queue[i] # wait_queue[j]
        /\ \A x \in Queued : \E i \in 1..Len(wait_queue) : wait_queue[i] = x
        /\ \A i, j \in 1..Len(wait_queue) :
             i < j => pri[wait_queue[i]] <= pri[wait_queue[j]]
    BY <2>1, QueueFacts
  <2>3. \A i, j \in 1..Len(wait_queue) :
          i < j => pri'[wait_queue[i]] <= pri'[wait_queue[j]]
    BY <2>2
  <2>4. wait_queue \in Sorted(Queued, pri')
    BY <2>2, <2>3, SortedFacts
  <2> QED
    BY <2>4, <1>1 DEF mutexVars
<1> QED
  BY <1>2, <1>3 DEF QueueInv, mutexVars

\* uthread_mutex_lock: the record joins the queue; the mutex is granted only
\* when nobody was in the queue, hence nobody held the mutex.
LEMMA QueueLock ==
  ASSUME TypeOK, QueueInv, OwnerInv, uthread_mutex_lock
  PROVE  QueueInv' /\ OwnerInv'
<1> DEFINE c == current_thread
<1>1. /\ status = "running"
      /\ c \in Threads
      /\ pc[c] = "running"
      /\ pc' = [pc EXCEPT ![c] = "waiting"]
      /\ wait_queue_length' = wait_queue_length + 1
      /\ pri' = pri
  BY DEF uthread_mutex_lock, Runs, TypeOK, ringVars
<1>2. /\ wait_queue \in Seq(Queued)
      /\ Len(wait_queue) \in Nat
      /\ \A x \in Queued : \E i \in 1..Len(wait_queue) : wait_queue[i] = x
      /\ Range(wait_queue) = Queued
      /\ wait_queue_length = Len(wait_queue)
      /\ wait_queue # <<>> => locking_thread \in Queued
  BY <1>1, QueueFacts DEF QueueInv
<1>3. Queued' = Queued \cup {c} /\ c \notin Queued
  BY <1>1 DEF Queued, TypeOK
<1>4. Queued' \in SUBSET Threads /\ IsFiniteSet(Queued')
  BY <1>3, <1>1, FiniteThreads DEF Queued
<1>5. CASE wait_queue_length' = 1
  <2>1. Len(wait_queue) = 0 /\ Queued = {}
    BY <1>1, <1>2, <1>5
  <2>2. wait_queue' = <<c>> /\ locking_thread' = c
    BY <1>5 DEF uthread_mutex_lock
  <2>3. Queued' = {c}
    BY <1>3, <2>1
  <2>4. /\ <<c>> \in Seq({c})
        /\ Len(<<c>>) = 1
        /\ <<c>>[1] = c
        /\ DOMAIN <<c>> = 1..1
    OBVIOUS
  <2>5. wait_queue' \in Sorted(Queued', pri')
    BY <2>2, <2>3, SortedSmall
  <2>6. c \in Range(<<c>>)
    BY <2>4 DEF Range
  <2>7. \A t \in Threads : pc'[t] # "holding"
    BY <2>3, <1>1 DEF Queued, TypeOK
  <2> QED
    BY <2>2, <2>4, <2>5, <2>6, <2>7, <1>5 DEF QueueInv, OwnerInv
<1>6. CASE wait_queue_length' # 1
  <2>1. wait_queue' \in Enqueued(wait_queue, c) /\ locking_thread' = locking_thread
    BY <1>6 DEF uthread_mutex_lock
  <2>2. wait_queue' \in Sorted(Queued', pri')
    BY <2>1, <1>1, <1>2, <1>3 DEF Enqueued
  <2>3. /\ wait_queue' \in Seq(Queued')
        /\ \A x \in Queued' : \E i \in 1..Len(wait_queue') : wait_queue'[i] = x
    BY <2>2, <1>4, SortedFacts
  <2>4. DOMAIN wait_queue' = 1..Len(wait_queue') /\ Len(wait_queue') \in Nat
    BY <2>3, LenProperties
  <2>5. Len(wait_queue') = Cardinality(Queued')
    BY <2>2, <1>4, SortedLen
  <2>6. Len(wait_queue) = Cardinality(Queued)
    <3>1. IsFiniteSet(Queued)
      BY FiniteThreads DEF Queued
    <3> QED
      BY <3>1, <1>1, SortedLen DEF QueueInv
  <2>7. Cardinality(Queued') = Cardinality(Queued) + 1
    BY <1>3, FiniteThreads, FS_AddElement DEF Queued
  <2>8. Range(wait_queue') = Queued'
    BY <2>3, <2>4, ElementOfSeq DEF Range
  <2>9. wait_queue # <<>>
    <3>1. Len(wait_queue) # 0
      BY <1>1, <1>2, <1>6
    <3> QED
      BY <3>1, EmptySeq
  <2>10. locking_thread' \in Range(wait_queue')
    BY <2>1, <2>8, <2>9, <1>2, <1>3
  <2>11. OwnerInv'
    BY <2>1, <1>1 DEF OwnerInv, TypeOK
  <2>12. wait_queue_length' = Len(wait_queue')
    BY <2>5, <2>6, <2>7, <1>1, <1>2
  <2> QED
    BY <2>2, <2>10, <2>11, <2>12 DEF QueueInv
<1> QED
  BY <1>5, <1>6

\* uthread_mutex_unlock: the record of the holder leaves the queue, and the
\* first of those left is granted the mutex.
LEMMA QueueUnlock ==
  ASSUME TypeOK, QueueInv, OwnerInv, NEW t \in Threads, uthread_mutex_unlock(t)
  PROVE  /\ QueueInv' /\ OwnerInv'
         /\ wait_queue' # <<>> =>
              /\ locking_thread' # t
              /\ \A u \in Range(wait_queue') : pri[locking_thread'] <= pri[u]
<1>1. /\ status = "running"
      /\ pc[t] = "holding"
      /\ locking_thread = t
      /\ pc' = [pc EXCEPT ![t] = "running"]
      /\ wait_queue_length' = wait_queue_length - 1
      /\ pri' = pri
  BY DEF uthread_mutex_unlock, Runs, OwnerInv, ringVars
<1>2. /\ IsFiniteSet(Queued)
      /\ wait_queue \in Seq(Queued)
      /\ Len(wait_queue) \in Nat
      /\ DOMAIN wait_queue = 1..Len(wait_queue)
      /\ \A i, j \in 1..Len(wait_queue) : i # j => wait_queue[i] # wait_queue[j]
      /\ \A x \in Queued : \E i \in 1..Len(wait_queue) : wait_queue[i] = x
      /\ wait_queue_length = Len(wait_queue)
      /\ wait_queue \in Sorted(Queued, pri)
  BY <1>1, QueueFacts DEF QueueInv
<1>3. Queued' = Queued \ {t} /\ t \in Queued
  BY <1>1 DEF Queued, TypeOK
<1>4. Queued' \in SUBSET Threads /\ IsFiniteSet(Queued')
  BY <1>3, FiniteThreads DEF Queued
<1>5. \A u \in Threads : pc'[u] # "holding"
  BY <1>1 DEF OwnerInv, TypeOK
<1>6. OwnerInv'
  BY <1>5 DEF OwnerInv
<1>7. CASE wait_queue_length = 1
  <2>1. wait_queue' = <<>>
    BY <1>7 DEF uthread_mutex_unlock
  <2>2. Queued' = {}
    BY <1>2, <1>3, <1>7
  <2>3. wait_queue' \in Sorted(Queued', pri')
    BY <2>1, <2>2, SortedSmall
  <2> QED
    BY <2>1, <2>3, <1>1, <1>6, <1>7, EmptySeq DEF QueueInv
<1>8. CASE wait_queue_length # 1
  <2>1. PICK k \in 1..Len(wait_queue) :
          wait_queue[k] = t /\ wait_queue' = RemoveAt(wait_queue, k)
    BY <1>1, <1>2, <1>8 DEF uthread_mutex_unlock
  <2>2. locking_thread' = Head(wait_queue')
    BY <1>8 DEF uthread_mutex_unlock
  <2>3. wait_queue' \in Sorted(Queued', pri')
    BY <2>1, <1>1, <1>2, <1>3, SortedRemove
  <2>4. Len(wait_queue') = Len(wait_queue) - 1
    BY <2>1, <1>2, RemoveAtFacts
  <2>5. /\ wait_queue' \in Seq(Queued')
        /\ \A i, j \in 1..Len(wait_queue') :
             i < j => pri[wait_queue'[i]] <= pri[wait_queue'[j]]
    BY <2>3, <1>1, <1>4, SortedFacts
  <2>6. /\ DOMAIN wait_queue' = 1..Len(wait_queue')
        /\ \A i \in 1..Len(wait_queue') : wait_queue'[i] \in Queued'
    BY <2>5, LenProperties, ElementOfSeq
  <2>7. 1 \in 1..Len(wait_queue')
    BY <2>1, <2>4, <1>2, <1>8
  <2>8. locking_thread' = wait_queue'[1] /\ locking_thread' \in Queued'
    BY <2>2, <2>5, <2>6, <2>7
  <2>9. locking_thread' \in Range(wait_queue') /\ locking_thread' # t
    BY <2>6, <2>7, <2>8, <1>3 DEF Range
  <2>10. ASSUME NEW u \in Range(wait_queue') PROVE pri[locking_thread'] <= pri[u]
    <3>1. PICK i \in 1..Len(wait_queue') : u = wait_queue'[i]
      BY <2>6 DEF Range
    <3>2. CASE i = 1
      <4>1. u = locking_thread' /\ u \in Threads
        BY <3>1, <3>2, <2>8, <1>4
      <4>2. pri[u] \in Int
        BY <4>1, PriorityType
      <4> QED
        BY <4>1, <4>2
    <3>3. CASE i # 1
      <4>1. 1 < i
        BY <3>3
      <4> QED
        BY <3>1, <4>1, <2>5, <2>7, <2>8
    <3> QED
      BY <3>2, <3>3
  <2>11. wait_queue_length' = Len(wait_queue')
    BY <2>4, <1>1, <1>2
  <2> QED
    BY <2>3, <2>9, <2>10, <2>11, <1>6 DEF QueueInv
<1> QED
  BY <1>7, <1>8

\* Every call keeps the wait queue and the owner of the mutex.
LEMMA QueueStep == IndInv /\ [Next]_vars => QueueInv' /\ OwnerInv'
<1> SUFFICES ASSUME IndInv, [Next]_vars PROVE QueueInv' /\ OwnerInv'
  OBVIOUS
<1>t. TypeOK /\ RingInv /\ QueueInv /\ OwnerInv
  BY DEF IndInv
<1>1. CASE uthread_init
  <2>1. /\ status = "running" /\ current_thread = NULL
        /\ pc' = [pc EXCEPT ![Main] = "running"]
        /\ pri' = [pri EXCEPT ![Main] = MainPriority]
        /\ UNCHANGED mutexVars
    BY <1>1 DEF uthread_init
  <2>2. pc[Main] = "unborn"
    BY <2>1, <1>t, ThreadsAssumption DEF RingInv, Alive
  <2>3. \A t \in Queued : pri'[t] = pri[t]
    BY <2>1, <2>2, <1>t DEF Queued, TypeOK
  <2>4. \A t \in Threads : pc'[t] = pc[t]
                            \/ (pc[t] \notin {"waiting", "holding"}
                                /\ pc'[t] \notin {"waiting", "holding"})
    BY <2>1, <2>2, <1>t DEF TypeOK
  <2> QED
    BY <2>1, <2>3, <2>4, <1>t, QueueUnchanged
<1>2. ASSUME NEW new \in Threads, NEW p \in Priorities, uthread_create(new, p)
      PROVE  QueueInv' /\ OwnerInv'
  <2>1. /\ status = "running"
        /\ pc[new] = "unborn"
        /\ pc' = [pc EXCEPT ![new] = "running"]
        /\ pri' = [pri EXCEPT ![new] = p]
        /\ UNCHANGED mutexVars
    BY <1>2 DEF uthread_create, Runs
  <2>2. \A t \in Queued : pri'[t] = pri[t]
    BY <2>1, <1>t DEF Queued, TypeOK
  <2>3. \A t \in Threads : pc'[t] = pc[t]
                            \/ (pc[t] \notin {"waiting", "holding"}
                                /\ pc'[t] \notin {"waiting", "holding"})
    BY <2>1, <1>t DEF TypeOK
  <2> QED
    BY <2>1, <2>2, <2>3, <1>t, QueueUnchanged
<1>3. CASE uthread_yield \/ Ended \/ UNCHANGED vars
  <2>1. UNCHANGED <<status, pri, pc, mutexVars>>
    BY <1>3 DEF uthread_yield, Ended, vars, ringVars
  <2> QED
    BY <2>1, <1>t, QueueUnchanged
<1>4. CASE uthread_exit
  <2>1. /\ status = "running"
        /\ pc[current_thread] = "running"
        /\ pc' = [pc EXCEPT ![current_thread] = "unborn"]
        /\ UNCHANGED <<pri, mutexVars>>
    BY <1>4 DEF uthread_exit, Runs
  <2>2. \A t \in Threads : pc'[t] = pc[t]
                            \/ (pc[t] \notin {"waiting", "holding"}
                                /\ pc'[t] \notin {"waiting", "holding"})
    BY <2>1, <1>t DEF TypeOK
  <2> QED
    BY <2>1, <2>2, <1>t, QueueUnchanged
<1>5. CASE uthread_mutex_init
  <2>1. /\ status = "running" /\ wait_queue = <<>>
        /\ wait_queue' = <<>> /\ wait_queue_length' = 0
        /\ UNCHANGED <<pri, pc>>
    BY <1>5 DEF uthread_mutex_init, Runs, ringVars
  <2>2. Queued = {}
    <3>1. \A x \in Queued : \E i \in 1..Len(wait_queue) : wait_queue[i] = x
      BY <2>1, <1>t, QueueFacts
    <3>2. Len(wait_queue) = 0
      BY <2>1, EmptySeq
    <3> QED
      BY <3>1, <3>2
  <2>3. Queued' = {}
    BY <2>1, <2>2 DEF Queued
  <2>4. wait_queue' \in Sorted(Queued', pri')
    BY <2>1, <2>3, SortedSmall
  <2>5. OwnerInv'
    BY <2>3 DEF OwnerInv, Queued
  <2> QED
    BY <2>1, <2>4, <2>5, EmptySeq DEF QueueInv
<1>6. CASE uthread_mutex_lock
  BY <1>6, <1>t, QueueLock
<1>7. ASSUME NEW t \in Threads, Acquire(t) PROVE QueueInv' /\ OwnerInv'
  <2>1. /\ status = "running"
        /\ pc[t] = "waiting" /\ locking_thread = t
        /\ pc' = [pc EXCEPT ![t] = "holding"]
        /\ UNCHANGED <<status, pri, mutexVars>>
    BY <1>7 DEF Acquire, Runs, ringVars
  <2>2. Queued' = Queued
    BY <2>1, <1>t DEF Queued, TypeOK
  <2>3. QueueInv'
    BY <2>1, <2>2, <1>t DEF QueueInv, mutexVars
  <2>4. OwnerInv'
    BY <2>1, <1>t DEF OwnerInv, TypeOK, mutexVars
  <2> QED
    BY <2>3, <2>4
<1>8. ASSUME NEW t \in Threads, uthread_mutex_unlock(t)
      PROVE  QueueInv' /\ OwnerInv'
  BY <1>8, <1>t, QueueUnlock
<1> QED
  BY <1>1, <1>2, <1>3, <1>4, <1>5, <1>6, <1>7, <1>8 DEF Next

-----------------------------------------------------------------------------
(* The theorems.                                                           *)

\* The inductive invariant holds in every reachable state.
THEOREM Invariance == Spec => []IndInv
<1>1. Init => IndInv
  BY TypeInit, RingInit, QueueInit DEF IndInv
<1>2. IndInv /\ [Next]_vars => IndInv'
  BY TypeStep, RingStep, QueueStep DEF IndInv
<1> QED
  BY <1>1, <1>2, PTL DEF Spec

\* The package never leaves its types: uthread.c's pointers, counters and
\* queue stay well formed.
THEOREM TypeCorrect == Spec => []TypeOK
<1>1. IndInv => TypeOK
  BY DEF IndInv
<1> QED
  BY <1>1, Invariance, PTL

\* The live threads form one circle sorted by priority, whatever threads are
\* created and exit in whatever order (uthread_create, uthread_exit).
THEOREM RingCorrect == Spec => []RingInv
<1>1. IndInv => RingInv
  BY DEF IndInv
<1> QED
  BY <1>1, Invariance, PTL

\* uthread_create never writes past the buffer it allocates.
THEOREM BufferCorrect == Spec => []ThreadBufFits
<1>1. IndInv => ThreadBufFits
  <2> SUFFICES ASSUME IndInv, status = "running", current_thread # NULL
               PROVE  Cardinality(Linked(current_thread)) <= live_uthreads
    BY DEF ThreadBufFits
  <2>1. Linked(current_thread) = Alive
    BY LinkedIsAlive DEF IndInv
  <2> QED
    BY <2>1 DEF IndInv, CountInv
<1> QED
  BY <1>1, Invariance, PTL

\* The wait queue of the mutex has one record per thread in
\* uthread_mutex_lock or in its critical section, sorted by priority.
THEOREM QueueCorrect == Spec => []QueueInv
<1>1. IndInv => QueueInv
  BY DEF IndInv
<1> QED
  BY <1>1, Invariance, PTL

\* At most one thread holds the mutex.
THEOREM MutexCorrect == Spec => []MutualExclusion
<1>1. IndInv => MutualExclusion
  BY DEF IndInv, OwnerInv, MutualExclusion
<1> QED
  BY <1>1, Invariance, PTL

\* uthread_mutex_unlock grants the mutex to a waiter of the highest priority.
THEOREM HandOffCorrect == Spec => HandOff
<1> DEFINE A == \A t \in Threads :
                  pc[t] = "holding" /\ pc'[t] = "running" /\ wait_queue' # <<>> =>
                    /\ locking_thread' # t
                    /\ \A u \in Range(wait_queue') : pri[locking_thread'] <= pri[u]
<1>1. IndInv /\ [Next]_vars => [A]_vars
  <2> SUFFICES ASSUME IndInv, Next, NEW t \in Threads,
                      pc[t] = "holding", pc'[t] = "running"
               PROVE  uthread_mutex_unlock(t)
    BY QueueUnlock DEF IndInv
  <2>t. TypeOK /\ RingInv /\ OwnerInv
    BY DEF IndInv
  <2>1. CASE uthread_init
    <3>1. pc[Main] = "unborn"
      BY <2>1, <2>t, ThreadsAssumption DEF uthread_init, RingInv, Alive
    <3> QED
      BY <2>1, <3>1, <2>t DEF uthread_init, TypeOK
  <2>2. ASSUME NEW new \in Threads, NEW p \in Priorities, uthread_create(new, p)
        PROVE  FALSE
    BY <2>2, <2>t DEF uthread_create, TypeOK
  <2>3. CASE uthread_yield \/ uthread_mutex_init \/ Ended
    BY <2>3 DEF uthread_yield, uthread_mutex_init, Ended, vars
  <2>4. CASE uthread_exit \/ uthread_mutex_lock
    BY <2>4, <2>t DEF uthread_exit, uthread_mutex_lock, TypeOK
  <2>5. ASSUME NEW u \in Threads, Acquire(u) PROVE FALSE
    BY <2>5, <2>t DEF Acquire, TypeOK
  <2>6. ASSUME NEW u \in Threads, uthread_mutex_unlock(u)
        PROVE  uthread_mutex_unlock(t)
    <3>1. u = t
      BY <2>6, <2>t DEF uthread_mutex_unlock, OwnerInv
    <3> QED
      BY <2>6, <3>1
  <2> QED
    BY <2>1, <2>2, <2>3, <2>4, <2>5, <2>6 DEF Next
<1> QED
  BY <1>1, Invariance, PTL DEF Spec, HandOff

\* Nobody takes the mutex from the thread it was granted to.
THEOREM NoBargingCorrect == Spec => NoBarging
<1> DEFINE B == wait_queue # <<>> /\ locking_thread' # locking_thread =>
                  pc[locking_thread] = "holding" /\ pc'[locking_thread] = "running"
<1>1. IndInv /\ [Next]_vars => [B]_vars
  <2> SUFFICES ASSUME IndInv, Next, wait_queue # <<>>,
                      locking_thread' # locking_thread
               PROVE  pc[locking_thread] = "holding"
                      /\ pc'[locking_thread] = "running"
    OBVIOUS
  <2>t. TypeOK /\ QueueInv /\ OwnerInv
    BY DEF IndInv
  <2>1. CASE uthread_init \/ uthread_yield \/ uthread_exit \/ uthread_mutex_init \/ Ended
    BY <2>1 DEF uthread_init, uthread_yield, uthread_exit, uthread_mutex_init,
                Ended, vars, mutexVars
  <2>2. ASSUME NEW new \in Threads, NEW p \in Priorities, uthread_create(new, p)
        PROVE  FALSE
    BY <2>2 DEF uthread_create, mutexVars
  <2>3. CASE uthread_mutex_lock
    <3>1. wait_queue_length = 0
      <4>1. wait_queue_length' = wait_queue_length + 1 /\ wait_queue_length' = 1
        BY <2>3 DEF uthread_mutex_lock
      <4> QED
        BY <4>1, <2>t DEF TypeOK
    <3>2. wait_queue \in Seq(Threads) /\ wait_queue_length = Len(wait_queue)
      BY <2>3, <2>t DEF uthread_mutex_lock, Runs, QueueInv, TypeOK
    <3> QED
      BY <3>1, <3>2, EmptySeq
  <2>4. ASSUME NEW t \in Threads, Acquire(t) PROVE FALSE
    BY <2>4 DEF Acquire, mutexVars
  <2>5. ASSUME NEW t \in Threads, uthread_mutex_unlock(t)
        PROVE  pc[locking_thread] = "holding" /\ pc'[locking_thread] = "running"
    <3>1. locking_thread = t
      BY <2>5, <2>t DEF uthread_mutex_unlock, OwnerInv
    <3> QED
      BY <2>5, <3>1, <2>t DEF uthread_mutex_unlock, TypeOK
  <2> QED
    BY <2>1, <2>2, <2>3, <2>4, <2>5 DEF Next
<1> QED
  BY <1>1, Invariance, PTL DEF Spec, NoBarging

============================================================================
