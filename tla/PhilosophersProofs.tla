------------------------- MODULE PhilosophersProofs -------------------------
(***************************************************************************)
(* Proofs about module Philosophers, for any number of philosophers.       *)
(***************************************************************************)
EXTENDS Philosophers, SequenceTheorems, TLAPS

\* The steps between lock and unlock of canEat_mutex.
HasCanEat == {"cond_wait", "unlock_cv", "signal", "unlock_cv2"}

\* The owner of canEat_mutex is the philosopher at one of those steps.
CanEatInv == \A p \in Phil : pc[p] \in HasCanEat <=> canEat = p

\* The philosophers in the queue are those that wait, each one once.
QueueInv ==
  /\ \A i \in 1..Len(queue) : pc[queue[i]] = "waiting"
  /\ \A i, j \in 1..Len(queue) : i # j => queue[i] # queue[j]

\* Somebody is not on the way into the wait.  A philosopher is refused the bowl
\* only while another one has it.
SomeoneOut == \E p \in Phil : pc[p] \notin {"lock_cv", "cond_wait", "waiting"}

\* Who is EATING is between the update of the state and the next one.
EatingInv ==
  \A p \in Phil : state[p] = "EATING" =>
    pc[p] \in {"putdown_right", "putdown_left", "lock_cv2", "signal",
               "unlock_cv2", "think"}

\* The philosopher at the bowl is its owner.
OwnerInv == \A p \in Phil : pc[p] \in AtBowl <=> bowl = p

IndInv == /\ TypeOK /\ OwnerInv /\ CanEatInv /\ QueueInv /\ SomeoneOut
          /\ EatingInv /\ ChopsticksHeld

-----------------------------------------------------------------------------
(* Facts about the helpers.                                                *)

\* Every philosopher has two chopsticks of the table.
LEMMA Sides ==
  ASSUME NEW p \in Phil
  PROVE  Left(p) \in Phil /\ Right(p) \in Phil /\ Free \notin Phil
  BY NAssumption DEF Left, Right, Phil, Free

\* Only the philosopher at the bowl holds chopsticks.
LEMMA NoneHeld ==
  ASSUME NEW p, pc[p] \notin AtBowl
  PROVE  Held(p) = {}
  BY DEF Held, AtBowl

\* What taking one element out of a sequence of distinct elements leaves.
LEMMA RemoveOne ==
  ASSUME NEW S, NEW s \in Seq(S), NEW k \in 1..Len(s),
         \A i, j \in 1..Len(s) : i # j => s[i] # s[j],
         NEW r, r = RemoveAt(s, k)
  PROVE  /\ r \in Seq(S)
         /\ \A i \in 1..Len(r) : \E j \in 1..Len(s) \ {k} : r[i] = s[j]
         /\ \A i, j \in 1..Len(r) : i # j => r[i] # r[j]
<1> DEFINE a == SubSeq(s, 1, k - 1)
           b == SubSeq(s, k + 1, Len(s))
<1>1. Len(s) \in Nat /\ k \in Nat /\ k >= 1 /\ k <= Len(s)
  OBVIOUS
<1>2. /\ a \in Seq(S) /\ Len(a) = k - 1
      /\ \A i \in 1..(k - 1) : a[i] = s[i]
  BY <1>1
<1>3. /\ b \in Seq(S) /\ Len(b) = Len(s) - k
      /\ \A i \in 1..(Len(s) - k) : b[i] = s[k + i]
  BY <1>1
<1>5. r = a \o b
  BY DEF RemoveAt
<1> HIDE DEF a, b
<1>4. /\ r \in Seq(S) /\ Len(r) = Len(s) - 1
      /\ \A i \in 1..(Len(s) - 1) : r[i] = IF i < k THEN s[i] ELSE s[i + 1]
  <2>0. /\ r \in Seq(S) /\ Len(r) = Len(a) + Len(b)
        /\ \A i \in 1..(Len(a) + Len(b)) :
              r[i] = IF i <= Len(a) THEN a[i] ELSE b[i - Len(a)]
    <3>0. a \in Seq(S) /\ b \in Seq(S)
      BY <1>2, <1>3
    <3>1. /\ a \o b \in Seq(S) /\ Len(a \o b) = Len(a) + Len(b)
          /\ \A i \in 1..(Len(a) + Len(b)) :
                (a \o b)[i] = IF i <= Len(a) THEN a[i] ELSE b[i - Len(a)]
      BY <3>0, ConcatProperties, Zenon
    <3> QED
      BY <3>1, <1>5
  <2>1. /\ r \in Seq(S) /\ Len(r) = Len(s) - 1
        /\ \A i \in 1..(Len(s) - 1) :
              r[i] = IF i <= Len(a) THEN a[i] ELSE b[i - Len(a)]
    BY <2>0, <1>1, <1>2, <1>3
  <2>2. ASSUME NEW i \in 1..(Len(s) - 1)
        PROVE  r[i] = IF i < k THEN s[i] ELSE s[i + 1]
    <3>1. CASE i < k
      BY <3>1, <2>1, <1>1, <1>2
    <3>2. CASE ~(i < k)
      <4>1. i - (k - 1) \in 1..(Len(s) - k) /\ k + (i - (k - 1)) = i + 1
        BY <3>2, <1>1
      <4>2. r[i] = b[i - (k - 1)]
        BY <3>2, <2>1, <1>1, <1>2
      <4>3. b[i - (k - 1)] = s[k + (i - (k - 1))]
        BY <4>1, <1>3
      <4> QED
        BY <3>2, <4>1, <4>2, <4>3
    <3> QED
      BY <3>1, <3>2
  <2> QED
    BY <2>1, <2>2
<1>6. ASSUME NEW i \in 1..Len(r)
      PROVE  \E j \in 1..Len(s) \ {k} : r[i] = s[j]
  <2>1. CASE i < k
    BY <2>1, <1>1, <1>4
  <2>2. CASE i >= k
    <3>1. i + 1 \in 1..Len(s) \ {k} /\ r[i] = s[i + 1]
      BY <2>2, <1>1, <1>4
    <3> QED
      BY <3>1
  <2> QED
    BY <2>1, <2>2, <1>1, <1>4
<1>7. ASSUME NEW i \in 1..Len(r), NEW j \in 1..Len(r), i # j
      PROVE  r[i] # r[j]
  BY <1>1, <1>4, <1>7
<1> QED
  BY <1>4, <1>6, <1>7

-----------------------------------------------------------------------------
(* The inductive invariant.                                                *)

\* The invariant holds when main has set the table (lines 200-215).
LEMMA InitInv == Init => IndInv
<1> SUFFICES ASSUME Init PROVE IndInv
  OBVIOUS
<1>1. 0 \in Phil /\ Free \notin Phil
  BY NAssumption DEF Phil, Free
<1> USE DEF Init
<1>2. TypeOK
  BY DEF TypeOK, Steps
<1>3. OwnerInv /\ CanEatInv /\ EatingInv
  BY <1>1 DEF OwnerInv, CanEatInv, EatingInv, AtBowl, HasCanEat
<1>4. QueueInv
  BY DEF QueueInv
<1>5. SomeoneOut
  BY <1>1 DEF SomeoneOut
<1>6. ChopsticksHeld
  BY NoneHeld DEF ChopsticksHeld, AtBowl
<1> QED
  BY <1>2, <1>3, <1>4, <1>5, <1>6 DEF IndInv

\* A step of a thread keeps the types.
LEMMA TypeStep ==
  ASSUME TypeOK, QueueInv, NEW p \in Phil, philosopher_thread(p) \/ SpuriousWakeup(p)
  PROVE  TypeOK'
<1> USE DEF TypeOK, Goto, Steps, Refused, AtBowl
<1>1. CASE Locking(p)
  BY <1>1 DEF Locking, LockCanEat, Relock, LockBowl
<1>2. CASE BecomeHungry(p) \/ TryLock(p) \/ UnlockCanEat(p) \/ Eat(p)
           \/ Think(p) \/ UnlockBowl(p)
  BY <1>2 DEF BecomeHungry, TryLock, UnlockCanEat, Eat, Think, UnlockBowl
<1>3. CASE CondWait(p)
  BY <1>3 DEF CondWait
<1>4. CASE PickupRight(p) \/ PickupLeft(p) \/ PutdownRight(p) \/ PutdownLeft(p)
  BY <1>4, Sides DEF PickupRight, PickupLeft, PutdownRight, PutdownLeft
<1>5. CASE Signal(p)
  BY <1>5 DEF Signal
<1>6. CASE SpuriousWakeup(p)
  <2>1. PICK i \in 1..Len(queue) : queue' = RemoveAt(queue, i)
    BY <1>6 DEF SpuriousWakeup
  <2>2. queue' \in Seq(Phil)
    BY <2>1, RemoveOne DEF QueueInv
  <2> QED
    BY <2>2, <1>6 DEF SpuriousWakeup
<1> QED
  BY <1>1, <1>2, <1>3, <1>4, <1>5, <1>6 DEF philosopher_thread, Going

\* A step of a thread changes the step of that thread, and Signal also that of
\* one that waits.
LEMMA PcStep ==
  ASSUME TypeOK, QueueInv, NEW p \in Phil, philosopher_thread(p) \/ SpuriousWakeup(p)
  PROVE  \A q \in Phil \ {p} :
           pc'[q] = pc[q] \/ (pc[p] = "signal" /\ pc[q] = "waiting" /\ pc'[q] = "relock")
<1> USE DEF TypeOK, Goto
<1>1. CASE Locking(p)
  BY <1>1 DEF Locking, LockCanEat, Relock, LockBowl
<1>2. CASE Signal(p)
  <2>1. queue # <<>> => Head(queue) \in Phil /\ pc[Head(queue)] = "waiting"
    BY DEF QueueInv
  <2> QED
    BY <2>1, <1>2 DEF Signal
<1>3. CASE Going(p) /\ ~Signal(p)
  BY <1>3 DEF Going, BecomeHungry, TryLock, CondWait, UnlockCanEat, PickupRight,
              PickupLeft, Eat, PutdownRight, PutdownLeft, Think, UnlockBowl
<1>4. CASE SpuriousWakeup(p)
  BY <1>4 DEF SpuriousWakeup
<1> QED
  BY <1>1, <1>2, <1>3, <1>4 DEF philosopher_thread

\* A step of a thread keeps the owner of the bowl.
LEMMA OwnerStep ==
  ASSUME TypeOK, OwnerInv, QueueInv,
         NEW p \in Phil, philosopher_thread(p) \/ SpuriousWakeup(p)
  PROVE  OwnerInv'
<1>1. \A q \in Phil \ {p} : pc'[q] \in AtBowl <=> pc[q] \in AtBowl
  BY PcStep DEF AtBowl
<1>2. p \in Phil /\ Free \notin Phil /\ bowl \in Phil \cup {Free} /\ pc \in [Phil -> Steps]
  BY Sides DEF TypeOK
<1> USE <1>1, <1>2 DEF OwnerInv
<1>3. CASE TryLock(p) \/ LockBowl(p)
  BY <1>3 DEF TryLock, LockBowl, Goto, AtBowl
<1>4. CASE UnlockBowl(p)
  BY <1>4 DEF UnlockBowl, Goto, AtBowl
<1>5. CASE LockCanEat(p) \/ Relock(p) \/ SpuriousWakeup(p) \/ BecomeHungry(p)
           \/ CondWait(p) \/ UnlockCanEat(p)
  BY <1>5 DEF LockCanEat, Relock, SpuriousWakeup, BecomeHungry, CondWait,
              UnlockCanEat, Goto, AtBowl
<1>6. CASE PickupRight(p) \/ PickupLeft(p) \/ Eat(p) \/ PutdownRight(p)
           \/ PutdownLeft(p) \/ Think(p)
  BY <1>6 DEF PickupRight, PickupLeft, Eat, PutdownRight, PutdownLeft, Think, Goto, AtBowl
<1>7. CASE Signal(p)
  <2>1. queue # <<>> => Head(queue) \in Phil /\ pc[Head(queue)] = "waiting"
    BY DEF QueueInv, TypeOK
  <2>2. bowl' = bowl /\ pc[p] = "signal" /\ pc'[p] = "unlock_cv2"
    BY <2>1, <1>7 DEF Signal, Goto
  <2> QED
    BY <2>2 DEF AtBowl
<1> QED
  BY <1>3, <1>4, <1>5, <1>6, <1>7 DEF philosopher_thread, Locking, Going

\* A step of a thread keeps the owner of canEat_mutex.
LEMMA CanEatStep ==
  ASSUME TypeOK, CanEatInv, QueueInv,
         NEW p \in Phil, philosopher_thread(p) \/ SpuriousWakeup(p)
  PROVE  CanEatInv'
<1>1. \A q \in Phil \ {p} : pc'[q] \in HasCanEat <=> pc[q] \in HasCanEat
  BY PcStep DEF HasCanEat
<1>2. p \in Phil /\ Free \notin Phil /\ canEat \in Phil \cup {Free} /\ pc \in [Phil -> Steps]
  BY Sides DEF TypeOK
<1> USE <1>1, <1>2 DEF CanEatInv
<1>3. CASE LockCanEat(p) \/ Relock(p)
  BY <1>3 DEF LockCanEat, Relock, Goto, HasCanEat
<1>4. CASE UnlockCanEat(p) \/ CondWait(p)
  BY <1>4 DEF UnlockCanEat, CondWait, Goto, HasCanEat
<1>5. CASE LockBowl(p) \/ SpuriousWakeup(p) \/ BecomeHungry(p) \/ TryLock(p) \/ UnlockBowl(p)
  BY <1>5 DEF LockBowl, SpuriousWakeup, BecomeHungry, TryLock, UnlockBowl, Goto, HasCanEat
<1>6. CASE PickupRight(p) \/ PickupLeft(p) \/ Eat(p) \/ PutdownRight(p)
           \/ PutdownLeft(p) \/ Think(p)
  BY <1>6 DEF PickupRight, PickupLeft, Eat, PutdownRight, PutdownLeft, Think, Goto, HasCanEat
<1>7. CASE Signal(p)
  <2>1. queue # <<>> => Head(queue) \in Phil /\ pc[Head(queue)] = "waiting"
    BY DEF QueueInv, TypeOK
  <2>2. canEat' = canEat /\ pc[p] = "signal" /\ pc'[p] = "unlock_cv2"
    BY <2>1, <1>7 DEF Signal, Goto
  <2> QED
    BY <2>2 DEF HasCanEat
<1> QED
  BY <1>3, <1>4, <1>5, <1>6, <1>7 DEF philosopher_thread, Locking, Going

\* Nobody is EATING away from the bowl after a step of a thread.
LEMMA EatingStep ==
  ASSUME TypeOK, EatingInv, QueueInv,
         NEW p \in Phil, philosopher_thread(p) \/ SpuriousWakeup(p)
  PROVE  EatingInv'
<1>1. \A q \in Phil \ {p} :
        pc'[q] = pc[q] \/ (pc[p] = "signal" /\ pc[q] = "waiting" /\ pc'[q] = "relock")
  BY PcStep
<1>2. pc \in [Phil -> Steps] /\ DOMAIN state = Phil
  BY DEF TypeOK
<1> USE <1>1, <1>2 DEF EatingInv, Goto
<1>3. CASE BecomeHungry(p) \/ Eat(p) \/ Think(p)
  BY <1>3 DEF BecomeHungry, Eat, Think
<1>4. CASE Locking(p) \/ SpuriousWakeup(p)
  BY <1>4 DEF Locking, LockCanEat, Relock, LockBowl, SpuriousWakeup
<1>5. CASE TryLock(p) \/ CondWait(p) \/ UnlockCanEat(p) \/ UnlockBowl(p)
  BY <1>5 DEF TryLock, CondWait, UnlockCanEat, UnlockBowl
<1>6. CASE PickupRight(p) \/ PickupLeft(p) \/ PutdownRight(p) \/ PutdownLeft(p)
  BY <1>6 DEF PickupRight, PickupLeft, PutdownRight, PutdownLeft
<1>7. CASE Signal(p)
  <2>1. queue # <<>> => Head(queue) \in Phil /\ pc[Head(queue)] = "waiting"
    BY DEF QueueInv, TypeOK
  <2>2. state' = state /\ pc[p] = "signal" /\ pc'[p] = "unlock_cv2"
    BY <2>1, <1>7 DEF Signal
  <2> QED
    BY <2>2
<1> QED
  BY <1>3, <1>4, <1>5, <1>6, <1>7 DEF philosopher_thread, Going

\* A step of a thread keeps the queue: who enters it was not in it, who leaves
\* it is no longer waiting.
LEMMA QueueStep ==
  ASSUME TypeOK, QueueInv, NEW p \in Phil, philosopher_thread(p) \/ SpuriousWakeup(p)
  PROVE  QueueInv'
<1>1. /\ pc \in [Phil -> Steps] /\ queue \in Seq(Phil) /\ Len(queue) \in Nat
      /\ \A i \in 1..Len(queue) : queue[i] \in Phil /\ pc[queue[i]] = "waiting"
      /\ \A i, j \in 1..Len(queue) : i # j => queue[i] # queue[j]
  BY DEF TypeOK, QueueInv
<1>2. ASSUME NEW b \in Steps, pc[p] # "waiting", pc' = [pc EXCEPT ![p] = b], queue' = queue
      PROVE  QueueInv'
  BY <1>1, <1>2 DEF QueueInv
<1> USE DEF Goto, Steps, Refused, AtBowl
<1>3. CASE Locking(p)
  BY <1>2, <1>3 DEF Locking, LockCanEat, Relock, LockBowl
<1>4. CASE BecomeHungry(p) \/ TryLock(p) \/ UnlockCanEat(p) \/ UnlockBowl(p)
  BY <1>2, <1>4 DEF BecomeHungry, TryLock, UnlockCanEat, UnlockBowl
<1>5. CASE PickupRight(p) \/ PickupLeft(p) \/ Eat(p) \/ PutdownRight(p)
           \/ PutdownLeft(p) \/ Think(p)
  BY <1>2, <1>5 DEF PickupRight, PickupLeft, Eat, PutdownRight, PutdownLeft, Think
<1>6. CASE CondWait(p)
  <2>1. /\ pc[p] = "cond_wait" /\ pc' = [pc EXCEPT ![p] = "waiting"]
        /\ queue' = Append(queue, p)
    BY <1>6 DEF CondWait
  <2>2. /\ Len(queue') = Len(queue) + 1 /\ queue'[Len(queue) + 1] = p
        /\ \A i \in 1..Len(queue) : queue'[i] = queue[i]
    BY <2>1, <1>1
  <2> DEFINE n == Len(queue)
  <2>p. \A i \in 1..n : queue[i] # p
    BY <2>1, <1>1
  <2>n. n \in Nat /\ \A i \in 1..Len(queue') : i \in 1..n \/ i = n + 1
    BY <2>2, <1>1
  <2>3. ASSUME NEW i \in 1..Len(queue') PROVE pc'[queue'[i]] = "waiting"
    <3>1. CASE i \in 1..n
      BY <3>1, <2>1, <2>2, <2>p, <1>1
    <3>2. CASE i = n + 1
      BY <3>2, <2>1, <2>2, <1>1
    <3> QED
      BY <3>1, <3>2, <2>n
  <2>4. ASSUME NEW i \in 1..Len(queue'), NEW j \in 1..Len(queue'), i # j
        PROVE  queue'[i] # queue'[j]
    <3>1. CASE i \in 1..n /\ j \in 1..n
      BY <3>1, <2>2, <2>4, <1>1
    <3>2. CASE i \in 1..n /\ j = n + 1
      BY <3>2, <2>2, <2>p
    <3>3. CASE i = n + 1 /\ j \in 1..n
      BY <3>3, <2>2, <2>p
    <3> QED
      BY <3>1, <3>2, <3>3, <2>n, <2>4
  <2> QED
    BY <2>3, <2>4 DEF QueueInv
<1>7. CASE Signal(p)
  <2>1. CASE queue = <<>>
    BY <2>1, <1>2, <1>7 DEF Signal
  <2>2. CASE queue # <<>>
    <3>1. /\ pc[p] = "signal"
          /\ pc' = [pc EXCEPT ![p] = "unlock_cv2", ![Head(queue)] = "relock"]
          /\ queue' = Tail(queue)
      BY <2>2, <1>7 DEF Signal
    <3>2. Len(queue) >= 1 /\ Head(queue) = queue[1]
      BY <2>2, <1>1
    <3>3. /\ Len(queue') = Len(queue) - 1
          /\ \A i \in 1..(Len(queue) - 1) : queue'[i] = queue[i + 1]
      BY <3>1, <3>2, <1>1
    <3>4. ASSUME NEW i \in 1..Len(queue') PROVE pc'[queue'[i]] = "waiting"
      <4>1. i + 1 \in 1..Len(queue) /\ i + 1 # 1 /\ queue'[i] = queue[i + 1]
        BY <3>3, <1>1
      <4>2. pc[queue[i + 1]] = "waiting" /\ queue[i + 1] # queue[1] /\ queue[i + 1] # p
        BY <4>1, <3>1, <3>2, <1>1
      <4> QED
        BY <4>1, <4>2, <3>1, <3>2, <1>1
    <3>5. ASSUME NEW i \in 1..Len(queue'), NEW j \in 1..Len(queue'), i # j
          PROVE  queue'[i] # queue'[j]
      BY <3>3, <3>5, <1>1
    <3> QED
      BY <3>4, <3>5 DEF QueueInv
  <2> QED
    BY <2>1, <2>2
<1>8. CASE SpuriousWakeup(p)
  <2>1. PICK k \in 1..Len(queue) : queue[k] = p /\ queue' = RemoveAt(queue, k)
    BY <1>8 DEF SpuriousWakeup
  <2>2. pc' = [pc EXCEPT ![p] = "relock"]
    BY <1>8 DEF SpuriousWakeup
  <2> DEFINE r == RemoveAt(queue, k)
  <2>3. /\ \A i \in 1..Len(r) : \E j \in 1..Len(queue) \ {k} : r[i] = queue[j]
        /\ \A i, j \in 1..Len(r) : i # j => r[i] # r[j]
    BY <1>1, RemoveOne
  <2>4. queue' = r
    BY <2>1
  <2> HIDE DEF r
  <2>5. ASSUME NEW i \in 1..Len(r) PROVE pc'[r[i]] = "waiting"
    <3>1. PICK j \in 1..Len(queue) \ {k} : r[i] = queue[j]
      BY <2>3
    <3>2. queue[j] # p /\ queue[j] \in Phil /\ pc[queue[j]] = "waiting"
      BY <2>1, <1>1
    <3> QED
      BY <3>1, <3>2, <2>2, <1>1
  <2> QED
    BY <2>3, <2>4, <2>5 DEF QueueInv
<1> QED
  BY <1>3, <1>4, <1>5, <1>6, <1>7, <1>8 DEF philosopher_thread, Going

\* A step of a thread leaves somebody who is not on the way into the wait: the
\* only one who turns that way is refused by the owner of the bowl.
LEMMA OutStep ==
  ASSUME TypeOK, OwnerInv, QueueInv, SomeoneOut,
         NEW p \in Phil, philosopher_thread(p) \/ SpuriousWakeup(p)
  PROVE  SomeoneOut'
<1> DEFINE In == {"lock_cv", "cond_wait", "waiting"}
<1>1. \A q \in Phil \ {p} : pc[q] \notin In => pc'[q] \notin In
  BY PcStep
<1>2. pc \in [Phil -> Steps]
  BY DEF TypeOK
<1>3. CASE TryLock(p)
  <2>1. CASE bowl = Free
    BY <2>1, <1>2, <1>3 DEF TryLock, Goto, SomeoneOut
  <2>2. CASE bowl # Free
    <3>1. bowl \in Phil /\ pc[bowl] \in AtBowl
      BY <2>2 DEF TypeOK, OwnerInv
    <3>2. bowl # p /\ pc[bowl] \notin In
      BY <3>1, <1>3 DEF TryLock, Goto, AtBowl
    <3> QED
      BY <3>1, <3>2, <1>1 DEF SomeoneOut
  <2> QED
    BY <2>1, <2>2
<1>4. CASE pc[p] \in In /\ ~SpuriousWakeup(p)
  <2>1. PICK q \in Phil : pc[q] \notin In
    BY DEF SomeoneOut
  <2> QED
    BY <2>1, <1>1, <1>4 DEF SomeoneOut
<1>5. CASE SpuriousWakeup(p)
  BY <1>2, <1>5 DEF SpuriousWakeup, Goto, SomeoneOut
<1>6. CASE pc[p] \notin In /\ ~TryLock(p) /\ ~SpuriousWakeup(p)
  <2>1. pc'[p] \notin In
    <3> USE <1>2, <1>6 DEF Goto
    <3>1. CASE Locking(p)
      BY <3>1 DEF Locking, LockCanEat, Relock, LockBowl
    <3>2. CASE Signal(p)
      <4>1. queue # <<>> => Head(queue) \in Phil
        BY DEF TypeOK
      <4> QED
        BY <4>1, <3>2 DEF Signal
    <3>3. CASE Going(p) /\ ~Signal(p)
      BY <3>3 DEF Going, BecomeHungry, CondWait, UnlockCanEat, PickupRight,
                  PickupLeft, Eat, PutdownRight, PutdownLeft, Think, UnlockBowl
    <3> QED
      BY <3>1, <3>2, <3>3 DEF philosopher_thread
  <2> QED
    BY <2>1 DEF SomeoneOut
<1> QED
  BY <1>3, <1>4, <1>5, <1>6

\* A step of a thread keeps the chopsticks in one hand each: only the owner of
\* the bowl moves one.
LEMMA SticksStep ==
  ASSUME TypeOK, OwnerInv, QueueInv, ChopsticksHeld,
         NEW p \in Phil, philosopher_thread(p) \/ SpuriousWakeup(p)
  PROVE  ChopsticksHeld'
<1>1. /\ p \in Phil /\ pc \in [Phil -> Steps] /\ down \in [Phil -> BOOLEAN]
      /\ Left(p) \in Phil /\ Right(p) \in Phil
  BY Sides DEF TypeOK
<1>2. ASSUME NEW q \in Phil \ {p} PROVE Held(q)' = Held(q)
  BY <1>2, PcStep DEF Held, Left, Right
<1>3. ASSUME down' = down, Held(p)' = Held(p) PROVE ChopsticksHeld'
  BY <1>2, <1>3 DEF ChopsticksHeld
<1>4. ASSUME pc[p] \in AtBowl, NEW q \in Phil \ {p} PROVE Held(q) = {} /\ Held(q)' = {}
  <2>1. pc[q] \notin AtBowl
    BY <1>4 DEF OwnerInv
  <2> QED
    BY <2>1, <1>2, NoneHeld
<1>5. ASSUME pc[p] \in AtBowl PROVE \A c \in Phil : down[c] <=> c \notin Held(p)
  BY <1>4, <1>5 DEF ChopsticksHeld
<1>6. ASSUME pc[p] \in AtBowl, \A c \in Phil : down'[c] <=> c \notin Held(p)'
      PROVE  ChopsticksHeld'
  BY <1>4, <1>6 DEF ChopsticksHeld
<1> USE DEF Goto
<1>7. CASE PickupRight(p)
  <2>1. Held(p) = {} /\ Held(p)' = {Right(p)} /\ pc[p] \in AtBowl
    BY <1>1, <1>7 DEF PickupRight, Held, AtBowl, Right
  <2>2. \A c \in Phil : down'[c] <=> c \notin Held(p)'
    BY <2>1, <1>1, <1>5, <1>7 DEF PickupRight
  <2> QED
    BY <2>1, <2>2, <1>6
<1>8. CASE PickupLeft(p)
  <2>1. Held(p) = {Right(p)} /\ Held(p)' = {Left(p), Right(p)} /\ pc[p] \in AtBowl
    BY <1>1, <1>8 DEF PickupLeft, Held, AtBowl, Right, Left
  <2>2. \A c \in Phil : down'[c] <=> c \notin Held(p)'
    BY <2>1, <1>1, <1>5, <1>8 DEF PickupLeft
  <2> QED
    BY <2>1, <2>2, <1>6
<1>9. CASE PutdownRight(p)
  <2>1. /\ Held(p) = {Left(p), Right(p)} /\ Held(p)' = {Left(p)} \ {Right(p)}
        /\ pc[p] \in AtBowl
    BY <1>1, <1>9 DEF PutdownRight, Held, AtBowl, Right, Left
  <2>2. \A c \in Phil : down'[c] <=> c \notin Held(p)'
    BY <2>1, <1>1, <1>5, <1>9 DEF PutdownRight
  <2> QED
    BY <2>1, <2>2, <1>6
<1>10. CASE PutdownLeft(p)
  <2>1. Held(p) = {Left(p)} \ {Right(p)} /\ Held(p)' = {} /\ pc[p] \in AtBowl
    BY <1>1, <1>10 DEF PutdownLeft, Held, AtBowl, Right, Left
  <2>2. \A c \in Phil : down'[c] <=> c \notin Held(p)'
    BY <2>1, <1>1, <1>5, <1>10 DEF PutdownLeft
  <2> QED
    BY <2>1, <2>2, <1>6
<1>11. CASE Locking(p) \/ SpuriousWakeup(p)
  <2>1. down' = down /\ Held(p)' = Held(p)
    BY <1>1, <1>11 DEF Locking, LockCanEat, Relock, LockBowl, SpuriousWakeup, Held
  <2> QED
    BY <2>1, <1>3
<1>12. CASE BecomeHungry(p) \/ TryLock(p) \/ CondWait(p) \/ UnlockCanEat(p)
            \/ Think(p) \/ UnlockBowl(p)
  <2>1. down' = down /\ Held(p)' = Held(p)
    BY <1>1, <1>12 DEF BecomeHungry, TryLock, CondWait, UnlockCanEat, Think, UnlockBowl, Held
  <2> QED
    BY <2>1, <1>3
<1>13. CASE Eat(p)
  <2>1. down' = down /\ Held(p)' = Held(p)
    BY <1>1, <1>13 DEF Eat, Held, Left, Right
  <2> QED
    BY <2>1, <1>3
<1>14. CASE Signal(p)
  <2>1. queue # <<>> => Head(queue) \in Phil /\ pc[Head(queue)] = "waiting"
    BY DEF QueueInv, TypeOK
  <2>2. down' = down /\ pc[p] = "signal" /\ pc'[p] = "unlock_cv2"
    BY <2>1, <1>1, <1>14 DEF Signal
  <2>3. Held(p)' = Held(p)
    BY <2>2 DEF Held
  <2> QED
    BY <2>2, <2>3, <1>3
<1> QED
  BY <1>7, <1>8, <1>9, <1>10, <1>11, <1>12, <1>13, <1>14 DEF philosopher_thread, Going

\* Every step keeps the inductive invariant.
LEMMA StepInv == IndInv /\ [Next]_vars => IndInv'
<1> SUFFICES ASSUME IndInv, [Next]_vars PROVE IndInv'
  OBVIOUS
<1>1. ASSUME NEW p \in Phil, philosopher_thread(p) \/ SpuriousWakeup(p)
      PROVE  IndInv'
  BY <1>1, TypeStep, OwnerStep, CanEatStep, QueueStep, OutStep, EatingStep, SticksStep
     DEF IndInv
<1>2. CASE UNCHANGED vars
  <2>1. \A p \in Phil : Held(p)' = Held(p)
    BY <1>2 DEF vars, Held
  <2>2. ChopsticksHeld'
    BY <2>1, <1>2 DEF vars, IndInv, ChopsticksHeld
  <2>3. TypeOK' /\ QueueInv'
    BY <1>2 DEF vars, IndInv, TypeOK, QueueInv
  <2>4. OwnerInv' /\ CanEatInv' /\ SomeoneOut' /\ EatingInv'
    BY <1>2 DEF vars, IndInv, OwnerInv, CanEatInv, SomeoneOut, EatingInv
  <2> QED
    BY <2>2, <2>3, <2>4 DEF IndInv
<1> QED
  BY <1>1, <1>2 DEF Next

-----------------------------------------------------------------------------
(* The results.                                                            *)

\* The inductive invariant holds in every reachable state.
THEOREM Invariance == Spec => []IndInv
  BY InitInv, StepInv, PTL DEF Spec

\* The threads keep their types.
THEOREM TypeCorrect == Spec => []TypeOK
<1>1. IndInv => TypeOK
  BY DEF IndInv
<1> QED
  BY <1>1, Invariance, PTL

\* Only one philosopher is at the bowl, and only that one eats (REPORT:13).
THEOREM BowlCorrect == Spec => []BowlExclusive
<1>1. IndInv => BowlExclusive
  BY DEF IndInv, BowlExclusive, OwnerInv, EatingInv, AtBowl
<1> QED
  BY <1>1, Invariance, PTL

\* No chopstick is in two hands, or on the table and in a hand.
THEOREM ChopsticksCorrect == Spec => []ChopsticksHeld
<1>1. IndInv => ChopsticksHeld
  BY DEF IndInv
<1> QED
  BY <1>1, Invariance, PTL

\* However many philosophers there are, one of them can always go on
\* (REPORT:16): the owner of canEat_mutex never waits, the owner of the bowl
\* waits only for canEat_mutex, and with both free somebody is not waiting.
THEOREM DeadlockFreedom == Spec => []DeadlockFree
<1>1. IndInv => DeadlockFree
  <2> SUFFICES ASSUME IndInv PROVE \E p \in Phil : ~Blocked(p)
    BY DEF DeadlockFree
  <2> USE DEF IndInv
  <2>1. CASE canEat # Free
    <3>1. canEat \in Phil /\ pc[canEat] \in HasCanEat
      BY <2>1 DEF TypeOK, CanEatInv
    <3> QED
      BY <3>1 DEF HasCanEat, Blocked
  <2>2. CASE canEat = Free /\ bowl # Free
    <3>1. bowl \in Phil /\ pc[bowl] \in AtBowl
      BY <2>2 DEF TypeOK, OwnerInv
    <3> QED
      BY <3>1, <2>2 DEF AtBowl, Blocked
  <2>3. CASE canEat = Free /\ bowl = Free
    BY <2>3 DEF SomeoneOut, Blocked
  <2> QED
    BY <2>1, <2>2, <2>3
<1> QED
  BY <1>1, Invariance, PTL

============================================================================
