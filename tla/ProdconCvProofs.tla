--------------------------- MODULE ProdconCvProofs ---------------------------
(***************************************************************************)
(* Proofs about prodcon_cv.cpp, for any number of threads and of spurious  *)
(* wakeups.                                                                *)
(***************************************************************************)
EXTENDS ProdconCv, FiniteSetTheorems, TLAPS

\* TypeOK without the bounds of pos, which follow in the end
TypeInv ==
  /\ pc \in [Threads -> Steps]
  /\ owner \in [Mutexes -> Threads \cup {Free}]
  /\ pos \in Int
  /\ spurious \in [{"canRead", "canWrite"} -> 0..MaxSpurious]

\* What a thread found out about pos still holds when it signals.
CheckInv == \A t \in Threads : pc[t] \in {"lock_other", "signal"} => CanGoOn(t)

\* The consumers that may have given a write away and have not removed an item
\* since
Given == {t \in Consumers :
            pc[t] \notin {"lock", "check", "lock_other", "signal", "unlock_item"}}

\* Each of them has given one write away, at most.
GivenInv ==
  pos + Cardinality(Woken(Producers)) <= Cardinality(Given) + spurious["canWrite"]

IndInv == TypeInv /\ MutexesHeld /\ CheckInv /\ GivenInv /\ ReadsBounded

-----------------------------------------------------------------------------
(* The mutexes.                                                            *)

LEMMA Sides ==
  /\ \A t \in Threads : /\ Own(t) \in {"canRead", "canWrite"}
                        /\ Other(t) \in {"canRead", "canWrite"}
                        /\ Own(t) # Other(t)
  /\ \A m \in {"canRead", "canWrite"} : m \in Mutexes /\ m # "mutex"
  /\ "mutex" \in Mutexes
  /\ Free \notin Threads
BY ThreadsAssumption DEF Own, Other, Mutexes, Threads, Free

LEMMA TypeStep ==
  ASSUME TypeInv, NEW t \in Threads,
         \/ LockMutex(t) \/ Check(t) \/ LockOther(t) \/ Signal(t) \/ UnlockOther(t)
         \/ UnlockMutex(t) \/ LockOwn(t) \/ CondWait(t) \/ SpuriousWakeup(t)
         \/ Relock(t) \/ UnlockOwn(t) \/ LockItem(t) \/ Item(t) \/ UnlockItem(t)
  PROVE  TypeInv'
<1> USE Sides DEF TypeInv
<1>1. CASE \/ LockMutex(t) \/ LockOther(t) \/ LockOwn(t) \/ Relock(t) \/ LockItem(t)
  BY <1>1 DEF LockMutex, LockOther, LockOwn, Relock, LockItem, Goto, Lock, Steps
<1>2. CASE \/ UnlockOther(t) \/ UnlockMutex(t) \/ CondWait(t) \/ UnlockOwn(t)
           \/ UnlockItem(t)
  BY <1>2 DEF UnlockOther, UnlockMutex, CondWait, UnlockOwn, UnlockItem, Goto, Unlock,
              Steps
<1>3. CASE Check(t) \/ Item(t)
  BY <1>3 DEF Check, Item, Goto, Steps
<1>4. CASE Signal(t)
  <2>1. pc' \in [Threads -> Steps]
    BY <1>4 DEF Signal, Goto, Waiting, Steps
  <2> QED
    BY <1>4, <2>1 DEF Signal
<1>5. CASE SpuriousWakeup(t)
  <2>1. spurious' \in [{"canRead", "canWrite"} -> 0..MaxSpurious]
    BY <1>5, SpuriousAssumption DEF SpuriousWakeup
  <2> QED
    BY <1>5, <2>1 DEF SpuriousWakeup, Goto, Steps
<1> QED
  BY <1>1, <1>2, <1>3, <1>4, <1>5

\* A thread locks a mutex that is free.
LEMMA LockStep ==
  ASSUME TypeInv, MutexesHeld, NEW t \in Threads,
         \/ LockMutex(t) \/ LockOther(t) \/ LockOwn(t) \/ Relock(t) \/ LockItem(t)
  PROVE  MutexesHeld'
<1> USE Sides DEF TypeInv, MutexesHeld, Goto, Lock
<1>1. CASE LockMutex(t) \/ LockItem(t)
  BY <1>1 DEF LockMutex, LockItem
<1>2. CASE LockOther(t)
  BY <1>2 DEF LockOther
<1>3. CASE LockOwn(t) \/ Relock(t)
  BY <1>3 DEF LockOwn, Relock
<1> QED
  BY <1>1, <1>2, <1>3

\* A thread unlocks a mutex it holds.
LEMMA UnlockStep ==
  ASSUME TypeInv, MutexesHeld, NEW t \in Threads,
         \/ UnlockOther(t) \/ UnlockMutex(t) \/ CondWait(t) \/ UnlockOwn(t)
         \/ UnlockItem(t)
  PROVE  MutexesHeld'
<1> USE Sides DEF TypeInv, MutexesHeld, Goto, Unlock
<1>1. CASE UnlockMutex(t) \/ UnlockItem(t)
  BY <1>1 DEF UnlockMutex, UnlockItem
<1>2. CASE UnlockOther(t)
  BY <1>2 DEF UnlockOther
<1>3. CASE CondWait(t) \/ UnlockOwn(t)
  BY <1>3 DEF CondWait, UnlockOwn
<1> QED
  BY <1>1, <1>2, <1>3

LEMMA MutexesStep ==
  ASSUME TypeInv, MutexesHeld, NEW t \in Threads,
         \/ LockMutex(t) \/ Check(t) \/ LockOther(t) \/ Signal(t) \/ UnlockOther(t)
         \/ UnlockMutex(t) \/ LockOwn(t) \/ CondWait(t) \/ SpuriousWakeup(t)
         \/ Relock(t) \/ UnlockOwn(t) \/ LockItem(t) \/ Item(t) \/ UnlockItem(t)
  PROVE  MutexesHeld'
<1>1. CASE \/ LockMutex(t) \/ LockOther(t) \/ LockOwn(t) \/ Relock(t) \/ LockItem(t)
  BY <1>1, LockStep
<1>2. CASE \/ UnlockOther(t) \/ UnlockMutex(t) \/ CondWait(t) \/ UnlockOwn(t)
           \/ UnlockItem(t)
  BY <1>2, UnlockStep
<1>3. CASE Check(t) \/ SpuriousWakeup(t) \/ Item(t)
  BY <1>3 DEF TypeInv, MutexesHeld, Check, SpuriousWakeup, Item, Goto
<1>4. CASE Signal(t)
  BY <1>4 DEF TypeInv, MutexesHeld, Signal, Goto, Waiting
<1> QED
  BY <1>1, <1>2, <1>3, <1>4

\* pos moves only while its mover holds mutex, as does a thread that is about to
\* signal.
LEMMA CheckStep ==
  ASSUME TypeInv, MutexesHeld, CheckInv, NEW t \in Threads,
         \/ LockMutex(t) \/ Check(t) \/ LockOther(t) \/ Signal(t) \/ UnlockOther(t)
         \/ UnlockMutex(t) \/ LockOwn(t) \/ CondWait(t) \/ SpuriousWakeup(t)
         \/ Relock(t) \/ UnlockOwn(t) \/ LockItem(t) \/ Item(t) \/ UnlockItem(t)
  PROVE  CheckInv'
<1>1. CASE Item(t)
  <2>1. owner["mutex"] = t
    BY <1>1 DEF Item, Goto, MutexesHeld
  <2>2. \A u \in Threads : pc'[u] \notin {"lock_other", "signal"}
    BY <1>1, <2>1 DEF Item, Goto, MutexesHeld, TypeInv
  <2> QED
    BY <2>2 DEF CheckInv
<1>2. CASE ~Item(t)
  <2>1. pos' = pos
    BY <1>2 DEF LockMutex, Check, LockOther, Signal, UnlockOther, UnlockMutex, LockOwn,
                CondWait, SpuriousWakeup, Relock, UnlockOwn, LockItem, UnlockItem
  <2>2. \A u \in Threads : CanGoOn(u)' = CanGoOn(u)
    BY <2>1 DEF CanGoOn
  <2>3. CASE Check(t)
    BY <2>2, <2>3 DEF CheckInv, Check, Goto, TypeInv
  <2>4. CASE Signal(t)
    BY <2>2, <2>4 DEF CheckInv, Signal, Goto, Waiting, TypeInv
  <2>5. CASE ~Check(t) /\ ~Signal(t)
    BY <1>2, <2>2, <2>5 DEF CheckInv, TypeInv, Goto, LockMutex, LockOther, UnlockOther,
       UnlockMutex, LockOwn, CondWait, SpuriousWakeup, Relock, UnlockOwn, LockItem, UnlockItem
  <2> QED
    BY <2>3, <2>4, <2>5
<1> QED
  BY <1>1, <1>2

-----------------------------------------------------------------------------
(* Counting threads.                                                       *)

\* A set of threads of one side
LEMMA CountFinite ==
  ASSUME NEW T \in {Producers, Consumers}, NEW X \in SUBSET T
  PROVE  /\ IsFiniteSet(X) /\ Cardinality(X) \in Nat
         /\ Cardinality(X) <= BufferLen
         /\ \A w \in T \ X : Cardinality(X) < BufferLen
<1>1. IsFiniteSet(T) /\ Cardinality(T) = BufferLen
  BY ThreadsAssumption DEF BufferLen
<1>2. IsFiniteSet(X) /\ Cardinality(X) <= Cardinality(T)
  BY <1>1, FS_Subset
<1>3. Cardinality(X) \in Nat /\ Cardinality(T) \in Nat
  BY <1>1, <1>2, FS_CardinalityType
<1>4. ASSUME NEW w \in T \ X PROVE Cardinality(X) < Cardinality(T)
  <2>1. Cardinality(X \cup {w}) = Cardinality(X) + 1
    BY <1>2, <1>4, FS_AddElement
  <2>2. Cardinality(X \cup {w}) <= Cardinality(T)
    BY <1>1, <1>4, FS_Subset
  <2> QED
    BY <1>3, <2>1, <2>2
<1> QED
  BY <1>1, <1>2, <1>3, <1>4

LEMMA CountTypes ==
  /\ Woken(Producers) \subseteq Producers /\ Cardinality(Woken(Producers)) \in Nat
  /\ Woken(Consumers) \subseteq Consumers /\ Cardinality(Woken(Consumers)) \in Nat
  /\ Given \subseteq Consumers /\ Cardinality(Given) \in Nat
  /\ Cardinality(Given) <= BufferLen
  /\ BufferLen \in Nat
<1>1. Woken(Producers) \in SUBSET Producers /\ Woken(Consumers) \in SUBSET Consumers
      /\ Given \in SUBSET Consumers
  BY DEF Woken, Given
<1>2. BufferLen \in Nat
  BY ThreadsAssumption, FS_CardinalityType DEF BufferLen
<1> QED
  BY <1>1, <1>2, CountFinite

LEMMA AddOne ==
  ASSUME NEW T \in {Producers, Consumers}, NEW X \in SUBSET T, NEW w \in T, w \notin X
  PROVE  Cardinality(X \cup {w}) = Cardinality(X) + 1
BY CountFinite, FS_AddElement

LEMMA RemoveOne ==
  ASSUME NEW T \in {Producers, Consumers}, NEW X \in SUBSET T, NEW w \in X
  PROVE  Cardinality(X \ {w}) = Cardinality(X) - 1
BY CountFinite, FS_RemoveElement

\* A step of thread t that neither wakes anyone, nor moves the head, nor gives a
\* write away
LEMMA PlainStep ==
  ASSUME IndInv, NEW t \in Threads, NEW b,
         pc' = [pc EXCEPT ![t] = b], pos' = pos, spurious' = spurious,
         \/ pc[t] = "unlock_item" /\ b = "lock"
         \/ pc[t] = "lock" /\ b = "check"
         \/ pc[t] = "check" /\ b = "lock_other"
         \/ pc[t] = "lock_other" /\ b = "signal"
         \/ pc[t] = "unlock_other" /\ b = "unlock"
         \/ pc[t] = "unlock" /\ b = "lock_own"
         \/ pc[t] = "lock_own" /\ b = "cond_wait"
         \/ pc[t] = "cond_wait" /\ b = "waiting"
         \/ pc[t] = "relock" /\ b = "unlock_own"
         \/ pc[t] = "unlock_own" /\ b = "lock_item"
         \/ pc[t] = "lock_item" /\ b = "item"
  PROVE  GivenInv' /\ ReadsBounded'
<1>1. Woken(Producers)' = Woken(Producers) /\ Woken(Consumers)' = Woken(Consumers)
      /\ Given' = Given
  BY DEF Woken, Given, IndInv, TypeInv, Threads
<1> QED
  BY <1>1 DEF IndInv, GivenInv, ReadsBounded

\* A thread finds that the other side cannot go on, or signals and nobody waits.
LEMMA GiveStep ==
  ASSUME IndInv, NEW t \in Threads, NEW b, b \in {"unlock", "unlock_other"},
         pc[t] \in {"check", "signal"},
         pc' = [pc EXCEPT ![t] = b], pos' = pos, spurious' = spurious
  PROVE  GivenInv' /\ ReadsBounded'
<1>1. Woken(Producers)' = Woken(Producers) /\ Woken(Consumers)' = Woken(Consumers)
  BY DEF Woken, IndInv, TypeInv, Threads
<1>2. CASE t \in Consumers
  <2>1. Given' = Given \cup {t} /\ t \notin Given
    BY <1>2 DEF Given, IndInv, TypeInv, Threads
  <2>2. Cardinality(Given \cup {t}) = Cardinality(Given) + 1
    BY <1>2, <2>1, AddOne, CountTypes
  <2> QED
    BY <1>1, <2>1, <2>2, CountTypes DEF IndInv, TypeInv, GivenInv, ReadsBounded
<1>3. CASE t \notin Consumers
  <2>1. Given' = Given
    BY <1>3 DEF Given, IndInv, TypeInv, Threads
  <2> QED
    BY <1>1, <2>1 DEF IndInv, GivenInv, ReadsBounded
<1> QED
  BY <1>2, <1>3

\* A consumer wakes a producer: it has given a write away.
LEMMA WakeProducerStep ==
  ASSUME IndInv, NEW t \in Consumers, NEW w \in Producers, pc[t] = "signal",
         pc[w] = "waiting", pc' = [pc EXCEPT ![t] = "unlock_other", ![w] = "relock"],
         pos' = pos, spurious' = spurious
  PROVE  GivenInv' /\ ReadsBounded'
<1>0. t \notin Producers /\ w \notin Consumers /\ t \in Threads /\ w \in Threads
  BY ThreadsAssumption DEF Threads
<1>1. /\ Woken(Producers)' = Woken(Producers) \cup {w} /\ w \notin Woken(Producers)
      /\ Woken(Consumers)' = Woken(Consumers)
      /\ Given' = Given \cup {t} /\ t \notin Given
  BY <1>0 DEF Woken, Given, IndInv, TypeInv, Threads
<1>2. Cardinality(Woken(Producers)') = Cardinality(Woken(Producers)) + 1
  BY <1>1, CountTypes, AddOne
<1>3. Cardinality(Given') = Cardinality(Given) + 1
  BY <1>1, CountTypes, AddOne
<1> QED
  BY <1>1, <1>2, <1>3, CountTypes DEF IndInv, TypeInv, GivenInv, ReadsBounded

\* A producer wakes a consumer: the head is not at its beginning, and not every
\* consumer was woken.
LEMMA WakeConsumerStep ==
  ASSUME IndInv, NEW t \in Producers, NEW w \in Consumers, pc[t] = "signal",
         pc[w] = "waiting", pc' = [pc EXCEPT ![t] = "unlock_other", ![w] = "relock"],
         pos' = pos, spurious' = spurious
  PROVE  GivenInv' /\ ReadsBounded'
<1>0. t \notin Consumers /\ w \notin Producers /\ t \in Threads /\ w \in Threads
  BY ThreadsAssumption DEF Threads
<1>1. /\ Woken(Consumers)' = Woken(Consumers) \cup {w} /\ w \notin Woken(Consumers)
      /\ Woken(Producers)' = Woken(Producers)
      /\ Given' = Given
  BY <1>0 DEF Woken, Given, IndInv, TypeInv, Threads
<1>2. Cardinality(Woken(Consumers)') = Cardinality(Woken(Consumers)) + 1
  BY <1>1, CountTypes, AddOne
<1>3. Cardinality(Woken(Consumers)) < BufferLen
  BY <1>1, CountTypes, CountFinite
<1>4. pos > 0
  BY <1>0 DEF IndInv, CheckInv, CanGoOn
<1>5. spurious["canRead"] \in Nat
  BY SpuriousAssumption DEF IndInv, TypeInv
<1>6. ReadsBounded'
  BY <1>2, <1>3, <1>4, <1>5, CountTypes DEF IndInv, TypeInv, ReadsBounded
<1> QED
  BY <1>1, <1>6 DEF IndInv, GivenInv

LEMMA SpuriousStep ==
  ASSUME IndInv, NEW t \in Threads, SpuriousWakeup(t)
  PROVE  GivenInv' /\ ReadsBounded'
<1>0. /\ spurious["canRead"] \in Nat /\ spurious["canWrite"] \in Nat /\ pos \in Int
      /\ pos' = pos
  BY SpuriousAssumption DEF IndInv, TypeInv, SpuriousWakeup
<1>1. Given' = Given
  BY DEF Given, SpuriousWakeup, Goto, IndInv, TypeInv, Threads
<1>2. CASE t \in Producers
  <2>0. t \notin Consumers
    BY <1>2, ThreadsAssumption
  <2>1. /\ Woken(Producers)' = Woken(Producers) \cup {t} /\ t \notin Woken(Producers)
        /\ Woken(Consumers)' = Woken(Consumers)
    BY <1>2, <2>0 DEF Woken, SpuriousWakeup, Goto, IndInv, TypeInv, Threads
  <2>2. Cardinality(Woken(Producers)') = Cardinality(Woken(Producers)) + 1
    BY <1>2, <2>1, CountTypes, AddOne
  <2>3. spurious'["canWrite"] = spurious["canWrite"] + 1
        /\ spurious'["canRead"] = spurious["canRead"]
    BY <1>2 DEF SpuriousWakeup, Own, IndInv, TypeInv
  <2>4. GivenInv'
    BY <1>0, <1>1, <2>2, <2>3, CountTypes DEF IndInv, GivenInv
  <2> QED
    BY <1>0, <2>1, <2>3, <2>4 DEF IndInv, ReadsBounded
<1>3. CASE t \in Consumers
  <2>0. t \notin Producers
    BY <1>3, ThreadsAssumption
  <2>1. /\ Woken(Consumers)' = Woken(Consumers) \cup {t} /\ t \notin Woken(Consumers)
        /\ Woken(Producers)' = Woken(Producers)
    BY <1>3, <2>0 DEF Woken, SpuriousWakeup, Goto, IndInv, TypeInv, Threads
  <2>2. Cardinality(Woken(Consumers)') = Cardinality(Woken(Consumers)) + 1
    BY <1>3, <2>1, CountTypes, AddOne
  <2>3. spurious'["canRead"] = spurious["canRead"] + 1
        /\ spurious'["canWrite"] = spurious["canWrite"]
    BY <2>0 DEF SpuriousWakeup, Own, IndInv, TypeInv
  <2>4. ReadsBounded'
    BY <1>0, <2>2, <2>3, CountTypes DEF IndInv, ReadsBounded
  <2> QED
    BY <1>0, <1>1, <2>1, <2>3, <2>4 DEF IndInv, GivenInv
<1> QED
  BY <1>2, <1>3 DEF Threads

LEMMA ItemStep ==
  ASSUME IndInv, NEW t \in Threads, Item(t)
  PROVE  GivenInv' /\ ReadsBounded'
<1>0. /\ spurious["canRead"] \in Nat /\ spurious["canWrite"] \in Nat /\ pos \in Int
      /\ spurious' = spurious
  BY SpuriousAssumption DEF IndInv, TypeInv, Item
<1>1. CASE t \in Producers
  <2>0. t \notin Consumers
    BY <1>1, ThreadsAssumption
  <2>1. /\ Woken(Producers)' = Woken(Producers) \ {t} /\ t \in Woken(Producers)
        /\ Woken(Consumers)' = Woken(Consumers) /\ Given' = Given /\ pos' = pos + 1
    BY <1>1, <2>0 DEF Woken, Given, Item, Goto, IndInv, TypeInv, Threads
  <2>2. Cardinality(Woken(Producers)') = Cardinality(Woken(Producers)) - 1
    BY <2>1, CountTypes, RemoveOne
  <2> QED
    BY <1>0, <2>1, <2>2, CountTypes DEF IndInv, GivenInv, ReadsBounded
<1>2. CASE t \in Consumers
  <2>0. t \notin Producers
    BY <1>2, ThreadsAssumption
  <2>1. /\ Woken(Consumers)' = Woken(Consumers) \ {t} /\ t \in Woken(Consumers)
        /\ Given' = Given \ {t} /\ t \in Given
        /\ Woken(Producers)' = Woken(Producers) /\ pos' = pos - 1
    BY <1>2, <2>0 DEF Woken, Given, Item, Goto, IndInv, TypeInv, Threads
  <2>2. Cardinality(Woken(Consumers)') = Cardinality(Woken(Consumers)) - 1
        /\ Cardinality(Given') = Cardinality(Given) - 1
    BY <2>1, CountTypes, RemoveOne
  <2> QED
    BY <1>0, <2>1, <2>2, CountTypes DEF IndInv, GivenInv, ReadsBounded
<1> QED
  BY <1>1, <1>2 DEF Threads

LEMMA CountStep ==
  ASSUME IndInv, NEW t \in Threads,
         \/ LockMutex(t) \/ Check(t) \/ LockOther(t) \/ Signal(t) \/ UnlockOther(t)
         \/ UnlockMutex(t) \/ LockOwn(t) \/ CondWait(t) \/ SpuriousWakeup(t)
         \/ Relock(t) \/ UnlockOwn(t) \/ LockItem(t) \/ Item(t) \/ UnlockItem(t)
  PROVE  GivenInv' /\ ReadsBounded'
<1>1. CASE \/ LockMutex(t) \/ LockOther(t) \/ UnlockOther(t) \/ UnlockMutex(t)
           \/ LockOwn(t) \/ CondWait(t) \/ Relock(t) \/ UnlockOwn(t) \/ LockItem(t)
           \/ UnlockItem(t)
  BY <1>1, PlainStep DEF LockMutex, LockOther, UnlockOther, UnlockMutex, LockOwn, CondWait,
     Relock, UnlockOwn, LockItem, UnlockItem, Goto
<1>2. CASE Check(t)
  BY <1>2, PlainStep, GiveStep DEF Check, Goto
<1>3. CASE Signal(t)
  <2>1. CASE Goto(t, "signal", "unlock_other")
    BY <1>3, <2>1, GiveStep DEF Signal, Goto
  <2>2. ASSUME NEW w \in Waiting(Other(t)), pc[t] = "signal",
               pc' = [pc EXCEPT ![t] = "unlock_other", ![w] = "relock"]
        PROVE  GivenInv' /\ ReadsBounded'
    <3>1. \/ t \in Producers /\ w \in Consumers
          \/ t \in Consumers /\ w \in Producers
      BY <2>2, ThreadsAssumption DEF Waiting, Own, Other, Threads
    <3>2. pc[w] = "waiting" /\ pos' = pos /\ spurious' = spurious
      BY <1>3 DEF Waiting, Signal
    <3> QED
      BY <2>2, <3>1, <3>2, WakeProducerStep, WakeConsumerStep
  <2> QED
    BY <1>3, <2>1, <2>2 DEF Signal
<1>4. CASE SpuriousWakeup(t)
  BY <1>4, SpuriousStep
<1>5. CASE Item(t)
  BY <1>5, ItemStep
<1> QED
  BY <1>1, <1>2, <1>3, <1>4, <1>5

-----------------------------------------------------------------------------
(* The invariant is inductive.                                             *)

LEMMA InitInv == Init => IndInv
<1> SUFFICES ASSUME Init PROVE IndInv
  OBVIOUS
<1>1. TypeInv
  BY SpuriousAssumption DEF Init, TypeInv, Steps
<1>2. MutexesHeld /\ CheckInv
  BY Sides DEF Init, MutexesHeld, CheckInv
<1>3. Woken(Producers) = {} /\ Woken(Consumers) = {} /\ Given = {}
  BY DEF Init, Woken, Given, Threads
<1>4. Cardinality({}) = 0 /\ BufferLen > 0
  BY ThreadsAssumption, FS_EmptySet, FS_CardinalityType DEF BufferLen
<1>5. GivenInv /\ ReadsBounded
  BY <1>3, <1>4, CountTypes DEF Init, GivenInv, ReadsBounded
<1> QED
  BY <1>1, <1>2, <1>5 DEF IndInv

LEMMA StepInv == IndInv /\ [Next]_vars => IndInv'
<1> SUFFICES ASSUME IndInv, [Next]_vars PROVE IndInv'
  OBVIOUS
<1>1. CASE UNCHANGED vars
  BY <1>1 DEF vars, IndInv, TypeInv, MutexesHeld, CheckInv, CanGoOn, GivenInv,
              ReadsBounded, Woken, Given
<1>2. CASE Next
  <2>1. PICK t \in Threads :
          \/ LockMutex(t) \/ Check(t) \/ LockOther(t) \/ Signal(t) \/ UnlockOther(t)
          \/ UnlockMutex(t) \/ LockOwn(t) \/ CondWait(t) \/ SpuriousWakeup(t)
          \/ Relock(t) \/ UnlockOwn(t) \/ LockItem(t) \/ Item(t) \/ UnlockItem(t)
    BY <1>2 DEF Next
  <2>2. TypeInv'
    BY <2>1, TypeStep DEF IndInv
  <2>3. MutexesHeld'
    BY <2>1, MutexesStep DEF IndInv
  <2>4. CheckInv'
    BY <2>1, CheckStep DEF IndInv
  <2>5. GivenInv' /\ ReadsBounded'
    BY <2>1, CountStep
  <2> QED
    BY <2>2, <2>3, <2>4, <2>5 DEF IndInv
<1> QED
  BY <1>1, <1>2

LEMMA Inductive == Spec => []IndInv
BY InitInv, StepInv, PTL DEF Spec

-----------------------------------------------------------------------------
(* What is proved.                                                         *)

\* mutex, canRead_mutex and canWrite_mutex are held by the threads between the
\* calls that lock and unlock them, and by nobody else.
THEOREM MutexesCorrect == Spec => []MutexesHeld
<1>1. IndInv => MutexesHeld
  BY DEF IndInv
<1> QED
  BY <1>1, Inductive, PTL

\* The nested locks never stop all threads: the holder of mutex can wait for a
\* condition variable's mutex only, and who holds that one goes on.
THEOREM NoLockCycleCorrect == Spec => []NoLockCycle
<1>1. IndInv => NoLockCycle
  <2> SUFFICES ASSUME IndInv, \A t \in Threads : Blocked(t), NEW t \in Threads
               PROVE  pc[t] = "waiting"
    BY DEF NoLockCycle
  <2> USE Sides
  <2>1. ASSUME NEW u \in Threads, NEW m \in {"canRead", "canWrite"}
        PROVE  owner[m] # u
    <3>1. m = Own(u) \/ m = Other(u)
      BY DEF Own, Other
    <3> QED
      BY <3>1 DEF IndInv, MutexesHeld, Blocked
  <2>2. \A m \in {"canRead", "canWrite"} : owner[m] = Free
    BY <2>1 DEF IndInv, TypeInv
  <2>3. \A u \in Threads : pc[u] \notin {"lock_other", "lock_own", "relock"}
    BY <2>2 DEF Blocked
  <2>4. owner["mutex"] = Free
    <3>1. \A u \in Threads : owner["mutex"] # u
      BY <2>3 DEF IndInv, MutexesHeld, Blocked
    <3> QED
      BY <3>1 DEF IndInv, TypeInv
  <2> QED
    BY <2>3, <2>4 DEF Blocked
<1> QED
  BY <1>1, Inductive, PTL

\* Spurious wakeups apart, the producers never write past the buffer length,
\* although they do not look at pos after their wait.
THEOREM WritesCorrect == Spec => []WritesBounded
<1>1. IndInv => WritesBounded
  <2> SUFFICES ASSUME IndInv PROVE WritesBounded
    OBVIOUS
  <2>1. spurious["canWrite"] \in Nat /\ pos \in Int
    BY SpuriousAssumption DEF IndInv, TypeInv
  <2> QED
    BY <2>1, CountTypes DEF IndInv, GivenInv, WritesBounded
<1> QED
  BY <1>1, Inductive, PTL

\* How far the consumers read in front of the buffer: at most by one less than
\* the number of producers, spurious wakeups apart.
THEOREM ReadsCorrect == Spec => []ReadsBounded
<1>1. IndInv => ReadsBounded
  BY DEF IndInv
<1> QED
  BY <1>1, Inductive, PTL

\* Types, with the bounds of the head that follow from the two theorems before.
THEOREM TypeCorrect == Spec => []TypeOK
<1>1. IndInv => TypeOK
  <2> SUFFICES ASSUME IndInv PROVE TypeOK
    OBVIOUS
  <2>1. spurious["canWrite"] \in Nat /\ spurious["canRead"] \in Nat /\ pos \in Int
    BY SpuriousAssumption DEF IndInv, TypeInv
  <2>2. pos <= BufferLen + spurious["canWrite"]
    BY <2>1, CountTypes DEF IndInv, GivenInv
  <2>3. pos >= 1 - BufferLen - spurious["canRead"]
    BY <2>1, CountTypes DEF IndInv, ReadsBounded
  <2> QED
    BY <2>1, <2>2, <2>3, CountTypes DEF IndInv, TypeInv, TypeOK
<1> QED
  BY <1>1, Inductive, PTL

============================================================================
