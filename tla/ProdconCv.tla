----------------------------- MODULE ProdconCv -----------------------------
(***************************************************************************)
(* Asmt_5/prodcon/prodcon_cv.cpp: bufferlen producers and bufferlen        *)
(* consumers share a buffer with one head pos.  ProducerStart and          *)
(* ConsumerStart are mirror images: a thread tells the other side when     *)
(* pos lets it go on, waits on the condition variable of its own side      *)
(* (with no predicate to test), then moves the head.                       *)
(*                                                                         *)
(* The content of the buffer is left out: every item is 'A'.  A thread     *)
(* main has not created yet is one that has not taken its first step.      *)
(***************************************************************************)
EXTENDS Integers, FiniteSets

CONSTANTS
  Producers, Consumers,   \* the threads main creates, lines 215-224
  MaxSpurious             \* how often pthread_cond_wait may return unsignalled

ASSUME ThreadsAssumption ==
  /\ IsFiniteSet(Producers) /\ Producers # {}
  /\ IsFiniteSet(Consumers) /\ Cardinality(Consumers) = Cardinality(Producers)
  /\ Producers \cap Consumers = {}
  /\ "free" \notin Producers \cup Consumers   \* see Free
ASSUME SpuriousAssumption == MaxSpurious \in Nat

Threads == Producers \cup Consumers
BufferLen == Cardinality(Producers)

\* The three mutexes, and "free" for the owner of one that is not locked.
Mutexes == {"mutex", "canRead", "canWrite"}
Free == "free"

VARIABLES
  pc,      \* the next step of each thread
  owner,   \* the thread that holds each mutex
  pos,     \* the read/write head
  spurious \* how often each condition variable woke a thread unsignalled

vars == <<pc, owner, pos, spurious>>

\* The steps of one round, in order.
Steps == {"lock", "check", "lock_other", "signal", "unlock_other", "unlock",
          "lock_own", "cond_wait", "waiting", "relock", "unlock_own",
          "lock_item", "item", "unlock_item"}

\* The condition variable, with its mutex, a thread waits on and the one it
\* signals.
Own(t) == IF t \in Producers THEN "canWrite" ELSE "canRead"
Other(t) == IF t \in Producers THEN "canRead" ELSE "canWrite"

\* Thread t goes on from step a to step b.
Goto(t, a, b) == pc[t] = a /\ pc' = [pc EXCEPT ![t] = b]

\* pthread_mutex_lock and pthread_mutex_unlock of mutex m.
Lock(t, m) == owner[m] = Free /\ owner' = [owner EXCEPT ![m] = t]
Unlock(m) == owner' = [owner EXCEPT ![m] = Free]

Init ==
  /\ pc = [t \in Threads |-> "lock"]
  /\ owner = [m \in Mutexes |-> Free]
  /\ pos = 0
  /\ spurious = [c \in {"canRead", "canWrite"} |-> 0]

-----------------------------------------------------------------------------
(* Telling the other side.                                                 *)

\* pthread_mutex_lock(&mutex)
LockMutex(t) ==
  /\ Goto(t, "lock", "check") /\ Lock(t, "mutex")
  /\ UNCHANGED <<pos, spurious>>

\* Whether the other side can go on: lines 88 and 125.
CanGoOn(t) == IF t \in Producers THEN pos > 0 ELSE pos < BufferLen

\* Faulty variant: the other side is always told.
Check_Dropped(t) ==
  /\ Goto(t, "check", "lock_other")
  /\ UNCHANGED <<owner, pos, spurious>>

\* if (pos > 0), if (pos < bufferlen)
Check(t) ==
  /\ \/ CanGoOn(t) /\ Goto(t, "check", "lock_other")
     \/ ~CanGoOn(t) /\ Goto(t, "check", "unlock")
  /\ UNCHANGED <<owner, pos, spurious>>

\* pthread_mutex_lock of the other side's mutex
LockOther(t) ==
  /\ Goto(t, "lock_other", "signal") /\ Lock(t, Other(t))
  /\ UNCHANGED <<pos, spurious>>

\* The threads that wait on the condition variable c.
Waiting(c) == {w \in Threads : pc[w] = "waiting" /\ Own(w) = c}

\* Faulty variant: pthread_cond_broadcast.
Signal_Broadcast(t) ==
  /\ pc[t] = "signal"
  /\ pc' = [w \in Threads |-> CASE w = t -> "unlock_other"
                                [] w \in Waiting(Other(t)) -> "relock"
                                [] OTHER -> pc[w]]
  /\ UNCHANGED <<owner, pos, spurious>>

\* pthread_cond_signal: one of the threads that wait, if any, goes on.
Signal(t) ==
  /\ \/ Waiting(Other(t)) = {} /\ Goto(t, "signal", "unlock_other")
     \/ \E w \in Waiting(Other(t)) :
          /\ pc[t] = "signal"
          /\ pc' = [pc EXCEPT ![t] = "unlock_other", ![w] = "relock"]
  /\ UNCHANGED <<owner, pos, spurious>>

UnlockOther(t) ==
  /\ Goto(t, "unlock_other", "unlock") /\ Unlock(Other(t))
  /\ UNCHANGED <<pos, spurious>>

UnlockMutex(t) ==
  /\ Goto(t, "unlock", "lock_own") /\ Unlock("mutex")
  /\ UNCHANGED <<pos, spurious>>

-----------------------------------------------------------------------------
(* Waiting, and moving the head.                                           *)

\* pthread_mutex_lock of the mutex of the thread's own side
LockOwn(t) ==
  /\ Goto(t, "lock_own", "cond_wait") /\ Lock(t, Own(t))
  /\ UNCHANGED <<pos, spurious>>

\* pthread_cond_wait releases the mutex,
CondWait(t) ==
  /\ Goto(t, "cond_wait", "waiting") /\ Unlock(Own(t))
  /\ UNCHANGED <<pos, spurious>>

\* may return without a signal,
SpuriousWakeup(t) ==
  /\ spurious["canRead"] + spurious["canWrite"] < MaxSpurious
  /\ Goto(t, "waiting", "relock")
  /\ spurious' = [spurious EXCEPT ![Own(t)] = @ + 1]
  /\ UNCHANGED <<owner, pos>>

\* and locks the mutex again before it returns.
Relock(t) ==
  /\ Goto(t, "relock", "unlock_own") /\ Lock(t, Own(t))
  /\ UNCHANGED <<pos, spurious>>

\* Faulty variant: the mutex is not given back.
UnlockOwn_Forgotten(t) ==
  /\ Goto(t, "unlock_own", "lock_item")
  /\ UNCHANGED <<owner, pos, spurious>>

UnlockOwn(t) ==
  /\ Goto(t, "unlock_own", "lock_item") /\ Unlock(Own(t))
  /\ UNCHANGED <<pos, spurious>>

\* Faulty variant: the mutex is not waited for.
LockItem_Ignored(t) ==
  /\ Goto(t, "lock_item", "item")
  /\ owner' = [owner EXCEPT !["mutex"] = t]
  /\ UNCHANGED <<pos, spurious>>

\* InsertItem and RemoveItem: pthread_mutex_lock(&mutex),
LockItem(t) ==
  /\ Goto(t, "lock_item", "item") /\ Lock(t, "mutex")
  /\ UNCHANGED <<pos, spurious>>

\* buffer[++pos] = item and item = buffer[pos--],
Item(t) ==
  /\ Goto(t, "item", "unlock_item")
  /\ pos' = IF t \in Producers THEN pos + 1 ELSE pos - 1
  /\ UNCHANGED <<owner, spurious>>

\* pthread_mutex_unlock(&mutex).
UnlockItem(t) ==
  /\ Goto(t, "unlock_item", "lock") /\ Unlock("mutex")
  /\ UNCHANGED <<pos, spurious>>

Next ==
  \E t \in Threads :
    \/ LockMutex(t) \/ Check(t) \/ LockOther(t) \/ Signal(t) \/ UnlockOther(t)
    \/ UnlockMutex(t) \/ LockOwn(t) \/ CondWait(t) \/ SpuriousWakeup(t)
    \/ Relock(t) \/ UnlockOwn(t) \/ LockItem(t) \/ Item(t) \/ UnlockItem(t)

Spec == Init /\ [][Next]_vars

-----------------------------------------------------------------------------
(* What the program keeps.                                                 *)

\* The values the variables can take.
TypeOK ==
  /\ pc \in [Threads -> Steps]
  /\ owner \in [Mutexes -> Threads \cup {Free}]
  /\ pos \in (1 - BufferLen - spurious["canRead"])..(BufferLen + spurious["canWrite"])
  /\ spurious \in [{"canRead", "canWrite"} -> 0..MaxSpurious]

\* The threads of T that were woken and have not moved the head yet.
Woken(T) == {t \in T : pc[t] \in {"relock", "unlock_own", "lock_item", "item"}}

\* The head passes the buffer length only by spurious wakeups: each consumer
\* gives a write away once for free, and then one for every item it removes,
\* although the producers do not look at pos after their wait (lines 97-106).
WritesBounded ==
  pos + Cardinality(Woken(Producers)) <= BufferLen + spurious["canWrite"]

\* On the other side the head is wrong, spurious wakeups apart, by less than the
\* number of producers: each of them may give one read away for free, the one
\* that writes first excepted.  So the consumers do read from an empty buffer,
\* but the head does not run away from it.
ReadsBounded ==
  Cardinality(Woken(Consumers)) - pos < BufferLen + spurious["canRead"]

\* Each mutex is held by the thread between its lock and its unlock: the test
\* of pos (lines 88 and 125) and the moves of the head exclude each other.
MutexesHeld ==
  \A t \in Threads :
    /\ owner["mutex"] = t <=>
         pc[t] \in {"check", "lock_other", "signal", "unlock_other", "unlock",
                    "item", "unlock_item"}
    /\ owner[Other(t)] = t <=> pc[t] \in {"signal", "unlock_other"}
    /\ owner[Own(t)] = t <=> pc[t] \in {"cond_wait", "unlock_own"}

\* Thread t cannot take a step before another one does.
Blocked(t) ==
  \/ pc[t] = "waiting"
  \/ pc[t] \in {"lock", "lock_item"} /\ owner["mutex"] # Free
  \/ pc[t] = "lock_other" /\ owner[Other(t)] # Free
  \/ pc[t] \in {"lock_own", "relock"} /\ owner[Own(t)] # Free

\* The three mutexes, taken one inside another in lines 85-94 and 122-131,
\* never stop the program by themselves: when all are blocked, all wait to be
\* signalled.
NoLockCycle ==
  (\A t \in Threads : Blocked(t)) => \A t \in Threads : pc[t] = "waiting"

-----------------------------------------------------------------------------
(* What its comments say.                                                  *)

\* prodcon_cv.cpp:124, "if the producer can write now, let it know": a producer
\* that can write does not wait for a signal nobody is left to send.
ProducerIsTold ==
  pos < BufferLen => \E t \in Threads : pc[t] # "waiting"

============================================================================
