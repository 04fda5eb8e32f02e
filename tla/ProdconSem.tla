----------------------------- MODULE ProdconSem -----------------------------
(***************************************************************************)
(* Asmt_5/prodcon/prodcon_sem.cpp: one producer and one consumer share a   *)
(* buffer with a single head pos, two counting semaphores and a mutex.     *)
(* buffer[++pos] = item and item = buffer[pos--] are each a load of pos    *)
(* and a later store, so that the mutex matters.                           *)
(*                                                                         *)
(* The program allocates bufferlen bytes, indices 0..BufferLen - 1, and    *)
(* uses indices 1..BufferLen.  The last one is outside the array: what is  *)
(* written there is not part of the buffer and may be overwritten by       *)
(* whoever owns that byte, so that reading it gives anything.  That the    *)
(* write breaks the heap and the process aborts is left out.               *)
(***************************************************************************)
EXTENDS Integers, Sequences

CONSTANTS
  BufferLen,   \* bufferlen, the argument of the program
  Items,       \* the characters InsertItem may be called with
  None         \* the content of memory never written

ASSUME BufferLenAssumption == BufferLen \in Nat \ {0}
ASSUME ItemsAssumption == Items # {} /\ None \notin Items

VARIABLES
  canRead, canWrite,   \* the values of the semaphores
  mutex,               \* the thread that holds the mutex, or "free"
  pos,                 \* the read/write head
  buffer,              \* the array, bufferlen bytes from buffer[0] on
  pc,                  \* the next step of each thread
  head,                \* the value of pos each thread loaded
  item                 \* the item RemoveItem read last

vars == <<canRead, canWrite, mutex, pos, buffer, pc, head, item>>

Threads == {"producer", "consumer"}

\* One round of a thread: sem_wait, pthread_mutex_lock, load pos, store pos
\* and access the buffer, pthread_mutex_unlock, sem_post.
Steps == {"sem_wait", "lock", "load", "store", "unlock", "sem_post"}

\* Thread t goes on from step a to step b.
Goto(t, a, b) == pc[t] = a /\ pc' = [pc EXCEPT ![t] = b]

Init ==
  /\ canRead = 0
  /\ canWrite = BufferLen
  /\ mutex = "free"
  /\ pos = 0
  /\ buffer = [i \in 0..(BufferLen - 1) |-> None]
  /\ pc = [t \in Threads |-> "sem_wait"]
  /\ head = [t \in Threads |-> 0]
  /\ item = None

-----------------------------------------------------------------------------
(* InsertItem and RemoveItem.                                              *)

\* Faulty variant: the mutex is not waited for.
Lock_Ignored(t) ==
  /\ Goto(t, "lock", "load")
  /\ mutex' = t
  /\ UNCHANGED <<canRead, canWrite, pos, buffer, head, item>>

\* pthread_mutex_lock(&mutex)
Lock(t) ==
  /\ Goto(t, "lock", "load")
  /\ mutex = "free"
  /\ mutex' = t
  /\ UNCHANGED <<canRead, canWrite, pos, buffer, head, item>>

\* The value of pos is loaded.
Load(t) ==
  /\ Goto(t, "load", "store")
  /\ head' = [head EXCEPT ![t] = pos]
  /\ UNCHANGED <<canRead, canWrite, mutex, pos, buffer, item>>

\* buffer[p] = i: a write past the end leaves the array as it was.
Written(p, i) ==
  IF p \in DOMAIN buffer THEN [buffer EXCEPT ![p] = i] ELSE buffer

\* What buffer[p] may give: a read past the end gives anything.
ReadFrom(p) ==
  IF p \in DOMAIN buffer THEN {buffer[p]} ELSE Items \cup {None}

\* Faulty variant: the item is written before the head moves.
Insert_PostIncrement(i) ==
  /\ Goto("producer", "store", "unlock")
  /\ pos' = head["producer"] + 1
  /\ buffer' = Written(head["producer"], i)
  /\ UNCHANGED <<canRead, canWrite, mutex, head, item>>

\* buffer[++pos] = i
Insert(i) ==
  /\ Goto("producer", "store", "unlock")
  /\ pos' = head["producer"] + 1
  /\ buffer' = Written(head["producer"] + 1, i)
  /\ UNCHANGED <<canRead, canWrite, mutex, head, item>>

\* item = buffer[pos--]
Remove ==
  /\ Goto("consumer", "store", "unlock")
  /\ pos' = head["consumer"] - 1
  /\ item' \in ReadFrom(head["consumer"])
  /\ UNCHANGED <<canRead, canWrite, mutex, buffer, head>>

\* pthread_mutex_unlock(&mutex)
Unlock(t) ==
  /\ Goto(t, "unlock", "sem_post")
  /\ mutex' = "free"
  /\ UNCHANGED <<canRead, canWrite, pos, buffer, head, item>>

-----------------------------------------------------------------------------
(* ProducerStart and ConsumerStart.                                        *)

\* sem_wait(&canWrite)
WaitCanWrite ==
  /\ Goto("producer", "sem_wait", "lock")
  /\ canWrite > 0
  /\ canWrite' = canWrite - 1
  /\ UNCHANGED <<canRead, mutex, pos, buffer, head, item>>

\* sem_post(&canRead)
PostCanRead ==
  /\ Goto("producer", "sem_post", "sem_wait")
  /\ canRead' = canRead + 1
  /\ UNCHANGED <<canWrite, mutex, pos, buffer, head, item>>

\* sem_wait(&canRead)
WaitCanRead ==
  /\ Goto("consumer", "sem_wait", "lock")
  /\ canRead > 0
  /\ canRead' = canRead - 1
  /\ UNCHANGED <<canWrite, mutex, pos, buffer, head, item>>

\* Faulty variant: the consumer forgets to post.
PostCanWrite_Forgotten ==
  /\ Goto("consumer", "sem_post", "sem_wait")
  /\ UNCHANGED <<canRead, canWrite, mutex, pos, buffer, head, item>>

\* sem_post(&canWrite)
PostCanWrite ==
  /\ Goto("consumer", "sem_post", "sem_wait")
  /\ canWrite' = canWrite + 1
  /\ UNCHANGED <<canRead, mutex, pos, buffer, head, item>>

InsertItem == \E i \in Items : Insert(i)

Next ==
  \/ WaitCanWrite \/ PostCanRead \/ InsertItem
  \/ WaitCanRead \/ PostCanWrite \/ Remove
  \/ \E t \in Threads : Lock(t) \/ Load(t) \/ Unlock(t)

Spec == Init /\ [][Next]_vars

\* Each thread goes on when it can.  Weak fairness is enough for the mutex:
\* the other thread runs out of semaphore units and cannot take it forever.
Fairness ==
  /\ WF_vars(WaitCanWrite) /\ WF_vars(PostCanRead) /\ WF_vars(InsertItem)
  /\ WF_vars(WaitCanRead) /\ WF_vars(PostCanWrite) /\ WF_vars(Remove)
  /\ \A t \in Threads : WF_vars(Lock(t)) /\ WF_vars(Load(t)) /\ WF_vars(Unlock(t))

FairSpec == Spec /\ Fairness

-----------------------------------------------------------------------------
(* What the program promises.                                              *)

\* The values the variables can take.
TypeOK ==
  /\ canRead \in 0..BufferLen
  /\ canWrite \in 0..BufferLen
  /\ mutex \in Threads \cup {"free"}
  /\ pos \in 0..BufferLen
  /\ buffer \in [0..(BufferLen - 1) -> Items \cup {None}]
  /\ pc \in [Threads -> Steps]
  /\ head \in [Threads -> 0..BufferLen]
  /\ item \in Items \cup {None}

\* 1 when thread t is at one of the steps S, else 0.
At(t, S) == IF pc[t] \in S THEN 1 ELSE 0

\* The semaphores count what they stand for at every point of the two rounds:
\* a unit of canRead or an item that is being read for each item in the buffer,
\* a unit of canWrite or an item that is being written for each free place.
\* Hence canRead and canWrite say how many reads and writes may be done (lines
\* 14-20); that not all these writes are safe is what Refines shows.
SemaphoresCount ==
  /\ pos = canRead + At("producer", {"unlock", "sem_post"})
                   + At("consumer", {"lock", "load", "store"})
  /\ canRead + canWrite + At("producer", Steps \ {"sem_wait"})
                        + At("consumer", Steps \ {"sem_wait"}) = BufferLen

\* Module BoundedBuffer, with the places up to pos as its stack: place BufferLen
\* is outside the array and holds nothing.
Promise == INSTANCE BoundedBuffer
             WITH stack <- [p \in 1..pos |->
                              IF p \in DOMAIN buffer THEN buffer[p] ELSE None],
                  got <- item

\* The buffer is a stack of BufferLen - 1 items that takes one item more and
\* loses it: each item written inside the array is read once, the last one
\* first, and nothing else is read, but the item written at place BufferLen
\* (line 53 with pos = bufferlen - 1) may come back as anything.
Refines == Promise!Spec

\* Neither thread is ever blocked for good: items are written and read
\* again and again.
BothProgress ==
  /\ []<>(pc["producer"] = "sem_post")
  /\ []<>(pc["consumer"] = "sem_post")

============================================================================
