------------------------------ MODULE Uthread ------------------------------
(***************************************************************************)
(* The preemptive user-level thread package of Asmt_4/uthread.c: the       *)
(* circular list of threads sorted by priority, the scheduler that walks   *)
(* it, and one mutex with its priority-sorted wait queue.                  *)
(*                                                                         *)
(* Every library call is one step.  The SIGVTALRM handler is a             *)
(* uthread_yield that may come between any two calls, and between any two  *)
(* iterations of the spin loop of uthread_mutex_lock.  A timer signal that *)
(* arrives INSIDE uthread_create, uthread_yield or uthread_exit, which     *)
(* mask no signals, is not a behaviour of this module (see README).        *)
(***************************************************************************)
EXTENDS Integers, FiniteSets, Sequences, SequencesExt

CONSTANTS
  Threads,      \* the uthread_t blocks that malloc can return
  Main,         \* the block of the main thread
  Priorities,   \* the values passed as pri to uthread_create
  NULL,
  QsortStable   \* does qsort keep the order of records that compare equal?

\* The priority of the main thread (uthread.c:117); 0 is the highest.
MainPriority == 9

ASSUME ThreadsAssumption == IsFiniteSet(Threads) /\ Main \in Threads
ASSUME NullAssumption == NULL \notin Threads
ASSUME PrioritiesAssumption == Priorities \subseteq Int
ASSUME QsortAssumption == QsortStable \in BOOLEAN

VARIABLES
  status,             \* of the process: running, exit, crash or undefined
  current_thread,     \* the thread that owns the processor
  head_thread,        \* a thread of the highest priority in the ring
  tail_thread,        \* the last thread of the ring
  next,               \* uthread_t.next
  pri,                \* uthread_t.pri
  live_uthreads,      \* sizes the buffer of uthread_create
  pc,                 \* what each thread is doing
  locking_thread,     \* uthread_mutex_t.locking_thread
  wait_queue,         \* the threads of the records from wait_queue_head on
  wait_queue_length   \* uthread_mutex_t.wait_queue_length

ringVars  == <<head_thread, tail_thread, next, pri, live_uthreads>>
mutexVars == <<locking_thread, wait_queue, wait_queue_length>>
vars == <<status, current_thread, ringVars, pc, mutexVars>>

(***************************************************************************)
(* A thread is unborn before uthread_create allocates it and after         *)
(* free_stack frees it: its block may be allocated again.  It is waiting   *)
(* while it spins in uthread_mutex_lock, holding between the end of        *)
(* uthread_mutex_lock and uthread_mutex_unlock.                            *)
(***************************************************************************)
ThreadStates == {"unborn", "running", "waiting", "holding"}

\* The threads that were created and have not exited.
Alive == {t \in Threads : pc[t] # "unborn"}

\* The process executes, and t is the thread that executes.
Runs(t) == status = "running" /\ current_thread = t

-----------------------------------------------------------------------------
(* The ring.                                                               *)

\* The threads met by following next from t: the smallest set that holds t
\* and the successor of each of its members.
Linked(t) ==
  {u \in Threads : \A S \in SUBSET Threads :
     (t \in S /\ \A v \in S : next[v] \in S) => u \in S}

\* The results qsort may give for the threads of S under the comparison of
\* priorities p; C says nothing of the order of equal keys.
Sorted(S, p) ==
  {s \in SetToSeqs(S) : \A i, j \in DOMAIN s : i < j => p[s[i]] <= p[s[j]]}

\* The index after i in a ring of n threads.
After(i, n) == IF i = n THEN 1 ELSE i + 1

\* The next pointers once the threads of s are tied in a circle.
Retied(s) ==
  [t \in Threads |->
     IF \E i \in DOMAIN s : s[i] = t
     THEN s[After(CHOOSE i \in DOMAIN s : s[i] = t, Len(s))]
     ELSE next[t]]

\* Faulty variant: the main thread is not counted.
uthread_init_Uncounted ==
  /\ status = "running"
  /\ current_thread = NULL
  /\ current_thread' = Main
  /\ tail_thread' = Main
  /\ next' = [next EXCEPT ![Main] = Main]
  /\ pri' = [pri EXCEPT ![Main] = MainPriority]
  /\ pc' = [pc EXCEPT ![Main] = "running"]
  /\ UNCHANGED <<status, head_thread, live_uthreads, mutexVars>>

\* uthread_init: the caller becomes the only thread.  head_thread stays NULL.
uthread_init ==
  /\ status = "running"
  /\ current_thread = NULL
  /\ current_thread' = Main
  /\ tail_thread' = Main
  /\ next' = [next EXCEPT ![Main] = Main]
  /\ pri' = [pri EXCEPT ![Main] = MainPriority]
  /\ live_uthreads' = live_uthreads + 1
  /\ pc' = [pc EXCEPT ![Main] = "running"]
  /\ UNCHANGED <<status, head_thread, mutexVars>>

\* uthread_create(new, p): copy the ring and the new thread to a buffer of
\* live_uthreads entries, sort the buffer and tie it into a circle.  When the
\* number of threads in the ring is not live_uthreads, qsort sorts entries that
\* were never written: from there on the behaviour is undefined.
uthread_create(new, p) ==
  LET ring == Linked(current_thread)
      newPri == [pri EXCEPT ![new] = p]
  IN  /\ current_thread # NULL
      /\ Runs(current_thread)
      /\ pc[current_thread] \in {"running", "holding"}
      /\ pc[new] = "unborn"
      /\ live_uthreads' = live_uthreads + 1
      /\ pri' = newPri
      /\ pc' = [pc EXCEPT ![new] = "running"]
      /\ UNCHANGED <<current_thread, mutexVars>>
      /\ \/ /\ Cardinality(ring) = live_uthreads
            /\ \E s \in Sorted(ring \cup {new}, newPri) :
                 /\ head_thread' = s[1]
                 /\ tail_thread' = s[Len(s)]
                 /\ next' = Retied(s)
            /\ UNCHANGED status
         \/ /\ Cardinality(ring) # live_uthreads
            /\ status' = "undefined"
            /\ UNCHANGED <<head_thread, tail_thread, next>>

\* Faulty variant: a thread whose successor has a lower priority always
\* keeps the processor.
YieldTo_Stay(c) ==
  IF pri[c] < pri[next[c]] THEN c ELSE next[c]

\* Faulty variant: the head also runs after a thread of equal priority.
YieldTo_Head(c) ==
  IF next[c] = c THEN c
  ELSE IF pri[c] <= pri[next[c]] THEN head_thread
  ELSE next[c]

\* The thread uthread_yield switches to from c: c itself when c is alone, the
\* head when the successor of c has a lower priority, else the successor.
YieldTo(c) ==
  IF next[c] = c THEN c
  ELSE IF pri[c] < pri[next[c]] THEN head_thread
  ELSE next[c]

\* uthread_yield: called by the thread, by the timer's handler, or by the
\* spin loop of uthread_mutex_lock.
uthread_yield ==
  /\ current_thread # NULL
  /\ Runs(current_thread)
  /\ current_thread' = YieldTo(current_thread)
  /\ UNCHANGED <<status, ringVars, pc, mutexVars>>

\* The ring without c, its head: the successor of c is the new head.
UnlinkHead(c) ==
  /\ next' = [next EXCEPT ![tail_thread] = next[c]]
  /\ head_thread' = next[c]
  /\ current_thread' = next[c]
  /\ UNCHANGED tail_thread

\* Faulty variant: the tail is not patched up when it exits.
UnlinkInner_StaleTail(c, p) ==
  /\ UNCHANGED <<head_thread, tail_thread>>
  /\ next' = [next EXCEPT ![p] = next[c]]
  /\ current_thread' = IF pri[c] < pri[next[c]] THEN head_thread ELSE next[c]

\* The ring without c, whose predecessor is p: the head runs when the
\* successor of c has a lower priority or c is the tail, else the successor.
UnlinkInner(c, p) ==
  /\ UNCHANGED head_thread
  /\ IF pri[c] >= pri[next[c]] /\ c = tail_thread
     THEN /\ tail_thread' = p
          /\ next' = [next EXCEPT ![p] = head_thread]
          /\ current_thread' = head_thread
     ELSE /\ UNCHANGED tail_thread
          /\ next' = [next EXCEPT ![p] = next[c]]
          /\ current_thread' = IF pri[c] < pri[next[c]]
                               THEN head_thread ELSE next[c]

\* uthread_exit and free_stack: unlink the running thread, free it and run
\* the thread chosen, or end the process when the chosen thread is the one
\* just freed.  A main thread that never created a thread has no head to
\* start the search from and dereferences NULL.
uthread_exit ==
  LET c == current_thread
  IN  /\ c # NULL
      /\ Runs(c)
      /\ pc[c] = "running"
      /\ pc' = [pc EXCEPT ![c] = "unborn"]
      /\ UNCHANGED <<pri, live_uthreads, mutexVars>>
      /\ \/ /\ c = head_thread
            /\ UnlinkHead(c)
            /\ status' = IF next[c] = c THEN "exit" ELSE status
         \/ /\ c # head_thread
            /\ head_thread # NULL
            /\ \E p \in Linked(head_thread) : next[p] = c /\ UnlinkInner(c, p)
            /\ UNCHANGED status
         \/ /\ head_thread = NULL
            /\ status' = "crash"
            /\ UNCHANGED <<current_thread, head_thread, tail_thread, next>>

-----------------------------------------------------------------------------
(* The mutex.  All signals are blocked while the queue changes.            *)

\* uthread_mutex_init, on a mutex that nobody uses.
uthread_mutex_init ==
  /\ current_thread # NULL
  /\ Runs(current_thread)
  /\ pc[current_thread] = "running"
  /\ wait_queue = <<>>
  /\ locking_thread' = NULL
  /\ wait_queue' = <<>>
  /\ wait_queue_length' = 0
  /\ UNCHANGED <<status, current_thread, ringVars, pc>>

\* Faulty variant: the record is added at the end and not sorted.
Enqueued_Unsorted(q, t) == {Append(q, t)}

\* The wait queues that qsort may give when t joins the queue q.
Enqueued(q, t) ==
  {s \in Sorted(Range(q) \cup {t}, pri) :
     QsortStable => \E i \in DOMAIN s : s[i] = t /\ RemoveAt(s, i) = q
                                        /\ \A j \in DOMAIN s :
                                             j > i => pri[s[j]] > pri[t]}

\* Faulty variant: the mutex always belongs to the head of the sorted queue.
uthread_mutex_lock_Steal ==
  LET c == current_thread
  IN  /\ c # NULL
      /\ Runs(c)
      /\ pc[c] = "running"
      /\ wait_queue_length' = wait_queue_length + 1
      /\ wait_queue' \in Enqueued(wait_queue, c)
      /\ locking_thread' = Head(wait_queue')
      /\ pc' = [pc EXCEPT ![c] = "waiting"]
      /\ UNCHANGED <<status, current_thread, ringVars>>

\* The first part of uthread_mutex_lock: the running thread adds its record.
uthread_mutex_lock ==
  LET c == current_thread
  IN  /\ c # NULL
      /\ Runs(c)
      /\ pc[c] = "running"
      /\ wait_queue_length' = wait_queue_length + 1
      /\ \/ /\ wait_queue_length' = 1
            /\ wait_queue' = <<c>>
            /\ locking_thread' = c
         \/ /\ wait_queue_length' # 1
            /\ wait_queue' \in Enqueued(wait_queue, c)
            /\ UNCHANGED locking_thread
      /\ pc' = [pc EXCEPT ![c] = "waiting"]
      /\ UNCHANGED <<status, current_thread, ringVars>>

\* The spin loop of uthread_mutex_lock ends for the running thread t (while
\* it does not end, the loop calls uthread_yield).
Acquire(t) ==
  /\ Runs(t)
  /\ pc[t] = "waiting"
  /\ locking_thread = t
  /\ pc' = [pc EXCEPT ![t] = "holding"]
  /\ UNCHANGED <<status, current_thread, ringVars, mutexVars>>

\* Faulty variant: the mutex is not granted to the next waiter.
uthread_mutex_unlock_NoGrant(t) ==
  /\ Runs(t)
  /\ pc[t] = "holding"
  /\ \E i \in DOMAIN wait_queue :
       /\ wait_queue[i] = locking_thread
       /\ wait_queue' = RemoveAt(wait_queue, i)
  /\ wait_queue_length' = wait_queue_length - 1
  /\ pc' = [pc EXCEPT ![t] = "running"]
  /\ UNCHANGED <<status, current_thread, ringVars, locking_thread>>

\* uthread_mutex_unlock by the thread t that holds the mutex: its record
\* leaves the queue and the thread of the first record left is granted the
\* mutex.  A queue of one record is emptied and locking_thread keeps its
\* stale value.
uthread_mutex_unlock(t) ==
  /\ Runs(t)
  /\ pc[t] = "holding"
  /\ \/ /\ wait_queue_length = 1
        /\ wait_queue' = <<>>
        /\ UNCHANGED locking_thread
     \/ /\ wait_queue_length # 1
        /\ \E i \in DOMAIN wait_queue :
             /\ wait_queue[i] = locking_thread
             /\ wait_queue' = RemoveAt(wait_queue, i)
        /\ locking_thread' = Head(wait_queue')
  /\ wait_queue_length' = wait_queue_length - 1
  /\ pc' = [pc EXCEPT ![t] = "running"]
  /\ UNCHANGED <<status, current_thread, ringVars>>

-----------------------------------------------------------------------------
Init ==
  /\ status = "running"
  /\ current_thread = NULL
  /\ head_thread = NULL
  /\ tail_thread = NULL
  /\ next = [t \in Threads |-> NULL]
  /\ pri = [t \in Threads |-> MainPriority]
  /\ live_uthreads = 0
  /\ pc = [t \in Threads |-> "unborn"]
  /\ locking_thread = NULL
  /\ wait_queue = <<>>
  /\ wait_queue_length = 0

\* The process has ended, or its behaviour is no longer defined.
Ended ==
  /\ status # "running"
  /\ UNCHANGED vars

Next ==
  \/ uthread_init
  \/ \E new \in Threads, p \in Priorities : uthread_create(new, p)
  \/ uthread_yield
  \/ uthread_exit
  \/ uthread_mutex_init
  \/ uthread_mutex_lock
  \/ \E t \in Threads : Acquire(t) \/ uthread_mutex_unlock(t)
  \/ Ended

Spec == Init /\ [][Next]_vars

(***************************************************************************)
(* The interval timer makes the running thread yield again and again.  A   *)
(* thread that gets time slice after time slice ends its spin loop and its *)
(* critical section, although it may be preempted in each slice.           *)
(***************************************************************************)
Fairness ==
  /\ WF_vars(uthread_init)
  /\ WF_vars(uthread_yield)
  /\ \A t \in Threads : SF_vars(Acquire(t)) /\ SF_vars(uthread_mutex_unlock(t))

FairSpec == Spec /\ Fairness

-----------------------------------------------------------------------------
(* What the package promises.                                              *)

\* The values the variables can take.
TypeOK ==
  /\ status \in {"running", "exit", "crash", "undefined"}
  /\ current_thread \in Threads \cup {NULL}
  /\ head_thread \in Threads \cup {NULL}
  /\ tail_thread \in Threads \cup {NULL}
  /\ next \in [Threads -> Threads \cup {NULL}]
  /\ pri \in [Threads -> Priorities \cup {MainPriority}]
  /\ live_uthreads \in Nat
  /\ pc \in [Threads -> ThreadStates]
  /\ locking_thread \in Threads \cup {NULL}
  /\ wait_queue \in Seq(Threads)
  /\ wait_queue_length \in Nat

\* s lists the live threads by priority, and the head, the tail and the next
\* pointers describe the circle s.
IsRing(s) ==
  /\ s \in Sorted(Alive, pri)
  /\ head_thread = s[1]
  /\ tail_thread = s[Len(s)]
  /\ \A i \in DOMAIN s : next[s[i]] = s[After(i, Len(s))]

\* The main thread alone, before the first uthread_create.
IsBare ==
  /\ Alive = {Main}
  /\ tail_thread = Main
  /\ next[Main] = Main

\* While the process runs, the live threads, and no freed one, form one circle
\* sorted by priority from head_thread to tail_thread, and the processor
\* belongs to one of them: uthread_create's retying and the four ways
\* uthread_exit unlinks a thread keep the circle that line 213 asserts.
RingInv ==
  status = "running" =>
    IF current_thread = NULL THEN Alive = {} /\ head_thread = NULL
    ELSE /\ current_thread \in Alive
         /\ IF head_thread = NULL THEN IsBare
            ELSE \E s \in SetToSeqs(Alive) : IsRing(s)

\* The buffer that the next uthread_create allocates has room for the ring it
\* copies and the new thread (uthread.c:185-196): live_uthreads is never less
\* than the number of threads in the ring.
ThreadBufFits ==
  status = "running" /\ current_thread # NULL =>
    Cardinality(Linked(current_thread)) <= live_uthreads

\* The threads that called uthread_mutex_lock and not yet uthread_mutex_unlock.
Queued == {t \in Threads : pc[t] \in {"waiting", "holding"}}

\* The wait queue holds exactly one record of each thread between the start of
\* uthread_mutex_lock and its uthread_mutex_unlock, highest priority first, the
\* length agrees with it, and the thread that was granted the mutex is in the
\* queue, so that the search at lines 427-438 never falls off the list.
QueueInv ==
  status = "running" =>
    /\ wait_queue \in Sorted(Queued, pri)
    /\ wait_queue_length = Len(wait_queue)
    /\ wait_queue # <<>> => locking_thread \in Range(wait_queue)

\* At most one thread is between uthread_mutex_lock and uthread_mutex_unlock,
\* whatever preemptions and priorities (mutex_test.c:50 "local == test").
MutualExclusion ==
  \A t, u \in Threads : pc[t] = "holding" /\ pc[u] = "holding" => t = u

\* When a holder unlocks and threads wait, the mutex goes to one of them, of the
\* highest priority there is in the queue (uthread.c:442), also when the record
\* of the holder was sorted behind others.
HandOff ==
  [][\A t \in Threads :
       pc[t] = "holding" /\ pc'[t] = "running" /\ wait_queue' # <<>> =>
         /\ locking_thread' # t
         /\ \A u \in Range(wait_queue') : pri[locking_thread'] <= pri[u]]_vars

\* Once a thread was granted the mutex nobody takes it away, however high the
\* priority of the threads that come to wait: the owner changes only when the
\* owner unlocks.
NoBarging ==
  [][wait_queue # <<>> /\ locking_thread' # locking_thread =>
       pc[locking_thread] = "holding" /\ pc'[locking_thread] = "running"]_vars

\* t is live and no live thread has a higher priority.
Top(t) == t \in Alive /\ \A u \in Alive : pri[t] <= pri[u]

\* A thread of lower priority does not keep the processor: yields and timer
\* ticks lead to a thread of the highest priority (uthread.c:231-239).
PriorityRespected ==
  status = "running" ~>
    (status # "running" \/ (current_thread # NULL /\ Top(current_thread)))

\* Round robin within the highest priority: t is run again and again until it
\* exits or a thread of higher priority is created.
RunsAgain(t) ==
  (status = "running" /\ Top(t)) ~> (status # "running" \/ ~Top(t) \/ Runs(t))

\* When t waits for the mutex among threads of its own priority, the highest
\* one, it gets the mutex, although it spins and is preempted while it does.
IsServed(t) ==
  (/\ status = "running"
   /\ pc[t] = "waiting"
   /\ Top(t)
   /\ \A u \in Range(wait_queue) : pri[u] = pri[t]) ~>
    (status # "running" \/ ~Top(t) \/ pc[t] = "holding")

============================================================================
