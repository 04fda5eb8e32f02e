----------------------------- MODULE CoopThreads -----------------------------
(***************************************************************************)
(* Asmt_3/uthread.c: threads in one process that give the processor up by  *)
(* themselves.  thread_queue is a list_t whose head is taken to be the     *)
(* running thread; uthread_exit switches to a context of its own, the      *)
(* handler, which removes the thread and goes on with the next one.        *)
(*                                                                         *)
(* Threads are numbered as thread_id does; the number stands for the       *)
(* thread_t too, and for the code of the thread.  The priority, which      *)
(* nothing reads, is left out.  What a thread does between two calls is    *)
(* open.  When a thread function, or main, returns, the process ends.      *)
(***************************************************************************)
EXTENDS List

CONSTANT MaxThreads   \* bound on the threads created

ASSUME MaxThreadsAssumption == MaxThreads \in Nat \ {0}

VARIABLES
  thread_id,   \* the number of the next thread
  running,     \* whose code runs: a thread's, Handler or Nobody
  ucp          \* whose code the context in each thread_t goes on with

threads == <<thread_id, running, ucp>>

ThreadIds == 0..(MaxThreads - 1)
Handler == -1
Nobody == -2

\* uthread_init: the caller is thread 0.
uthread_init ==
  /\ \E first \in Items :
       /\ head = first /\ tail = first
       /\ allocated = {first}
  /\ length = 1
  /\ next = [i \in Items |-> NULL]
  /\ data = [i \in Items |-> 0]
  /\ objects = {0}
  /\ thread_id = 1
  /\ running = 0
  /\ ucp = [t \in ThreadIds |-> IF t = 0 THEN 0 ELSE Nobody]

\* malloc, getcontext and makecontext, list_insert_tail
uthread_create ==
  /\ running \in ThreadIds
  /\ thread_id < MaxThreads
  /\ list_insert_tail(thread_id)
  /\ objects' = objects \cup {thread_id}
  /\ thread_id' = thread_id + 1
  /\ ucp' = [ucp EXCEPT ![thread_id] = thread_id]
  /\ UNCHANGED running

\* Faulty variant: the head is looked up after the rotation only.
uthread_yield_Late ==
  /\ running \in ThreadIds
  /\ length > 1
  /\ list_rotate_one
  /\ ucp' = [ucp EXCEPT ![data[head']] = running]
  /\ running' = ucp'[data[head']]
  /\ UNCHANGED thread_id

\* uthread_yield: list_rotate_one, and swapcontext from the thread at the old
\* head to the one at the new head.  Nothing happens if there is one thread.
uthread_yield ==
  /\ running \in ThreadIds
  /\ length > 1
  /\ list_rotate_one
  /\ ucp' = [ucp EXCEPT ![data[head]] = running]
  /\ running' = ucp[data[head']]
  /\ UNCHANGED thread_id

\* uthread_exit: setcontext(&handler)
uthread_exit ==
  /\ running \in ThreadIds
  /\ running' = Handler
  /\ UNCHANGED <<list, thread_id, ucp>>

\* Faulty variant: the handler goes on with the thread that was created last.
uthread_handler_Last ==
  /\ running = Handler
  /\ list_remove_head
  /\ running' = IF length' >= 1 THEN ucp[data[tail]] ELSE Nobody
  /\ UNCHANGED <<thread_id, ucp>>

\* uthread_handler: list_remove_head, and setcontext to the new head or the end
uthread_handler ==
  /\ running = Handler
  /\ list_remove_head
  /\ running' = IF length' >= 1 THEN ucp[data[head']] ELSE Nobody
  /\ UNCHANGED <<thread_id, ucp>>

\* The process ends: a thread function returns, and uc_link is NULL; main
\* returns; or malloc fails in uthread_create.
ProcessEnds ==
  /\ running \in ThreadIds
  /\ running' = Nobody
  /\ UNCHANGED <<list, thread_id, ucp>>

CoopNext ==
  \/ uthread_create \/ uthread_yield \/ uthread_exit \/ uthread_handler
  \/ ProcessEnds

-----------------------------------------------------------------------------
\* The threads in the order of the list
ThreadQueue ==
  LET c == CHOOSE c \in Followed(next, head, length) : TRUE
  IN  [i \in 1..length |-> data[c[i]]]

============================================================================
