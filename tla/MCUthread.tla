------------------------------ MODULE MCUthread ------------------------------
(***************************************************************************)
(* Liveness of module Uthread for the main thread and one other.           *)
(***************************************************************************)
EXTENDS Uthread

\* The main thread, and one thread that stands for all the others: the
\* specification and its fairness treat them alike.
Watched == {Main, CHOOSE t \in Threads : t # Main}

\* Round robin: a live thread of the highest priority is run again and again
\* (uthread.c:231-239).
TopRuns == \A t \in Watched : RunsAgain(t)

\* A thread of the highest priority that waits among its equals gets the mutex
\* (uthread.c:392 and 442).
TopWaiterServed == \A t \in Watched : IsServed(t)

============================================================================
