------------------------------ MODULE RunQueue ------------------------------
(***************************************************************************)
(* What uthread.h of Asmt_3 promises of the cooperative thread package:    *)
(* the threads form a queue whose head runs; a new thread is last, a       *)
(* thread that yields becomes the last one, and a thread that exits is     *)
(* gone for good.                                                          *)
(***************************************************************************)
EXTENDS Integers, Sequences

VARIABLES
  queue,     \* the threads, by number
  created,   \* how many were created so far
  running    \* the thread that has the processor, -1 for none

vars == <<queue, created, running>>

Init == queue = <<0>> /\ created = 1 /\ running = 0

\* The running thread creates a thread.
Create ==
  /\ running # -1
  /\ queue' = Append(queue, created)
  /\ created' = created + 1
  /\ UNCHANGED running

\* It gives way to the next one.
Yield ==
  /\ running # -1
  /\ queue' = Append(Tail(queue), Head(queue))
  /\ running' = Head(queue')
  /\ UNCHANGED created

\* It ends, and the package takes its time to go on with the next one.
Exit == running # -1 /\ running' = -1 /\ UNCHANGED <<queue, created>>

Resume ==
  /\ running = -1
  /\ queue # <<>>
  /\ queue' = Tail(queue)
  /\ running' = IF queue' = <<>> THEN -1 ELSE Head(queue')
  /\ UNCHANGED created

Next == Create \/ Yield \/ Exit \/ Resume

Spec == Init /\ [][Next]_vars

============================================================================
