----------------------------- MODULE ListPrograms -----------------------------
(***************************************************************************)
(* The two programs that are linked with list_t.c and list_item_t.c: lab1  *)
(* of Asmt_1 and a program with the thread package of Asmt_3.  Only one of *)
(* them runs; the state of the other one is idle.                          *)
(***************************************************************************)
EXTENDS CoopThreads, Harness

VARIABLE program   \* which of the two is run

program_vars == <<program, list, threads, harness>>

ProgramInit ==
  \/ /\ program = "lab1"
     /\ HarnessInit
     /\ thread_id = 0 /\ running = Nobody /\ ucp = <<>>
  \/ /\ program = "uthread"
     /\ uthread_init
     /\ option = "none" /\ words = <<>> /\ stored = <<>>
     /\ part = "idle" /\ left = 0 /\ output = <<>>

ProgramNext ==
  \/ program = "lab1" /\ HarnessNext /\ UNCHANGED <<program, threads>>
  \/ program = "uthread" /\ CoopNext /\ UNCHANGED <<program, harness>>

ProgramSpec == ProgramInit /\ [][ProgramNext]_program_vars

\* lab1 is a single thread, and its file has an end.  A cooperative thread gives
\* the processor up sooner or later: it calls uthread_yield or uthread_exit, or
\* returns.
ProgramFairness ==
  /\ WF_program_vars(/\ program = "lab1"
                     /\ StopReading \/ Visit \/ RemoveHead \/ CleanupList
                     /\ UNCHANGED <<program, threads>>)
  /\ WF_program_vars(/\ program = "uthread"
                     /\ \/ uthread_yield \/ uthread_exit
                        \/ uthread_handler \/ ProcessEnds
                     /\ UNCHANGED <<program, harness>>)

FairProgramSpec == ProgramSpec /\ ProgramFairness

-----------------------------------------------------------------------------
\* Module RunQueue, with the threads of this one
Promise == INSTANCE RunQueue WITH
  queue <- IF program = "uthread" THEN ThreadQueue ELSE <<0>>,
  created <- IF program = "uthread" THEN thread_id ELSE 1,
  running <- IF program = "uthread" THEN IF running \in ThreadIds THEN running ELSE -1
             ELSE 0

\* uthread.h:26-33: the list behaves as the queue of threads, whatever items
\* malloc hands out again, and the processor goes to its head.
Refines == Promise!Spec

\* A thread that is in the list but not at its head is run some day, or the
\* process ends before (uthread.c:59-72 and 80-95).
EveryThreadRuns ==
  \A t \in ThreadIds :
    (program = "uthread" /\ t \in objects /\ data[head] # t)
      ~> (running \in {t, Nobody})

\* lab1 comes to its end, and has then freed every buffer and every item; it is
\* cut short by malloc only (harness.c:77-81, 106-110, 131-145).
EndsClean ==
  program = "lab1" ~>
    (part = "failed" \/ (part = "done" /\ allocated = {} /\ objects = {}))

============================================================================
