---------------------------- MODULE Philosophers ----------------------------
(***************************************************************************)
(* Asmt_5/philosophers/philosophers.c: N philosophers share one bowl, the  *)
(* mutex chopstick_manipulation_lock.  A philosopher who finds it taken    *)
(* waits on the condition variable canEat_cv, then locks the bowl.         *)
(*                                                                         *)
(* philosopher_thread is one step per access to shared state.  stdout_lock *)
(* is left out: nothing else is locked while it is held.  A thread main    *)
(* has not created yet is one that still sleeps (line 128).                *)
(***************************************************************************)
EXTENDS Integers, Sequences, SequencesExt

CONSTANT N    \* the number of philosophers

ASSUME NAssumption == N \in Nat \ {0}

VARIABLES
  pc,       \* the next step of each philosopher_thread
  state,    \* philosopher->state
  down,     \* chopstick->down
  bowl,     \* the owner of chopstick_manipulation_lock, or Free
  canEat,   \* the owner of canEat_mutex, or Free
  queue     \* the philosophers that wait on canEat_cv, the first one first

vars == <<pc, state, down, bowl, canEat, queue>>

Phil == 0..(N - 1)
Free == N

Left(p) == p
Right(p) == (p + 1) % N

\* The steps on the way to the bowl when it was taken (lines 137-140), and
\* those of the philosopher who has it (lines 143-153).
Refused == {"lock_cv", "cond_wait", "waiting", "relock", "unlock_cv", "lock_bowl"}
AtBowl == {"pickup_right", "pickup_left", "eat", "putdown_right",
           "putdown_left", "lock_cv2", "signal", "unlock_cv2", "think",
           "unlock_bowl"}
Steps == {"sleep", "trylock"} \cup Refused \cup AtBowl

\* Philosopher p goes on from step a to step b.
Goto(p, a, b) == pc[p] = a /\ pc' = [pc EXCEPT ![p] = b]

Init ==
  /\ pc = [p \in Phil |-> "sleep"]
  /\ state = [p \in Phil |-> "THINKING"]
  /\ down = [c \in Phil |-> TRUE]
  /\ bowl = Free
  /\ canEat = Free
  /\ queue = <<>>

-----------------------------------------------------------------------------
(* Getting the bowl.                                                       *)

\* phil_sleep; update_state(STATE_HUNGRY)
BecomeHungry(p) ==
  /\ Goto(p, "sleep", "trylock")
  /\ state' = [state EXCEPT ![p] = "HUNGRY"]
  /\ UNCHANGED <<down, bowl, canEat, queue>>

\* pthread_mutex_trylock(&chopstick_manipulation_lock)
TryLock(p) ==
  /\ \/ bowl = Free /\ bowl' = p /\ Goto(p, "trylock", "pickup_right")
     \/ bowl # Free /\ UNCHANGED bowl /\ Goto(p, "trylock", "lock_cv")
  /\ UNCHANGED <<state, down, canEat, queue>>

\* pthread_mutex_lock(&canEat_mutex), lines 137 and 149
LockCanEat(p) ==
  /\ Goto(p, "lock_cv", "cond_wait") \/ Goto(p, "lock_cv2", "signal")
  /\ canEat = Free
  /\ canEat' = p
  /\ UNCHANGED <<state, down, bowl, queue>>

\* Faulty variant: the mutex stays locked during the wait.
CondWait_KeepsMutex(p) ==
  /\ Goto(p, "cond_wait", "waiting")
  /\ queue' = Append(queue, p)
  /\ UNCHANGED <<state, down, bowl, canEat>>

\* pthread_cond_wait(&canEat_cv, &canEat_mutex): releases the mutex and waits
CondWait(p) ==
  /\ Goto(p, "cond_wait", "waiting")
  /\ canEat' = Free
  /\ queue' = Append(queue, p)
  /\ UNCHANGED <<state, down, bowl>>

\* POSIX lets pthread_cond_wait return without a signal.
SpuriousWakeup(p) ==
  /\ Goto(p, "waiting", "relock")
  /\ \E i \in 1..Len(queue) : queue[i] = p /\ queue' = RemoveAt(queue, i)
  /\ UNCHANGED <<state, down, bowl, canEat>>

\* pthread_cond_wait locks the mutex again before it returns.
Relock(p) ==
  /\ Goto(p, "relock", "unlock_cv")
  /\ canEat = Free
  /\ canEat' = p
  /\ UNCHANGED <<state, down, bowl, queue>>

\* pthread_mutex_unlock(&canEat_mutex), lines 139 and 151
UnlockCanEat(p) ==
  /\ Goto(p, "unlock_cv", "lock_bowl") \/ Goto(p, "unlock_cv2", "think")
  /\ canEat' = Free
  /\ UNCHANGED <<state, down, bowl, queue>>

\* Faulty variant: the wakeup is taken for the right to eat.
LockBowl_Assumed(p) ==
  /\ Goto(p, "lock_bowl", "pickup_right")
  /\ bowl' = p
  /\ UNCHANGED <<state, down, canEat, queue>>

\* pthread_mutex_lock(&chopstick_manipulation_lock)
LockBowl(p) ==
  /\ Goto(p, "lock_bowl", "pickup_right")
  /\ bowl = Free
  /\ bowl' = p
  /\ UNCHANGED <<state, down, canEat, queue>>

-----------------------------------------------------------------------------
(* Eating.                                                                 *)

PickupRight(p) ==
  /\ Goto(p, "pickup_right", "pickup_left")
  /\ down' = [down EXCEPT ![Right(p)] = FALSE]
  /\ UNCHANGED <<state, bowl, canEat, queue>>

PickupLeft(p) ==
  /\ Goto(p, "pickup_left", "eat")
  /\ down' = [down EXCEPT ![Left(p)] = FALSE]
  /\ UNCHANGED <<state, bowl, canEat, queue>>

\* update_state(STATE_EATING); phil_sleep
Eat(p) ==
  /\ Goto(p, "eat", "putdown_right")
  /\ state' = [state EXCEPT ![p] = "EATING"]
  /\ UNCHANGED <<down, bowl, canEat, queue>>

PutdownRight(p) ==
  /\ Goto(p, "putdown_right", "putdown_left")
  /\ down' = [down EXCEPT ![Right(p)] = TRUE]
  /\ UNCHANGED <<state, bowl, canEat, queue>>

\* Faulty variant: the left chopstick of the wrong neighbour.
PutdownLeft_Wrong(p) ==
  /\ Goto(p, "putdown_left", "lock_cv2")
  /\ down' = [down EXCEPT ![Right(p)] = TRUE]
  /\ UNCHANGED <<state, bowl, canEat, queue>>

PutdownLeft(p) ==
  /\ Goto(p, "putdown_left", "lock_cv2")
  /\ down' = [down EXCEPT ![Left(p)] = TRUE]
  /\ UNCHANGED <<state, bowl, canEat, queue>>

\* Faulty variant: nobody is woken.
Signal_Lost(p) ==
  /\ Goto(p, "signal", "unlock_cv2")
  /\ UNCHANGED <<state, down, bowl, canEat, queue>>

\* pthread_cond_signal(&canEat_cv): the first one that waits, if any, goes on.
Signal(p) ==
  /\ \/ queue = <<>> /\ Goto(p, "signal", "unlock_cv2") /\ UNCHANGED queue
     \/ /\ queue # <<>>
        /\ pc[p] = "signal"
        /\ pc' = [pc EXCEPT ![p] = "unlock_cv2", ![Head(queue)] = "relock"]
        /\ queue' = Tail(queue)
  /\ UNCHANGED <<state, down, bowl, canEat>>

\* update_state(STATE_THINKING)
Think(p) ==
  /\ Goto(p, "think", "unlock_bowl")
  /\ state' = [state EXCEPT ![p] = "THINKING"]
  /\ UNCHANGED <<down, bowl, canEat, queue>>

\* pthread_mutex_unlock(&chopstick_manipulation_lock)
UnlockBowl(p) ==
  /\ Goto(p, "unlock_bowl", "sleep")
  /\ bowl' = Free
  /\ UNCHANGED <<state, down, canEat, queue>>

-----------------------------------------------------------------------------
\* The steps that wait for a mutex, and those that do not.
Locking(p) == LockCanEat(p) \/ Relock(p) \/ LockBowl(p)

Going(p) ==
  \/ BecomeHungry(p) \/ TryLock(p) \/ CondWait(p) \/ UnlockCanEat(p)
  \/ PickupRight(p) \/ PickupLeft(p) \/ Eat(p) \/ PutdownRight(p)
  \/ PutdownLeft(p) \/ Signal(p) \/ Think(p) \/ UnlockBowl(p)

philosopher_thread(p) == Locking(p) \/ Going(p)

Next == \E p \in Phil : philosopher_thread(p) \/ SpuriousWakeup(p)

Spec == Init /\ [][Next]_vars

\* Sleeps are finite and a thread that can run does.  A thread that finds a
\* mutex free again and again gets it.  Nobody is woken by chance for sure.
Fairness == \A p \in Phil : WF_vars(Going(p)) /\ SF_vars(Locking(p))

FairSpec == Spec /\ Fairness

-----------------------------------------------------------------------------
(* What the program promises.                                              *)

\* The values the variables can take.
TypeOK ==
  /\ pc \in [Phil -> Steps]
  /\ state \in [Phil -> {"THINKING", "HUNGRY", "EATING"}]
  /\ down \in [Phil -> BOOLEAN]
  /\ bowl \in Phil \cup {Free}
  /\ canEat \in Phil \cup {Free}
  /\ queue \in Seq(Phil)

\* The chopsticks a philosopher holds.
Held(p) ==
  CASE pc[p] = "pickup_left" -> {Right(p)}
    [] pc[p] \in {"eat", "putdown_right"} -> {Left(p), Right(p)}
    [] pc[p] = "putdown_left" -> {Left(p)} \ {Right(p)}
    [] OTHER -> {}

\* REPORT:13, "only one philosopher may access the bowl at a time": nobody eats
\* while another one does, or while somebody else still has to put a chopstick
\* down.
BowlExclusive ==
  /\ \A p \in Phil : pc[p] \in AtBowl <=> bowl = p
  /\ \A p \in Phil : state[p] = "EATING" => bowl = p

\* A chopstick is off the table exactly while one philosopher, and no other,
\* holds it: down is never set by one philosopher under the hand of another.
ChopsticksHeld ==
  /\ \A c \in Phil : down[c] <=> \A p \in Phil : c \notin Held(p)
  /\ \A p, q \in Phil : p # q => Held(p) \cap Held(q) = {}

\* Philosopher p cannot take a step before somebody else does.
Blocked(p) ==
  \/ pc[p] = "waiting"
  \/ pc[p] \in {"lock_cv", "lock_cv2", "relock"} /\ canEat # Free
  \/ pc[p] = "lock_bowl" /\ bowl # Free

\* REPORT:16, "This implementation is deadlock free": there is always somebody
\* who can go on, without a spurious wakeup.  A philosopher who was refused the
\* bowl and comes to wait after the signal may wait with the bowl free, but not
\* all of them can.
DeadlockFree == \E p \in Phil : ~Blocked(p)

\* REPORT:16, "This implementation is also starvation free": who is hungry eats,
\* even after missing the signal between lines 133 and 138.
StarvationFree ==
  \A p \in Phil : state[p] = "HUNGRY" ~> state[p] = "EATING"

============================================================================
