-------------------------------- MODULE Whales --------------------------------
(***************************************************************************)
(* Asmt_5/whales/whales.c: main creates a thread per whale, which is a     *)
(* male or a female by chance.  A whale that finds a male and a female     *)
(* waiting is their matchmaker; any other one joins the queue of its sex,  *)
(* posts the semaphore of its sex and waits, for a mate if there is none   *)
(* yet and then for a matchmaker.                                          *)
(*                                                                         *)
(* The counts and the queues have no lock.  A whale is through with them   *)
(* before it blocks, and main sleeps between two whales (line 305) so that *)
(* two are not at it at a time: that is the one assumption on time made    *)
(* here, a whale's code up to its first sem_wait is one step.  When the    *)
(* step is taken, and in which order the threads are started, is open.     *)
(* The ids, read through a pointer to the loop variable of main (line      *)
(* 307), are only printed and left out.                                    *)
(***************************************************************************)
EXTENDS Integers, Sequences, FiniteSets

CONSTANT NumWhales   \* num_whales, the first argument of the program

ASSUME NumWhalesAssumption == NumWhales \in Nat

Whales == 0..(NumWhales - 1)
Sexes == {"male", "female"}
Other(s) == IF s = "male" THEN "female" ELSE "male"

\* Addresses: the node a whale allocates, the two whaleInit allocates, and NULL
Dummy(s) == IF s = "male" THEN NumWhales ELSE NumWhales + 1
Nodes == 0..(NumWhales + 1)
NULL == -1

VARIABLES
  pc,           \* where each whale is
  sex,          \* of each whale, once it is known
  count,        \* male, female
  queue,        \* maleQ, femaleQ
  next, tail,   \* the pointers in the nodes
  avail,        \* male_avail, fem_avail
  maker_avail,
  exited,       \* main returned, the process is gone
  line          \* auxiliary: the whales of each sex that wait for a matchmaker

queues == <<count, queue, next, tail, line>>
vars == <<pc, sex, queues, avail, maker_avail, exited>>

\* "maker" and "done" are whales whose thread ended, as matchmaker and as mate.
Places == {"none", "created", "wait_mate", "wait_maker", "maker", "done"}

\* The whales at place p
At(p) == {w \in Whales : pc[w] = p}

\* sem_init, whaleInit
Init ==
  /\ pc = [w \in Whales |-> "none"]
  /\ sex = [w \in Whales |-> "?"]
  /\ count = [s \in Sexes |-> 0]
  /\ queue = [s \in Sexes |-> Dummy(s)]
  /\ next = [n \in Nodes |-> NULL]
  /\ tail = [n \in Nodes |-> n]
  /\ avail = [s \in Sexes |-> 0]
  /\ maker_avail = 0
  /\ exited = FALSE
  /\ line = [s \in Sexes |-> <<>>]

\* The body of the loop of main: pthread_create
CreateThread(w) ==
  /\ pc[w] = "none"
  /\ \A v \in Whales : v < w => pc[v] # "none"
  /\ pc' = [pc EXCEPT ![w] = "created"]
  /\ UNCHANGED <<sex, queues, avail, maker_avail, exited>>

-----------------------------------------------------------------------------
(* create_male and create_female, up to the first sem_wait                 *)

\* Faulty variant: a whale waits even if a pair is ready.
PairReady_Two == \A s \in Sexes : count[s] > 1

PairReady == \A s \in Sexes : count[s] > 0

\* Faulty variant: the new head does not learn where the tail is.
Advanced_NoTail ==
  /\ queue' = [s \in Sexes |-> next[queue[s]]]
  /\ tail' = tail

\* maleQ->next->tail=maleQ->tail; maleQ=maleQ->next; the same for femaleQ.
\* A queue without a next node would be lost.
Advanced ==
  IF \A s \in Sexes : next[queue[s]] # NULL
  THEN /\ queue' = [s \in Sexes |-> next[queue[s]]]
       /\ tail' = [n \in Nodes |->
                     IF \E s \in Sexes : n = next[queue[s]]
                     THEN tail[queue[CHOOSE s \in Sexes : n = next[queue[s]]]]
                     ELSE tail[n]]
  ELSE /\ queue' = [s \in Sexes |-> NULL]
       /\ UNCHANGED tail

\* Faulty variant: the matched pair stays in the queues and is counted on.
BecomeMatchMaker_Stays(w) ==
  /\ PairReady
  /\ maker_avail' = maker_avail + 1
  /\ pc' = [pc EXCEPT ![w] = "maker"]
  /\ UNCHANGED <<queues, avail>>

\* if ((male > 0) && (female > 0))
BecomeMatchMaker(w) ==
  /\ PairReady
  /\ maker_avail' = maker_avail + 1
  /\ Advanced
  /\ count' = [s \in Sexes |-> count[s] - 1]
  /\ line' = [s \in Sexes |-> Tail(line[s])]
  /\ pc' = [pc EXCEPT ![w] = "maker"]
  /\ UNCHANGED <<next, avail>>

\* The node of whale w is added to the queue of its sex and counted; the
\* semaphore of its sex is posted.
Joined(w, s) ==
  /\ next' = [next EXCEPT ![tail[queue[s]]] = w, ![w] = NULL]
  /\ tail' = [tail EXCEPT ![queue[s]] = w]
  /\ line' = [line EXCEPT ![s] = Append(@, w)]
  /\ count' = [count EXCEPT ![s] = @ + 1]
  /\ avail' = [avail EXCEPT ![s] = @ + 1]
  /\ UNCHANGED <<queue, maker_avail>>

\* Faulty variant: a whale that finds a mate does not wait for a matchmaker.
FindMate_Leaves(w, s) ==
  /\ ~PairReady /\ count[Other(s)] > 0
  /\ Joined(w, s)
  /\ pc' = [pc EXCEPT ![w] = "done"]

\* else if (female > 0), in create_female (male > 0)
FindMate(w, s) ==
  /\ ~PairReady /\ count[Other(s)] > 0
  /\ Joined(w, s)
  /\ pc' = [pc EXCEPT ![w] = "wait_maker"]

\* else
WaitForMate(w, s) ==
  /\ ~PairReady /\ count[Other(s)] = 0
  /\ Joined(w, s)
  /\ pc' = [pc EXCEPT ![w] = "wait_mate"]

\* create_whale: the sex is a matter of chance.
create_whale(w, s) ==
  /\ pc[w] = "created"
  /\ sex' = [sex EXCEPT ![w] = s]
  /\ BecomeMatchMaker(w) \/ FindMate(w, s) \/ WaitForMate(w, s)
  /\ UNCHANGED exited

-----------------------------------------------------------------------------
(* The rest of create_male and create_female                               *)

\* sem_wait(&fem_avail) by a male, sem_wait(&male_avail) by a female
WaitMate(w) ==
  /\ pc[w] = "wait_mate"
  /\ avail[Other(sex[w])] > 0
  /\ avail' = [avail EXCEPT ![Other(sex[w])] = @ - 1]
  /\ pc' = [pc EXCEPT ![w] = "wait_maker"]
  /\ UNCHANGED <<sex, queues, maker_avail, exited>>

\* sem_wait(&maker_avail), and pthread_exit
WaitMaker(w) ==
  /\ pc[w] = "wait_maker"
  /\ maker_avail > 0
  /\ maker_avail' = maker_avail - 1
  /\ pc' = [pc EXCEPT ![w] = "done"]
  /\ UNCHANGED <<sex, queues, avail, exited>>

\* A whale has something to do.
Busy(w) ==
  \/ pc[w] \in {"none", "created"}
  \/ pc[w] = "wait_mate" /\ avail[Other(sex[w])] > 0
  \/ pc[w] = "wait_maker" /\ maker_avail > 0

\* main returns after ten more sleeps, which is "enough time" (line 310).
MainReturns ==
  /\ \A w \in Whales : ~Busy(w)
  /\ exited' = TRUE
  /\ UNCHANGED <<pc, sex, queues, avail, maker_avail>>

-----------------------------------------------------------------------------
Whale(w) == (\E s \in Sexes : create_whale(w, s)) \/ WaitMate(w) \/ WaitMaker(w)

Next == (\E w \in Whales : CreateThread(w) \/ Whale(w)) \/ MainReturns

Spec == Init /\ [][Next]_vars

\* main goes on, and so does every thread that does not wait.  Who gets a
\* permit of a semaphore is open.
Fairness ==
  /\ \A w \in Whales : WF_vars(CreateThread(w)) /\ WF_vars(Whale(w))
  /\ WF_vars(MainReturns)

FairSpec == Spec /\ Fairness

-----------------------------------------------------------------------------
(* What holds of the program.                                              *)

\* The values the variables can take.
TypeOK ==
  /\ pc \in [Whales -> Places]
  /\ sex \in [Whales -> Sexes \cup {"?"}]
  /\ count \in [Sexes -> Nat]
  /\ queue \in [Sexes -> Nodes]
  /\ next \in [Nodes -> Nodes \cup {NULL}]
  /\ tail \in [Nodes -> Nodes]
  /\ avail \in [Sexes -> Nat]
  /\ maker_avail \in Nat
  /\ exited \in BOOLEAN
  /\ line \in [Sexes -> Seq(Whales)]

\* The queue of sex s agrees with line.
QueueOf(s) ==
  LET n == Len(line[s]) IN
  /\ queue[s] \in Nodes
  /\ count[s] = n
  /\ \A i \in 1..n : line[s][i] \in Whales
  /\ IF n = 0 THEN tail[queue[s]] = queue[s]
     ELSE /\ next[queue[s]] = line[s][1]
          /\ tail[queue[s]] = line[s][n]
  /\ \A i \in 1..(n - 1) : next[line[s][i]] = line[s][i + 1]
  /\ next[tail[queue[s]]] = NULL

\* The nodes behind the head of each queue are the whales that wait for a
\* matchmaker, in the order in which they came and as many as are counted; the
\* tail pointer of the head, which moves from node to node, is the last of
\* them.  So no queue is ever lost (lines 119-126).
QueueInv == \A s \in Sexes : QueueOf(s)

\* A pair that is ready is matched by the very next whale: there are never two
\* (lines 105 and 181).
OnePairAtATime == \E s \in Sexes : count[s] <= 1

\* What main leaves behind when it returns (lines 310-312): the whales that are
\* not matched and, as line 107 posts maker_avail once for two, one whale for
\* every match.
LeftBehind ==
  exited =>
    Cardinality(At("wait_mate") \cup At("wait_maker"))
      = count["male"] + count["female"] + Cardinality(At("maker"))

\* Every matchmaker is heard: the whales come to rest with all permits taken,
\* and main returns (lines 154, 171 and 312).
ComesToRest == <>[](exited /\ maker_avail = 0)

\* whales.c:310-311, "enough time to resolve the matches than can be resolved":
\* a whale that was matched does not wait any more when main returns.
MatchesResolved ==
  exited =>
    \A w \in At("wait_mate") \cup At("wait_maker") :
      \E s \in Sexes : \E i \in 1..Len(line[s]) : line[s][i] = w

============================================================================
