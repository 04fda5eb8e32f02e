--------------------------------- MODULE H2O ---------------------------------
(***************************************************************************)
(* Asmt_5/h2o/h2o_sem.cpp: main creates a thread per atom, which is a      *)
(* hydrogen or an oxygen by chance.  The counter num_h, under a mutex,     *)
(* splits the hydrogens into first and second ones of a pair; a second one *)
(* takes an oxygen from o_avail, then lets a first one (h2_avail) and an   *)
(* oxygen (h_both_avail) go.                                               *)
(*                                                                         *)
(* num_h is loaded and stored in two steps, so that the mutex matters.     *)
(* The mutex is also held while a line is printed; "H Created" and         *)
(* "O Created" are part of the step in which the atom learns its kind.     *)
(* h1_avail is never used.  main's return, which ends the process one      *)
(* second after the last atom, is left out: that is the assumption of      *)
(* lines 142-143.                                                          *)
(***************************************************************************)
EXTENDS Integers, FiniteSets, FiniteSetsExt

CONSTANT NumAtoms   \* num_atoms, the first argument of the program

ASSUME NumAtomsAssumption == NumAtoms \in Nat

\* The threads main creates, and the owner of the mutex when it is free.
Atoms == 0..(NumAtoms - 1)
NoAtom == NumAtoms

VARIABLES
  pc,         \* the next step of each thread
  kind,       \* "H" or "O", once it is known
  is_first,   \* whether a hydrogen is the first one of its pair
  loaded,     \* the value of num_h a hydrogen loaded
  mutex,      \* the owner of mutex
  num_h, o_avail, h2_avail, h_both_avail

sems == <<o_avail, h2_avail, h_both_avail>>
vars == <<pc, kind, is_first, loaded, mutex, num_h, sems>>

Steps == {"none", "create", "lock", "load", "store", "unlock", "wait_h2",
          "wait_o", "post_h2", "post_h_both", "post_o", "wait_h_both", "water",
          "done"}

\* Atom a goes on from step s to step t.
Goto(a, s, t) == pc[a] = s /\ pc' = [pc EXCEPT ![a] = t]

Init ==
  /\ pc = [a \in Atoms |-> "none"]
  /\ kind = [a \in Atoms |-> "?"]
  /\ is_first = [a \in Atoms |-> FALSE]
  /\ loaded = [a \in Atoms |-> 0]
  /\ mutex = NoAtom
  /\ num_h = 0 /\ o_avail = 0 /\ h2_avail = 0 /\ h_both_avail = 0

\* The body of the loop of main: pthread_create
Main(a) ==
  /\ Goto(a, "none", "create")
  /\ \A b \in Atoms : b < a => pc[b] # "none"
  /\ UNCHANGED <<kind, is_first, loaded, mutex, num_h, sems>>

\* CreateAtom: the kind is a matter of chance; the first line is printed.
CreateAtom(a) ==
  /\ mutex = NoAtom
  /\ \/ kind' = [kind EXCEPT ![a] = "H"] /\ Goto(a, "create", "lock")
     \/ kind' = [kind EXCEPT ![a] = "O"] /\ Goto(a, "create", "post_o")
  /\ UNCHANGED <<is_first, loaded, mutex, num_h, sems>>

-----------------------------------------------------------------------------
(* H                                                                       *)

\* Faulty variant: the mutex is not waited for.
LockNumH_Ignored(a) ==
  /\ Goto(a, "lock", "load")
  /\ mutex' = a
  /\ UNCHANGED <<kind, is_first, loaded, num_h, sems>>

\* pthread_mutex_lock(&mutex)
LockNumH(a) ==
  /\ Goto(a, "lock", "load")
  /\ mutex = NoAtom
  /\ mutex' = a
  /\ UNCHANGED <<kind, is_first, loaded, num_h, sems>>

\* is_first = (num_h % 2 == 0), and the load of num_h++
LoadNumH(a) ==
  /\ Goto(a, "load", "store")
  /\ is_first' = [is_first EXCEPT ![a] = num_h % 2 = 0]
  /\ loaded' = [loaded EXCEPT ![a] = num_h]
  /\ UNCHANGED <<kind, mutex, num_h, sems>>

\* The store of num_h++; the value loaded is not used any more.
StoreNumH(a) ==
  /\ Goto(a, "store", "unlock")
  /\ num_h' = loaded[a] + 1
  /\ loaded' = [loaded EXCEPT ![a] = 0]
  /\ UNCHANGED <<kind, is_first, mutex, sems>>

\* pthread_mutex_unlock(&mutex); if (is_first)
UnlockNumH(a) ==
  /\ \/ is_first[a] /\ Goto(a, "unlock", "wait_h2")
     \/ ~is_first[a] /\ Goto(a, "unlock", "wait_o")
  /\ mutex' = NoAtom
  /\ UNCHANGED <<kind, is_first, loaded, num_h, sems>>

\* sem_wait(&h2_avail)
WaitH2(a) ==
  /\ Goto(a, "wait_h2", "water")
  /\ h2_avail > 0
  /\ h2_avail' = h2_avail - 1
  /\ UNCHANGED <<kind, is_first, loaded, mutex, num_h, o_avail, h_both_avail>>

\* sem_wait(&o_avail)
WaitO(a) ==
  /\ Goto(a, "wait_o", "post_h2")
  /\ o_avail > 0
  /\ o_avail' = o_avail - 1
  /\ UNCHANGED <<kind, is_first, loaded, mutex, num_h, h2_avail, h_both_avail>>

\* sem_post(&h2_avail)
PostH2(a) ==
  /\ Goto(a, "post_h2", "post_h_both")
  /\ h2_avail' = h2_avail + 1
  /\ UNCHANGED <<kind, is_first, loaded, mutex, num_h, o_avail, h_both_avail>>

\* Faulty variant: the oxygen is forgotten.
PostHBoth_Forgotten(a) ==
  /\ Goto(a, "post_h_both", "water")
  /\ UNCHANGED <<kind, is_first, loaded, mutex, num_h, sems>>

\* sem_post(&h_both_avail)
PostHBoth(a) ==
  /\ Goto(a, "post_h_both", "water")
  /\ h_both_avail' = h_both_avail + 1
  /\ UNCHANGED <<kind, is_first, loaded, mutex, num_h, o_avail, h2_avail>>

-----------------------------------------------------------------------------
(* O                                                                       *)

\* Faulty variant: the oxygen posts the semaphore it waits on.
PostO_Wrong(a) ==
  /\ Goto(a, "post_o", "wait_h_both")
  /\ h_both_avail' = h_both_avail + 1
  /\ UNCHANGED <<kind, is_first, loaded, mutex, num_h, o_avail, h2_avail>>

\* sem_post(&o_avail)
PostO(a) ==
  /\ Goto(a, "post_o", "wait_h_both")
  /\ o_avail' = o_avail + 1
  /\ UNCHANGED <<kind, is_first, loaded, mutex, num_h, h2_avail, h_both_avail>>

\* sem_wait(&h_both_avail)
WaitHBoth(a) ==
  /\ Goto(a, "wait_h_both", "water")
  /\ h_both_avail > 0
  /\ h_both_avail' = h_both_avail - 1
  /\ UNCHANGED <<kind, is_first, loaded, mutex, num_h, o_avail, h2_avail>>

\* The line "Water", and pthread_exit
PrintWater(a) ==
  /\ Goto(a, "water", "done")
  /\ mutex = NoAtom
  /\ UNCHANGED <<kind, is_first, loaded, mutex, num_h, sems>>

-----------------------------------------------------------------------------
H(a) ==
  \/ LockNumH(a) \/ LoadNumH(a) \/ StoreNumH(a) \/ UnlockNumH(a)
  \/ WaitH2(a) \/ WaitO(a) \/ PostH2(a) \/ PostHBoth(a)

O(a) == PostO(a) \/ WaitHBoth(a)

Next ==
  \E a \in Atoms : Main(a) \/ CreateAtom(a) \/ H(a) \/ O(a) \/ PrintWater(a)

Spec == Init /\ [][Next]_vars

\* main creates every atom, and a thread that can go on does.  There are
\* finitely many atoms, so that weak fairness is enough for the mutex too.
Fairness ==
  \A a \in Atoms :
    WF_vars(Main(a) \/ CreateAtom(a) \/ H(a) \/ O(a) \/ PrintWater(a))

FairSpec == Spec /\ Fairness

-----------------------------------------------------------------------------
(* What the program promises.                                              *)

\* How many atoms of kind k are at one of the steps S.
At(k, S) == Cardinality({a \in Atoms : kind[a] = k /\ pc[a] \in S})

\* The values the variables can take.
TypeOK ==
  /\ pc \in [Atoms -> Steps]
  /\ kind \in [Atoms -> {"?", "H", "O"}]
  /\ is_first \in [Atoms -> BOOLEAN]
  /\ loaded \in [Atoms -> 0..NumAtoms]
  /\ mutex \in Atoms \cup {NoAtom}
  /\ num_h \in 0..NumAtoms
  /\ o_avail \in 0..NumAtoms
  /\ h2_avail \in 0..NumAtoms
  /\ h_both_avail \in 0..NumAtoms

\* The hydrogens that got an oxygen: one for each molecule.
Bonded ==
  {a \in Atoms : kind[a] = "H" /\ ~is_first[a]
                 /\ pc[a] \in {"post_h2", "post_h_both", "water", "done"}}

\* Module Water, with the atoms and molecules of this one
Promise == INSTANCE Water
             WITH hydrogen <- num_h - 2 * Cardinality(Bonded),
                  oxygen <- o_avail,
                  molecules <- Cardinality(Bonded)

\* Molecules are formed of atoms that exist: the second hydrogen of a pair takes
\* an oxygen only when its first one is there (lines 41-44 and 49), and
\* no oxygen is taken twice.
Refines == Promise!Spec

\* Nobody says "Water" before there is a molecule to belong to: two hydrogens
\* and one oxygen for each one.
WaterIsBonded ==
  /\ At("H", {"water", "done"}) <= 2 * Cardinality(Bonded)
  /\ At("O", {"water", "done"}) <= Cardinality(Bonded)

\* The molecules that can be formed of the atoms there are
Molecules == Min({At("H", Steps) \div 2, At("O", Steps)})

\* h2o_sem.cpp:142-143, "enough time to resolve the matches than can be resolved":
\* when the atoms come to rest, every match that can be made was made, and all
\* three of its atoms said "Water".
MatchesResolved ==
  <>[](/\ At("H", {"done"}) = 2 * Molecules
       /\ At("O", {"done"}) = Molecules
       /\ \A a \in Atoms : kind[a] # "?")

============================================================================
