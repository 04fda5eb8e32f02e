------------------------------ MODULE H2OProofs ------------------------------
(***************************************************************************)
(* Proofs about h2o_sem.cpp, for any number of atoms.                      *)
(***************************************************************************)
EXTENDS H2O, FiniteSetTheorems, TLAPS

\* TypeOK without the bounds of the counters, which follow in the end
TypeInv ==
  /\ pc \in [Atoms -> Steps]
  /\ kind \in [Atoms -> {"?", "H", "O"}]
  /\ is_first \in [Atoms -> BOOLEAN]
  /\ loaded \in [Atoms -> Nat]
  /\ mutex \in Atoms \cup {NoAtom}
  /\ num_h \in Nat /\ o_avail \in Nat /\ h2_avail \in Nat /\ h_both_avail \in Nat

\* An atom is where its kind and its place in the pair lead it.
PlaceInv ==
  \A a \in Atoms :
    /\ pc[a] \in {"lock", "load", "store", "unlock"} => kind[a] = "H"
    /\ pc[a] = "wait_h2" => kind[a] = "H" /\ is_first[a]
    /\ pc[a] \in {"wait_o", "post_h2", "post_h_both"} => kind[a] = "H" /\ ~is_first[a]
    /\ pc[a] \in {"post_o", "wait_h_both"} => kind[a] = "O"
    /\ pc[a] \in {"none", "create"} => kind[a] = "?"
    /\ pc[a] \in {"water", "done"} => kind[a] \in {"H", "O"}

\* The mutex is held around the update of num_h, ...
MutexInv == \A a \in Atoms : mutex = a <=> pc[a] \in {"load", "store", "unlock"}

\* ... so that what was read of num_h is still true when num_h is stored.
LoadInv ==
  \A a \in Atoms : /\ loaded[a] = IF pc[a] = "store" THEN num_h ELSE 0
                   /\ pc[a] = "store" => (is_first[a] <=> num_h % 2 = 0)

\* The hydrogens that were counted, the first and the second ones of the pairs
Counted == {"unlock", "wait_h2", "wait_o", "post_h2", "post_h_both", "water", "done"}
Firsts == {a \in Atoms : kind[a] = "H" /\ is_first[a] /\ pc[a] \in Counted}
Seconds == {a \in Atoms : kind[a] = "H" /\ ~is_first[a] /\ pc[a] \in Counted}

\* The second hydrogens that have posted h2_avail, and h_both_avail too
Told == {a \in Seconds : pc[a] \in {"post_h_both", "water", "done"}}
ToldBoth == {a \in Seconds : pc[a] \in {"water", "done"}}

\* The atoms that were told by them, and the oxygens that have posted o_avail
FirstWater == {a \in Firsts : pc[a] \in {"water", "done"}}
OWater == {a \in Atoms : kind[a] = "O" /\ pc[a] \in {"water", "done"}}
Oxygens == {a \in Atoms : kind[a] = "O" /\ pc[a] # "post_o"}

\* num_h counts the hydrogens, of which the first ones lead by one at most.
PairInv ==
  /\ num_h = Cardinality(Firsts) + Cardinality(Seconds)
  /\ Cardinality(Firsts) = Cardinality(Seconds) + (num_h % 2)

\* A semaphore holds what was posted and was not taken yet.
SemInv ==
  /\ h2_avail + Cardinality(FirstWater) = Cardinality(Told)
  /\ h_both_avail + Cardinality(OWater) = Cardinality(ToldBoth)
  /\ o_avail + Cardinality(Bonded) = Cardinality(Oxygens)

IndInv == TypeInv /\ PlaceInv /\ MutexInv /\ LoadInv /\ PairInv /\ SemInv

-----------------------------------------------------------------------------
(* The sets, and how a step changes them.                                  *)

LEMMA AtomsFinite ==
  /\ IsFiniteSet(Atoms) /\ Cardinality(Atoms) = NumAtoms
  /\ \A X \in SUBSET Atoms : /\ IsFiniteSet(X)
                             /\ Cardinality(X) \in Nat
                             /\ Cardinality(X) <= NumAtoms
<1>1. IsFiniteSet(Atoms) /\ Cardinality(Atoms) = NumAtoms
  <2>1. CASE NumAtoms = 0
    <3>1. Atoms = {}
      BY <2>1 DEF Atoms
    <3> QED
      BY <2>1, <3>1, FS_EmptySet
  <2>2. CASE NumAtoms # 0
    BY <2>2, FS_Interval, NumAtomsAssumption DEF Atoms
  <2> QED
    BY <2>1, <2>2
<1>2. ASSUME NEW X \in SUBSET Atoms
      PROVE  /\ IsFiniteSet(X)
             /\ Cardinality(X) \in Nat
             /\ Cardinality(X) <= NumAtoms
  BY <1>1, FS_Subset, FS_CardinalityType
<1> QED
  BY <1>1, <1>2

LEMMA Gains ==
  ASSUME NEW X \in SUBSET Atoms, NEW a \in Atoms, a \notin X
  PROVE  Cardinality(X \cup {a}) = Cardinality(X) + 1
BY AtomsFinite, FS_AddElement

LEMMA Larger ==
  ASSUME NEW Y \in SUBSET Atoms, NEW X \in SUBSET Y
  PROVE  Cardinality(X) <= Cardinality(Y)
BY AtomsFinite, FS_Subset

LEMMA Sets ==
  /\ Firsts \in SUBSET Atoms /\ Seconds \in SUBSET Atoms
  /\ Told \in SUBSET Bonded /\ ToldBoth \in SUBSET Bonded
  /\ Bonded \in SUBSET Seconds
  /\ FirstWater \in SUBSET Firsts
  /\ OWater \in SUBSET Atoms /\ Oxygens \in SUBSET Atoms
  /\ Firsts \cap Seconds = {}
BY DEF Firsts, Seconds, Told, ToldBoth, FirstWater, OWater, Oxygens, Bonded, Counted

LEMMA Counts ==
  /\ Cardinality(Firsts) \in Nat /\ Cardinality(Seconds) \in Nat
  /\ Cardinality(Told) \in Nat /\ Cardinality(ToldBoth) \in Nat
  /\ Cardinality(Bonded) \in Nat /\ Cardinality(FirstWater) \in Nat
  /\ Cardinality(OWater) \in Nat /\ Cardinality(Oxygens) \in Nat
<1>1. /\ Told \in SUBSET Atoms /\ ToldBoth \in SUBSET Atoms
      /\ Bonded \in SUBSET Atoms /\ FirstWater \in SUBSET Atoms
  BY Sets
<1> QED
  BY <1>1, Sets, AtomsFinite

\* A step that counts no hydrogen and moves no semaphore changes none of the sets.
LEMMA QuietStep ==
  ASSUME TypeInv, PlaceInv, NEW a \in Atoms,
         \/ Main(a) \/ CreateAtom(a) \/ LockNumH(a) \/ LoadNumH(a) \/ UnlockNumH(a)
         \/ PrintWater(a)
  PROVE  /\ Firsts' = Firsts /\ Seconds' = Seconds
         /\ Told' = Told /\ ToldBoth' = ToldBoth /\ Bonded' = Bonded
         /\ FirstWater' = FirstWater /\ OWater' = OWater /\ Oxygens' = Oxygens
<1> USE DEF TypeInv, PlaceInv, Goto, Firsts, Seconds, Told, ToldBoth, Bonded,
            FirstWater, OWater, Oxygens, Counted
<1>1. CASE Main(a) \/ LockNumH(a) \/ PrintWater(a)
  BY <1>1 DEF Main, LockNumH, PrintWater
<1>2. CASE CreateAtom(a)
  BY <1>2 DEF CreateAtom
<1>3. CASE LoadNumH(a)
  BY <1>3 DEF LoadNumH
<1>4. CASE UnlockNumH(a)
  BY <1>4 DEF UnlockNumH
<1> QED
  BY <1>1, <1>2, <1>3, <1>4

\* A hydrogen is counted as a first or as a second one.
LEMMA StoreStep ==
  ASSUME TypeInv, PlaceInv, NEW a \in Atoms, StoreNumH(a)
  PROVE  /\ a \notin Firsts /\ a \notin Seconds
         /\ Firsts' = IF is_first[a] THEN Firsts \cup {a} ELSE Firsts
         /\ Seconds' = IF is_first[a] THEN Seconds ELSE Seconds \cup {a}
         /\ Told' = Told /\ ToldBoth' = ToldBoth /\ Bonded' = Bonded
         /\ FirstWater' = FirstWater /\ OWater' = OWater /\ Oxygens' = Oxygens
BY DEF TypeInv, PlaceInv, StoreNumH, Goto, Firsts, Seconds, Told, ToldBoth, Bonded,
       FirstWater, OWater, Oxygens, Counted

\* The steps at the semaphores
LEMMA SemStep ==
  ASSUME TypeInv, PlaceInv, NEW a \in Atoms,
         \/ WaitH2(a) \/ WaitO(a) \/ PostH2(a) \/ PostHBoth(a) \/ PostO(a)
         \/ WaitHBoth(a)
  PROVE  /\ Firsts' = Firsts /\ Seconds' = Seconds
         /\ WaitH2(a) => a \notin FirstWater
         /\ WaitO(a) => a \notin Bonded /\ a \in Seconds
         /\ PostH2(a) => a \notin Told
         /\ PostHBoth(a) => a \notin ToldBoth
         /\ PostO(a) => a \notin Oxygens
         /\ WaitHBoth(a) => a \notin OWater
         /\ FirstWater' = IF WaitH2(a) THEN FirstWater \cup {a} ELSE FirstWater
         /\ Bonded' = IF WaitO(a) THEN Bonded \cup {a} ELSE Bonded
         /\ Told' = IF PostH2(a) THEN Told \cup {a} ELSE Told
         /\ ToldBoth' = IF PostHBoth(a) THEN ToldBoth \cup {a} ELSE ToldBoth
         /\ Oxygens' = IF PostO(a) THEN Oxygens \cup {a} ELSE Oxygens
         /\ OWater' = IF WaitHBoth(a) THEN OWater \cup {a} ELSE OWater
<1> USE DEF TypeInv, PlaceInv, Goto, Firsts, Seconds, Told, ToldBoth, Bonded,
            FirstWater, OWater, Oxygens, Counted
<1>1. CASE WaitH2(a)
  BY <1>1 DEF WaitH2, WaitO, PostH2, PostHBoth, PostO, WaitHBoth
<1>2. CASE WaitO(a)
  BY <1>2 DEF WaitH2, WaitO, PostH2, PostHBoth, PostO, WaitHBoth
<1>3. CASE PostH2(a)
  BY <1>3 DEF WaitH2, WaitO, PostH2, PostHBoth, PostO, WaitHBoth
<1>4. CASE PostHBoth(a)
  BY <1>4 DEF WaitH2, WaitO, PostH2, PostHBoth, PostO, WaitHBoth
<1>5. CASE PostO(a)
  BY <1>5 DEF WaitH2, WaitO, PostH2, PostHBoth, PostO, WaitHBoth
<1>6. CASE WaitHBoth(a)
  BY <1>6 DEF WaitH2, WaitO, PostH2, PostHBoth, PostO, WaitHBoth
<1> QED
  BY <1>1, <1>2, <1>3, <1>4, <1>5, <1>6

-----------------------------------------------------------------------------
(* The steps keep the inductive invariant.                                 *)

LEMMA TypeStep ==
  ASSUME TypeInv, NEW a \in Atoms,
         Main(a) \/ CreateAtom(a) \/ H(a) \/ O(a) \/ PrintWater(a)
  PROVE  TypeInv'
<1> USE DEF TypeInv, Goto, Steps
<1>1. CASE Main(a) \/ CreateAtom(a) \/ PrintWater(a)
  BY <1>1 DEF Main, CreateAtom, PrintWater, sems
<1>2. CASE LockNumH(a) \/ StoreNumH(a) \/ UnlockNumH(a)
  BY <1>2 DEF LockNumH, StoreNumH, UnlockNumH, sems
<1>4. CASE LoadNumH(a)
  <2>1. (num_h % 2 = 0) \in BOOLEAN
    OBVIOUS
  <2>2. is_first' \in [Atoms -> BOOLEAN]
    BY <1>4, <2>1, Zenon DEF LoadNumH
  <2> QED
    BY <1>4, <2>2 DEF LoadNumH, sems
<1>3. CASE WaitH2(a) \/ WaitO(a) \/ PostH2(a) \/ PostHBoth(a) \/ O(a)
  BY <1>3 DEF WaitH2, WaitO, PostH2, PostHBoth, O, PostO, WaitHBoth, sems
<1> QED
  BY <1>1, <1>2, <1>3, <1>4 DEF H

LEMMA PlaceStep ==
  ASSUME TypeInv, PlaceInv, NEW a \in Atoms,
         Main(a) \/ CreateAtom(a) \/ H(a) \/ O(a) \/ PrintWater(a)
  PROVE  PlaceInv'
<1> USE DEF TypeInv, PlaceInv, Goto
<1>1. CASE Main(a) \/ PrintWater(a)
  BY <1>1 DEF Main, PrintWater
<1>2. CASE CreateAtom(a)
  BY <1>2 DEF CreateAtom
<1>3. CASE LockNumH(a) \/ StoreNumH(a)
  BY <1>3 DEF LockNumH, StoreNumH
<1>4. CASE LoadNumH(a)
  BY <1>4 DEF LoadNumH
<1>5. CASE UnlockNumH(a)
  BY <1>5 DEF UnlockNumH
<1>6. CASE WaitH2(a) \/ WaitO(a) \/ PostH2(a)
  BY <1>6 DEF WaitH2, WaitO, PostH2
<1>7. CASE PostHBoth(a) \/ O(a)
  BY <1>7 DEF PostHBoth, O, PostO, WaitHBoth
<1> QED
  BY <1>1, <1>2, <1>3, <1>4, <1>5, <1>6, <1>7 DEF H

LEMMA MutexStep ==
  ASSUME TypeInv, MutexInv, NEW a \in Atoms,
         Main(a) \/ CreateAtom(a) \/ H(a) \/ O(a) \/ PrintWater(a)
  PROVE  MutexInv'
<1>0. NoAtom \notin Atoms
  BY NumAtomsAssumption DEF NoAtom, Atoms
<1> USE DEF TypeInv, MutexInv, Goto
<1>1. CASE LockNumH(a)
  BY <1>0, <1>1 DEF LockNumH
<1>2. CASE UnlockNumH(a)
  BY <1>0, <1>2 DEF UnlockNumH
<1>3. CASE Main(a) \/ CreateAtom(a) \/ PrintWater(a) \/ LoadNumH(a) \/ StoreNumH(a)
  BY <1>3 DEF Main, CreateAtom, PrintWater, LoadNumH, StoreNumH
<1>4. CASE WaitH2(a) \/ WaitO(a) \/ PostH2(a) \/ PostHBoth(a) \/ O(a)
  BY <1>4 DEF WaitH2, WaitO, PostH2, PostHBoth, O, PostO, WaitHBoth
<1> QED
  BY <1>1, <1>2, <1>3, <1>4 DEF H

\* Nobody else is about to store while num_h changes.
LEMMA LoadStep ==
  ASSUME TypeInv, MutexInv, LoadInv, NEW a \in Atoms,
         Main(a) \/ CreateAtom(a) \/ H(a) \/ O(a) \/ PrintWater(a)
  PROVE  LoadInv'
<1>1. CASE StoreNumH(a)
  <2>1. \A b \in Atoms : b # a => pc[b] # "store"
    BY <1>1 DEF StoreNumH, Goto, MutexInv
  <2>2. \A b \in Atoms : pc'[b] # "store" /\ loaded'[b] = 0
    BY <1>1, <2>1 DEF StoreNumH, Goto, TypeInv, LoadInv
  <2> QED
    BY <2>2 DEF LoadInv
<1>2. CASE LoadNumH(a)
  BY <1>2 DEF LoadNumH, TypeInv, LoadInv, Goto
<1> USE DEF TypeInv, LoadInv, Goto
<1>3. CASE Main(a) \/ CreateAtom(a) \/ PrintWater(a) \/ LockNumH(a) \/ UnlockNumH(a)
  BY <1>3 DEF Main, CreateAtom, PrintWater, LockNumH, UnlockNumH
<1>4. CASE WaitH2(a) \/ WaitO(a) \/ PostH2(a) \/ PostHBoth(a) \/ O(a)
  BY <1>4 DEF WaitH2, WaitO, PostH2, PostHBoth, O, PostO, WaitHBoth
<1> QED
  BY <1>1, <1>2, <1>3, <1>4 DEF H

LEMMA PairStep ==
  ASSUME IndInv, NEW a \in Atoms,
         Main(a) \/ CreateAtom(a) \/ H(a) \/ O(a) \/ PrintWater(a)
  PROVE  PairInv'
<1> USE DEF IndInv
<1>1. CASE StoreNumH(a)
  <2>1. num_h' = num_h + 1 /\ (is_first[a] <=> num_h % 2 = 0)
    BY <1>1 DEF StoreNumH, Goto, LoadInv
  <2>2. PICK p \in {0, 1} : num_h % 2 = p /\ (num_h + 1) % 2 = 1 - p
    BY DEF TypeInv
  <2>3. Cardinality(Firsts) = Cardinality(Seconds) + p /\ (is_first[a] <=> p = 0)
    BY <2>1, <2>2, Zenon DEF PairInv
  <2>4. num_h' % 2 = 1 - p
    BY <2>1, <2>2
  <2>5. /\ Cardinality(Firsts') = Cardinality(Firsts) + (1 - p)
        /\ Cardinality(Seconds') = Cardinality(Seconds) + p
    <3>1. CASE p = 0
      <4>1. Firsts' = Firsts \cup {a} /\ Seconds' = Seconds /\ a \notin Firsts
        BY <1>1, <2>3, <3>1, StoreStep
      <4> QED
        BY <3>1, <4>1, Sets, Gains, Counts
    <3>2. CASE p = 1
      <4>0. ~is_first[a]
        BY <2>3, <3>2
      <4>1. Seconds' = Seconds \cup {a} /\ Firsts' = Firsts /\ a \notin Seconds
        BY <1>1, <4>0, StoreStep
      <4> QED
        BY <3>2, <4>1, Sets, Gains, Counts
    <3> QED
      BY <3>1, <3>2
  <2>6. num_h' = Cardinality(Firsts') + Cardinality(Seconds')
    <3>1. num_h = Cardinality(Firsts) + Cardinality(Seconds)
      BY DEF PairInv
    <3> QED
      BY <2>1, <2>5, <3>1, Counts
  <2>7. Cardinality(Firsts') = Cardinality(Seconds') + (1 - p)
    BY <2>3, <2>5, Counts
  <2> QED
    BY <2>4, <2>6, <2>7, Zenon DEF PairInv
<1>2. CASE \/ Main(a) \/ CreateAtom(a) \/ LockNumH(a) \/ LoadNumH(a) \/ UnlockNumH(a)
           \/ PrintWater(a)
  <2>1. Firsts' = Firsts /\ Seconds' = Seconds
    BY <1>2, QuietStep
  <2>2. num_h' = num_h
    BY <1>2 DEF Main, CreateAtom, LockNumH, LoadNumH, UnlockNumH, PrintWater
  <2> QED
    BY <2>1, <2>2 DEF PairInv
<1>3. CASE WaitH2(a) \/ WaitO(a) \/ PostH2(a) \/ PostHBoth(a) \/ O(a)
  <2>1. Firsts' = Firsts /\ Seconds' = Seconds
    BY <1>3, SemStep DEF O
  <2>2. num_h' = num_h
    BY <1>3 DEF WaitH2, WaitO, PostH2, PostHBoth, O, PostO, WaitHBoth
  <2> QED
    BY <2>1, <2>2 DEF PairInv
<1> QED
  BY <1>1, <1>2, <1>3 DEF H

LEMMA SemInvStep ==
  ASSUME IndInv, NEW a \in Atoms,
         Main(a) \/ CreateAtom(a) \/ H(a) \/ O(a) \/ PrintWater(a)
  PROVE  SemInv'
<1> USE DEF IndInv
<1>a. /\ Told \in SUBSET Atoms /\ ToldBoth \in SUBSET Atoms
      /\ Bonded \in SUBSET Atoms /\ FirstWater \in SUBSET Atoms
      /\ OWater \in SUBSET Atoms /\ Oxygens \in SUBSET Atoms
  BY Sets
<1>1. CASE \/ Main(a) \/ CreateAtom(a) \/ LockNumH(a) \/ LoadNumH(a) \/ StoreNumH(a)
           \/ UnlockNumH(a) \/ PrintWater(a)
  <2>1. /\ Told' = Told /\ ToldBoth' = ToldBoth /\ Bonded' = Bonded
        /\ FirstWater' = FirstWater /\ OWater' = OWater /\ Oxygens' = Oxygens
    BY <1>1, QuietStep, StoreStep
  <2>2. h2_avail' = h2_avail /\ o_avail' = o_avail /\ h_both_avail' = h_both_avail
    BY <1>1 DEF Main, CreateAtom, LockNumH, LoadNumH, StoreNumH, UnlockNumH, PrintWater,
                sems
  <2> QED
    BY <2>1, <2>2 DEF SemInv
<1> USE Counts DEF SemInv, TypeInv
<1>2. CASE WaitH2(a)
  <2>1. Told' = Told /\ ToldBoth' = ToldBoth /\ Bonded' = Bonded
        /\ OWater' = OWater /\ Oxygens' = Oxygens
        /\ Cardinality(FirstWater') = Cardinality(FirstWater) + 1
    BY <1>2, <1>a, SemStep, Gains DEF WaitH2, WaitO, PostH2, PostHBoth, PostO,
       WaitHBoth, Goto
  <2> QED
    BY <1>2, <2>1 DEF WaitH2
<1>3. CASE WaitO(a)
  <2>1. Told' = Told /\ ToldBoth' = ToldBoth /\ FirstWater' = FirstWater
        /\ OWater' = OWater /\ Oxygens' = Oxygens
        /\ Cardinality(Bonded') = Cardinality(Bonded) + 1
    BY <1>3, <1>a, SemStep, Gains DEF WaitH2, WaitO, PostH2, PostHBoth, PostO,
       WaitHBoth, Goto
  <2> QED
    BY <1>3, <2>1 DEF WaitO
<1>4. CASE PostH2(a)
  <2>1. Bonded' = Bonded /\ ToldBoth' = ToldBoth /\ FirstWater' = FirstWater
        /\ OWater' = OWater /\ Oxygens' = Oxygens
        /\ Cardinality(Told') = Cardinality(Told) + 1
    BY <1>4, <1>a, SemStep, Gains DEF WaitH2, WaitO, PostH2, PostHBoth, PostO,
       WaitHBoth, Goto
  <2> QED
    BY <1>4, <2>1 DEF PostH2
<1>5. CASE PostHBoth(a)
  <2>1. Bonded' = Bonded /\ Told' = Told /\ FirstWater' = FirstWater
        /\ OWater' = OWater /\ Oxygens' = Oxygens
        /\ Cardinality(ToldBoth') = Cardinality(ToldBoth) + 1
    BY <1>5, <1>a, SemStep, Gains DEF WaitH2, WaitO, PostH2, PostHBoth, PostO,
       WaitHBoth, Goto
  <2> QED
    BY <1>5, <2>1 DEF PostHBoth
<1>6. CASE PostO(a)
  <2>1. Bonded' = Bonded /\ Told' = Told /\ FirstWater' = FirstWater
        /\ OWater' = OWater /\ ToldBoth' = ToldBoth
        /\ Cardinality(Oxygens') = Cardinality(Oxygens) + 1
    BY <1>6, <1>a, SemStep, Gains DEF WaitH2, WaitO, PostH2, PostHBoth, PostO,
       WaitHBoth, Goto
  <2> QED
    BY <1>6, <2>1 DEF PostO
<1>7. CASE WaitHBoth(a)
  <2>1. Bonded' = Bonded /\ Told' = Told /\ FirstWater' = FirstWater
        /\ Oxygens' = Oxygens /\ ToldBoth' = ToldBoth
        /\ Cardinality(OWater') = Cardinality(OWater) + 1
    BY <1>7, <1>a, SemStep, Gains DEF WaitH2, WaitO, PostH2, PostHBoth, PostO,
       WaitHBoth, Goto
  <2> QED
    BY <1>7, <2>1 DEF WaitHBoth
<1> QED
  BY <1>1, <1>2, <1>3, <1>4, <1>5, <1>6, <1>7 DEF H, O

LEMMA InitInv == Init => IndInv
<1> SUFFICES ASSUME Init PROVE IndInv
  OBVIOUS
<1>1. /\ Firsts = {} /\ Seconds = {} /\ Told = {} /\ ToldBoth = {} /\ Bonded = {}
      /\ FirstWater = {} /\ OWater = {} /\ Oxygens = {}
  BY DEF Init, Firsts, Seconds, Told, ToldBoth, Bonded, FirstWater, OWater, Oxygens,
         Counted
<1>2. PairInv /\ SemInv
  BY <1>1, FS_EmptySet DEF Init, PairInv, SemInv
<1>3. TypeInv /\ PlaceInv /\ LoadInv
  BY DEF Init, TypeInv, PlaceInv, LoadInv, Steps
<1>4. MutexInv
  BY NumAtomsAssumption DEF Init, MutexInv, NoAtom, Atoms
<1> QED
  BY <1>2, <1>3, <1>4 DEF IndInv

LEMMA StutterStep == IndInv /\ UNCHANGED vars => IndInv'
<1> SUFFICES ASSUME IndInv, UNCHANGED vars PROVE IndInv'
  OBVIOUS
<1>1. /\ pc' = pc /\ kind' = kind /\ is_first' = is_first /\ loaded' = loaded
      /\ mutex' = mutex /\ num_h' = num_h
      /\ o_avail' = o_avail /\ h2_avail' = h2_avail /\ h_both_avail' = h_both_avail
  BY DEF vars, sems
<1> QED
  BY <1>1 DEF IndInv, TypeInv, PlaceInv, MutexInv, LoadInv, PairInv, SemInv, Firsts,
     Seconds, Told, ToldBoth, Bonded, FirstWater, OWater, Oxygens

LEMMA Inductive == IndInv /\ [Next]_vars => IndInv'
<1>1. ASSUME IndInv, NEW a \in Atoms,
             Main(a) \/ CreateAtom(a) \/ H(a) \/ O(a) \/ PrintWater(a)
      PROVE  IndInv'
  <2>1. TypeInv' /\ PlaceInv'
    BY <1>1, TypeStep, PlaceStep DEF IndInv
  <2>2. MutexInv' /\ LoadInv'
    BY <1>1, MutexStep, LoadStep DEF IndInv
  <2>3. PairInv' /\ SemInv'
    BY <1>1, PairStep, SemInvStep
  <2> QED
    BY <2>1, <2>2, <2>3 DEF IndInv
<1> QED
  BY <1>1, StutterStep DEF Next

LEMMA Invariant == Spec => []IndInv
BY InitInv, Inductive, PTL DEF Spec

-----------------------------------------------------------------------------
(* What is proved.                                                         *)

\* Nobody says "Water" before there is a molecule to belong to (lines 46-56 and 65-70), however
\* many atoms there are.
THEOREM WaterCorrect == Spec => []WaterIsBonded
<1>1. IndInv => WaterIsBonded
  <2> SUFFICES ASSUME IndInv PROVE WaterIsBonded
    OBVIOUS
  <2>1. {a \in Atoms : kind[a] = "H" /\ pc[a] \in {"water", "done"}}
          = FirstWater \cup ToldBoth
    BY DEF FirstWater, ToldBoth, Firsts, Seconds, Counted, IndInv, TypeInv
  <2>2. FirstWater \cap ToldBoth = {} /\ IsFiniteSet(FirstWater)
        /\ IsFiniteSet(ToldBoth)
    <3>1. FirstWater \in SUBSET Atoms /\ ToldBoth \in SUBSET Atoms
      BY Sets
    <3> QED
      BY <3>1, Sets, AtomsFinite
  <2>3. At("H", {"water", "done"}) = Cardinality(FirstWater) + Cardinality(ToldBoth)
    BY <2>1, <2>2, FS_Union, FS_EmptySet, Counts DEF At
  <2>4. At("O", {"water", "done"}) = Cardinality(OWater)
    BY DEF At, OWater
  <2>5. /\ Cardinality(Told) <= Cardinality(Bonded)
        /\ Cardinality(ToldBoth) <= Cardinality(Bonded)
    BY Sets, Larger
  <2> QED
    BY <2>3, <2>4, <2>5, Counts DEF WaterIsBonded, IndInv, SemInv, TypeInv
<1> QED
  BY <1>1, Invariant, PTL

\* The counters never exceed the number of atoms.
THEOREM TypeCorrect == Spec => []TypeOK
<1>1. IndInv => TypeOK
  <2> SUFFICES ASSUME IndInv PROVE TypeOK
    OBVIOUS
  <2>1. num_h <= NumAtoms
    <3>1. Firsts \cup Seconds \in SUBSET Atoms /\ Firsts \cap Seconds = {}
      BY Sets
    <3>2. IsFiniteSet(Firsts) /\ IsFiniteSet(Seconds)
      BY Sets, AtomsFinite
    <3>3. Cardinality(Firsts \cup Seconds) = Cardinality(Firsts) + Cardinality(Seconds)
      <4>1. Cardinality(Firsts \cap Seconds) = 0
        BY <3>1, FS_EmptySet
      <4>2. Cardinality(Firsts \cup Seconds) = Cardinality(Firsts)
              + Cardinality(Seconds) - Cardinality(Firsts \cap Seconds)
        BY <3>2, FS_Union
      <4> QED
        BY <4>1, <4>2, Counts
    <3> QED
      BY <3>1, <3>3, AtomsFinite DEF IndInv, PairInv
  <2>2. o_avail <= NumAtoms /\ h2_avail <= NumAtoms /\ h_both_avail <= NumAtoms
    <3>1. Oxygens \in SUBSET Atoms /\ Told \in SUBSET Atoms /\ ToldBoth \in SUBSET Atoms
      BY Sets
    <3>2. /\ Cardinality(Oxygens) <= NumAtoms /\ Cardinality(Told) <= NumAtoms
          /\ Cardinality(ToldBoth) <= NumAtoms
      BY <3>1, AtomsFinite
    <3> QED
      BY <3>2, Counts, NumAtomsAssumption DEF IndInv, SemInv, TypeInv
  <2>3. loaded \in [Atoms -> 0..NumAtoms]
    <3>1. \A a \in Atoms : loaded[a] \in 0..NumAtoms
      BY <2>1, NumAtomsAssumption DEF IndInv, LoadInv, TypeInv
    <3> QED
      BY <3>1 DEF IndInv, TypeInv
  <2> QED
    BY <2>1, <2>2, <2>3, NumAtomsAssumption DEF IndInv, TypeInv, TypeOK
<1> QED
  BY <1>1, Invariant, PTL

\* Molecules are formed of two hydrogens and an oxygen that exist and are free: when a
\* second hydrogen takes an oxygen (line 49), it and its first one were counted.
THEOREM Refinement == Spec => Refines
<1>1. Init => Promise!Init
  <2>1. Init => Bonded = {}
    BY DEF Init, Bonded
  <2> QED
    BY <2>1, FS_EmptySet DEF Init, Promise!Init
<1>2. IndInv /\ [Next]_vars => [Promise!Next]_(Promise!vars)
  <2> SUFFICES ASSUME IndInv, [Next]_vars PROVE [Promise!Next]_(Promise!vars)
    OBVIOUS
  <2> USE DEF Promise!vars, IndInv
  <2>1. ASSUME NEW a \in Atoms,
               \/ Main(a) \/ CreateAtom(a) \/ LockNumH(a) \/ LoadNumH(a)
               \/ UnlockNumH(a) \/ PrintWater(a)
        PROVE  UNCHANGED Promise!vars
    <3>1. Bonded' = Bonded
      BY <2>1, QuietStep
    <3>2. num_h' = num_h /\ o_avail' = o_avail
      BY <2>1 DEF Main, CreateAtom, LockNumH, LoadNumH, UnlockNumH, PrintWater, sems
    <3> QED
      BY <3>1, <3>2
  <2>2. ASSUME NEW a \in Atoms, StoreNumH(a) PROVE Promise!NewHydrogen
    <3>1. Bonded' = Bonded
      BY <2>2, StoreStep
    <3>2. num_h' = num_h + 1 /\ o_avail' = o_avail
      BY <2>2 DEF StoreNumH, Goto, LoadInv, sems
    <3> QED
      BY <3>1, <3>2, Counts DEF Promise!NewHydrogen, TypeInv
  <2>3. ASSUME NEW a \in Atoms, WaitH2(a) \/ PostH2(a) \/ PostHBoth(a) \/ WaitHBoth(a)
        PROVE  UNCHANGED Promise!vars
    <3>1. Bonded' = Bonded
      BY <2>3, SemStep DEF WaitH2, WaitO, PostH2, PostHBoth, WaitHBoth, Goto
    <3>2. num_h' = num_h /\ o_avail' = o_avail
      BY <2>3 DEF WaitH2, PostH2, PostHBoth, WaitHBoth
    <3> QED
      BY <3>1, <3>2
  <2>4. ASSUME NEW a \in Atoms, PostO(a) PROVE Promise!NewOxygen
    <3>1. Bonded' = Bonded
      BY <2>4, SemStep DEF WaitO, PostO, Goto
    <3>2. num_h' = num_h /\ o_avail' = o_avail + 1
      BY <2>4 DEF PostO
    <3> QED
      BY <3>1, <3>2 DEF Promise!NewOxygen
  <2>5. ASSUME NEW a \in Atoms, WaitO(a) PROVE Promise!Bond
    <3>1. Bonded' = Bonded \cup {a} /\ a \notin Bonded /\ a \in Seconds
      BY <2>5, SemStep
    <3>2. Bonded \in SUBSET Atoms /\ Bonded \cup {a} \in SUBSET Seconds
      BY <3>1, Sets
    <3>3. Cardinality(Bonded') = Cardinality(Bonded) + 1
      BY <3>1, <3>2, Gains
    <3>4. Cardinality(Bonded) + 1 <= Cardinality(Seconds)
      BY <3>1, <3>2, <3>3, Sets, Larger
    <3>5. num_h >= 2 * (Cardinality(Bonded) + 1)
      <4>1. PICK p \in {0, 1} : num_h % 2 = p
        BY DEF TypeInv
      <4>2. Cardinality(Firsts) = Cardinality(Seconds) + p
        BY <4>1, Zenon DEF PairInv
      <4>3. num_h = Cardinality(Firsts) + Cardinality(Seconds)
        BY DEF PairInv
      <4> QED
        BY <3>4, <4>2, <4>3, Counts
    <3>6. num_h' = num_h /\ o_avail >= 1 /\ o_avail' = o_avail - 1
      BY <2>5 DEF WaitO, TypeInv
    <3> QED
      BY <3>3, <3>5, <3>6, Counts DEF Promise!Bond, TypeInv
  <2> QED
    BY <2>1, <2>2, <2>3, <2>4, <2>5 DEF Next, H, O, Promise!Next, vars, sems, Bonded
<1> QED
  BY <1>1, <1>2, Invariant, PTL DEF Spec, Refines, Promise!Spec

============================================================================
