-------------------------- MODULE ProdconSemProofs --------------------------
(***************************************************************************)
(* Proofs about module ProdconSem, for a buffer of any length: the         *)
(* semaphores count the items and the free places, and the program is a    *)
(* stack that loses the item at its last place.                            *)
(***************************************************************************)
EXTENDS ProdconSem, SequenceTheorems, TLAPS

\* The thread that holds the mutex is the one between lock and unlock.
MutexInv ==
  \A t \in Threads : pc[t] \in {"load", "store", "unlock"} <=> mutex = t

\* Nobody moves the head between the load and the store of a thread.
HeadInv == \A t \in Threads : pc[t] = "store" => head[t] = pos

\* Every place of the array up to the head was written.
Filled == \A i \in 1..pos : i < BufferLen => buffer[i] \in Items

IndInv == TypeOK /\ SemaphoresCount /\ MutexInv /\ HeadInv /\ Filled

\* The invariant holds when main has initialised the semaphores (lines 163-167).
LEMMA InitInv == Init => IndInv
<1> SUFFICES ASSUME Init PROVE IndInv
  OBVIOUS
<1> USE BufferLenAssumption DEF Init, Threads, Steps
<1>1. TypeOK
  BY DEF TypeOK
<1>2. SemaphoresCount
  BY DEF SemaphoresCount, At
<1>3. MutexInv /\ HeadInv /\ Filled
  BY DEF MutexInv, HeadInv, Filled
<1> QED
  BY <1>1, <1>2, <1>3 DEF IndInv

\* While an item is being written there is room for it; while one is being
\* read there is one.
LEMMA Room ==
  ASSUME TypeOK, SemaphoresCount
  PROVE  /\ pc["producer"] = "store" => pos < BufferLen
         /\ pc["consumer"] = "store" => pos > 0
<1> USE BufferLenAssumption
<1>1. /\ canRead \in Nat /\ canWrite \in Nat /\ pos \in Nat
      /\ pc["producer"] \in Steps /\ pc["consumer"] \in Steps
  BY DEF TypeOK, Threads
<1>2. ASSUME pc["producer"] = "store" PROVE pos < BufferLen
  BY <1>1, <1>2 DEF SemaphoresCount, At, Steps
<1>3. ASSUME pc["consumer"] = "store" PROVE pos > 0
  BY <1>1, <1>3 DEF SemaphoresCount, At, Steps
<1> QED
  BY <1>2, <1>3

\* Every step of the two threads keeps the invariant.
LEMMA StepInv == IndInv /\ [Next]_vars => IndInv'
<1> SUFFICES ASSUME IndInv, [Next]_vars PROVE IndInv'
  OBVIOUS
<1> USE BufferLenAssumption
<1>i. TypeOK /\ SemaphoresCount /\ MutexInv /\ HeadInv /\ Filled
  BY DEF IndInv
<1>p. /\ canRead \in Nat /\ canWrite \in Nat /\ pos \in 0..BufferLen
      /\ pc["producer"] \in Steps /\ pc["consumer"] \in Steps
      /\ pc \in [Threads -> Steps]
      /\ head["producer"] \in 0..BufferLen /\ head["consumer"] \in 0..BufferLen
      /\ "producer" \in Threads /\ "consumer" \in Threads
  BY <1>i DEF TypeOK, Threads
<1>1. CASE WaitCanWrite
  <2> USE <1>1 DEF WaitCanWrite, Goto
  <2>1. SemaphoresCount'
    BY <1>i, <1>p DEF SemaphoresCount, At, Threads, Steps
  <2>2. TypeOK'
    BY <1>i DEF TypeOK, Threads, Steps
  <2>3. MutexInv' /\ HeadInv' /\ Filled'
    BY <1>i, <1>p DEF MutexInv, HeadInv, Filled, Threads
  <2> QED
    BY <2>1, <2>2, <2>3 DEF IndInv
<1>2. CASE PostCanRead
  <2> USE <1>2 DEF PostCanRead, Goto
  <2>1. SemaphoresCount'
    BY <1>i, <1>p DEF SemaphoresCount, At, Threads, Steps
  <2>2. canRead' \in 0..BufferLen
    BY <1>i, <1>p DEF SemaphoresCount, At, Threads, Steps
  <2>3. TypeOK'
    BY <2>2, <1>i DEF TypeOK, Threads, Steps
  <2>4. MutexInv' /\ HeadInv' /\ Filled'
    BY <1>i, <1>p DEF MutexInv, HeadInv, Filled, Threads
  <2> QED
    BY <2>1, <2>3, <2>4 DEF IndInv
<1>3. CASE WaitCanRead
  <2> USE <1>3 DEF WaitCanRead, Goto
  <2>1. SemaphoresCount'
    BY <1>i, <1>p DEF SemaphoresCount, At, Threads, Steps
  <2>2. TypeOK'
    BY <1>i DEF TypeOK, Threads, Steps
  <2>3. MutexInv' /\ HeadInv' /\ Filled'
    BY <1>i, <1>p DEF MutexInv, HeadInv, Filled, Threads
  <2> QED
    BY <2>1, <2>2, <2>3 DEF IndInv
<1>4. CASE PostCanWrite
  <2> USE <1>4 DEF PostCanWrite, Goto
  <2>1. SemaphoresCount'
    BY <1>i, <1>p DEF SemaphoresCount, At, Threads, Steps
  <2>2. canWrite' \in 0..BufferLen
    BY <1>i, <1>p DEF SemaphoresCount, At, Threads, Steps
  <2>3. TypeOK'
    BY <2>2, <1>i DEF TypeOK, Threads, Steps
  <2>4. MutexInv' /\ HeadInv' /\ Filled'
    BY <1>i, <1>p DEF MutexInv, HeadInv, Filled, Threads
  <2> QED
    BY <2>1, <2>3, <2>4 DEF IndInv
<1>5. ASSUME NEW i \in Items, Insert(i) PROVE IndInv'
  <2>1. /\ pc["producer"] = "store"
        /\ pc' = [pc EXCEPT !["producer"] = "unlock"]
        /\ pos' = head["producer"] + 1
        /\ buffer' = Written(head["producer"] + 1, i)
        /\ UNCHANGED <<canRead, canWrite, mutex, head, item>>
    BY <1>5 DEF Insert, Goto
  <2>2. head["producer"] = pos /\ pos < BufferLen
    BY <2>1, <1>i, <1>p, Room DEF HeadInv
  <2>3. pos' = pos + 1 /\ pos' \in 0..BufferLen /\ pc["consumer"] # "store"
    BY <2>1, <2>2, <1>i, <1>p DEF MutexInv
  <2>w. /\ buffer' \in [0..(BufferLen - 1) -> Items \cup {None}]
        /\ \A j \in 1..pos : j < BufferLen => buffer'[j] = buffer[j]
        /\ pos + 1 < BufferLen => buffer'[pos + 1] = i
    BY <2>1, <2>2, <1>i, <1>p DEF Written, TypeOK
  <2>4. SemaphoresCount'
    BY <2>1, <2>3, <1>i, <1>p DEF SemaphoresCount, At, Threads, Steps
  <2>5. TypeOK'
    BY <2>1, <2>2, <2>3, <2>w, <1>i, <1>p DEF TypeOK, Threads, Steps
  <2>6. MutexInv'
    BY <2>1, <1>i, <1>p DEF MutexInv, Threads
  <2>7. HeadInv'
    BY <2>1, <2>3, <1>p DEF HeadInv, Threads
  <2>8. Filled'
    BY <2>2, <2>3, <2>w, <1>i, <1>p DEF Filled
  <2> QED
    BY <2>4, <2>5, <2>6, <2>7, <2>8 DEF IndInv
<1>6. CASE Remove
  <2>1. /\ pc["consumer"] = "store"
        /\ pc' = [pc EXCEPT !["consumer"] = "unlock"]
        /\ pos' = head["consumer"] - 1
        /\ item' \in ReadFrom(head["consumer"])
        /\ UNCHANGED <<canRead, canWrite, mutex, buffer, head>>
    BY <1>6 DEF Remove, Goto
  <2>2. head["consumer"] = pos /\ pos > 0
    BY <2>1, <1>i, <1>p, Room DEF HeadInv
  <2>3. pos' = pos - 1 /\ pos' \in 0..BufferLen /\ pc["producer"] # "store"
    BY <2>1, <2>2, <1>i, <1>p DEF MutexInv
  <2>r. item' \in Items \cup {None}
    BY <2>1, <2>2, <1>i, <1>p DEF ReadFrom, TypeOK
  <2>4. SemaphoresCount'
    BY <2>1, <2>3, <1>i, <1>p DEF SemaphoresCount, At, Threads, Steps
  <2>5. TypeOK'
    BY <2>1, <2>2, <2>3, <2>r, <1>i, <1>p DEF TypeOK, Threads, Steps
  <2>6. MutexInv'
    BY <2>1, <1>i, <1>p DEF MutexInv, Threads
  <2>7. HeadInv'
    BY <2>1, <2>3, <1>p DEF HeadInv, Threads
  <2>8. Filled'
    BY <2>1, <2>2, <2>3, <1>i, <1>p DEF Filled
  <2> QED
    BY <2>4, <2>5, <2>6, <2>7, <2>8 DEF IndInv
<1>7. ASSUME NEW t \in Threads, Lock(t) \/ Load(t) \/ Unlock(t) PROVE IndInv'
  <2> USE <1>7 DEF Lock, Load, Unlock, Goto
  <2>1. SemaphoresCount'
    BY <1>i, <1>p DEF SemaphoresCount, At, Threads, Steps
  <2>2. TypeOK'
    BY <1>i, <1>p DEF TypeOK, Threads, Steps
  <2>3. MutexInv'
    BY <1>i, <1>p DEF MutexInv, Threads
  <2>4. HeadInv' /\ Filled'
    BY <1>i, <1>p DEF HeadInv, Filled, TypeOK, Threads
  <2> QED
    BY <2>1, <2>2, <2>3, <2>4 DEF IndInv
<1>8. CASE UNCHANGED vars
  BY <1>8, <1>i DEF vars, IndInv, TypeOK, SemaphoresCount, At, MutexInv, HeadInv, Filled
<1> QED
  BY <1>1, <1>2, <1>3, <1>4, <1>5, <1>6, <1>7, <1>8 DEF Next, InsertItem

\* The inductive invariant holds in every reachable state.
THEOREM Invariance == Spec => []IndInv
  BY InitInv, StepInv, PTL DEF Spec

\* The program keeps its types: pos and the semaphores stay within the buffer
\* length.
THEOREM TypeCorrect == Spec => []TypeOK
<1>1. IndInv => TypeOK
  BY DEF IndInv
<1> QED
  BY <1>1, Invariance, PTL

\* canRead and canWrite count the items and the free places (lines 14-20).
THEOREM SemaphoresCorrect == Spec => []SemaphoresCount
<1>1. IndInv => SemaphoresCount
  BY DEF IndInv
<1> QED
  BY <1>1, Invariance, PTL

\* The first n places of a buffer are a sequence of n values.
LEMMA Prefix ==
  ASSUME NEW V, NEW n \in Nat, NEW b, \A i \in 1..n : b[i] \in V
  PROVE  /\ [i \in 1..n |-> b[i]] \in Seq(V)
         /\ Len([i \in 1..n |-> b[i]]) = n
<1> DEFINE s == [i \in 1..n |-> b[i]]
<1>1. s \in [1..n -> V] /\ DOMAIN s = 1..n
  OBVIOUS
<1> HIDE DEF s
<1>2. s \in Seq(V)
  BY <1>1, SeqDef
<1>3. Len(s) = n
  BY <1>1, <1>2, LenProperties
<1> QED
  BY <1>2, <1>3 DEF s

\* The program is a stack that loses the item at place BufferLen, outside the
\* array: InsertItem and RemoveItem take effect at their store, every other
\* step is a stutter.
THEOREM Refinement == Spec => Refines
<1> DEFINE kept == [p \in 1..BufferLen |->
                      IF p \in DOMAIN buffer THEN buffer[p] ELSE None]
           st == [p \in 1..pos |-> IF p \in DOMAIN buffer THEN buffer[p] ELSE None]
           V == Items \cup {None}
<1>1. Init => Promise!Init
  BY DEF Init, Promise!Init
<1>2. IndInv /\ [Next]_vars => [Promise!Next]_(Promise!vars)
  <2> SUFFICES ASSUME IndInv, [Next]_vars PROVE [Promise!Next]_(Promise!vars)
    OBVIOUS
  <2> USE DEF Promise!vars
  <2>i. TypeOK /\ SemaphoresCount /\ HeadInv
        /\ pos \in 0..BufferLen /\ "producer" \in Threads /\ "consumer" \in Threads
    BY BufferLenAssumption DEF IndInv, TypeOK, Threads
  <2>d. DOMAIN buffer = 0..(BufferLen - 1)
    BY <2>i DEF TypeOK
  <2>b. \A j \in 1..pos : kept[j] \in V
    BY <2>i, BufferLenAssumption DEF TypeOK
  <2>f. \A j \in 1..pos : j < BufferLen => kept[j] \in Items
    BY <2>i, <2>d, BufferLenAssumption DEF IndInv, Filled
  <2>k. st = [j \in 1..pos |-> kept[j]]
    BY <2>i, BufferLenAssumption
  <2>s. st \in Seq(V) /\ Len(st) = pos
    <3> HIDE DEF kept, V, st
    <3> QED
      BY <2>i, <2>b, <2>k, Prefix, BufferLenAssumption
  <2>1. CASE WaitCanWrite \/ PostCanRead \/ WaitCanRead \/ PostCanWrite
    BY <2>1 DEF WaitCanWrite, PostCanRead, WaitCanRead, PostCanWrite
  <2>2. ASSUME NEW t \in Threads, Lock(t) \/ Load(t) \/ Unlock(t)
        PROVE  UNCHANGED <<pos, buffer, item>>
    BY <2>2 DEF Lock, Load, Unlock
  <2>3. ASSUME NEW i \in Items, Insert(i) PROVE Promise!Put(i)
    <3> DEFINE x == IF pos + 1 < BufferLen THEN i ELSE None
    <3>1. /\ pos' = pos + 1
          /\ buffer' = Written(pos + 1, i)
          /\ item' = item
          /\ pos < BufferLen
      BY <2>3, <2>i, Room DEF Insert, Goto, HeadInv
    <3>2. /\ DOMAIN buffer' = DOMAIN buffer
          /\ \A j \in 1..pos : j \in DOMAIN buffer => buffer'[j] = buffer[j]
          /\ pos + 1 \in DOMAIN buffer => buffer'[pos + 1] = i
      BY <3>1, <2>i, <2>d DEF Written
    <3>3. st' = [j \in 1..(pos + 1) |-> IF j = pos + 1 THEN x ELSE kept[j]]
      BY <3>1, <3>2, <2>i, <2>d, BufferLenAssumption
    <3>4. Append(st, x) = [j \in 1..(pos + 1) |-> IF j = pos + 1 THEN x ELSE kept[j]]
      <4> HIDE DEF kept, x, st, V
      <4> QED
        BY <2>s, <2>k, <2>i, BufferLenAssumption
    <3>5. st' = Append(st, IF Len(st) + 1 < BufferLen THEN i ELSE None)
      BY <3>3, <3>4, <2>s, Zenon
    <3> QED
      BY <3>1, <3>5, <2>s DEF Promise!Put
  <2>4. CASE Remove
    <3>1. /\ pos' = pos - 1
          /\ item' \in ReadFrom(pos)
          /\ buffer' = buffer
          /\ pos > 0
      BY <2>4, <2>i, Room DEF Remove, Goto, HeadInv
    <3>2. st # <<>> /\ st[Len(st)] = kept[pos]
      BY <3>1, <2>s, <2>i, <2>k
    <3>r. item' \in IF kept[pos] = None THEN V ELSE {kept[pos]}
      <4>1. CASE pos < BufferLen
        <5>1. kept[pos] \in Items /\ kept[pos] = buffer[pos] /\ pos \in DOMAIN buffer
          BY <4>1, <3>1, <2>i, <2>d, <2>f, BufferLenAssumption
        <5>2. item' = buffer[pos]
          BY <5>1, <3>1 DEF ReadFrom
        <5> QED
          BY <5>1, <5>2, ItemsAssumption
      <4>2. CASE pos = BufferLen
        <5>1. pos \notin DOMAIN buffer /\ kept[pos] = None
          BY <4>2, <3>1, <2>i, <2>d, BufferLenAssumption
        <5> QED
          BY <5>1, <3>1 DEF ReadFrom
      <4> QED
        BY <4>1, <4>2, <2>i, BufferLenAssumption
    <3>3. st' = [j \in 1..(pos - 1) |-> kept[j]]
      BY <3>1, <2>i, BufferLenAssumption
    <3>4. SubSeq(st, 1, pos - 1) = [j \in 1..(pos - 1) |-> kept[j]]
      <4> DEFINE l == SubSeq(st, 1, pos - 1)
                 r == [j \in 1..(pos - 1) |-> kept[j]]
      <4> HIDE DEF kept, st, V
      <4>1. pos - 1 \in Nat
        BY <3>1, <2>i, BufferLenAssumption
      <4>2. \A j \in 1..(pos - 1) : st[j] = kept[j] /\ kept[j] \in V
        BY <4>1, <2>i, <2>b, <2>k, BufferLenAssumption
      <4>3. r \in Seq(V) /\ Len(r) = pos - 1
        BY <4>1, <4>2, Prefix
      <4>4. \A j \in 1..(pos - 1) : r[j] = kept[j]
        OBVIOUS
      <4> HIDE DEF r
      <4>5. /\ l \in Seq(V)
            /\ Len(l) = pos - 1
            /\ \A j \in 1..(pos - 1) : l[j] = st[j]
        BY <4>1, <2>s, <2>i, BufferLenAssumption, SMTT(30)
      <4> HIDE DEF l
      <4>6. \A j \in 1..Len(l) : l[j] = r[j]
        BY <4>2, <4>4, <4>5
      <4>7. l = r
        BY <4>3, <4>5, <4>6, SeqEqual
      <4> QED
        BY <4>7 DEF l, r
    <3>5. st' = SubSeq(st, 1, Len(st) - 1)
      BY <3>3, <3>4, <2>s
    <3> QED
      BY <3>2, <3>5, <3>r DEF Promise!Next, Promise!Get
  <2>5. CASE UNCHANGED vars
    BY <2>5 DEF vars
  <2> QED
    BY <2>1, <2>2, <2>3, <2>4, <2>5 DEF Next, InsertItem, Promise!Next
<1> QED
  BY <1>1, <1>2, Invariance, PTL DEF Spec, Refines, Promise!Spec

============================================================================
