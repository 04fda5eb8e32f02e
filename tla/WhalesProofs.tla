----------------------------- MODULE WhalesProofs -----------------------------
(***************************************************************************)
(* Proofs about the whales, for any number of them.                        *)
(***************************************************************************)
EXTENDS Whales, FiniteSetTheorems, TLAPS

\* The nodes that belong to the queue of a sex: the one of whaleInit and those
\* of the whales of that sex that have run
Own(s) == {Dummy(s)} \cup
          {w \in Whales : sex[w] = s /\ pc[w] \notin {"none", "created"}}

\* The nodes from the head of the queue on
Pos(s, i) == IF i = 0 THEN queue[s] ELSE line[s][i]

\* The nodes of a queue are its own, and no node is in it twice.
NodesInv ==
  \A s \in Sexes :
    /\ \A i \in 0..Len(line[s]) : Pos(s, i) \in Own(s)
    /\ \A i, j \in 0..Len(line[s]) : i # j => Pos(s, i) # Pos(s, j)

\* How many whales are at place p
N(p) == Cardinality(At(p))

\* Each matchmaker lets one whale go, and nobody goes without one.
MakersCount == maker_avail + N("done") = N("maker")

\* Every whale that joined a queue is counted there or was matched, two at a time.
JoinedInv ==
  N("wait_mate") + N("wait_maker") + N("done")
    = count["male"] + count["female"] + 2 * N("maker")

\* For every pair that is or was ready, a whale has come to wait for its matchmaker.
ReadyInv ==
  N("wait_maker") + N("done") >= N("maker") + (IF PairReady THEN 1 ELSE 0)

\* main returns when everything is at rest.
RestInv == exited => \A w \in Whales : ~Busy(w)

IndInv == /\ TypeOK /\ QueueInv /\ NodesInv /\ OnePairAtATime
          /\ MakersCount /\ JoinedInv /\ ReadyInv /\ RestInv

-----------------------------------------------------------------------------
(* Counting whales.                                                        *)

LEMMA AtFinite ==
  ASSUME NEW p
  PROVE  IsFiniteSet(At(p)) /\ N(p) \in Nat
<1>1. IsFiniteSet(Whales)
  BY NumWhalesAssumption, FS_Interval DEF Whales
<1>2. IsFiniteSet(At(p))
  BY <1>1, FS_Subset DEF At
<1> QED
  BY <1>2, FS_CardinalityType DEF N

\* A whale goes from place a to place q.
LEMMA Move ==
  ASSUME TypeOK, NEW w \in Whales, NEW a \in Places, NEW q \in Places, pc[w] = a, q # a,
         pc' = [pc EXCEPT ![w] = q]
  PROVE  /\ N(a)' = N(a) - 1 /\ N(a) > 0
         /\ N(q)' = N(q) + 1
         /\ \A p : p # a /\ p # q => N(p)' = N(p)
<1>1. At(a)' = At(a) \ {w} /\ w \in At(a)
  BY DEF At, TypeOK
<1>2. At(q)' = At(q) \cup {w} /\ w \notin At(q)
  BY DEF At, TypeOK
<1>3. \A p : p # a /\ p # q => At(p)' = At(p)
  BY DEF At, TypeOK
<1>4. Cardinality(At(a) \ {w}) = Cardinality(At(a)) - 1
  BY <1>1, AtFinite, FS_RemoveElement
<1>5. Cardinality(At(q) \cup {w}) = Cardinality(At(q)) + 1
  BY <1>2, AtFinite, FS_AddElement
<1>6. N(a) \in Nat /\ N(a) # 0
  BY <1>1, AtFinite, FS_EmptySet DEF N
<1> QED
  BY <1>1, <1>2, <1>3, <1>4, <1>5, <1>6 DEF N

\* Nobody moves.
LEMMA Stay ==
  ASSUME pc' = pc
  PROVE  \A p : N(p)' = N(p)
BY DEF N, At

-----------------------------------------------------------------------------
(* The queues as chains of nodes.                                          *)

\* QueueOf, by the positions of the nodes
Chain(s) ==
  /\ count[s] = Len(line[s])
  /\ \A i \in 1..Len(line[s]) : line[s][i] \in Whales
  /\ tail[queue[s]] = Pos(s, Len(line[s]))
  /\ \A i \in 0..(Len(line[s]) - 1) : next[Pos(s, i)] = Pos(s, i + 1)
  /\ next[Pos(s, Len(line[s]))] = NULL

LEMMA ChainOfQueue ==
  ASSUME TypeOK, NEW s \in Sexes, QueueOf(s)
  PROVE  Chain(s)
<1> DEFINE n == Len(line[s])
<1>1. n \in Nat /\ line[s] \in Seq(Whales)
  BY DEF TypeOK
<1>2. tail[queue[s]] = Pos(s, n)
  BY <1>1 DEF QueueOf, Pos
<1>3. ASSUME NEW i \in 0..(n - 1)
      PROVE  next[Pos(s, i)] = Pos(s, i + 1)
  BY <1>1, <1>3 DEF QueueOf, Pos
<1> QED
  BY <1>1, <1>2, <1>3 DEF QueueOf, Chain

LEMMA QueueOfChain ==
  ASSUME NEW s \in Sexes, queue'[s] \in Nodes, line'[s] \in Seq(Whales), Chain(s)'
  PROVE  QueueOf(s)'
<1>1. PICK n \in Nat : n = Len(line'[s])
  OBVIOUS
<1>2. /\ count'[s] = n
      /\ \A i \in 1..n : line'[s][i] \in Whales
      /\ tail'[queue'[s]] = Pos(s, n)'
      /\ \A i \in 0..(n - 1) : next'[Pos(s, i)'] = Pos(s, i + 1)'
      /\ next'[Pos(s, n)'] = NULL
  BY <1>1 DEF Chain
<1>3. Pos(s, 0)' = queue'[s] /\ \A i \in 1..n : Pos(s, i)' = line'[s][i]
  BY <1>1 DEF Pos
<1>4. n # 0 => next'[queue'[s]] = line'[s][1] /\ tail'[queue'[s]] = line'[s][n]
  BY <1>2, <1>3
<1>5. \A i \in 1..(n - 1) : next'[line'[s][i]] = line'[s][i + 1]
  BY <1>2, <1>3
<1>6. n = 0 => tail'[queue'[s]] = queue'[s]
  BY <1>2, <1>3
<1>7. next'[tail'[queue'[s]]] = NULL
  BY <1>2
<1> QED
  BY <1>1, <1>2, <1>4, <1>5, <1>6, <1>7 DEF QueueOf

\* The two sexes share no node.
LEMMA OwnDisjoint ==
  ASSUME NEW s \in Sexes, NEW t \in Sexes, s # t
  PROVE  Own(s) \cap Own(t) = {}
BY NumWhalesAssumption DEF Own, Sexes, Dummy, Whales

\* A whale that has not run yet has no node.
LEMMA NotOwn ==
  ASSUME NEW w \in Whales, pc[w] = "created", NEW s \in Sexes
  PROVE  w \notin Own(s)
BY NumWhalesAssumption DEF Own, Sexes, Dummy, Whales

\* The node of a whale that runs goes to its sex, no node is given back.
LEMMA OwnGrows ==
  ASSUME TypeOK, NEW w \in Whales, pc[w] = "created", NEW s \in Sexes,
         NEW q, q \notin {"none", "created"},
         pc' = [pc EXCEPT ![w] = q], sex' = [sex EXCEPT ![w] = s]
  PROVE  w \in Own(s)' /\ \A t \in Sexes : Own(t) \subseteq Own(t)'
BY DEF Own, TypeOK

\* Own only looks at whales that have run.
LEMMA OwnKept ==
  ASSUME TypeOK, NEW w \in Whales, NEW q \in Places \ {"none"},
         q = "created" => pc[w] = "none",
         pc' = [pc EXCEPT ![w] = q], sex' = sex
  PROVE  \A t \in Sexes : Own(t) \subseteq Own(t)'
BY DEF Own, TypeOK

\* A whale joins the queue of its sex (lines 140-145).
LEMMA JoinedQueues ==
  ASSUME IndInv, NEW w \in Whales, pc[w] = "created", NEW s \in Sexes, Joined(w, s),
         NEW q, q \notin {"none", "created"},
         pc' = [pc EXCEPT ![w] = q], sex' = [sex EXCEPT ![w] = s],
         line' \in [Sexes -> Seq(Whales)]
  PROVE  QueueInv' /\ NodesInv'
<1> USE DEF IndInv
<1>1. \A t \in Sexes : w \in Nodes /\ queue[t] \in Nodes /\ queue'[t] \in Nodes
                       /\ line[t] \in Seq(Whales) /\ line'[t] \in Seq(Whales)
  <2>1. queue' = queue
    BY DEF Joined
  <2>2. w \in Nodes
    BY NumWhalesAssumption DEF Whales, Nodes
  <2> QED
    BY <2>1, <2>2 DEF TypeOK
<1>2. \A t \in Sexes : Chain(t)
  BY ChainOfQueue DEF QueueInv
<1>3. w \in Own(s)' /\ \A t \in Sexes : Own(t) \subseteq Own(t)' /\ w \notin Own(t)
  BY OwnGrows, NotOwn
<1>4. ASSUME NEW t \in Sexes, NEW i \in 0..Len(line[t])
      PROVE  Pos(t, i) \in Own(t) /\ Pos(t, i) # w /\ Pos(t, i) \in Nodes
  <2>1. Pos(t, i) \in Own(t)
    BY <1>4 DEF NodesInv
  <2>2. Own(t) \subseteq Nodes
    BY NumWhalesAssumption DEF Own, Dummy, Whales, Nodes
  <2> QED
    BY <2>1, <2>2, <1>3
<1>5. tail[queue[s]] = Pos(s, Len(line[s]))
  BY <1>2 DEF Chain
<1>6. ASSUME NEW t \in Sexes
      PROVE  /\ QueueOf(t)'
             /\ \A i \in 0..Len(line'[t]) : Pos(t, i)' \in Own(t)'
             /\ \A i, j \in 0..Len(line'[t]) : i # j => Pos(t, i)' # Pos(t, j)'
  <2>n. PICK n \in Nat : n = Len(line[t])
    BY <1>1
  <2>0. n = Len(line[t]) /\ n \in 0..n /\ 0 \in 0..n /\ Pos(t, 0) = queue[t]
    BY <1>1, <2>n DEF Pos
  <2>1. CASE t # s
    <3>1. line'[t] = line[t] /\ count'[t] = count[t] /\ queue'[t] = queue[t]
      BY <2>1 DEF Joined, TypeOK
    <3>2. \A i \in 0..n : Pos(t, i)' = Pos(t, i)
      BY <3>1 DEF Pos
    <3>3. ASSUME NEW i \in 0..n
          PROVE  Pos(t, i) # tail[queue[s]] /\ Pos(t, i) # queue[s]
      <4>1. 0 \in 0..Len(line[s]) /\ Len(line[s]) \in 0..Len(line[s])
        BY <1>1
      <4>2. tail[queue[s]] \in Own(s) /\ queue[s] \in Own(s)
        BY <4>1, <1>4, <1>5 DEF Pos
      <4> QED
        BY <4>2, <1>4, <2>0, <2>1, OwnDisjoint
    <3>4. \A i \in 0..n : next'[Pos(t, i)] = next[Pos(t, i)] /\ tail'[Pos(t, i)] = tail[Pos(t, i)]
      BY <1>4, <2>0, <3>3 DEF Joined, TypeOK
    <3>5. Chain(t)'
      <4>1. tail'[queue'[t]] = Pos(t, Len(line[t]))'
        BY <1>2, <2>0, <3>1, <3>2, <3>4 DEF Chain
      <4>2. \A i \in 0..(n - 1) : next'[Pos(t, i)'] = Pos(t, i + 1)'
        BY <1>2, <2>0, <3>2, <3>4 DEF Chain
      <4>3. next'[Pos(t, n)'] = NULL
        BY <1>2, <2>0, <3>2, <3>4 DEF Chain
      <4> QED
        BY <1>2, <2>0, <3>1, <4>1, <4>2, <4>3 DEF Chain
    <3>6. QueueOf(t)'
      BY <1>1, <3>5, QueueOfChain
    <3> QED
      BY <2>0, <3>1, <3>2, <3>6, <1>3, <1>4 DEF NodesInv
  <2>2. CASE t = s
    <3>1. /\ line'[t] = Append(line[t], w) /\ Len(line'[t]) = n + 1
          /\ count'[t] = count[t] + 1 /\ queue'[t] = queue[t]
      BY <1>1, <2>0, <2>2 DEF Joined, TypeOK
    <3>2. (\A i \in 0..n : Pos(t, i)' = Pos(t, i)) /\ Pos(t, n + 1)' = w
      BY <1>1, <2>0, <3>1 DEF Pos
    <3>3. \A i \in 0..n : next'[Pos(t, i)] = IF i = n THEN w ELSE next[Pos(t, i)]
      <4>1. \A i \in 0..n : i # n => Pos(t, i) # tail[queue[s]]
        BY <1>5, <2>0, <2>2 DEF NodesInv
      <4> QED
        BY <1>4, <1>5, <2>0, <2>2, <4>1 DEF Joined, TypeOK
    <3>4. next'[w] = NULL /\ tail'[queue[t]] = w
      BY <1>1, <2>2 DEF Joined, TypeOK
    <3>5. Chain(t)'
      <4>1. tail'[queue'[t]] = Pos(t, Len(line[t]))'
        BY <3>1, <3>2, <3>4
      <4>2. \A i \in 0..((n + 1) - 1) : next'[Pos(t, i)'] = Pos(t, i + 1)'
        BY <1>2, <2>0, <3>2, <3>3 DEF Chain
      <4>3. next'[Pos(t, n + 1)'] = NULL
        BY <3>2, <3>4
      <4>4. \A i \in 1..(n + 1) : line'[t][i] \in Whales
        BY <1>1, <3>1
      <4> QED
        BY <1>2, <3>1, <4>1, <4>2, <4>3, <4>4 DEF Chain
    <3>6. QueueOf(t)'
      BY <1>1, <3>5, QueueOfChain
    <3>7. \A i \in 0..(n + 1) : i \in 0..n \/ i = n + 1
      BY <2>0
    <3>8. \A i \in 0..(n + 1) : Pos(t, i)' \in Own(t)'
      BY <1>3, <1>4, <2>0, <2>2, <3>2, <3>7
    <3>9. \A i, j \in 0..n : i # j => Pos(t, i) # Pos(t, j)
      BY <2>0 DEF NodesInv
    <3>10. \A i, j \in 0..(n + 1) : i # j => Pos(t, i)' # Pos(t, j)'
      BY <1>4, <2>0, <3>2, <3>7, <3>9
    <3> QED
      BY <3>1, <3>6, <3>8, <3>10
  <2> QED
    BY <2>1, <2>2
<1> QED
  BY <1>6 DEF QueueInv, NodesInv

\* A matchmaker takes the first whale off each queue (lines 111-126).
LEMMA MatchedQueues ==
  ASSUME IndInv, NEW w \in Whales, pc[w] = "created", NEW s \in Sexes, BecomeMatchMaker(w),
         sex' = [sex EXCEPT ![w] = s]
  PROVE  /\ queue' \in [Sexes -> Nodes] /\ tail' \in [Nodes -> Nodes]
         /\ line' \in [Sexes -> Seq(Whales)] /\ QueueInv' /\ NodesInv'
<1> USE DEF IndInv
<1>1. \A t \in Sexes : queue[t] \in Nodes /\ line[t] \in Seq(Whales)
  BY DEF TypeOK
<1>2. \A t \in Sexes : Chain(t)
  BY ChainOfQueue DEF QueueInv
<1>3. \A t \in Sexes : Len(line[t]) \in Nat /\ Len(line[t]) >= 1
  BY <1>1, <1>2 DEF Chain, BecomeMatchMaker, PairReady, TypeOK
<1>4. ASSUME NEW t \in Sexes
      PROVE  next[queue[t]] = Pos(t, 1) /\ Pos(t, 1) \in Whales
  <2>1. 0 \in 0..(Len(line[t]) - 1) /\ 1 \in 1..Len(line[t])
    BY <1>3
  <2>2. Pos(t, 0) = queue[t] /\ Pos(t, 0 + 1) = Pos(t, 1) /\ Pos(t, 1) = line[t][1]
    BY DEF Pos
  <2> QED
    BY <1>2, <2>1, <2>2 DEF Chain
<1>5. \A t \in Sexes : next[queue[t]] \in Nodes /\ next[queue[t]] # NULL
  BY <1>4, NumWhalesAssumption DEF Whales, Nodes, NULL
<1>6. /\ queue' = [t \in Sexes |-> next[queue[t]]]
      /\ tail' = [n \in Nodes |->
                    IF \E t \in Sexes : n = next[queue[t]]
                    THEN tail[queue[CHOOSE t \in Sexes : n = next[queue[t]]]]
                    ELSE tail[n]]
  BY <1>5 DEF BecomeMatchMaker, Advanced
<1>7. queue' \in [Sexes -> Nodes]
  BY <1>5, <1>6
<1>8. tail' \in [Nodes -> Nodes]
  <2>1. \A n \in Nodes : (\E t \in Sexes : n = next[queue[t]]) =>
            (CHOOSE t \in Sexes : n = next[queue[t]]) \in Sexes
    OBVIOUS
  <2> QED
    BY <1>1, <1>6, <2>1 DEF TypeOK
<1>9. \A t \in Sexes : Pos(t, 1) \in Own(t)
  BY <1>3 DEF NodesInv
<1>10. \A t \in Sexes : (CHOOSE u \in Sexes : Pos(t, 1) = next[queue[u]]) = t
  <2>1. ASSUME NEW t \in Sexes, NEW u \in Sexes, Pos(t, 1) = next[queue[u]]
        PROVE  u = t
    BY <2>1, <1>4, <1>9, OwnDisjoint
  <2> QED
    BY <2>1, <1>4
<1>11. line' = [t \in Sexes |-> Tail(line[t])] /\ next' = next
       /\ count' = [t \in Sexes |-> count[t] - 1]
  BY DEF BecomeMatchMaker
<1>12. \A t \in Sexes : /\ line'[t] \in Seq(Whales) /\ Len(line'[t]) = Len(line[t]) - 1
                        /\ \A i \in 1..(Len(line[t]) - 1) : line'[t][i] = line[t][i + 1]
  BY <1>1, <1>3, <1>11
<1>13. line' \in [Sexes -> Seq(Whales)]
  BY <1>11, <1>12
<1>14. \A t \in Sexes : Own(t) \subseteq Own(t)'
  BY OwnGrows DEF BecomeMatchMaker
<1>15. ASSUME NEW t \in Sexes
       PROVE  /\ QueueOf(t)'
              /\ \A i \in 0..Len(line'[t]) : Pos(t, i)' \in Own(t)'
              /\ \A i, j \in 0..Len(line'[t]) : i # j => Pos(t, i)' # Pos(t, j)'
  <2>n. PICK n \in Nat : n = Len(line[t])
    BY <1>3
  <2>0. n = Len(line[t]) /\ n >= 1 /\ Len(line'[t]) = n - 1
    BY <1>3, <1>12, <2>n
  <2>1. \A i \in 0..(n - 1) : Pos(t, i)' = Pos(t, i + 1) /\ i + 1 \in 0..n
    BY <2>0, <1>4, <1>6, <1>12 DEF Pos
  <2>2. tail'[queue'[t]] = tail[queue[t]]
    <3>1. queue'[t] = Pos(t, 1) /\ Pos(t, 1) \in Nodes /\ Pos(t, 1) = next[queue[t]]
      BY <1>4, <1>5, <1>6
    <3>2. tail'[Pos(t, 1)] = tail[queue[CHOOSE u \in Sexes : Pos(t, 1) = next[queue[u]]]]
      BY <1>6, <3>1
    <3> QED
      BY <3>1, <3>2, <1>10
  <2>3. tail'[queue'[t]] = Pos(t, Len(line[t]))'
    BY <1>2, <2>0, <2>1, <2>2 DEF Chain
  <2>4. \A i \in 0..((n - 1) - 1) : next'[Pos(t, i)'] = Pos(t, i + 1)'
    BY <1>2, <1>11, <2>0, <2>1 DEF Chain
  <2>5. next'[Pos(t, n - 1)'] = NULL
    BY <1>2, <1>11, <2>0, <2>1 DEF Chain
  <2>6. (\A i \in 1..(n - 1) : line'[t][i] \in Whales) /\ count'[t] = n - 1
    BY <1>2, <1>11, <1>12, <2>0 DEF Chain
  <2>7. Chain(t)'
    BY <2>0, <2>3, <2>4, <2>5, <2>6 DEF Chain
  <2>8. QueueOf(t)'
    BY <1>7, <1>12, <2>7, QueueOfChain
  <2>9. \A i \in 0..(n - 1) : Pos(t, i)' \in Own(t)'
    BY <2>0, <2>1, <1>14 DEF NodesInv
  <2>10. \A i, j \in 0..n : i # j => Pos(t, i) # Pos(t, j)
    BY <2>0 DEF NodesInv
  <2>11. \A i, j \in 0..(n - 1) : i # j => i + 1 # j + 1
    OBVIOUS
  <2>12. \A i, j \in 0..(n - 1) : i # j => Pos(t, i)' # Pos(t, j)'
    BY <2>1, <2>10, <2>11
  <2> QED
    BY <2>0, <2>8, <2>9, <2>12
<1> QED
  BY <1>7, <1>8, <1>13, <1>15 DEF QueueInv, NodesInv

\* A step that leaves the queues alone leaves what is said of them.
LEMMA KeptQueues ==
  ASSUME IndInv, UNCHANGED queues, \A t \in Sexes : Own(t) \subseteq Own(t)'
  PROVE  QueueInv' /\ NodesInv' /\ OnePairAtATime' /\ PairReady' = PairReady
<1>1. QueueInv'
  BY DEF IndInv, QueueInv, QueueOf, queues
<1>2. \A t \in Sexes : \A i : Pos(t, i)' = Pos(t, i)
  BY DEF Pos, queues
<1>3. NodesInv'
  BY <1>2 DEF IndInv, NodesInv, queues
<1>4. OnePairAtATime' /\ PairReady' = PairReady
  BY DEF IndInv, OnePairAtATime, PairReady, queues
<1> QED
  BY <1>1, <1>3, <1>4

-----------------------------------------------------------------------------
(* The invariant is inductive.                                             *)

LEMMA InitInv == Init => IndInv
<1> SUFFICES ASSUME Init PROVE IndInv
  OBVIOUS
<1>1. TypeOK
  <2>1. \A s \in Sexes : Dummy(s) \in Nodes
    BY NumWhalesAssumption DEF Sexes, Nodes, Dummy
  <2>2. line \in [Sexes -> Seq(Whales)]
    BY DEF Init
  <2>3. "none" \in Places
    BY DEF Places
  <2> QED
    BY <2>1, <2>2, <2>3 DEF Init, TypeOK
<1>2. QueueInv
  BY NumWhalesAssumption DEF Init, QueueInv, QueueOf, Sexes, Nodes, Dummy
<1>3. NodesInv
  <2>1. \A s \in Sexes : Len(line[s]) = 0 /\ queue[s] = Dummy(s)
    BY DEF Init
  <2>2. \A s \in Sexes : Pos(s, 0) \in Own(s)
    BY <2>1 DEF Pos, Own
  <2> QED
    BY <2>1, <2>2 DEF NodesInv
<1>4. OnePairAtATime /\ ~PairReady
  BY DEF Init, OnePairAtATime, PairReady, Sexes
<1>5. \A p : p # "none" => N(p) = 0
  <2>1. \A p : p # "none" => At(p) = {}
    BY DEF Init, At
  <2> QED
    BY <2>1, FS_EmptySet DEF N
<1>6. MakersCount /\ JoinedInv /\ ReadyInv
  BY <1>4, <1>5 DEF Init, MakersCount, JoinedInv, ReadyInv, N, Sexes
<1>7. RestInv
  BY DEF Init, RestInv
<1> QED
  BY <1>1, <1>2, <1>3, <1>4, <1>6, <1>7 DEF IndInv

LEMMA CreateStep ==
  ASSUME IndInv, NEW w \in Whales, CreateThread(w)
  PROVE  IndInv'
<1> USE DEF IndInv
<1>1. TypeOK'
  BY DEF TypeOK, CreateThread, queues, Places
<1>2. QueueInv' /\ NodesInv' /\ OnePairAtATime' /\ PairReady' = PairReady
  BY KeptQueues, OwnKept DEF Places, CreateThread
<1>3. \A p : p \notin {"none", "created"} => N(p)' = N(p)
  <2>1. pc[w] = "none" /\ pc' = [pc EXCEPT ![w] = "created"]
    BY DEF CreateThread
  <2>2. /\ N("none")' = N("none") - 1 /\ N("created")' = N("created") + 1
        /\ \A p : p # "none" /\ p # "created" => N(p)' = N(p)
    BY <2>1, Move DEF Places
  <2> QED
    BY <2>2
<1>4. MakersCount' /\ JoinedInv' /\ ReadyInv'
  BY <1>2, <1>3 DEF MakersCount, JoinedInv, ReadyInv, N, CreateThread, queues
<1>5. ~exited /\ ~exited'
  BY DEF CreateThread, RestInv, Busy, TypeOK
<1> QED
  BY <1>1, <1>2, <1>4, <1>5 DEF RestInv

LEMMA MatchMakerStep ==
  ASSUME IndInv, NEW w \in Whales, NEW s \in Sexes, pc[w] = "created",
         sex' = [sex EXCEPT ![w] = s], BecomeMatchMaker(w), UNCHANGED exited
  PROVE  IndInv'
<1> USE DEF IndInv
<1>1. /\ queue' \in [Sexes -> Nodes] /\ tail' \in [Nodes -> Nodes]
      /\ line' \in [Sexes -> Seq(Whales)] /\ QueueInv' /\ NodesInv'
  BY MatchedQueues
<1>2. count' = [t \in Sexes |-> count[t] - 1] /\ \A t \in Sexes : count[t] \in Nat /\ count[t] > 0
  BY DEF BecomeMatchMaker, PairReady, TypeOK
<1>3. TypeOK'
  BY <1>1, <1>2 DEF TypeOK, BecomeMatchMaker, Places
<1>4. OnePairAtATime' /\ ~PairReady'
  BY <1>2 DEF OnePairAtATime, PairReady
<1>5. /\ N("maker")' = N("maker") + 1
      /\ \A p : p \notin {"created", "maker"} => N(p)' = N(p)
  <2>1. pc[w] = "created" /\ pc' = [pc EXCEPT ![w] = "maker"]
    BY DEF BecomeMatchMaker
  <2>2. /\ N("created")' = N("created") - 1 /\ N("maker")' = N("maker") + 1
        /\ \A p : p # "created" /\ p # "maker" => N(p)' = N(p)
    BY <2>1, Move DEF Places
  <2> QED
    BY <2>2
<1>6. /\ N("maker") \in Nat /\ N("done") \in Nat
      /\ N("wait_mate") \in Nat /\ N("wait_maker") \in Nat
  BY AtFinite
<1>7. /\ N("done")' = N("done")
      /\ N("wait_mate")' = N("wait_mate") /\ N("wait_maker")' = N("wait_maker")
  BY <1>5
<1>8. MakersCount'
  BY <1>5, <1>6, <1>7 DEF MakersCount, N, BecomeMatchMaker, TypeOK
<1>9. JoinedInv'
  BY <1>2, <1>5, <1>6, <1>7 DEF JoinedInv, Sexes
<1>10. ReadyInv'
  BY <1>4, <1>5, <1>6, <1>7 DEF ReadyInv, BecomeMatchMaker
<1>11. ~exited /\ ~exited'
  BY DEF RestInv, Busy
<1> QED
  BY <1>1, <1>3, <1>4, <1>8, <1>9, <1>10, <1>11 DEF RestInv

LEMMA JoinStep ==
  ASSUME IndInv, NEW w \in Whales, NEW s \in Sexes, pc[w] = "created",
         sex' = [sex EXCEPT ![w] = s], FindMate(w, s) \/ WaitForMate(w, s), UNCHANGED exited
  PROVE  IndInv'
<1> USE DEF IndInv
<1>0. Joined(w, s) /\ ~PairReady
  BY DEF FindMate, WaitForMate
<1>1. PICK q \in {"wait_mate", "wait_maker"} : pc' = [pc EXCEPT ![w] = q]
  BY DEF FindMate, WaitForMate
<1>2. TypeOK'
  <2>1. w \in Nodes /\ NULL \in Nodes \cup {NULL} /\ tail[queue[s]] \in Nodes /\ queue[s] \in Nodes
    BY NumWhalesAssumption DEF Whales, Nodes, TypeOK
  <2>2. pc' \in [Whales -> Places] /\ sex' \in [Whales -> Sexes \cup {"?"}]
    BY <1>1 DEF TypeOK, Places
  <2>3. next' \in [Nodes -> Nodes \cup {NULL}] /\ tail' \in [Nodes -> Nodes]
    BY <1>0, <2>1 DEF TypeOK, Joined
  <2>4. line' \in [Sexes -> Seq(Whales)]
    BY <1>0 DEF TypeOK, Joined
  <2>5. count' \in [Sexes -> Nat] /\ avail' \in [Sexes -> Nat]
    BY <1>0 DEF TypeOK, Joined
  <2>6. queue' = queue /\ maker_avail' = maker_avail
    BY <1>0 DEF Joined
  <2> QED
    BY <2>2, <2>3, <2>4, <2>5, <2>6 DEF TypeOK
<1>3. QueueInv' /\ NodesInv'
  BY <1>0, <1>1, <1>2, JoinedQueues DEF TypeOK
<1>4. count' = [count EXCEPT ![s] = @ + 1] /\ \A t \in Sexes : count[t] \in Nat
  BY <1>0 DEF Joined, TypeOK
<1>5. OnePairAtATime'
  BY <1>0, <1>4 DEF PairReady, OnePairAtATime, Sexes, TypeOK
<1>6. /\ N("maker") \in Nat /\ N("done") \in Nat
      /\ N("wait_mate") \in Nat /\ N("wait_maker") \in Nat
  BY AtFinite
<1>7. N(q)' = N(q) + 1 /\ \A p : p \notin {"created", q} => N(p)' = N(p)
  <2>1. q # "created"
    OBVIOUS
  <2>2. N(q)' = N(q) + 1 /\ \A p : p # "created" /\ p # q => N(p)' = N(p)
    BY <1>1, <2>1, Move DEF Places
  <2> QED
    BY <2>2
<1>8. N("maker")' = N("maker") /\ N("done")' = N("done")
  BY <1>7
<1>9. \/ N("wait_mate")' = N("wait_mate") + 1 /\ N("wait_maker")' = N("wait_maker")
      \/ N("wait_mate")' = N("wait_mate") /\ N("wait_maker")' = N("wait_maker") + 1
  BY <1>7
<1>10. MakersCount'
  BY <1>0, <1>8 DEF MakersCount, N, Joined
<1>11. JoinedInv'
  <2>1. \/ count'["male"] = count["male"] + 1 /\ count'["female"] = count["female"]
        \/ count'["male"] = count["male"] /\ count'["female"] = count["female"] + 1
    BY <1>4 DEF Sexes, TypeOK
  <2>2. count["male"] \in Nat /\ count["female"] \in Nat
    BY <1>4 DEF Sexes
  <2> QED
    BY <1>6, <1>8, <1>9, <2>1, <2>2 DEF JoinedInv
<1>12. ReadyInv'
  <2>1. CASE FindMate(w, s)
    <3>1. q = "wait_maker"
      BY <1>1, <2>1 DEF FindMate, TypeOK
    <3> QED
      BY <1>0, <1>6, <1>7, <1>8, <3>1 DEF ReadyInv
  <2>2. CASE WaitForMate(w, s)
    <3>1. ~PairReady'
      BY <1>4, <2>2 DEF WaitForMate, PairReady, Other, Sexes, TypeOK
    <3> QED
      BY <1>0, <1>6, <1>8, <1>9, <3>1 DEF ReadyInv
  <2> QED
    BY <2>1, <2>2
<1>13. ~exited /\ ~exited'
  BY DEF RestInv, Busy
<1> QED
  BY <1>2, <1>3, <1>5, <1>10, <1>11, <1>12, <1>13 DEF RestInv

LEMMA WaitMateStep ==
  ASSUME IndInv, NEW w \in Whales, WaitMate(w)
  PROVE  IndInv'
<1> USE DEF IndInv
<1>1. TypeOK'
  <2>1. \A t \in Sexes : avail[t] > 0 => avail[t] - 1 \in Nat
    BY DEF TypeOK
  <2>2. avail' \in [Sexes -> Nat]
    BY <2>1 DEF TypeOK, WaitMate
  <2> QED
    BY <2>2 DEF TypeOK, WaitMate, queues, Places
<1>2. QueueInv' /\ NodesInv' /\ OnePairAtATime' /\ PairReady' = PairReady
  <2>1. \A t \in Sexes : Own(t) \subseteq Own(t)'
    BY OwnKept DEF Places, WaitMate
  <2> QED
    BY <2>1, KeptQueues DEF WaitMate
<1>3. /\ N("maker") \in Nat /\ N("done") \in Nat
      /\ N("wait_mate") \in Nat /\ N("wait_maker") \in Nat
  BY AtFinite
<1>4. /\ N("wait_mate")' = N("wait_mate") - 1 /\ N("wait_maker")' = N("wait_maker") + 1
      /\ N("maker")' = N("maker") /\ N("done")' = N("done")
  <2>1. pc[w] = "wait_mate" /\ pc' = [pc EXCEPT ![w] = "wait_maker"]
    BY DEF WaitMate
  <2>2. /\ N("wait_mate")' = N("wait_mate") - 1 /\ N("wait_maker")' = N("wait_maker") + 1
        /\ \A p : p # "wait_mate" /\ p # "wait_maker" => N(p)' = N(p)
    BY <2>1, Move DEF Places
  <2> QED
    BY <2>2
<1>5. MakersCount'
  BY <1>4 DEF MakersCount, N, WaitMate
<1>6. JoinedInv'
  BY <1>3, <1>4 DEF JoinedInv, WaitMate, queues, TypeOK
<1>7. ReadyInv'
  BY <1>2, <1>3, <1>4 DEF ReadyInv
<1>8. ~exited /\ ~exited'
  BY DEF RestInv, Busy, WaitMate
<1> QED
  BY <1>1, <1>2, <1>5, <1>6, <1>7, <1>8 DEF RestInv

LEMMA WaitMakerStep ==
  ASSUME IndInv, NEW w \in Whales, WaitMaker(w)
  PROVE  IndInv'
<1> USE DEF IndInv
<1>1. TypeOK'
  BY DEF TypeOK, WaitMaker, queues, Places
<1>2. QueueInv' /\ NodesInv' /\ OnePairAtATime' /\ PairReady' = PairReady
  <2>1. \A t \in Sexes : Own(t) \subseteq Own(t)'
    BY OwnKept DEF Places, WaitMaker
  <2> QED
    BY <2>1, KeptQueues DEF WaitMaker
<1>3. /\ N("maker") \in Nat /\ N("done") \in Nat
      /\ N("wait_mate") \in Nat /\ N("wait_maker") \in Nat
  BY AtFinite
<1>4. /\ N("wait_maker")' = N("wait_maker") - 1 /\ N("done")' = N("done") + 1
      /\ N("maker")' = N("maker") /\ N("wait_mate")' = N("wait_mate")
  <2>1. pc[w] = "wait_maker" /\ pc' = [pc EXCEPT ![w] = "done"]
    BY DEF WaitMaker
  <2>2. /\ N("wait_maker")' = N("wait_maker") - 1 /\ N("done")' = N("done") + 1
        /\ \A p : p # "wait_maker" /\ p # "done" => N(p)' = N(p)
    BY <2>1, Move DEF Places
  <2> QED
    BY <2>2
<1>5. MakersCount'
  BY <1>3, <1>4 DEF MakersCount, N, WaitMaker, TypeOK
<1>6. JoinedInv'
  BY <1>3, <1>4 DEF JoinedInv, WaitMaker, queues, TypeOK
<1>7. ReadyInv'
  BY <1>2, <1>3, <1>4 DEF ReadyInv
<1>8. ~exited /\ ~exited'
  BY DEF RestInv, Busy, WaitMaker
<1> QED
  BY <1>1, <1>2, <1>5, <1>6, <1>7, <1>8 DEF RestInv

\* All whales stay where they are.
LEMMA QuietStep ==
  ASSUME IndInv, UNCHANGED <<pc, sex, queues, avail, maker_avail>>,
         exited' \in BOOLEAN, exited' => exited \/ \A w \in Whales : ~Busy(w)
  PROVE  IndInv'
<1> USE DEF IndInv
<1>1. TypeOK'
  BY DEF TypeOK, queues
<1>2. \A t \in Sexes : Own(t) \subseteq Own(t)'
  BY DEF Own
<1>3. QueueInv' /\ NodesInv' /\ OnePairAtATime' /\ PairReady' = PairReady
  BY <1>2, KeptQueues
<1>4. \A p : N(p)' = N(p)
  BY Stay
<1>5. MakersCount' /\ JoinedInv' /\ ReadyInv'
  BY <1>3, <1>4 DEF MakersCount, JoinedInv, ReadyInv, N, queues
<1>6. RestInv'
  BY DEF RestInv, Busy
<1> QED
  BY <1>1, <1>3, <1>5, <1>6

LEMMA StepInv == IndInv /\ [Next]_vars => IndInv'
<1> SUFFICES ASSUME IndInv, [Next]_vars PROVE IndInv'
  OBVIOUS
<1>1. ASSUME NEW w \in Whales, CreateThread(w) PROVE IndInv'
  BY <1>1, CreateStep
<1>2. ASSUME NEW w \in Whales, NEW s \in Sexes, create_whale(w, s) PROVE IndInv'
  BY <1>2, MatchMakerStep, JoinStep DEF create_whale
<1>3. ASSUME NEW w \in Whales, WaitMate(w) PROVE IndInv'
  BY <1>3, WaitMateStep
<1>4. ASSUME NEW w \in Whales, WaitMaker(w) PROVE IndInv'
  BY <1>4, WaitMakerStep
<1>5. CASE MainReturns
  BY <1>5, QuietStep DEF MainReturns
<1>6. CASE UNCHANGED vars
  BY <1>6, QuietStep DEF vars, IndInv, TypeOK
<1> QED
  BY <1>1, <1>2, <1>3, <1>4, <1>5, <1>6 DEF Next, Whale

LEMMA Inductive == Spec => []IndInv
BY InitInv, StepInv, PTL DEF Spec

-----------------------------------------------------------------------------
(* What is proved, for every NumWhales.                                    *)

\* The variables keep their types; in particular queue is never NULL.
THEOREM TypeCorrect == Spec => []TypeOK
<1>1. IndInv => TypeOK
  BY DEF IndInv
<1> QED
  BY <1>1, Inductive, PTL

\* The pointers of create_male and create_female keep each queue a chain of the
\* whales that wait, in the order of their arrival, with its last node as tail.
THEOREM QueueCorrect == Spec => []QueueInv
<1>1. IndInv => QueueInv
  BY DEF IndInv
<1> QED
  BY <1>1, Inductive, PTL

\* The test at the head of create_male and create_female matches a pair as soon
\* as there is one: two never wait.
THEOREM PairsCorrect == Spec => []OnePairAtATime
<1>1. IndInv => OnePairAtATime
  BY DEF IndInv
<1> QED
  BY <1>1, Inductive, PTL

\* main leaves behind, for each match that was made, exactly one of the two
\* whales: no permit of maker_avail is left over, and there is one per match.
THEOREM LeftBehindCorrect == Spec => []LeftBehind
<1>1. IndInv => LeftBehind
  <2> SUFFICES ASSUME IndInv, exited
               PROVE  Cardinality(At("wait_mate") \cup At("wait_maker"))
                        = count["male"] + count["female"] + N("maker")
    BY DEF LeftBehind, N
  <2>1. /\ N("maker") \in Nat /\ N("done") \in Nat
        /\ N("wait_mate") \in Nat /\ N("wait_maker") \in Nat /\ maker_avail \in Nat
    BY AtFinite DEF IndInv, TypeOK
  <2>2. maker_avail + N("done") = N("maker")
    BY DEF IndInv, MakersCount, N
  <2>3. N("wait_maker") + N("done") >= N("maker")
    BY <2>1 DEF IndInv, ReadyInv
  <2>4. maker_avail = 0
    <3> SUFFICES ASSUME maker_avail # 0 PROVE FALSE
      OBVIOUS
    <3>1. N("wait_maker") > 0
      BY <2>1, <2>2, <2>3
    <3>2. PICK w \in Whales : pc[w] = "wait_maker"
      <4>1. At("wait_maker") # {}
        BY <3>1, FS_EmptySet DEF N
      <4> QED
        BY <4>1 DEF At
    <3> QED
      BY <2>1, <3>2 DEF IndInv, RestInv, Busy
  <2>5. Cardinality(At("wait_mate") \cup At("wait_maker")) = N("wait_mate") + N("wait_maker")
    <3>1. At("wait_mate") \cap At("wait_maker") = {}
      BY DEF At
    <3> QED
      <4>1. IsFiniteSet(At("wait_mate")) /\ IsFiniteSet(At("wait_maker"))
        BY AtFinite
      <4>2. Cardinality(At("wait_mate") \cup At("wait_maker"))
              = Cardinality(At("wait_mate")) + Cardinality(At("wait_maker"))
                - Cardinality(At("wait_mate") \cap At("wait_maker"))
        BY <4>1, FS_Union
      <4>3. Cardinality(At("wait_mate") \cap At("wait_maker")) = 0
        BY <3>1, FS_EmptySet
      <4> QED
        BY <4>2, <4>3, <2>1 DEF N
  <2>6. count["male"] \in Nat /\ count["female"] \in Nat
    BY DEF IndInv, TypeOK, Sexes
  <2> QED
    BY <2>1, <2>2, <2>4, <2>5, <2>6 DEF IndInv, JoinedInv
<1> QED
  BY <1>1, Inductive, PTL

============================================================================
