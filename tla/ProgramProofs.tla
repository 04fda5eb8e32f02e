---------------------------- MODULE ProgramProofs ----------------------------
(***************************************************************************)
(* Proofs about the programs of Asmt_1, Asmt_2 and Asmt_3.                 *)
(*                                                                         *)
(* The list, the threads and lab1: for any finite heap, any number of      *)
(* threads, words and strings, whatever malloc hands out again.            *)
(* The shell: for all sizes of its buffers, all lines and any number of    *)
(* children.                                                               *)
(***************************************************************************)
EXTENDS ListPrograms, Shell, SequenceTheorems, FiniteSetTheorems,
        WellFoundedInduction, TLAPS

-----------------------------------------------------------------------------
(* The list of Asmt_1 and Asmt_3.                                          *)

\* c goes through the items that are allocated, each once, and ends at tail.
Linked(c) ==
  /\ c \in Followed(next, head, length)
  /\ {c[i] : i \in 1..length} = allocated
  /\ \A i, j \in 1..length : i # j => c[i] # c[j]
  /\ IF length = 0 THEN head = NULL
     ELSE tail = c[length] /\ next[tail] = NULL

LinkedInv == \E c \in Followed(next, head, length) : Linked(c)

ListType ==
  /\ length \in Nat
  /\ allocated \subseteq Items
  /\ next \in [Items -> Items \cup {NULL}]
  /\ data \in [Items -> Nat]

\* The number of the next object: a buffer of lab1, or a thread.
Fresh == IF program = "lab1" THEN Len(stored) ELSE thread_id

\* Every item has an object of its own.
DataInv ==
  /\ \A x \in allocated : data[x] \in objects /\ data[x] < Fresh
  /\ \A x, y \in allocated : x # y => data[x] # data[y]

\* The chains after the operations of the list
Extended(c, n, x) == [i \in 1..(n + 1) |-> IF i = n + 1 THEN x ELSE c[i]]

Shifted(c, n) == [i \in 1..(n - 1) |-> c[i + 1]]

Rotated(c, n) == [i \in 1..n |-> IF i = n THEN c[1] ELSE c[i + 1]]

\* A set of numbers that is not empty has a least element.
LEMMA Least ==
  ASSUME NEW T, T \subseteq Nat, T # {}
  PROVE  \E x \in T : \A y \in T : x <= y
<1> DEFINE R == OpToRel(<, Nat)
<1>1. IsWellFoundedOn(R, Nat)
  BY NatLessThanWellFounded
<1>2. \A x, y \in Nat : x < y => <<x, y>> \in R
  BY DEF OpToRel
<1> HIDE DEF R
<1>3. PICK x \in T : \A y \in T : ~(<<y, x>> \in R)
  BY <1>1, WFMin
<1>4. \A y \in T : ~(y < x)
  BY <1>2, <1>3
<1> QED
  BY <1>4

\* Following the pointers gives the same items, as far as it is done.
LEMMA Agree ==
  ASSUME NEW nx, NEW h, NEW n \in Nat, NEW m \in Nat,
         NEW c \in Followed(nx, h, n), NEW d \in Followed(nx, h, m)
  PROVE  \A i \in 1..n : i <= m => c[i] = d[i]
<1> DEFINE T == {i \in 1..n : i <= m /\ c[i] # d[i]}
<1> SUFFICES ASSUME T # {} PROVE FALSE
  OBVIOUS
<1>1. T \subseteq Nat
  OBVIOUS
<1>2. PICK k \in T : \A j \in T : k <= j
  BY <1>1, Least
<1>3. k \in 1..n /\ k <= m /\ c[k] # d[k]
  OBVIOUS
<1>4. CASE k = 1
  <2>1. n > 0 /\ m > 0
    BY <1>3, <1>4
  <2> QED
    BY <1>3, <1>4, <2>1 DEF Followed
<1>5. CASE k # 1
  <2> DEFINE j == k - 1
  <2>1. j \in 1..(n - 1) /\ j \in 1..(m - 1) /\ j + 1 = k /\ j \in 1..n
    BY <1>3, <1>5
  <2>2. j \notin T
    BY <1>2, <1>3, <2>1
  <2>3. c[j] = d[j]
    BY <1>3, <2>1, <2>2
  <2>4. c[j + 1] = nx[c[j]] /\ d[j + 1] = nx[d[j]]
    BY <2>1 DEF Followed
  <2> QED
    BY <1>3, <2>1, <2>3, <2>4
<1> QED
  BY <1>4, <1>5

\* There is one chain of n items from h.
LEMMA OneChain ==
  ASSUME NEW nx, NEW h, NEW n \in Nat,
         NEW c \in Followed(nx, h, n), NEW d \in Followed(nx, h, n)
  PROVE  c = d
<1>1. \A i \in 1..n : c[i] = d[i]
  BY Agree
<1>2. c \in [1..n -> Items] /\ d \in [1..n -> Items]
  BY DEF Followed
<1> QED
  BY <1>1, <1>2

\* What is known of a chain.
LEMMA LinkedFacts ==
  ASSUME ListType, NEW c, Linked(c)
  PROVE  /\ c \in [1..length -> Items]
         /\ length > 0 => /\ c[1] = head /\ c[length] = tail
                          /\ head \in allocated /\ tail \in allocated
                          /\ head \in Items /\ tail \in Items
                          /\ head # NULL /\ next[tail] = NULL
         /\ length = 0 => head = NULL /\ allocated = {}
         /\ \A i \in 1..(length - 1) : c[i + 1] = next[c[i]]
         /\ \A i \in 1..length : c[i] \in allocated
         /\ \A x \in allocated : \E i \in 1..length : c[i] = x
         /\ \A i, j \in 1..length : i # j => c[i] # c[j]
<1>1. /\ c \in [1..length -> Items]
      /\ length > 0 => c[1] = head
      /\ \A i \in 1..(length - 1) : c[i + 1] = next[c[i]]
  BY DEF Linked, Followed
<1>2. /\ {c[i] : i \in 1..length} = allocated
      /\ \A i, j \in 1..length : i # j => c[i] # c[j]
      /\ length = 0 => head = NULL
      /\ length # 0 => tail = c[length] /\ next[tail] = NULL
  BY DEF Linked
<1>3. /\ \A i \in 1..length : c[i] \in allocated
      /\ \A x \in allocated : \E i \in 1..length : c[i] = x
  BY <1>2
<1>4. length \in Nat /\ NULL \notin Items /\ allocated \subseteq Items
  BY ItemsAssumption DEF ListType
<1>5. length = 0 => allocated = {}
  BY <1>3
<1>6. length > 0 => 1 \in 1..length /\ length \in 1..length
  BY <1>4
<1> QED
  BY <1>1, <1>2, <1>3, <1>4, <1>5, <1>6

\* list_insert_tail appends the new item to the chain.
LEMMA InsertedTail ==
  ASSUME ListType, NEW c, Linked(c), NEW new \in Items \ allocated
  PROVE  LET e == Extended(c, length, new) IN
         /\ e \in Followed(NextAfterInsert(new), HeadAfterInsert(new),
                           length + 1)
         /\ {e[i] : i \in 1..(length + 1)} = allocated \cup {new}
         /\ \A i, j \in 1..(length + 1) : i # j => e[i] # e[j]
         /\ e[length + 1] = new
         /\ NextAfterInsert(new)[new] = NULL
         /\ NextAfterInsert(new) \in [Items -> Items \cup {NULL}]
<1> DEFINE e == Extended(c, length, new)
           n == length + 1
           nx == NextAfterInsert(new)
<1>1. /\ length \in Nat /\ next \in [Items -> Items \cup {NULL}]
      /\ new \in Items /\ new \notin allocated /\ allocated \subseteq Items
  BY DEF ListType
<1>2. /\ c \in [1..length -> Items]
      /\ length > 0 => /\ c[1] = head /\ c[length] = tail
                       /\ tail \in allocated
      /\ \A i \in 1..(length - 1) : c[i + 1] = next[c[i]]
      /\ \A i \in 1..length : c[i] \in allocated
      /\ \A x \in allocated : \E i \in 1..length : c[i] = x
      /\ \A i, j \in 1..length : i # j => c[i] # c[j]
  BY LinkedFacts
<1>3. e \in [1..n -> Items] /\ e[n] = new /\ \A i \in 1..length : e[i] = c[i]
  BY <1>1, <1>2 DEF Extended
<1>4. nx[new] = NULL /\ nx \in [Items -> Items \cup {NULL}]
  BY <1>1, <1>2 DEF NextAfterInsert
<1>5. length > 0 => nx[tail] = new
  BY <1>1, <1>2 DEF NextAfterInsert
<1>6. \A x \in allocated : x # tail \/ length = 0 => nx[x] = next[x]
  BY <1>1, <1>2 DEF NextAfterInsert
<1> HIDE DEF e, nx
<1>7. e[1] = HeadAfterInsert(new)
  <2>1. CASE length = 0
    BY <1>3, <2>1 DEF HeadAfterInsert
  <2>2. CASE length # 0
    BY <1>1, <1>2, <1>3, <2>2 DEF HeadAfterInsert
  <2> QED
    BY <2>1, <2>2
<1>8. ASSUME NEW i \in 1..(n - 1) PROVE e[i + 1] = nx[e[i]]
  <2>1. i \in 1..length /\ e[i] = c[i] /\ length > 0
    BY <1>1, <1>3
  <2>2. CASE i = length
    BY <1>2, <1>3, <1>5, <2>1, <2>2
  <2>3. CASE i # length
    <3>1. i \in 1..(length - 1) /\ i + 1 \in 1..length /\ length \in 1..length
      BY <1>1, <2>1, <2>3
    <3>2. c[i] # tail /\ c[i] \in allocated
      BY <1>2, <2>1, <2>3, <3>1
    <3> QED
      BY <1>2, <1>3, <1>6, <2>1, <3>1, <3>2
  <2> QED
    BY <2>2, <2>3
<1>9. e \in Followed(nx, HeadAfterInsert(new), n)
  BY <1>3, <1>7, <1>8 DEF Followed
<1>10. {e[i] : i \in 1..n} = allocated \cup {new}
  <2>1. \A i \in 1..n : i \in 1..length \/ i = n
    BY <1>1
  <2>2. \A i \in 1..n : e[i] \in allocated \cup {new}
    BY <1>2, <1>3, <2>1
  <2>3. \A x \in allocated : \E i \in 1..n : e[i] = x
    <3>1. \A i \in 1..length : i \in 1..n
      BY <1>1
    <3> QED
      BY <1>2, <1>3, <3>1
  <2>4. n \in 1..n
    BY <1>1
  <2> QED
    BY <1>3, <2>2, <2>3, <2>4
<1>11. ASSUME NEW i \in 1..n, NEW j \in 1..n, i # j PROVE e[i] # e[j]
  <2>1. (i \in 1..length \/ i = n) /\ (j \in 1..length \/ j = n)
    BY <1>1
  <2> QED
    BY <1>1, <1>2, <1>3, <1>11, <2>1
<1> QED
  BY <1>3, <1>4, <1>9, <1>10, <1>11 DEF e, nx

\* list_remove_head takes the first item off the chain.
LEMMA RemovedHead ==
  ASSUME ListType, NEW c, Linked(c), list_remove_head, head # NULL,
         NEW n \in Nat, n = length
  PROVE  length > 0 /\ ListType' /\ Linked(Shifted(c, n))'
<1> DEFINE e == Shifted(c, n)
<1>1. /\ length \in Nat /\ next \in [Items -> Items \cup {NULL}]
      /\ allocated \subseteq Items
  BY DEF ListType
<1>2. length > 0
  BY <1>1, LinkedFacts
<1>3. /\ c \in [1..length -> Items]
      /\ c[1] = head /\ c[length] = tail /\ next[tail] = NULL
      /\ \A i \in 1..(length - 1) : c[i + 1] = next[c[i]]
      /\ \A i \in 1..length : c[i] \in allocated
      /\ \A x \in allocated : \E i \in 1..length : c[i] = x
      /\ \A i, j \in 1..length : i # j => c[i] # c[j]
  BY <1>2, LinkedFacts
<1>4. /\ allocated' = allocated \ {head} /\ length' = length - 1
      /\ head' = next[head] /\ UNCHANGED <<tail, next, data>>
  BY DEF list_remove_head
<1>5. /\ e \in [1..(length - 1) -> Items]
      /\ \A i \in 1..(length - 1) : e[i] = c[i + 1]
  BY <1>1, <1>3 DEF Shifted
<1> HIDE DEF e
<1>6. length' \in Nat /\ length' = length - 1
  BY <1>1, <1>2, <1>4
<1>7. length' > 0 => e[1] = head'
  BY <1>1, <1>2, <1>3, <1>4, <1>5
<1>8. ASSUME NEW i \in 1..(length' - 1) PROVE e[i + 1] = next'[e[i]]
  <2>1. i \in 1..(length - 1) /\ i + 1 \in 1..(length - 1)
    BY <1>1, <1>4
  <2> QED
    BY <1>3, <1>4, <1>5, <2>1
<1>9. e \in Followed(next, head, length)'
  BY <1>5, <1>6, <1>7, <1>8 DEF Followed
<1>10. {e[i] : i \in 1..length'} = allocated'
  <2>1. ASSUME NEW i \in 1..length' PROVE e[i] \in allocated'
    <3>1. /\ i \in 1..(length - 1) /\ i + 1 \in 1..length
          /\ i + 1 # 1 /\ 1 \in 1..length
      BY <1>1, <1>2, <1>6
    <3> QED
      BY <1>3, <1>4, <1>5, <3>1
  <2>2. ASSUME NEW x \in allocated' PROVE \E i \in 1..length' : e[i] = x
    <3>1. PICK j \in 1..length : c[j] = x
      BY <1>3, <1>4
    <3>2. j # 1
      BY <1>3, <1>4, <3>1
    <3>3. j - 1 \in 1..length' /\ (j - 1) + 1 = j
      BY <1>1, <1>4, <3>2
    <3>4. e[j - 1] = x
      BY <1>5, <1>6, <3>1, <3>3
    <3> QED
      BY <3>3, <3>4
  <2> QED
    BY <2>1, <2>2
<1>11. ASSUME NEW i \in 1..length', NEW j \in 1..length', i # j PROVE e[i] # e[j]
  <2>1. i + 1 \in 1..length /\ j + 1 \in 1..length /\ i + 1 # j + 1
    BY <1>1, <1>6, <1>11
  <2> QED
    BY <1>3, <1>5, <1>6, <2>1
<1>12. IF length' = 0 THEN head' = NULL
       ELSE tail' = e[length'] /\ next'[tail'] = NULL
  <2>1. CASE length' = 0
    <3>1. head = tail
      BY <1>1, <1>3, <1>6, <2>1
    <3> QED
      BY <1>3, <1>4, <2>1, <3>1
  <2>2. CASE length' # 0
    <3>1. length' \in 1..(length - 1) /\ length' + 1 = length
      BY <1>1, <1>6, <2>2
    <3> QED
      BY <1>3, <1>4, <1>5, <2>2, <3>1
  <2> QED
    BY <2>1, <2>2
<1>13. ListType'
  BY <1>4, <1>6 DEF ListType
<1>14. Linked(e)'
  BY <1>9, <1>10, <1>11, <1>12 DEF Linked
<1> QED
  BY <1>2, <1>13, <1>14 DEF e

\* list_rotate_one moves the first item to the end of the chain.
LEMMA RotatedOne ==
  ASSUME ListType, NEW c, Linked(c), list_rotate_one, length > 1,
         NEW n \in Nat, n = length
  PROVE  ListType' /\ Linked(Rotated(c, n))'
<1> DEFINE e == Rotated(c, n)
<1>1. /\ next \in [Items -> Items \cup {NULL}]
      /\ allocated \subseteq Items /\ NULL \notin Items
  BY ItemsAssumption DEF ListType
<1>2. n > 1 /\ length' = n /\ 1 \in 1..n /\ n \in 1..n /\ 2 \in 1..n
  BY DEF list_rotate_one
<1>3. /\ c \in [1..n -> Items]
      /\ c[1] = head /\ c[n] = tail /\ next[tail] = NULL
      /\ head \in Items /\ tail \in Items
      /\ \A i \in 1..(n - 1) : c[i + 1] = next[c[i]]
      /\ \A i \in 1..n : c[i] \in allocated
      /\ \A x \in allocated : \E i \in 1..n : c[i] = x
      /\ \A i, j \in 1..n : i # j => c[i] # c[j]
  BY <1>2, LinkedFacts
<1>4. /\ head' = next[head] /\ tail' = head
      /\ next' = [next EXCEPT ![head] = NULL, ![tail] = head]
      /\ UNCHANGED <<length, allocated, data, objects>>
  BY DEF list_rotate_one
<1>5. head # tail
  BY <1>2, <1>3
<1>6. /\ next'[head] = NULL /\ next'[tail] = head
      /\ \A x \in Items : x # head /\ x # tail => next'[x] = next[x]
      /\ next' \in [Items -> Items \cup {NULL}]
  BY <1>1, <1>3, <1>4, <1>5
<1>7. /\ e \in [1..n -> Items] /\ e[n] = head
      /\ \A i \in 1..(n - 1) : e[i] = c[i + 1]
  BY <1>2, <1>3 DEF Rotated
<1> HIDE DEF e
<1>8. e[1] = head'
  BY <1>2, <1>3, <1>4, <1>7
<1>9. ASSUME NEW i \in 1..(n - 1) PROVE e[i + 1] = next'[e[i]]
  <2>1. i + 1 \in 1..n /\ e[i] = c[i + 1]
    BY <1>2, <1>7
  <2>2. CASE i = n - 1
    BY <1>3, <1>6, <1>7, <2>1, <2>2
  <2>3. CASE i # n - 1
    <3>1. i + 1 \in 1..(n - 1) /\ i + 1 # 1 /\ i + 1 # n
      BY <1>2, <2>3
    <3>2. c[i + 1] # head /\ c[i + 1] # tail /\ c[i + 1] \in Items
      BY <1>2, <1>3, <2>1, <3>1
    <3>3. e[i + 1] = c[(i + 1) + 1] /\ c[(i + 1) + 1] = next[c[i + 1]]
      BY <1>3, <1>7, <3>1
    <3> QED
      BY <1>6, <2>1, <3>2, <3>3
  <2> QED
    BY <2>2, <2>3
<1>10. e \in Followed(next, head, length)'
  BY <1>2, <1>7, <1>8, <1>9 DEF Followed
<1>11. {e[i] : i \in 1..n} = allocated
  <2>1. ASSUME NEW i \in 1..n PROVE e[i] \in allocated
    <3>1. i = n \/ (i \in 1..(n - 1) /\ i + 1 \in 1..n)
      BY <1>2
    <3> QED
      BY <1>2, <1>3, <1>7, <3>1
  <2>2. ASSUME NEW x \in allocated PROVE \E i \in 1..n : e[i] = x
    <3>1. PICK j \in 1..n : c[j] = x
      BY <1>3
    <3>2. CASE j = 1
      BY <1>2, <1>3, <1>7, <3>1, <3>2
    <3>3. CASE j # 1
      <4>1. j - 1 \in 1..(n - 1) /\ j - 1 \in 1..n /\ (j - 1) + 1 = j
        BY <1>2, <3>3
      <4>2. e[j - 1] = x
        BY <1>7, <3>1, <4>1
      <4> QED
        BY <4>1, <4>2
    <3> QED
      BY <3>2, <3>3
  <2> QED
    BY <2>1, <2>2
<1>12. ASSUME NEW i \in 1..n, NEW j \in 1..n, i # j PROVE e[i] # e[j]
  <2>1. /\ i = n \/ (i \in 1..(n - 1) /\ i + 1 \in 1..n /\ i + 1 # 1)
        /\ j = n \/ (j \in 1..(n - 1) /\ j + 1 \in 1..n /\ j + 1 # 1)
        /\ i + 1 # j + 1
    BY <1>2, <1>12
  <2> QED
    BY <1>2, <1>3, <1>7, <1>12, <2>1
<1>13. ListType'
  BY <1>2, <1>4, <1>6 DEF ListType
<1>14. Linked(e)'
  BY <1>2, <1>4, <1>6, <1>7, <1>10, <1>11, <1>12 DEF Linked
<1> QED
  BY <1>13, <1>14 DEF e

\* qsort gives every item of the array back once.
LEMMA SortedFacts ==
  ASSUME NEW n \in Nat, NEW c \in [1..n -> Items],
         \A i, j \in 1..n : i # j => c[i] # c[j],
         NEW key, NEW d \in Sorted(c, key)
  PROVE  /\ d \in [1..n -> Items]
         /\ {d[i] : i \in 1..n} = {c[i] : i \in 1..n}
         /\ \A i, j \in 1..n : i # j => d[i] # d[j]
         /\ \A i, j \in 1..n : i < j => key[d[i]] <= key[d[j]]
<1> DEFINE S == 1..n
           T == {c[i] : i \in S}
<1>1. DOMAIN c = S
  OBVIOUS
<1>2. /\ d \in [S -> T] /\ DOMAIN d = S
      /\ {d[i] : i \in S} = T
      /\ \A i, j \in S : i < j => key[d[i]] <= key[d[j]]
  BY <1>1 DEF Sorted
<1>3. IsFiniteSet(S)
  BY FS_Interval
<1> HIDE DEF S
<1>4. c \in Surjection(S, T) /\ c \in Injection(S, T)
  BY <1>1 DEF Surjection, Injection, IsInjective, S
<1>5. Cardinality(T) = Cardinality(S)
  BY <1>3, <1>4, FS_Surjection
<1>6. d \in Surjection(S, T)
  BY <1>2 DEF Surjection
<1>7. d \in Injection(S, T)
  BY <1>3, <1>5, <1>6, FS_Surjection
<1>8. \A i, j \in S : i # j => d[i] # d[j]
  BY <1>2, <1>7 DEF Injection, IsInjective
<1>9. T \subseteq Items
  BY DEF S
<1> QED
  BY <1>2, <1>8, <1>9 DEF S

\* The pointers that are retied lead along the array.
LEMMA RetiedFacts ==
  ASSUME NEW nx \in [Items -> Items \cup {NULL}], NEW n \in Nat \ {0},
         NEW d \in [1..n -> Items],
         \A i, j \in 1..n : i # j => d[i] # d[j]
  PROVE  /\ Retied(nx, d, n) \in [Items -> Items \cup {NULL}]
         /\ \A i \in 1..(n - 1) : d[i + 1] = Retied(nx, d, n)[d[i]]
         /\ Retied(nx, d, n)[d[n]] = NULL
<1> DEFINE r == Retied(nx, d, n)
           At(x) == CHOOSE k \in 1..(n - 1) : d[k] = x
<1>1. \A i \in 1..(n - 1) : i \in 1..n /\ i + 1 \in 1..n /\ i # n
  OBVIOUS
<1>2. r = [x \in Items |->
             IF \E k \in 1..(n - 1) : d[k] = x THEN d[At(x) + 1]
             ELSE IF x = d[n] THEN NULL ELSE nx[x]]
  BY DEF Retied
<1>3. \A x \in Items : (\E k \in 1..(n - 1) : d[k] = x) =>
         At(x) \in 1..(n - 1) /\ d[At(x)] = x
  OBVIOUS
<1> HIDE DEF At, r
<1>4. r \in [Items -> Items \cup {NULL}]
  <2>1. ASSUME NEW x \in Items PROVE r[x] \in Items \cup {NULL}
    <3>1. CASE \E k \in 1..(n - 1) : d[k] = x
      <4>1. At(x) + 1 \in 1..n
        BY <1>1, <1>3, <3>1
      <4> QED
        BY <1>2, <3>1, <4>1
    <3>2. CASE ~\E k \in 1..(n - 1) : d[k] = x
      BY <1>2, <3>2
    <3> QED
      BY <3>1, <3>2
  <2> QED
    BY <1>2, <2>1
<1>5. ASSUME NEW i \in 1..(n - 1) PROVE d[i + 1] = r[d[i]]
  <2>1. d[i] \in Items /\ i \in 1..n
    BY <1>1
  <2>2. At(d[i]) \in 1..(n - 1) /\ d[At(d[i])] = d[i]
    BY <1>3, <2>1
  <2>3. At(d[i]) = i
    BY <1>1, <2>1, <2>2
  <2> QED
    BY <1>2, <2>1, <2>3
<1>6. r[d[n]] = NULL
  <2>1. n \in 1..n /\ d[n] \in Items
    OBVIOUS
  <2>2. ~\E k \in 1..(n - 1) : d[k] = d[n]
    BY <1>1, <2>1
  <2> QED
    BY <1>2, <2>1, <2>2
<1> QED
  BY <1>4, <1>5, <1>6 DEF r

\* What list_insert_tail does to the list.
LEMMA InsertTailStep ==
  ASSUME ListType, NEW c, Linked(c), NEW v \in Nat, list_insert_tail(v),
         NEW n \in Nat, n = length
  PROVE  /\ ListType' /\ length' = n + 1
         /\ \E new \in Items \ allocated :
              /\ allocated' = allocated \cup {new}
              /\ data' = [data EXCEPT ![new] = v]
              /\ Linked(Extended(c, n, new))'
<1>1. PICK new \in Items \ allocated :
        /\ NewItem(new, v)
        /\ next' = NextAfterInsert(new)
        /\ head' = HeadAfterInsert(new)
        /\ tail' = new
  BY DEF list_insert_tail
<1>2. /\ allocated' = allocated \cup {new} /\ length' = n + 1
      /\ data' = [data EXCEPT ![new] = v]
  BY <1>1 DEF NewItem
<1> DEFINE e == Extended(c, n, new)
<1>3. /\ e \in Followed(next', head', n + 1)
      /\ {e[i] : i \in 1..(n + 1)} = allocated \cup {new}
      /\ \A i, j \in 1..(n + 1) : i # j => e[i] # e[j]
      /\ e[n + 1] = new
      /\ next'[new] = NULL
      /\ next' \in [Items -> Items \cup {NULL}]
  BY <1>1, InsertedTail
<1>4. ListType'
  <2>1. data' \in [Items -> Nat] /\ allocated' \subseteq Items
    BY <1>2 DEF ListType
  <2>2. length' \in Nat /\ next' \in [Items -> Items \cup {NULL}]
    BY <1>2, <1>3
  <2> QED
    BY <2>1, <2>2 DEF ListType
<1>5. n + 1 # 0
  OBVIOUS
<1> HIDE DEF e
<1>6. Linked(e)'
  BY <1>1, <1>2, <1>3, <1>5 DEF Linked
<1> QED
  BY <1>1, <1>2, <1>4, <1>6 DEF e

\* What list_insert_sorted does to the list.
LEMMA InsertSortedStep ==
  ASSUME ListType, NEW c, Linked(c), NEW v \in Nat, NEW key,
         list_insert_sorted(v, key), NEW n \in Nat, n = length
  PROVE  /\ ListType' /\ length' = n + 1
         /\ \E new \in Items \ allocated :
              /\ allocated' = allocated \cup {new}
              /\ data' = [data EXCEPT ![new] = v]
              /\ \E e \in [1..(n + 1) -> Items] :
                   /\ Linked(e)'
                   /\ \A i, j \in 1..(n + 1) : i < j =>
                        key[data'[e[i]]] <= key[data'[e[j]]]
<1>1. PICK new \in Items \ allocated :
        /\ NewItem(new, v)
        /\ \E d \in Followed(NextAfterInsert(new), HeadAfterInsert(new),
                             length + 1) :
             \E e \in Sorted(d, [i \in allocated \cup {new} |-> key[data'[i]]]) :
               /\ next' = Retied(NextAfterInsert(new), e, length + 1)
               /\ head' = e[1]
               /\ tail' = e[length + 1]
  BY DEF list_insert_sorted
<1> DEFINE nx == NextAfterInsert(new)
           k == [i \in allocated \cup {new} |-> key[data'[i]]]
           m == n + 1
           x == Extended(c, n, new)
<1>2. PICK d \in Followed(nx, HeadAfterInsert(new), m) :
        \E e \in Sorted(d, k) :
          next' = Retied(nx, e, m) /\ head' = e[1] /\ tail' = e[m]
  BY <1>1
<1>3. PICK e \in Sorted(d, k) :
        next' = Retied(nx, e, m) /\ head' = e[1] /\ tail' = e[m]
  BY <1>2
<1>4. /\ allocated' = allocated \cup {new} /\ length' = m
      /\ data' = [data EXCEPT ![new] = v]
  BY <1>1 DEF NewItem
<1>5. /\ x \in Followed(nx, HeadAfterInsert(new), m)
      /\ {x[i] : i \in 1..m} = allocated \cup {new}
      /\ \A i, j \in 1..m : i # j => x[i] # x[j]
      /\ nx \in [Items -> Items \cup {NULL}]
  BY InsertedTail, SMTT(30)
<1>6. m \in Nat \ {0}
  OBVIOUS
<1> HIDE DEF nx, k, m, x
<1>7. d = x
  BY <1>5, <1>6, OneChain
<1>8. x \in [1..m -> Items]
  BY <1>5 DEF Followed
<1>9. /\ e \in [1..m -> Items]
      /\ {e[i] : i \in 1..m} = allocated \cup {new}
      /\ \A i, j \in 1..m : i # j => e[i] # e[j]
      /\ \A i, j \in 1..m : i < j => k[e[i]] <= k[e[j]]
  <2>1. e \in Sorted(x, k) /\ m \in Nat
    BY <1>6, <1>7
  <2>2. \A i, j \in 1..m : i # j => x[i] # x[j]
    BY <1>5
  <2>3. {x[i] : i \in 1..m} = allocated \cup {new}
    BY <1>5
  <2>4. /\ e \in [1..m -> Items]
        /\ {e[i] : i \in 1..m} = {x[i] : i \in 1..m}
        /\ \A i, j \in 1..m : i # j => e[i] # e[j]
        /\ \A i, j \in 1..m : i < j => k[e[i]] <= k[e[j]]
    BY <1>8, <2>1, <2>2, SortedFacts, Zenon
  <2> QED
    BY <2>3, <2>4
<1>10. /\ next' \in [Items -> Items \cup {NULL}]
       /\ \A i \in 1..(m - 1) : e[i + 1] = next'[e[i]]
       /\ next'[e[m]] = NULL
  <2>1. /\ nx \in [Items -> Items \cup {NULL}]
        /\ e \in [1..m -> Items]
        /\ \A i, j \in 1..m : i # j => e[i] # e[j]
    BY <1>5, <1>9
  <2>2. /\ Retied(nx, e, m) \in [Items -> Items \cup {NULL}]
        /\ \A i \in 1..(m - 1) : e[i + 1] = Retied(nx, e, m)[e[i]]
        /\ Retied(nx, e, m)[e[m]] = NULL
    BY <1>6, <2>1, RetiedFacts
  <2> QED
    BY <1>3, <2>2
<1>11. ListType'
  BY <1>4, <1>6, <1>10 DEF ListType
<1>12. Linked(e)'
  <2>1. e \in Followed(next', head', m)
    BY <1>3, <1>9, <1>10 DEF Followed
  <2> QED
    BY <1>3, <1>4, <1>6, <1>9, <1>10, <2>1 DEF Linked
<1>13. ASSUME NEW i \in 1..m, NEW j \in 1..m, i < j
       PROVE  key[data'[e[i]]] <= key[data'[e[j]]]
  <2>1. e[i] \in allocated \cup {new} /\ e[j] \in allocated \cup {new}
    BY <1>9
  <2>2. k[e[i]] = key[data'[e[i]]] /\ k[e[j]] = key[data'[e[j]]]
    BY <2>1 DEF k
  <2> QED
    BY <1>9, <1>13, <2>2
<1> QED
  BY <1>4, <1>9, <1>11, <1>12, <1>13 DEF m

-----------------------------------------------------------------------------
(* Every step of the two programs keeps the list whole.                    *)

\* The types of what the list is used with
UseType ==
  /\ program \in {"lab1", "uthread"}
  /\ thread_id \in Nat
  /\ stored \in Seq(Strings)

\* read_line leaves a string in the buffer that begins with the word it read.
LEMMA WordRead ==
  ASSUME read_line
  PROVE  \E w \in Words : \E s \in Strings :
           /\ words' = Append(words, w) /\ stored' = Append(stored, s)
           /\ s \in Extensions[w]
           /\ option = "echo" /\ stored # <<>> => s = w
<1>1. PICK w \in Words : /\ words' = Append(words, w)
                         /\ \E s \in Contents(w) : stored' = Append(stored, s)
  BY DEF read_line
<1>2. PICK s \in Contents(w) : stored' = Append(stored, s)
  BY <1>1
<1>3. /\ s \in Extensions[w] /\ Extensions[w] \subseteq Strings
      /\ option = "echo" /\ stored # <<>> => s = w
  BY WordsAssumption DEF Contents
<1> QED
  BY <1>1, <1>2, <1>3

\* There is a buffer for the next word.
AheadInv ==
  program = "lab1" /\ part = "read" /\ option # "echo" => Len(stored) \in objects

WholeInv == ListType /\ UseType /\ LinkedInv /\ DataInv /\ AheadInv

\* A new item has the object that is next in turn.
LEMMA InsertedData ==
  ASSUME ListType, DataInv, NEW v \in Nat, v = Fresh,
         NEW new \in Items \ allocated,
         allocated' = allocated \cup {new}, data' = [data EXCEPT ![new] = v],
         NEW w, objects' = objects \cup {w}, v \in objects', Fresh' = v + 1
  PROVE  DataInv'
<1>1. /\ \A x \in allocated : data'[x] = data[x] /\ x # new
      /\ data'[new] = v /\ data \in [Items -> Nat]
      /\ \A x \in allocated : data[x] \in Nat
  BY DEF ListType
<1>2. \A x \in allocated : data[x] \in objects /\ data[x] < v
  BY DEF DataInv
<1>3. \A x, y \in allocated : x # y => data[x] # data[y]
  BY DEF DataInv
<1>4. ASSUME NEW x \in allocated' PROVE data'[x] \in objects' /\ data'[x] < v + 1
  <2>1. CASE x = new
    BY <1>1, <2>1
  <2>2. CASE x # new
    BY <1>1, <1>2, <2>2
  <2> QED
    BY <2>1, <2>2
<1>5. ASSUME NEW x \in allocated', NEW y \in allocated', x # y
      PROVE  data'[x] # data'[y]
  BY <1>1, <1>2, <1>3, <1>5
<1> QED
  BY <1>4, <1>5 DEF DataInv

\* The first item is removed with its object.
LEMMA RemovedData ==
  ASSUME DataInv, list_remove_head, head # NULL, head \in allocated,
         Fresh' = Fresh
  PROVE  DataInv'
BY DEF DataInv, list_remove_head

\* Where the list is not touched, it stays as it is.
LEMMA ListKept ==
  ASSUME ListType, LinkedInv,
         UNCHANGED <<head, tail, length, allocated, next, data>>
  PROVE  ListType' /\ LinkedInv'
<1>1. ListType'
  BY DEF ListType
<1>2. PICK c \in Followed(next, head, length) : Linked(c)
  BY DEF LinkedInv
<1>3. Followed(next, head, length)' = Followed(next, head, length)
  BY DEF Followed
<1>4. Linked(c)'
  BY <1>2, <1>3 DEF Linked
<1> QED
  BY <1>1, <1>2, <1>3, <1>4 DEF LinkedInv

\* The programs start with a list that is empty or has one item.
LEMMA WholeInit ==
  ASSUME ProgramInit
  PROVE  WholeInv
<1>1. CASE program = "lab1"
  <2>1. /\ head = NULL /\ tail = NULL /\ length = 0 /\ allocated = {}
        /\ next = [i \in Items |-> NULL] /\ data = [i \in Items |-> 0]
        /\ stored = <<>> /\ option \in Options /\ thread_id = 0
        /\ objects = IF option = "echo" THEN {} ELSE {0}
    BY <1>1 DEF ProgramInit, HarnessInit, list_init
  <2>2. ListType /\ UseType /\ DataInv /\ AheadInv
    BY <1>1, <2>1 DEF ListType, UseType, DataInv, AheadInv
  <2> DEFINE c == [i \in 1..0 |-> NULL]
  <2>3. c \in [1..0 -> Items]
    OBVIOUS
  <2>4. c \in Followed(next, head, length)
    BY <2>1, <2>3 DEF Followed
  <2>5. {c[i] : i \in 1..0} = {}
    OBVIOUS
  <2> HIDE DEF c
  <2>6. Linked(c)
    BY <2>1, <2>4, <2>5 DEF Linked
  <2> QED
    BY <2>2, <2>4, <2>6 DEF WholeInv, LinkedInv
<1>2. CASE program # "lab1"
  <2>1. /\ length = 1
        /\ next = [i \in Items |-> NULL] /\ data = [i \in Items |-> 0]
        /\ stored = <<>> /\ thread_id = 1
        /\ objects = {0} /\ program = "uthread"
    BY <1>2 DEF ProgramInit, uthread_init
  <2>2. PICK x \in Items : head = x /\ tail = x /\ allocated = {x}
    BY <1>2 DEF ProgramInit, uthread_init
  <2>3. ListType /\ UseType /\ DataInv /\ AheadInv
    BY <2>1, <2>2 DEF ListType, UseType, DataInv, AheadInv, Fresh
  <2> DEFINE c == [i \in 1..1 |-> x]
  <2>4. c \in [1..1 -> Items] /\ c[1] = x
    OBVIOUS
  <2>5. c \in Followed(next, head, length)
    BY <2>1, <2>2, <2>4 DEF Followed
  <2>6. {c[i] : i \in 1..1} = {x} /\ next[x] = NULL
    BY <2>1, <2>2
  <2> HIDE DEF c
  <2>7. Linked(c)
    BY <2>1, <2>2, <2>4, <2>5, <2>6 DEF Linked
  <2> QED
    BY <2>3, <2>5, <2>7 DEF WholeInv, LinkedInv
<1> QED
  BY <1>1, <1>2

\* list_remove_head in either program.
LEMMA RemovedWhole ==
  ASSUME WholeInv, list_remove_head, Fresh' = Fresh
  PROVE  ListType' /\ LinkedInv' /\ DataInv'
<1>1. CASE head = NULL
  <2>1. UNCHANGED list
    BY <1>1 DEF list_remove_head
  <2>2. UNCHANGED <<head, tail, length, allocated, next, data, objects>>
    BY <2>1 DEF list
  <2>3. ListType' /\ LinkedInv'
    BY <2>2, ListKept DEF WholeInv
  <2> QED
    BY <2>2, <2>3 DEF WholeInv, DataInv
<1>2. CASE head # NULL
  <2>1. PICK c \in Followed(next, head, length) : Linked(c)
    BY DEF WholeInv, LinkedInv
  <2>2. PICK n \in Nat : n = length
    BY DEF WholeInv, ListType
  <2>3. length > 0 /\ ListType' /\ Linked(Shifted(c, n))'
    BY <1>2, <2>1, <2>2, RemovedHead DEF WholeInv
  <2>4. head \in allocated
    BY <2>1, <2>3, LinkedFacts DEF WholeInv
  <2>5. DataInv'
    BY <1>2, <2>4, RemovedData DEF WholeInv
  <2> QED
    BY <2>3, <2>5 DEF LinkedInv, Linked
<1> QED
  BY <1>1, <1>2

\* The steps of lab1 keep the list whole.
LEMMA HarnessWhole ==
  ASSUME WholeInv, program = "lab1", HarnessNext, UNCHANGED <<program, threads>>
  PROVE  WholeInv'
<1>1. /\ ListType /\ LinkedInv /\ DataInv /\ stored \in Seq(Strings)
      /\ thread_id \in Nat /\ thread_id' = thread_id /\ program' = "lab1"
      /\ Fresh = Len(stored) /\ Fresh' = Len(stored') /\ Len(stored) \in Nat
  BY DEF WholeInv, UseType, Fresh, threads
<1>2. stored' = stored => UseType' /\ Fresh' = Fresh
  BY <1>1 DEF UseType
<1>3. UNCHANGED list =>
        UNCHANGED <<head, tail, length, allocated, next, data, objects>>
  BY DEF list
<1>4. read_line => /\ UseType' /\ Len(stored') = Len(stored) + 1
                   /\ part = "read" /\ UNCHANGED <<option, part>>
  BY <1>1, WordRead DEF read_line, UseType
<1>5. CASE Echo
  <2>1. ListType' /\ LinkedInv'
    BY <1>1, <1>3, <1>5, ListKept DEF Echo
  <2>2. DataInv'
    <3>1. UNCHANGED <<data, allocated, objects>> /\ Fresh' = Fresh + 1
      BY <1>1, <1>3, <1>4, <1>5 DEF Echo
    <3>2. \A x \in allocated : data[x] \in Nat
      BY <1>1 DEF ListType
    <3> QED
      BY <1>1, <3>1, <3>2 DEF DataInv
  <2> QED
    BY <1>4, <1>5, <2>1, <2>2 DEF WholeInv, Echo, AheadInv
<1>6. CASE InsertWord
  <2>1. PICK c \in Followed(next, head, length) : Linked(c)
    BY <1>1 DEF LinkedInv
  <2>2. PICK n \in Nat : n = length
    BY <1>1 DEF ListType
  <2>3. PICK v \in Nat : v = Len(stored)
    BY <1>1
  <2>4. /\ ListType' /\ LinkedInv'
        /\ \E new \in Items \ allocated : /\ allocated' = allocated \cup {new}
                                          /\ data' = [data EXCEPT ![new] = v]
    <3>1. CASE list_insert_tail(v)
      <4>1. /\ ListType'
            /\ \E new \in Items \ allocated :
                 /\ allocated' = allocated \cup {new}
                 /\ data' = [data EXCEPT ![new] = v]
                 /\ Linked(Extended(c, n, new))'
        BY <1>1, <2>1, <2>2, <3>1, InsertTailStep
      <4> QED
        BY <4>1 DEF LinkedInv, Linked
    <3>2. CASE option = "sort"
      <4>1. PICK key : list_insert_sorted(v, key)
        BY <1>6, <2>3, <3>2 DEF InsertWord
      <4>2. /\ ListType'
            /\ \E new \in Items \ allocated :
                 /\ allocated' = allocated \cup {new}
                 /\ data' = [data EXCEPT ![new] = v]
                 /\ \E e \in [1..(n + 1) -> Items] : Linked(e)'
        BY <1>1, <2>1, <2>2, <4>1, InsertSortedStep
      <4> QED
        BY <4>2 DEF LinkedInv, Linked
    <3> QED
      BY <1>6, <2>3, <3>1, <3>2 DEF InsertWord
  <2>5. /\ objects' = objects \cup {Len(stored')} /\ v \in objects
        /\ Fresh' = v + 1 /\ v = Fresh
    BY <1>1, <1>4, <1>6, <2>3 DEF InsertWord, WholeInv, AheadInv
  <2>6. DataInv'
    BY <1>1, <2>4, <2>5, InsertedData
  <2>7. AheadInv'
    BY <2>5 DEF AheadInv
  <2> QED
    BY <1>4, <1>6, <2>4, <2>6, <2>7 DEF WholeInv, InsertWord
<1>7. CASE MallocFails
  <2>1. UNCHANGED <<head, tail, length, allocated, next, data, objects, stored>>
    BY <1>3, <1>7 DEF MallocFails
  <2>2. ListType' /\ LinkedInv'
    BY <1>1, <2>1, ListKept
  <2>3. DataInv' /\ AheadInv'
    BY <1>1, <1>2, <1>7, <2>1 DEF DataInv, AheadInv, MallocFails
  <2> QED
    BY <1>2, <2>1, <2>2, <2>3 DEF WholeInv
<1>8. CASE StopReading
  <2>1. /\ UNCHANGED <<head, tail, length, allocated, next, data, stored>>
        /\ objects' = objects \ {Len(stored)} /\ part' # "read"
    BY <1>8 DEF StopReading
  <2>2. ListType' /\ LinkedInv'
    BY <1>1, <2>1, ListKept
  <2>3. DataInv'
    <3>1. \A x \in allocated : data[x] \in Nat
      BY <1>1 DEF ListType
    <3> QED
      BY <1>1, <1>2, <2>1, <3>1 DEF DataInv
  <2> QED
    BY <1>2, <2>1, <2>2, <2>3 DEF WholeInv, AheadInv
<1>9. CASE Visit
  <2>1. UNCHANGED <<head, tail, length, allocated, next, data, objects, stored>>
    BY <1>3, <1>9 DEF Visit
  <2>2. ListType' /\ LinkedInv'
    BY <1>1, <2>1, ListKept
  <2>3. DataInv' /\ AheadInv'
    BY <1>1, <1>2, <1>9, <2>1 DEF DataInv, AheadInv, Visit
  <2> QED
    BY <1>2, <2>1, <2>2, <2>3 DEF WholeInv
<1>10. CASE RemoveHead \/ CleanupList
  <2>1. list_remove_head /\ stored' = stored /\ part' # "read"
    BY <1>10 DEF RemoveHead, CleanupList
  <2>2. ListType' /\ LinkedInv' /\ DataInv'
    BY <1>2, <2>1, RemovedWhole
  <2> QED
    BY <1>2, <2>1, <2>2 DEF WholeInv, AheadInv
<1> QED
  BY <1>5, <1>6, <1>7, <1>8, <1>9, <1>10 DEF HarnessNext

\* The steps of the thread package keep the list whole.
LEMMA CoopWhole ==
  ASSUME WholeInv, program = "uthread", CoopNext, UNCHANGED <<program, harness>>
  PROVE  WholeInv'
<1>1. /\ ListType /\ LinkedInv /\ DataInv /\ stored' = stored
      /\ thread_id \in Nat /\ program' = "uthread"
      /\ Fresh = thread_id /\ Fresh' = thread_id'
      /\ stored \in Seq(Strings)
  BY DEF WholeInv, UseType, Fresh, harness
<1>2. AheadInv'
  BY <1>1 DEF AheadInv
<1>3. thread_id' \in Nat => UseType'
  BY <1>1 DEF UseType
<1>4. PICK c \in Followed(next, head, length) : Linked(c)
  BY <1>1 DEF LinkedInv
<1>5. PICK n \in Nat : n = length
  BY <1>1 DEF ListType
<1>6. CASE uthread_create
  <2>1. PICK v \in Nat : v = thread_id
    BY <1>1
  <2>2. /\ list_insert_tail(v) /\ objects' = objects \cup {v}
        /\ thread_id' = v + 1
    BY <1>6, <2>1 DEF uthread_create
  <2>3. /\ ListType'
        /\ \E new \in Items \ allocated :
             /\ allocated' = allocated \cup {new}
             /\ data' = [data EXCEPT ![new] = v]
             /\ Linked(Extended(c, n, new))'
    BY <1>1, <1>4, <1>5, <2>2, InsertTailStep
  <2>4. LinkedInv'
    BY <2>3 DEF LinkedInv, Linked
  <2>5. DataInv'
    BY <1>1, <2>1, <2>2, <2>3, InsertedData
  <2> QED
    BY <1>2, <1>3, <2>2, <2>3, <2>4, <2>5 DEF WholeInv
<1>7. CASE uthread_yield
  <2>1. list_rotate_one /\ length > 1 /\ thread_id' = thread_id
    BY <1>7 DEF uthread_yield
  <2>2. ListType' /\ Linked(Rotated(c, n))'
    BY <1>1, <1>4, <1>5, <2>1, RotatedOne
  <2>3. DataInv'
    BY <1>1, <2>1 DEF DataInv, list_rotate_one
  <2> QED
    BY <1>1, <1>2, <1>3, <2>1, <2>2, <2>3 DEF WholeInv, LinkedInv, Linked
<1>8. CASE uthread_handler
  <2>1. list_remove_head /\ thread_id' = thread_id
    BY <1>8 DEF uthread_handler
  <2>2. ListType' /\ LinkedInv' /\ DataInv'
    BY <1>1, <2>1, RemovedWhole
  <2> QED
    BY <1>1, <1>2, <1>3, <2>1, <2>2 DEF WholeInv
<1>9. CASE uthread_exit \/ ProcessEnds
  <2>1. /\ UNCHANGED <<head, tail, length, allocated, next, data, objects>>
        /\ thread_id' = thread_id
    BY <1>9 DEF uthread_exit, ProcessEnds, list
  <2>2. ListType' /\ LinkedInv'
    BY <1>1, <2>1, ListKept
  <2>3. DataInv'
    BY <1>1, <2>1 DEF DataInv
  <2> QED
    BY <1>1, <1>2, <1>3, <2>1, <2>2, <2>3 DEF WholeInv
<1> QED
  BY <1>6, <1>7, <1>8, <1>9 DEF CoopNext

\* Every step of the programs keeps the list whole.
LEMMA WholeNext ==
  ASSUME WholeInv, [ProgramNext]_program_vars
  PROVE  WholeInv'
<1>1. CASE ProgramNext
  BY <1>1, HarnessWhole, CoopWhole DEF ProgramNext
<1>2. CASE UNCHANGED program_vars
  <2>1. UNCHANGED <<head, tail, length, allocated, next, data, objects,
                    stored, part, option, thread_id, program>>
    BY <1>2 DEF program_vars, list, threads, harness
  <2>2. ListType' /\ LinkedInv'
    BY <2>1, ListKept DEF WholeInv
  <2>3. Fresh' = Fresh
    BY <2>1 DEF Fresh
  <2>4. UseType' /\ DataInv' /\ AheadInv'
    BY <2>1, <2>3 DEF WholeInv, UseType, DataInv, AheadInv
  <2> QED
    BY <2>2, <2>4 DEF WholeInv
<1> QED
  BY <1>1, <1>2

\* The list of either program is whole at all times.
THEOREM WholeInvariance == ProgramSpec => []WholeInv
<1>1. ProgramInit => WholeInv
  BY WholeInit
<1>2. WholeInv /\ [ProgramNext]_program_vars => WholeInv'
  BY WholeNext
<1> QED
  BY <1>1, <1>2, PTL DEF ProgramSpec

\* The items are linked from head to tail in a chain of length items that ends
\* with NULL; these are all the items there are, each with an object of its own
\* (list_t.c of Asmt_1 and Asmt_3).
THEOREM ListIsWhole == ProgramSpec => []ListInv
<1>1. WholeInv => ListInv
  <2> SUFFICES ASSUME WholeInv PROVE ListInv
    OBVIOUS
  <2>1. PICK c \in Followed(next, head, length) : Linked(c)
    BY DEF WholeInv, LinkedInv
  <2>2. /\ \A i \in 1..length : c[i] \in allocated
        /\ \A i, j \in 1..length : i # j => c[i] # c[j]
    BY <2>1, LinkedFacts DEF WholeInv
  <2>3. /\ \A i, j \in 1..length : i # j => data[c[i]] # data[c[j]]
        /\ \A i \in 1..length : data[c[i]] \in objects
    BY <2>2 DEF WholeInv, DataInv
  <2>4. ChainOf(c)
    BY <2>1, <2>3 DEF ChainOf, Linked
  <2> QED
    BY <2>1, <2>4 DEF ListInv
<1> QED
  BY <1>1, WholeInvariance, PTL

-----------------------------------------------------------------------------
(* The threads of Asmt_3 behave as the queue of module RunQueue.           *)

\* While threads run, the one at the head of the list is the one that runs, and
\* the context in each thread_t is that thread's.
ThreadInv ==
  program = "uthread" =>
    /\ thread_id \in 1..MaxThreads
    /\ running \in ThreadIds \cup {Handler, Nobody}
    /\ ucp \in [ThreadIds -> Int]
    /\ \A x \in allocated : ucp[data[x]] = data[x]
    /\ running \in ThreadIds => length > 0 /\ running = data[head]
    /\ running = Handler => length > 0

\* The queue that module RunQueue sees
Threads(dt, c, n) == [i \in 1..n |-> dt[c[i]]]

\* The queue is read off the one chain there is.
LEMMA QueueIs ==
  ASSUME NEW nx, NEW h, NEW n \in Nat, NEW dt, NEW c \in Followed(nx, h, n)
  PROVE  LET d == CHOOSE d \in Followed(nx, h, n) : TRUE
         IN  [i \in 1..n |-> dt[d[i]]] = Threads(dt, c, n)
<1> DEFINE d == CHOOSE d \in Followed(nx, h, n) : TRUE
<1>1. d \in Followed(nx, h, n)
  OBVIOUS
<1> HIDE DEF d
<1>2. d = c
  BY <1>1, OneChain
<1>3. [i \in 1..n |-> dt[d[i]]] = Threads(dt, c, n)
  BY <1>2 DEF Threads
<1> QED
  BY <1>3 DEF d

\* uthread_create, uthread_yield and the handler on the queue
LEMMA QueueSteps ==
  ASSUME NEW n \in Nat, NEW c \in [1..n -> Items], NEW dt \in [Items -> Nat]
  PROVE  /\ \A x \in Items, v \in Nat :
              (\A i \in 1..n : c[i] # x) =>
                Threads([dt EXCEPT ![x] = v], Extended(c, n, x), n + 1)
                  = Append(Threads(dt, c, n), v)
         /\ n > 0 => /\ Threads(dt, c, n) # <<>>
                     /\ Head(Threads(dt, c, n)) = dt[c[1]]
                     /\ Threads(dt, Shifted(c, n), n - 1)
                          = Tail(Threads(dt, c, n))
                     /\ Threads(dt, Rotated(c, n), n)
                          = Append(Tail(Threads(dt, c, n)),
                                   Head(Threads(dt, c, n)))
<1> DEFINE q == Threads(dt, c, n)
<1>1. q \in Seq(Nat) /\ Len(q) = n /\ \A i \in 1..n : q[i] = dt[c[i]]
  BY DEF Threads
<1> HIDE DEF q
<1>2. ASSUME NEW x \in Items, NEW v \in Nat, \A i \in 1..n : c[i] # x
      PROVE  Threads([dt EXCEPT ![x] = v], Extended(c, n, x), n + 1) = Append(q, v)
  <2> DEFINE e == Extended(c, n, x)
             p == Threads([dt EXCEPT ![x] = v], e, n + 1)
  <2>1. e[n + 1] = x /\ \A i \in 1..n : e[i] = c[i]
    BY DEF Extended
  <2> HIDE DEF e
  <2>2. /\ p \in Seq(Nat) /\ Len(p) = n + 1
        /\ p[n + 1] = v /\ \A i \in 1..n : p[i] = dt[c[i]]
    <3>1. \A i \in 1..(n + 1) : e[i] \in Items
      BY <2>1
    <3> QED
      BY <1>2, <2>1, <3>1 DEF Threads
  <2> HIDE DEF p
  <2>3. /\ Append(q, v) \in Seq(Nat) /\ Len(Append(q, v)) = n + 1
        /\ Append(q, v)[n + 1] = v
        /\ \A i \in 1..n : Append(q, v)[i] = q[i]
    BY <1>1
  <2>4. \A i \in 1..(n + 1) : p[i] = Append(q, v)[i]
    BY <1>1, <2>2, <2>3
  <2>5. p = Append(q, v)
    BY <2>2, <2>3, <2>4
  <2> QED
    BY <2>5 DEF p, e
<1>3. ASSUME n > 0
      PROVE  /\ q # <<>> /\ Head(q) = dt[c[1]]
             /\ Threads(dt, Shifted(c, n), n - 1) = Tail(q)
             /\ Threads(dt, Rotated(c, n), n) = Append(Tail(q), Head(q))
  <2>1. /\ q # <<>> /\ Head(q) = dt[c[1]] /\ Head(q) \in Nat
        /\ Tail(q) \in Seq(Nat) /\ Len(Tail(q)) = n - 1
        /\ \A i \in 1..(n - 1) : Tail(q)[i] = q[i + 1]
    BY <1>1, <1>3
  <2> DEFINE s == Threads(dt, Shifted(c, n), n - 1)
             r == Threads(dt, Rotated(c, n), n)
  <2>2. s = Tail(q)
    <3>1. \A i \in 1..(n - 1) : /\ Shifted(c, n)[i] = c[i + 1]
                                /\ i + 1 \in 1..n
      BY DEF Shifted
    <3>2. /\ s \in Seq(Nat) /\ Len(s) = n - 1
          /\ \A i \in 1..(n - 1) : s[i] = dt[c[i + 1]]
      BY <1>3, <3>1 DEF Threads
    <3> HIDE DEF s
    <3>3. \A i \in 1..(n - 1) : s[i] = Tail(q)[i]
      BY <1>1, <2>1, <3>1, <3>2
    <3>4. Len(s) = Len(Tail(q)) /\ \A i \in 1..Len(s) : s[i] = Tail(q)[i]
      BY <2>1, <3>2, <3>3
    <3> QED
      BY <2>1, <3>2, <3>4, SeqEqual
  <2>3. r = Append(Tail(q), Head(q))
    <3> DEFINE a == Append(Tail(q), Head(q))
    <3>1. /\ Rotated(c, n)[n] = c[1]
          /\ \A i \in 1..(n - 1) : /\ Rotated(c, n)[i] = c[i + 1]
                                   /\ i + 1 \in 1..n
      BY <1>3 DEF Rotated
    <3>2. \A i \in 1..n : Rotated(c, n)[i] \in Items
      BY <1>3 DEF Rotated
    <3>3. /\ r \in Seq(Nat) /\ Len(r) = n /\ r[n] = dt[c[1]]
          /\ \A i \in 1..(n - 1) : r[i] = dt[c[i + 1]]
      BY <1>3, <3>1, <3>2 DEF Threads
    <3>4. /\ a \in Seq(Nat) /\ Len(a) = n /\ a[n] = Head(q)
          /\ \A i \in 1..(n - 1) : a[i] = Tail(q)[i]
      BY <2>1
    <3> HIDE DEF a, r
    <3>5. \A i \in 1..n : i = n \/ i \in 1..(n - 1)
      OBVIOUS
    <3>6. \A i \in 1..n : r[i] = a[i]
      BY <1>1, <2>1, <3>1, <3>3, <3>4, <3>5
    <3>7. r = a
      BY <3>3, <3>4, <3>6
    <3> QED
      BY <3>7 DEF a
  <2> QED
    BY <2>1, <2>2, <2>3
<1> QED
  BY <1>2, <1>3 DEF q

\* What an item of the list says of its thread
LEMMA ThreadFacts ==
  ASSUME WholeInv, ThreadInv, program = "uthread", NEW x \in allocated
  PROVE  /\ data[x] \in ThreadIds /\ data[x] < thread_id /\ x \in Items
         /\ ucp[data[x]] = data[x]
<1>1. data[x] \in Nat /\ data[x] < thread_id /\ x \in Items
  BY DEF WholeInv, ListType, DataInv, Fresh
<1>2. thread_id \in 1..MaxThreads /\ ucp[data[x]] = data[x]
  BY DEF ThreadInv
<1> QED
  BY <1>1, <1>2, MaxThreadsAssumption DEF ThreadIds

\* The state that module RunQueue sees
Queue == IF program = "uthread" THEN ThreadQueue ELSE <<0>>
Created == IF program = "uthread" THEN thread_id ELSE 1
Processor ==
  IF program = "uthread" THEN IF running \in ThreadIds THEN running ELSE -1
  ELSE 0

\* The queue of a list whose chain is c
LEMMA QueueNow ==
  ASSUME program = "uthread", NEW n \in Nat, n = length, NEW c, Linked(c)
  PROVE  Queue = Threads(data, c, n)
<1>1. c \in Followed(next, head, n)
  BY DEF Linked
<1>2. ThreadQueue = Threads(data, c, n)
  BY <1>1, QueueIs DEF ThreadQueue
<1> QED
  BY <1>2 DEF Queue

\* The same after a step
LEMMA QueueThen ==
  ASSUME program' = "uthread", NEW n \in Nat, n = length', NEW c, Linked(c)'
  PROVE  Queue' = Threads(data', c, n)
<1>1. c \in Followed(next', head', n)
  BY DEF Linked
<1>2. ThreadQueue' = Threads(data', c, n)
  BY <1>1, QueueIs DEF ThreadQueue
<1> QED
  BY <1>2 DEF Queue

\* What each step of the thread package is in terms of the queue
Step ==
  \/ /\ Processor # -1 /\ Queue' = Append(Queue, Created)
     /\ Created' = Created + 1 /\ Processor' = Processor
  \/ /\ Processor # -1 /\ Queue' = Append(Tail(Queue), Head(Queue))
     /\ Processor' = Head(Queue') /\ Created' = Created
  \/ Processor # -1 /\ Processor' = -1 /\ Queue' = Queue /\ Created' = Created
  \/ /\ Processor = -1 /\ Queue # <<>> /\ Queue' = Tail(Queue)
     /\ Processor' = IF Queue' = <<>> THEN -1 ELSE Head(Queue')
     /\ Created' = Created

\* Every step of the thread package keeps the contexts with their threads, and
\* is one of the queue.
LEMMA CoopStep ==
  ASSUME WholeInv, ThreadInv, program = "uthread", CoopNext,
         UNCHANGED <<program, harness>>
  PROVE  ThreadInv' /\ Step
<1>1. /\ ListType /\ LinkedInv /\ DataInv /\ thread_id \in 1..MaxThreads
      /\ program' = "uthread" /\ data \in [Items -> Nat]
      /\ allocated \subseteq Items
      /\ ucp \in [ThreadIds -> Int] /\ Created = thread_id
      /\ Created' = thread_id' /\ ThreadIds = 0..(MaxThreads - 1)
      /\ running \in ThreadIds => length > 0 /\ running = data[head]
      /\ running \in ThreadIds \cup {-1, -2}
      /\ \A x \in allocated : ucp[data[x]] = data[x]
  BY DEF WholeInv, UseType, ListType, ThreadInv, Created, ThreadIds,
         Handler, Nobody
<1>2. PICK c \in Followed(next, head, length) : Linked(c)
  BY <1>1 DEF LinkedInv
<1>3. PICK n \in Nat : n = length
  BY <1>1 DEF ListType
<1>4. /\ c \in [1..n -> Items]
      /\ n > 0 => c[1] = head /\ head \in allocated /\ head \in Items
      /\ \A i \in 1..n : c[i] \in allocated
  BY <1>1, <1>2, <1>3, LinkedFacts
<1>5. Queue = Threads(data, c, n)
  BY <1>2, <1>3, QueueNow
<1>6. /\ \A x \in allocated : data[x] \in ThreadIds /\ data[x] < thread_id
      /\ \A x \in allocated : data[x] \in Nat
  BY <1>1, ThreadFacts
<1>7. /\ running \in ThreadIds => Processor = running /\ Processor # -1
      /\ running' \in ThreadIds => Processor' = running'
      /\ running \notin ThreadIds => Processor = -1
      /\ running' \notin ThreadIds => Processor' = -1
      /\ -1 \notin ThreadIds /\ -2 \notin ThreadIds
  BY <1>1, MaxThreadsAssumption DEF Processor
<1>8. CASE uthread_create
  <2>1. PICK v \in Nat : v = thread_id
    BY <1>1
  <2>2. /\ list_insert_tail(v) /\ thread_id' = v + 1
        /\ running \in ThreadIds /\ v < MaxThreads /\ running' = running
        /\ ucp' = [ucp EXCEPT ![v] = v]
    BY <1>8, <2>1 DEF uthread_create
  <2>3. /\ length' = n + 1
        /\ \E new \in Items \ allocated :
             /\ allocated' = allocated \cup {new}
             /\ data' = [data EXCEPT ![new] = v]
             /\ Linked(Extended(c, n, new))'
    BY <1>1, <1>2, <1>3, <2>2, InsertTailStep
  <2>4. PICK new \in Items \ allocated :
             /\ allocated' = allocated \cup {new}
             /\ data' = [data EXCEPT ![new] = v]
             /\ Linked(Extended(c, n, new))'
    BY <2>3
  <2>5. Queue' = Threads(data', Extended(c, n, new), n + 1)
    <3> DEFINE e == Extended(c, n, new)
               m == n + 1
    <3>1. m \in Nat /\ m = length' /\ Linked(e)'
      BY <2>3, <2>4
    <3> HIDE DEF e, m
    <3>2. Queue' = Threads(data', e, m)
      BY <1>1, <3>1, QueueThen
    <3> QED
      BY <3>2 DEF e, m
  <2>6. \A i \in 1..n : c[i] # new
    BY <1>4
  <2>7. Queue' = Append(Queue, v)
    <3>1. Threads([data EXCEPT ![new] = v], Extended(c, n, new), n + 1)
            = Append(Threads(data, c, n), v)
      <4>1. /\ data \in [Items -> Nat] /\ c \in [1..n -> Items]
            /\ new \in Items
        BY <1>1, <1>4
      <4>2. \A x \in Items, w \in Nat :
              (\A i \in 1..n : c[i] # x) =>
                Threads([data EXCEPT ![x] = w], Extended(c, n, x), n + 1)
                  = Append(Threads(data, c, n), w)
        BY <4>1, QueueSteps
      <4> QED
        BY <2>6, <4>1, <4>2, Zenon
    <3> QED
      BY <1>5, <2>4, <2>5, <3>1
  <2>8. head' = head
    BY <1>1, <2>2, <1>8 DEF list_insert_tail, HeadAfterInsert
  <2>9. ThreadInv'
    <3>1. v \in ThreadIds /\ thread_id' \in 1..MaxThreads
      BY <1>1, <2>1, <2>2, MaxThreadsAssumption
    <3>2. ucp' \in [ThreadIds -> Int] /\ ucp'[v] = v
      BY <1>1, <2>2, <3>1
    <3>3. \A x \in allocated : data'[x] = data[x] /\ data'[new] = v
      BY <1>1, <2>4
    <3>4. \A x \in allocated : ucp'[data[x]] = ucp[data[x]]
      BY <1>1, <1>6, <2>1, <2>2
    <3>5. \A x \in allocated' : ucp'[data'[x]] = data'[x]
      BY <1>1, <2>4, <3>2, <3>3, <3>4
    <3>6. length' > 0 /\ running' = data'[head']
      BY <1>1, <1>3, <1>4, <2>2, <2>3, <2>8, <3>3
    <3> QED
      BY <2>2, <3>1, <3>2, <3>5, <3>6 DEF ThreadInv
  <2>10. Step
    BY <1>1, <1>7, <2>1, <2>2, <2>7 DEF Step
  <2> QED
    BY <2>9, <2>10
<1>9. CASE uthread_yield
  <2>1. /\ list_rotate_one /\ n > 1 /\ thread_id' = thread_id
        /\ running \in ThreadIds /\ running' = ucp[data[head']]
        /\ ucp' = [ucp EXCEPT ![data[head]] = running]
    BY <1>3, <1>9 DEF uthread_yield
  <2>2. /\ UNCHANGED <<length, allocated, data>>
    BY <2>1 DEF list_rotate_one
  <2>3. ListType' /\ Linked(Rotated(c, n))'
    BY <1>1, <1>2, <1>3, <2>1, RotatedOne
  <2>4. Queue' = Threads(data, Rotated(c, n), n)
    BY <1>1, <1>3, <2>2, <2>3, QueueThen
  <2>5. Queue' = Append(Tail(Queue), Head(Queue))
    <3>1. n > 0
      BY <2>1
    <3>2. Threads(data, Rotated(c, n), n)
            = Append(Tail(Threads(data, c, n)), Head(Threads(data, c, n)))
      BY <1>1, <1>4, <3>1, QueueSteps
    <3> QED
      BY <1>5, <2>4, <3>2
  <2> DEFINE e == Rotated(c, n)
  <2>6. e \in [1..n -> Items] /\ e[1] = head' /\ head' \in allocated
    <3>1. e \in Followed(next', head', n) /\ {e[i] : i \in 1..n} = allocated
      BY <1>3, <2>2, <2>3 DEF Linked
    <3>2. e \in [1..n -> Items] /\ e[1] = head' /\ 1 \in 1..n
      BY <2>1, <3>1 DEF Followed
    <3> QED
      BY <3>1, <3>2
  <2> HIDE DEF e
  <2>7. Head(Threads(data, e, n)) = data[head']
    <3>1. n > 0
      BY <2>1
    <3>2. Head(Threads(data, e, n)) = data[e[1]]
      BY <1>1, <2>6, <3>1, QueueSteps
    <3> QED
      BY <2>6, <3>2
  <2>8. running' = data[head'] /\ running' \in ThreadIds
    BY <1>1, <1>6, <2>1, <2>6
  <2>9. Processor' = Head(Queue')
    BY <1>7, <2>4, <2>7, <2>8 DEF e
  <2>10. ThreadInv'
    <3>1. head \in allocated /\ running = data[head]
      BY <1>1, <1>4, <2>1
    <3>2. ucp' = ucp
      BY <1>1, <1>6, <2>1, <3>1
    <3>3. length' > 0
      BY <1>3, <2>1, <2>2
    <3>4. thread_id' \in 1..MaxThreads /\ running' # Handler
      BY <1>1, <1>7, <2>1, <2>8 DEF Handler
    <3> QED
      BY <1>1, <2>2, <2>8, <3>2, <3>3, <3>4 DEF ThreadInv
  <2>11. Step
    BY <1>1, <1>7, <2>1, <2>5, <2>9 DEF Step
  <2> QED
    BY <2>10, <2>11
<1>10. CASE uthread_handler
  <2>1. /\ running = -1 /\ list_remove_head /\ UNCHANGED <<thread_id, ucp>>
        /\ running' = IF length' >= 1 THEN ucp[data[head']] ELSE Nobody
    BY <1>10 DEF uthread_handler, Handler
  <2>2. n > 0
    BY <1>3, <2>1 DEF ThreadInv, Handler
  <2>3. head # NULL
    BY <1>4, <2>2, ItemsAssumption
  <2>4. ListType' /\ Linked(Shifted(c, n))'
    BY <1>1, <1>2, <1>3, <2>1, <2>3, RemovedHead
  <2>5. length' = n - 1 /\ data' = data /\ allocated' \subseteq allocated
    BY <1>3, <2>1, <2>3 DEF list_remove_head
  <2> DEFINE e == Shifted(c, n)
             m == n - 1
  <2>6. m \in Nat
    BY <2>2
  <2>7. Queue' = Threads(data, e, m)
    BY <1>1, <2>4, <2>5, <2>6, QueueThen
  <2>8. Queue' = Tail(Queue) /\ Queue # <<>>
    BY <1>1, <1>4, <1>5, <2>2, <2>7, QueueSteps
  <2>9. /\ e \in [1..m -> Items]
        /\ m > 0 => e[1] = head' /\ head' \in allocated'
    <3>1. e \in Followed(next', head', m) /\ {e[i] : i \in 1..m} = allocated'
      BY <2>4, <2>5 DEF Linked
    <3> HIDE DEF e, m
    <3>2. /\ e \in [1..m -> Items]
          /\ m > 0 => e[1] = head' /\ 1 \in 1..m
      BY <2>6, <3>1 DEF Followed
    <3> QED
      BY <3>1, <3>2
  <2> HIDE DEF e, m
  <2>10. CASE m > 0
    <3>1. Head(Threads(data, e, m)) = data[head'] /\ Threads(data, e, m) # <<>>
      BY <1>1, <2>6, <2>9, <2>10, QueueSteps
    <3>2. length' >= 1
      BY <2>5, <2>10 DEF m
    <3>3. running' = data[head'] /\ running' \in ThreadIds
      BY <1>1, <1>6, <2>1, <2>5, <2>9, <2>10, <3>2
    <3>4. Step
      BY <1>1, <1>7, <2>1, <2>7, <2>8, <3>1, <3>3 DEF Step
    <3>5. ThreadInv'
      <4>1. running' # Handler /\ length' > 0
        BY <1>7, <2>5, <2>10, <3>3 DEF Handler, m
      <4>2. thread_id' \in 1..MaxThreads
        BY <1>1, <2>1
      <4> QED
        BY <1>1, <2>1, <2>5, <3>3, <4>1, <4>2 DEF ThreadInv
    <3> QED
      BY <3>4, <3>5
  <2>11. CASE ~(m > 0)
    <3>1. m = 0 /\ length' = 0
      BY <2>5, <2>6, <2>11 DEF m
    <3>2. Threads(data, e, m) = <<>>
      BY <3>1 DEF Threads
    <3>3. running' = -2
      BY <2>1, <3>1 DEF Nobody
    <3>4. Processor' = -1 /\ Queue' = <<>> /\ Processor = -1
      BY <1>7, <2>1, <2>7, <3>2, <3>3
    <3>5. Step
      BY <1>1, <2>1, <2>8, <3>4 DEF Step
    <3>6. ThreadInv'
      BY <1>1, <1>7, <2>1, <2>5, <3>3 DEF ThreadInv, Handler, Nobody
    <3> QED
      BY <3>5, <3>6
  <2> QED
    BY <2>10, <2>11
<1>11. CASE uthread_exit \/ ProcessEnds
  <2>1. /\ UNCHANGED <<head, tail, length, allocated, next, data, objects>>
        /\ UNCHANGED <<thread_id, ucp>> /\ running \in ThreadIds
        /\ running' \in {-1, -2}
    BY <1>11 DEF uthread_exit, ProcessEnds, list, Handler, Nobody
  <2>2. Linked(c)'
    BY <1>2, <2>1 DEF Linked, Followed
  <2>3. Queue' = Queue
    BY <1>1, <1>3, <1>5, <2>1, <2>2, QueueThen
  <2>4. Processor' = -1
    BY <1>7, <2>1
  <2>5. Step
    BY <1>1, <1>7, <2>1, <2>3, <2>4 DEF Step
  <2>6. ThreadInv'
    BY <1>1, <1>7, <2>1 DEF ThreadInv, Handler, Nobody
  <2> QED
    BY <2>5, <2>6
<1> QED
  BY <1>8, <1>9, <1>10, <1>11 DEF CoopNext

\* The contexts and the queue at the start and in every step.
LEMMA ThreadNext ==
  ASSUME WholeInv, ThreadInv, [ProgramNext]_program_vars
  PROVE  /\ ThreadInv'
         /\ Step \/ UNCHANGED <<Queue, Created, Processor>>
<1>1. CASE program = "uthread" /\ CoopNext /\ UNCHANGED <<program, harness>>
  BY <1>1, CoopStep
<1>2. CASE program = "lab1" /\ HarnessNext /\ UNCHANGED <<program, threads>>
  BY <1>2 DEF ThreadInv, Queue, Created, Processor
<1>3. CASE UNCHANGED program_vars
  <2>1. UNCHANGED <<head, length, allocated, next, data, thread_id, running,
                    ucp, program>>
    BY <1>3 DEF program_vars, list, threads
  <2>2. ThreadInv'
    BY <2>1 DEF ThreadInv
  <2>3. UNCHANGED <<Queue, Created, Processor>>
    BY <2>1 DEF Queue, Created, Processor, ThreadQueue, Followed
  <2> QED
    BY <2>2, <2>3
<1> QED
  BY <1>1, <1>2, <1>3 DEF ProgramNext

\* The first thread is the only one in the queue, and runs.
LEMMA ThreadInit ==
  ASSUME ProgramInit
  PROVE  ThreadInv /\ Queue = <<0>> /\ Created = 1 /\ Processor = 0
<1>1. CASE program = "lab1"
  BY <1>1 DEF ThreadInv, Queue, Created, Processor
<1>2. CASE program # "lab1"
  <2>1. /\ program = "uthread" /\ length = 1 /\ thread_id = 1 /\ running = 0
        /\ data = [i \in Items |-> 0]
        /\ ucp = [t \in ThreadIds |-> IF t = 0 THEN 0 ELSE Nobody]
    BY <1>2 DEF ProgramInit, uthread_init
  <2>2. PICK x \in Items : head = x /\ allocated = {x}
    BY <1>2 DEF ProgramInit, uthread_init
  <2>3. 0 \in ThreadIds /\ 1 \in 1..MaxThreads /\ Nobody \in Int
    BY MaxThreadsAssumption DEF ThreadIds, Nobody
  <2>4. ThreadInv
    BY <2>1, <2>2, <2>3 DEF ThreadInv, Handler
  <2>5. WholeInv
    BY WholeInit
  <2>6. PICK c \in Followed(next, head, length) : Linked(c)
    BY <2>5 DEF WholeInv, LinkedInv
  <2>7. Queue = Threads(data, c, 1)
    BY <2>1, <2>6, QueueNow
  <2>8. c[1] = x
    BY <2>1, <2>2, <2>6 DEF Followed
  <2>9. Threads(data, c, 1) = <<0>>
    <3>1. data[c[1]] = 0
      BY <2>1, <2>8
    <3> QED
      BY <3>1 DEF Threads
  <2> QED
    BY <2>1, <2>3, <2>4, <2>7, <2>9 DEF Created, Processor
<1> QED
  BY <1>1, <1>2

\* The thread at the head of the list is the one that runs.
THEOREM ThreadInvariance == ProgramSpec => []ThreadInv
<1>1. ProgramInit => ThreadInv
  BY ThreadInit
<1>2. WholeInv /\ ThreadInv /\ [ProgramNext]_program_vars => ThreadInv'
  BY ThreadNext
<1> QED
  BY <1>1, <1>2, WholeInvariance, PTL DEF ProgramSpec

\* The list behaves as the queue of threads, whatever items malloc hands out
\* again, and the processor goes to its head (uthread.c and list_t.c of Asmt_3;
\* uthread.h:26-33).
THEOREM ThreadsRefineRunQueue == ProgramSpec => Refines
<1>1. ProgramInit => Promise!Init
  BY ThreadInit DEF Promise!Init, Queue, Created, Processor
<1>2. WholeInv /\ ThreadInv /\ [ProgramNext]_program_vars
        => [Promise!Next]_(Promise!vars)
  <2> SUFFICES ASSUME WholeInv, ThreadInv, [ProgramNext]_program_vars
               PROVE  Promise!Next \/ UNCHANGED Promise!vars
    OBVIOUS
  <2>1. Step \/ UNCHANGED <<Queue, Created, Processor>>
    BY ThreadNext
  <2>2. CASE Step
    BY <2>2 DEF Step, Queue, Created, Processor, Promise!Next, Promise!Create,
                Promise!Yield, Promise!Exit, Promise!Resume
  <2>3. CASE UNCHANGED <<Queue, Created, Processor>>
    BY <2>3 DEF Queue, Created, Processor, Promise!vars
  <2> QED
    BY <2>1, <2>2, <2>3
<1> QED
  BY <1>1, <1>2, WholeInvariance, ThreadInvariance, PTL
     DEF ProgramSpec, Refines, Promise!Spec

-----------------------------------------------------------------------------
(* What lab1 prints.                                                       *)

\* list_visit_items goes through the whole list.
LEMMA VisitsAll ==
  ASSUME ListType, NEW d, Linked(d), NEW n \in Nat,
         NEW c \in Followed(next, head, n), Visits(c, n)
  PROVE  n = length /\ c = d
<1>1. PICK m \in Nat : m = length
  BY DEF ListType
<1>2. /\ d \in Followed(next, head, m) /\ d \in [1..m -> Items]
      /\ m > 0 => /\ d[m] = tail /\ head # NULL /\ next[tail] = NULL
                  /\ head \in Items
      /\ m = 0 => head = NULL
      /\ \A i \in 1..(m - 1) : d[i + 1] = next[d[i]]
  BY <1>1, LinkedFacts DEF Linked
<1>3. /\ c \in [1..n -> Items]
      /\ n > 0 => c[1] = head
      /\ \A i \in 1..(n - 1) : c[i + 1] = next[c[i]]
      /\ IF n = 0 THEN head = NULL ELSE next[c[n]] = NULL
  BY DEF Followed, Visits
<1>4. \A i \in 1..n : i <= m => c[i] = d[i]
  BY <1>2, Agree
<1>5. NULL \notin Items
  BY ItemsAssumption
<1>6. ASSUME n < m PROVE FALSE
  <2>1. n > 0
    BY <1>2, <1>3, <1>6
  <2>2. n \in 1..n /\ n \in 1..(m - 1) /\ n + 1 \in 1..m /\ n <= m
    BY <1>6, <2>1
  <2>3. d[n + 1] = next[c[n]]
    BY <1>2, <1>4, <2>2
  <2> QED
    BY <1>2, <1>3, <1>5, <2>1, <2>2, <2>3
<1>7. ASSUME m < n PROVE FALSE
  <2>1. CASE m = 0
    <3>1. 1 \in 1..n
      BY <1>7, <2>1
    <3> QED
      BY <1>2, <1>3, <1>5, <1>7, <2>1, <3>1
  <2>2. CASE m > 0
    <3>1. m \in 1..n /\ m \in 1..(n - 1) /\ m + 1 \in 1..n /\ m <= m
      BY <1>7, <2>2
    <3>2. c[m + 1] = next[d[m]]
      BY <1>3, <1>4, <3>1
    <3> QED
      BY <1>2, <1>3, <1>5, <2>2, <3>1, <3>2
  <2> QED
    BY <2>1, <2>2
<1>8. n = m
  BY <1>6, <1>7
<1>9. c = d
  BY <1>2, <1>8, OneChain
<1> QED
  BY <1>1, <1>8, <1>9

\* What the options print of the buffers, by what these hold
TextsPrinted ==
  LET n == Len(stored) IN
  CASE option = "echo" -> output = [i \in 1..n |-> <<stored[i]>>]
    [] option = "tail" -> output = <<stored>>
    [] option = "sort" ->
         /\ Len(output) = 1
         /\ \E p \in Orders(n) : \A i \in 1..n : output[1][i] = stored[p[i]]
         /\ Len(output[1]) = n
         /\ \A i, j \in 1..n : i < j => output[1][i] <= output[1][j]
    [] OTHER ->
         output = [k \in 1..(n \div 3 + 2) |->
                     IF k = n \div 3 + 2 THEN <<>>
                     ELSE SubSeq(stored, 3 * k - 2, n)]

\* The list is in the order of the file, or of the strings in the buffers.
OrderOf(c) ==
  /\ option \in {"tail", "tail-remove"} =>
       /\ length <= Len(stored)
       /\ \A i \in 1..length : data[c[i]] = Len(stored) - length + i - 1
  /\ option = "sort" => \A i, j \in 1..length :
       i < j => stored[data[c[i]] + 1] <= stored[data[c[j]] + 1]

OrderInv ==
  program = "lab1" => \A c \in Followed(next, head, length) : OrderOf(c)

\* What was printed before the k-th removal of three words
Visited(k) == output = [i \in 1..k |-> SubSeq(stored, 3 * i - 2, Len(stored))]

\* How far tail-remove is
RemoveInv ==
  LET sets == Len(stored) \div 3 IN
  /\ part = "visit" => \E k \in 0..sets :
       /\ left = 3 * (sets - k) /\ length = Len(stored) - 3 * k
       /\ Visited(k)
  /\ part = "remove" => \E k \in 1..sets :
       /\ 3 * (sets - k) < left /\ left <= 3 * (sets - k) + 3
       /\ length = Len(stored) - 3 * sets + left
       /\ Visited(k)
  /\ part \in {"cleanup", "last_visit"} => Visited(sets + 1)
  /\ part = "last_visit" => length = 0
  /\ part = "done" => TextsPrinted

\* What was printed so far, by option
PrintInv ==
  IF program = "lab1"
  THEN /\ option \in Options /\ left \in Nat
       /\ option # "echo" /\ part = "read" => length = Len(stored) /\ output = <<>>
       /\ option = "echo" => /\ part \in {"read", "done"}
                             /\ output = [i \in 1..Len(stored) |-> <<stored[i]>>]
       /\ option \in {"tail", "sort"} =>
            /\ part \in {"read", "failed", "visit", "cleanup", "done"} /\ left = 0
            /\ part = "visit" => length = Len(stored) /\ output = <<>>
            /\ part \in {"cleanup", "done"} => TextsPrinted
       /\ option = "tail-remove" => RemoveInv
  ELSE part = "idle"

\* A whole list, read as the strings in its objects
Texts(st, dt, c, n) == [i \in 1..n |-> st[dt[c[i]] + 1]]

\* The order of the one chain there is after a step
LEMMA OrderThen ==
  ASSUME length' \in Nat, NEW e, Linked(e)', OrderOf(e)'
  PROVE  OrderInv'
<1> SUFFICES ASSUME NEW c \in Followed(next', head', length')
             PROVE  OrderOf(c)'
  BY DEF OrderInv
<1>1. e \in Followed(next', head', length')
  BY DEF Linked
<1>2. c = e
  BY <1>1, OneChain
<1> QED
  BY <1>2 DEF OrderOf

\* Every step of lab1 keeps the list in order.
LEMMA OrderNext ==
  ASSUME WholeInv, WholeInv', OrderInv, PrintInv, program = "lab1", HarnessNext,
         UNCHANGED <<program, threads>>
  PROVE  OrderInv'
<1>1. /\ ListType /\ LinkedInv /\ stored \in Seq(Strings)
      /\ Len(stored) \in Nat /\ length' \in Nat /\ option \in Options
      /\ data \in [Items -> Nat] /\ allocated \subseteq Items
      /\ option # "echo" /\ part = "read" => length = Len(stored)
  BY DEF WholeInv, ListType, UseType, PrintInv
<1>2. PICK c \in Followed(next, head, length) : Linked(c)
  BY <1>1 DEF LinkedInv
<1>3. PICK n \in Nat : n = length
  BY <1>1 DEF ListType
<1>4. /\ c \in [1..n -> Items] /\ \A i \in 1..n : c[i] \in allocated
  BY <1>1, <1>2, <1>3, LinkedFacts
<1>5. /\ option \in {"tail", "tail-remove"} =>
           /\ n <= Len(stored)
           /\ \A i \in 1..n : data[c[i]] = Len(stored) - n + i - 1
      /\ option = "sort" => \A i, j \in 1..n :
           i < j => stored[data[c[i]] + 1] <= stored[data[c[j]] + 1]
  BY <1>2, <1>3 DEF OrderInv, OrderOf
<1>6. ASSUME UNCHANGED <<head, next, length, data, stored, option>>
      PROVE  OrderInv'
  <2>1. \A d \in Followed(next, head, length) : OrderOf(d)
    BY DEF OrderInv
  <2>2. Followed(next, head, length)' = Followed(next, head, length)
    BY <1>6, Zenon
  <2>3. ASSUME NEW d \in Followed(next, head, length) PROVE OrderOf(d)'
    BY <1>6, <2>1 DEF OrderOf
  <2> QED
    BY <2>2, <2>3 DEF OrderInv
<1>7. CASE Echo
  BY <1>7 DEF Echo, read_line, OrderInv, OrderOf
<1>8. CASE InsertWord
  <2>1. PICK v \in Nat : v = Len(stored)
    BY <1>1
  <2>2. /\ option # "echo" /\ option' = option /\ part = "read"
        /\ \E s \in Strings : stored' = Append(stored, s)
    BY <1>8, WordRead DEF InsertWord, read_line
  <2>3. /\ n = v /\ stored' \in Seq(Strings) /\ Len(stored') = n + 1
    BY <1>1, <1>3, <2>1, <2>2
  <2>4. CASE option # "sort"
    <3>1. list_insert_tail(v)
      BY <1>8, <2>1, <2>4 DEF InsertWord
    <3>2. /\ length' = n + 1
          /\ \E new \in Items \ allocated :
               /\ allocated' = allocated \cup {new}
               /\ data' = [data EXCEPT ![new] = v]
               /\ Linked(Extended(c, n, new))'
      BY <1>1, <1>2, <1>3, <3>1, InsertTailStep
    <3>3. PICK new \in Items \ allocated :
               /\ data' = [data EXCEPT ![new] = v]
               /\ Linked(Extended(c, n, new))'
      BY <3>2
    <3> DEFINE e == Extended(c, n, new)
    <3>4. e[n + 1] = new /\ \A i \in 1..n : e[i] = c[i]
      BY DEF Extended
    <3> HIDE DEF e
    <3>5. /\ data'[new] = v
          /\ \A i \in 1..n : data'[c[i]] = data[c[i]]
      BY <1>1, <1>4, <3>3
    <3>6. ASSUME NEW i \in 1..(n + 1) PROVE data'[e[i]] = i - 1
      <4>1. CASE i = n + 1
        BY <2>3, <3>4, <3>5, <4>1
      <4>2. CASE i # n + 1
        <5>1. i \in 1..n
          BY <4>2
        <5>2. data[c[i]] = Len(stored) - n + i - 1
          BY <1>1, <1>5, <2>2, <2>4, <5>1 DEF Options
        <5> QED
          BY <2>1, <2>3, <3>4, <3>5, <5>1, <5>2
      <4> QED
        BY <4>1, <4>2
    <3>7. OrderOf(e)'
      BY <2>2, <2>3, <2>4, <3>2, <3>6 DEF OrderOf
    <3> QED
      BY <1>1, <3>3, <3>7, OrderThen DEF e
  <2>5. CASE option = "sort"
    <3> DEFINE key == [b \in 0..v |-> stored'[b + 1]]
    <3>1. list_insert_sorted(v, key)
      BY <1>8, <2>1, <2>5 DEF InsertWord
    <3> HIDE DEF key
    <3>2. /\ length' = n + 1
          /\ \E e \in [1..(n + 1) -> Items] :
               /\ Linked(e)'
               /\ \A i, j \in 1..(n + 1) : i < j =>
                    key[data'[e[i]]] <= key[data'[e[j]]]
      BY <1>1, <1>2, <1>3, <3>1, InsertSortedStep, SMTT(30)
    <3>3. PICK e \in [1..(n + 1) -> Items] :
               /\ Linked(e)'
               /\ \A i, j \in 1..(n + 1) : i < j =>
                    key[data'[e[i]]] <= key[data'[e[j]]]
      BY <3>2
    <3>4. ASSUME NEW i \in 1..(n + 1)
          PROVE  key[data'[e[i]]] = stored'[data'[e[i]] + 1]
      <4>1. e[i] \in allocated'
        BY <3>2, <3>3 DEF Linked
      <4>2. data'[e[i]] < Len(stored') /\ data'[e[i]] \in Nat
        BY <4>1 DEF WholeInv, DataInv, Fresh, ListType
      <4>3. data'[e[i]] \in 0..v
        BY <2>3, <4>2
      <4> QED
        BY <4>3 DEF key
    <3>5. OrderOf(e)'
      BY <2>2, <2>5, <3>2, <3>3, <3>4 DEF OrderOf
    <3> QED
      BY <1>1, <3>3, <3>5, OrderThen
  <2> QED
    BY <2>4, <2>5
<1>9. CASE MallocFails
  BY <1>6, <1>9 DEF MallocFails, list
<1>10. CASE StopReading
  BY <1>6, <1>10 DEF StopReading
<1>11. CASE Visit
  BY <1>6, <1>11 DEF Visit, list
<1>12. CASE RemoveHead \/ CleanupList
  <2>1. list_remove_head /\ UNCHANGED <<option, stored>>
    BY <1>12 DEF RemoveHead, CleanupList
  <2>2. CASE head = NULL
    BY <1>6, <2>1, <2>2 DEF list_remove_head, list
  <2>3. CASE head # NULL
    <3>1. n > 0 /\ Linked(Shifted(c, n))'
      BY <1>1, <1>2, <1>3, <2>1, <2>3, RemovedHead
    <3>2. length' = n - 1 /\ data' = data
      BY <1>3, <2>1, <2>3 DEF list_remove_head
    <3> DEFINE e == Shifted(c, n)
    <3>3. \A i \in 1..(n - 1) : e[i] = c[i + 1] /\ i + 1 \in 1..n
      BY DEF Shifted
    <3> HIDE DEF e
    <3>4. ASSUME option \in {"tail", "tail-remove"}
          PROVE  /\ length' <= Len(stored)
                 /\ \A i \in 1..length' :
                      data[e[i]] = Len(stored) - length' + i - 1
      <4>1. /\ Len(stored) \in Nat /\ n > 0 /\ n <= Len(stored)
            /\ length' = n - 1
        BY <1>1, <1>5, <3>1, <3>2, <3>4
      <4>2. ASSUME NEW i \in 1..(n - 1)
            PROVE  data[e[i]] = Len(stored) - n + (i + 1) - 1
        BY <1>5, <3>3, <3>4
      <4> QED
        BY <4>1, <4>2
    <3>5. ASSUME option = "sort", NEW i \in 1..length', NEW j \in 1..length',
                 i < j
          PROVE  stored[data[e[i]] + 1] <= stored[data[e[j]] + 1]
      <4>1. i + 1 \in 1..n /\ j + 1 \in 1..n /\ i + 1 < j + 1
        BY <3>2, <3>3, <3>5
      <4> QED
        BY <1>5, <3>2, <3>3, <3>5, <4>1
    <3>6. OrderOf(e)'
      BY <2>1, <3>2, <3>4, <3>5 DEF OrderOf
    <3> QED
      BY <1>1, <3>1, <3>6, OrderThen DEF e
  <2> QED
    BY <2>2, <2>3
<1> QED
  BY <1>7, <1>8, <1>9, <1>10, <1>11, <1>12 DEF HarnessNext

\* Division by three
LEMMA Thirds ==
  ASSUME NEW n \in Nat
  PROVE  /\ n \div 3 \in Nat /\ 3 * (n \div 3) <= n
         /\ \A a \in Nat : 3 * a <= n /\ n < 3 * a + 3 => (n % 3 = 0 <=> n = 3 * a)
OBVIOUS

\* A sequence that is one longer
LEMMA Grown ==
  ASSUME NEW n \in Nat, NEW S, NEW f \in [1..n -> S],
         NEW g \in [1..(n + 1) -> S], \A i \in 1..n : g[i] = f[i]
  PROVE  Append(f, g[n + 1]) = g
<1>4. /\ f \in Seq(S) /\ Len(f) = n /\ g \in Seq(S) /\ Len(g) = n + 1
  OBVIOUS
<1> DEFINE a == Append(f, g[n + 1])
<1>5. /\ a \in Seq(S) /\ Len(a) = n + 1 /\ a[n + 1] = g[n + 1]
      /\ \A i \in 1..n : a[i] = f[i]
  BY <1>4
<1> HIDE DEF a
<1>6. ASSUME NEW i \in 1..(n + 1) PROVE a[i] = g[i]
  <2>1. i = n + 1 \/ i \in 1..n
    OBVIOUS
  <2> QED
    BY <1>5, <2>1
<1>7. a = g
  BY <1>4, <1>5, <1>6, SeqEqual
<1> QED
  BY <1>7 DEF a

\* A visit prints the words of the list.
LEMMA VisitWords ==
  ASSUME WholeInv, program = "lab1", Visit, NEW c, Linked(c),
         NEW n \in Nat, n = length
  PROVE  /\ output' = Append(output, Texts(stored, data, c, n))
         /\ Texts(stored, data, c, n) \in Seq(Strings)
         /\ Len(Texts(stored, data, c, n)) = n
         /\ \A i \in 1..n : /\ Texts(stored, data, c, n)[i] = stored[data[c[i]] + 1]
                            /\ data[c[i]] + 1 \in 1..Len(stored)
<1>1. /\ ListType /\ stored \in Seq(Strings) /\ Len(stored) \in Nat
      /\ \A x \in allocated : data[x] \in Nat /\ data[x] < Len(stored)
  BY DEF WholeInv, ListType, UseType, DataInv, Fresh
<1>2. \A i \in 1..n : c[i] \in allocated
  BY <1>1, LinkedFacts
<1>3. \A i \in 1..n : data[c[i]] + 1 \in 1..Len(stored)
  BY <1>1, <1>2
<1>4. \A i \in 1..n : stored[data[c[i]] + 1] \in Strings
  BY <1>1, <1>3
<1> DEFINE W == Texts(stored, data, c, n)
<1>5. /\ W \in Seq(Strings) /\ Len(W) = n
      /\ \A i \in 1..n : W[i] = stored[data[c[i]] + 1]
  BY <1>4 DEF Texts
<1>6. IsFiniteSet(Items)
  BY ItemsAssumption
<1>7. Cardinality(Items) \in Nat
  BY <1>6, FS_CardinalityType
<1>8. PICK m \in 0..Cardinality(Items) : \E d \in Followed(next, head, m) :
        /\ Visits(d, m)
        /\ output' = Append(output, [i \in 1..m |-> stored[data[d[i]] + 1]])
  BY DEF Visit
<1>9. PICK d \in Followed(next, head, m) :
        /\ Visits(d, m)
        /\ output' = Append(output, [i \in 1..m |-> stored[data[d[i]] + 1]])
  BY <1>8
<1>10. m \in Nat
  BY <1>7
<1>11. m = n /\ d = c
  BY <1>1, <1>9, <1>10, VisitsAll
<1>12. output' = Append(output, W)
  BY <1>9, <1>11 DEF Texts
<1> QED
  BY <1>3, <1>5, <1>12

\* The words in the order of the file, from the one after the first g
LEMMA FileOrder ==
  ASSUME NEW s \in Seq(Strings), NEW g \in Nat, NEW n \in Nat,
         n = Len(s) - g, NEW w \in Seq(Strings), Len(w) = n,
         \A i \in 1..n : w[i] = s[g + i]
  PROVE  w = SubSeq(s, g + 1, Len(s))
<1> DEFINE t == SubSeq(s, g + 1, Len(s))
<1>1. /\ t \in Seq(Strings) /\ Len(t) = n
      /\ \A i \in 1..n : t[i] = s[g + i]
  <2>1. \A i \in (g + 1)..Len(s) : s[i] \in Strings
    OBVIOUS
  <2>2. /\ t \in Seq(Strings)
        /\ Len(t) = IF g + 1 <= Len(s) THEN Len(s) - (g + 1) + 1 ELSE 0
        /\ \A i \in 1..(Len(s) - (g + 1) + 1) : t[i] = s[(g + 1) + i - 1]
    BY <2>1, SubSeqProperties
  <2> HIDE DEF t
  <2>3. Len(t) = n
    BY <2>2
  <2>4. ASSUME NEW i \in 1..n PROVE t[i] = s[g + i]
    <3>1. i \in 1..(Len(s) - (g + 1) + 1) /\ (g + 1) + i - 1 = g + i
      OBVIOUS
    <3> QED
      BY <2>2, <3>1
  <2> QED
    BY <2>2, <2>3, <2>4
<1> HIDE DEF t
<1>2. w = t
  BY <1>1, SeqEqual
<1> QED
  BY <1>2 DEF t

\* What a visit adds, by option
LEMMA VisitPrints ==
  ASSUME WholeInv, OrderInv, PrintInv, program = "lab1", Visit,
         program' = program
  PROVE  PrintInv'
<1>1. /\ ListType /\ LinkedInv /\ stored \in Seq(Strings) /\ option \in Options
      /\ Len(stored) \in Nat /\ left \in Nat /\ DataInv
      /\ option = "echo" => part \in {"read", "done"}
  BY DEF WholeInv, UseType, PrintInv
<1>2. /\ part \in {"visit", "last_visit"}
      /\ part' = IF part = "last_visit" THEN "done"
                 ELSE IF left > 0 THEN "remove" ELSE "cleanup"
      /\ UNCHANGED <<length, option, stored, left>>
  BY DEF Visit, list
<1>3. PICK c \in Followed(next, head, length) : Linked(c)
  BY <1>1 DEF LinkedInv
<1>4. PICK n \in Nat : n = length
  BY <1>1 DEF ListType
<1>5. PICK W : W = Texts(stored, data, c, n)
  OBVIOUS
<1>6. /\ output' = Append(output, W)
      /\ W \in Seq(Strings) /\ Len(W) = n
      /\ \A i \in 1..n : /\ W[i] = stored[data[c[i]] + 1]
                         /\ data[c[i]] + 1 \in 1..Len(stored)
  BY <1>3, <1>4, <1>5, VisitWords
<1>7. /\ option \in {"tail", "tail-remove"} =>
           /\ n <= Len(stored)
           /\ \A i \in 1..n : data[c[i]] = Len(stored) - n + i - 1
      /\ option = "sort" => \A i, j \in 1..n :
           i < j => stored[data[c[i]] + 1] <= stored[data[c[j]] + 1]
  BY <1>3, <1>4 DEF OrderInv, OrderOf
<1>8. option # "echo"
  BY <1>1, <1>2
<1>9. option \in {"tail", "tail-remove"} =>
        W = SubSeq(stored, (Len(stored) - n) + 1, Len(stored))
  <2> SUFFICES ASSUME option \in {"tail", "tail-remove"}
               PROVE  W = SubSeq(stored, (Len(stored) - n) + 1, Len(stored))
    OBVIOUS
  <2> DEFINE g == Len(stored) - n
  <2>1. g \in Nat /\ n = Len(stored) - g
    BY <1>1, <1>7
  <2>2. ASSUME NEW i \in 1..n PROVE W[i] = stored[g + i]
    <3>1. data[c[i]] + 1 = g + i
      BY <1>1, <1>7
    <3> QED
      BY <1>6, <3>1
  <2> HIDE DEF g
  <2>3. W = SubSeq(stored, g + 1, Len(stored))
    BY <1>1, <1>6, <2>1, <2>2, FileOrder
  <2> QED
    BY <2>3 DEF g
<1>10. CASE option = "tail"
  <2>1. /\ part = "visit" /\ n = Len(stored) /\ output = <<>> /\ left = 0
    BY <1>2, <1>4, <1>10 DEF PrintInv
  <2>2. W = stored
    <3>1. ASSUME NEW i \in 1..n PROVE W[i] = stored[i]
      <4>1. data[c[i]] + 1 = i
        BY <1>1, <1>7, <1>10, <2>1
      <4> QED
        BY <1>6, <4>1
    <3> QED
      BY <1>1, <1>6, <2>1, <3>1, SeqEqual
  <2>3. output' = <<stored>>
    BY <1>6, <2>1, <2>2
  <2>4. part' = "cleanup"
    BY <1>2, <2>1
  <2>5. TextsPrinted'
    BY <1>2, <1>10, <2>3 DEF TextsPrinted
  <2> QED
    BY <1>1, <1>2, <1>10, <2>1, <2>4, <2>5 DEF PrintInv
<1>11. CASE option = "sort"
  <2>1. /\ part = "visit" /\ n = Len(stored) /\ output = <<>> /\ left = 0
    BY <1>2, <1>4, <1>11 DEF PrintInv
  <2>2. output' = <<W>>
    BY <1>6, <2>1
  <2>3. part' = "cleanup"
    BY <1>2, <2>1
  <2> DEFINE f == [i \in 1..n |-> data[c[i]] + 1]
  <2>4. f \in [1..n -> 1..n] /\ \A i \in 1..n : W[i] = stored[f[i]]
    BY <1>6, <2>1
  <2>5. ASSUME NEW i \in 1..n, NEW j \in 1..n, i # j PROVE f[i] # f[j]
    <3>1. c[i] \in allocated /\ c[j] \in allocated /\ c[i] # c[j]
      BY <1>1, <1>3, <1>4, <2>5, LinkedFacts
    <3>2. data[c[i]] # data[c[j]] /\ data[c[i]] \in Nat /\ data[c[j]] \in Nat
      BY <1>1, <3>1 DEF DataInv, ListType
    <3> QED
      BY <3>2
  <2> HIDE DEF f
  <2>6. f \in Orders(n)
    BY <2>4, <2>5 DEF Orders
  <2>7. \A i, j \in 1..n : i < j => W[i] <= W[j]
    BY <1>6, <1>7, <1>11
  <2>8. TextsPrinted'
    <3>1. Len(output') = 1 /\ output'[1] = W
      BY <2>2
    <3>2. \E p \in Orders(Len(stored')) :
            \A i \in 1..Len(stored') : output'[1][i] = stored'[p[i]]
      BY <1>2, <2>1, <2>4, <2>6, <3>1
    <3>4. Len(output'[1]) = Len(stored')
      BY <1>2, <1>6, <2>1, <3>1
    <3>3. \A i, j \in 1..Len(stored') : i < j => output'[1][i] <= output'[1][j]
      BY <1>2, <2>1, <2>7, <3>1
    <3> QED
      BY <1>2, <1>11, <3>1, <3>2, <3>3, <3>4 DEF TextsPrinted
  <2> QED
    BY <1>1, <1>2, <1>11, <2>1, <2>3, <2>8 DEF PrintInv
<1>12. CASE option = "tail-remove"
  <2>1. PICK sets \in Nat : sets = Len(stored) \div 3
    BY <1>1, Thirds
  <2> DEFINE Rest(i) == SubSeq(stored, 3 * i - 2, Len(stored))
             Upto(k) == [i \in 1..k |-> Rest(i)]
  <2>2. CASE part = "visit"
    <3>1. PICK k \in 0..sets :
            /\ left = 3 * (sets - k) /\ n = Len(stored) - 3 * k
            /\ output = Upto(k)
      BY <1>4, <1>12, <2>1, <2>2 DEF PrintInv, RemoveInv, Visited
    <3>2. (Len(stored) - n) + 1 = 3 * (k + 1) - 2
      BY <1>1, <3>1
    <3>3. W = Rest(k + 1)
      BY <1>9, <1>12, <3>2
    <3>4. output' = Upto(k + 1)
      <4> DEFINE f == Upto(k)
                 g == Upto(k + 1)
                 S == {g[i] : i \in 1..(k + 1)}
      <4>1. /\ f \in [1..k -> S] /\ g \in [1..(k + 1) -> S]
            /\ g[k + 1] = W /\ k \in Nat
            /\ \A i \in 1..k : g[i] = f[i]
        <5> HIDE DEF Rest
        <5> QED
          BY <3>3
      <4> HIDE DEF f, g, S
      <4>2. Append(f, g[k + 1]) = g
        BY <4>1, Grown
      <4> QED
        BY <1>6, <3>1, <4>1, <4>2 DEF f, g
    <3>5. Visited(k + 1)'
      BY <1>2, <3>4 DEF Visited
    <3>6. CASE left > 0
      <4>1. part' = "remove"
        BY <1>2, <2>2, <3>6
      <4>2. /\ k + 1 \in 1..sets
            /\ 3 * (sets - (k + 1)) < left /\ left <= 3 * (sets - (k + 1)) + 3
            /\ n = Len(stored) - 3 * sets + left
        BY <1>1, <3>1, <3>6
      <4>3. \E j \in 1..sets :
              /\ 3 * (sets - j) < left /\ left <= 3 * (sets - j) + 3
              /\ n = Len(stored) - 3 * sets + left
              /\ Visited(j)'
        BY <3>5, <4>2
      <4>4. RemoveInv'
        BY <1>2, <1>4, <2>1, <4>1, <4>3 DEF RemoveInv
      <4> QED
        BY <1>1, <1>2, <1>12, <4>1, <4>4 DEF PrintInv
    <3>7. CASE ~(left > 0)
      <4>1. part' = "cleanup"
        BY <1>2, <2>2, <3>7
      <4>2. k = sets
        BY <1>1, <3>1, <3>7
      <4>3. RemoveInv'
        BY <1>2, <2>1, <3>5, <4>1, <4>2 DEF RemoveInv
      <4> QED
        BY <1>1, <1>2, <1>12, <4>1, <4>3 DEF PrintInv
    <3> QED
      BY <3>6, <3>7
  <2>3. CASE part = "last_visit"
    <3>1. n = 0 /\ output = Upto(sets + 1)
      BY <1>4, <1>12, <2>1, <2>3 DEF PrintInv, RemoveInv, Visited
    <3>2. W = <<>>
      BY <1>6, <3>1
    <3> DEFINE k == sets + 1
               f == Upto(k)
               g == [i \in 1..(k + 1) |-> IF i = k + 1 THEN <<>> ELSE Rest(i)]
               S == {g[i] : i \in 1..(k + 1)}
    <3>3. /\ f \in [1..k -> S] /\ g \in [1..(k + 1) -> S]
          /\ g[k + 1] = W /\ k \in Nat
          /\ \A i \in 1..k : g[i] = f[i]
      <4> HIDE DEF Rest
      <4> QED
        BY <3>2
    <3> HIDE DEF f, g, k, S
    <3>4. Append(f, g[k + 1]) = g
      BY <3>3, Grown
    <3>5. output' = g
      BY <1>6, <3>1, <3>3, <3>4 DEF f, k
    <3>6. k + 1 = sets + 2
      BY DEF k
    <3>7. TextsPrinted'
      BY <1>2, <1>12, <2>1, <3>5, <3>6 DEF TextsPrinted, g
    <3>8. part' = "done"
      BY <1>2, <2>3
    <3>9. RemoveInv'
      BY <3>7, <3>8 DEF RemoveInv
    <3> QED
      BY <1>1, <1>2, <1>12, <3>8, <3>9 DEF PrintInv
  <2> QED
    BY <1>2, <2>2, <2>3
<1> QED
  BY <1>1, <1>8, <1>10, <1>11, <1>12 DEF Options

\* Every step of lab1 prints what it should.
LEMMA PrintNext ==
  ASSUME WholeInv, OrderInv, PrintInv, program = "lab1", HarnessNext,
         UNCHANGED <<program, threads>>
  PROVE  PrintInv'
<1>1. /\ ListType /\ LinkedInv /\ stored \in Seq(Strings) /\ option \in Options
      /\ Len(stored) \in Nat /\ left \in Nat /\ length \in Nat
      /\ program' = "lab1"
      /\ option # "echo" /\ part = "read" => length = Len(stored) /\ output = <<>>
      /\ option = "echo" => /\ part \in {"read", "done"}
                            /\ output = [i \in 1..Len(stored) |-> <<stored[i]>>]
      /\ option \in {"tail", "sort"} =>
           /\ part \in {"read", "failed", "visit", "cleanup", "done"} /\ left = 0
           /\ part \in {"cleanup", "done"} => TextsPrinted
      /\ option = "tail-remove" => RemoveInv
  BY DEF WholeInv, UseType, ListType, PrintInv
<1>2. CASE Echo
  <2>1. /\ option = "echo" /\ part = "read" /\ UNCHANGED <<option, part, left>>
        /\ output' = Append(output, <<stored'[Len(stored')]>>)
    BY <1>2 DEF Echo, read_line
  <2>2. PICK s \in Strings : stored' = Append(stored, s)
    BY <1>2, WordRead DEF Echo
  <2>3. PICK n \in Nat : n = Len(stored)
    BY <1>1
  <2>4. /\ Len(stored') = n + 1
        /\ \A i \in 1..n : stored'[i] = stored[i]
    BY <1>1, <2>2, <2>3
  <2> DEFINE One(x) == <<x>>
             f == [i \in 1..n |-> One(stored[i])]
             g == [i \in 1..(n + 1) |-> One(stored'[i])]
             S == {g[i] : i \in 1..(n + 1)}
  <2>5. /\ f \in [1..n -> S] /\ g \in [1..(n + 1) -> S]
        /\ g[n + 1] = One(stored'[n + 1])
        /\ \A i \in 1..n : g[i] = f[i]
    <3> HIDE DEF One
    <3> QED
      BY <2>4
  <2> HIDE DEF f, g, S
  <2>6. Append(f, g[n + 1]) = g
    BY <2>5, Grown
  <2>7. output' = g
    BY <1>1, <2>1, <2>3, <2>4, <2>5, <2>6 DEF f
  <2>8. output' = [i \in 1..Len(stored') |-> <<stored'[i]>>]
    BY <2>4, <2>7 DEF g
  <2> QED
    BY <1>1, <2>1, <2>8 DEF PrintInv
<1>3. CASE InsertWord
  <2>1. /\ option # "echo" /\ part = "read"
        /\ UNCHANGED <<option, part, left, output>>
        /\ \E s \in Strings : stored' = Append(stored, s)
    BY <1>3, WordRead DEF InsertWord, read_line
  <2>2. Len(stored') = Len(stored) + 1
    BY <1>1, <2>1
  <2>3. length' = length + 1
    BY <1>3 DEF InsertWord, list_insert_tail, list_insert_sorted, NewItem
  <2>4. length' = Len(stored') /\ output' = <<>>
    BY <1>1, <2>1, <2>2, <2>3
  <2>5. RemoveInv'
    BY <2>1 DEF RemoveInv
  <2> QED
    BY <1>1, <2>1, <2>4, <2>5 DEF PrintInv
<1>4. CASE MallocFails
  <2>1. /\ option # "echo" /\ part' = "failed" /\ UNCHANGED <<option, left>>
    BY <1>4 DEF MallocFails
  <2>2. RemoveInv'
    BY <2>1 DEF RemoveInv
  <2> QED
    BY <1>1, <1>4, <2>1, <2>2 DEF PrintInv, MallocFails
<1>5. CASE StopReading
  <2>1. /\ part = "read"
        /\ left' = IF option = "tail-remove" THEN 3 * (length \div 3) ELSE 0
        /\ part' = IF option = "echo" THEN "done" ELSE "visit"
        /\ UNCHANGED <<length, option, stored, output>>
    BY <1>5 DEF StopReading, ThreeSets
  <2>2. PICK sets \in Nat : sets = Len(stored) \div 3
    BY <1>1, Thirds
  <2>3. left' \in Nat
    <3>1. length \div 3 \in Nat
      BY <1>1, Thirds
    <3> QED
      BY <2>1, <3>1
  <2>4. ASSUME option = "tail-remove" PROVE RemoveInv'
    <3>1. /\ left' = 3 * (sets - 0) /\ length' = Len(stored) - 3 * 0
          /\ part' = "visit" /\ output' = <<>> /\ 0 \in 0..sets
      BY <1>1, <2>1, <2>2, <2>4
    <3>2. Visited(0)'
      BY <3>1 DEF Visited
    <3>3. \E k \in 0..sets : /\ left' = 3 * (sets - k)
                             /\ length' = Len(stored) - 3 * k
                             /\ Visited(k)'
      BY <3>1, <3>2
    <3> QED
      BY <2>1, <2>2, <3>1, <3>3 DEF RemoveInv
  <2>5. CASE option = "echo"
    BY <1>1, <2>1, <2>3, <2>5 DEF PrintInv
  <2>6. CASE option # "echo"
    BY <1>1, <2>1, <2>3, <2>4, <2>6 DEF PrintInv
  <2> QED
    BY <2>5, <2>6
<1>6. CASE Visit
  BY <1>6, VisitPrints
<1>7. CASE RemoveHead
  <2>1. /\ part = "remove" /\ list_remove_head /\ left' = left - 1
        /\ part' = IF left' % 3 = 0 THEN "visit" ELSE "remove"
        /\ UNCHANGED <<option, stored, output>>
    BY <1>7 DEF RemoveHead
  <2>2. option = "tail-remove"
    BY <1>1, <2>1 DEF Options
  <2>3. PICK sets \in Nat : sets = Len(stored) \div 3 /\ 3 * sets <= Len(stored)
    BY <1>1, Thirds
  <2>4. PICK k \in 1..sets :
          /\ 3 * (sets - k) < left /\ left <= 3 * (sets - k) + 3
          /\ length = Len(stored) - 3 * sets + left
          /\ Visited(k)
    BY <1>1, <2>1, <2>2, <2>3 DEF RemoveInv
  <2>5. Visited(k)'
    BY <2>1, <2>4 DEF Visited
  <2>6. PICK c \in Followed(next, head, length) : Linked(c)
    BY <1>1 DEF LinkedInv
  <2>7. length > 0
    BY <1>1, <2>3, <2>4
  <2>8. head # NULL
    BY <1>1, <2>6, <2>7, LinkedFacts
  <2>9. length' = length - 1
    BY <2>1, <2>8 DEF list_remove_head
  <2> DEFINE a == sets - k
  <2>10. /\ a \in Nat /\ left' \in Nat /\ 3 * a <= left' /\ left' < 3 * a + 3
    BY <1>1, <2>1, <2>4
  <2>11. left' % 3 = 0 <=> left' = 3 * a
    <3> HIDE DEF a
    <3> QED
      BY <2>10, Thirds
  <2>12. CASE left' % 3 = 0
    <3>1. part' = "visit"
      BY <2>1, <2>12
    <3>2. /\ k \in 0..sets /\ left' = 3 * (sets - k)
          /\ length' = Len(stored) - 3 * k
      BY <1>1, <2>1, <2>4, <2>9, <2>11, <2>12
    <3>3. \E j \in 0..sets : /\ left' = 3 * (sets - j)
                             /\ length' = Len(stored) - 3 * j
                             /\ Visited(j)'
      BY <2>5, <3>2
    <3>4. RemoveInv'
      BY <2>1, <2>3, <3>1, <3>3 DEF RemoveInv
    <3> QED
      BY <1>1, <2>1, <2>2, <2>10, <3>1, <3>4 DEF PrintInv
  <2>13. CASE left' % 3 # 0
    <3>1. part' = "remove"
      BY <2>1, <2>13
    <3>2. /\ 3 * (sets - k) < left' /\ left' <= 3 * (sets - k) + 3
          /\ length' = Len(stored) - 3 * sets + left'
      BY <1>1, <2>1, <2>4, <2>9, <2>10, <2>11, <2>13
    <3>3. \E j \in 1..sets :
            /\ 3 * (sets - j) < left' /\ left' <= 3 * (sets - j) + 3
            /\ length' = Len(stored) - 3 * sets + left'
            /\ Visited(j)'
      BY <2>5, <3>2
    <3>4. RemoveInv'
      BY <2>1, <2>3, <3>1, <3>3 DEF RemoveInv
    <3> QED
      BY <1>1, <2>1, <2>2, <2>10, <3>1, <3>4 DEF PrintInv
  <2> QED
    BY <2>12, <2>13
<1>8. CASE CleanupList
  <2>1. /\ part = "cleanup" /\ list_remove_head
        /\ part' = IF head # NULL THEN "cleanup"
                   ELSE IF option = "tail-remove" THEN "last_visit" ELSE "done"
        /\ UNCHANGED <<option, stored, left, output>>
    BY <1>8 DEF CleanupList
  <2>2. option # "echo"
    BY <1>1, <2>1
  <2>3. CASE option = "tail-remove"
    <3>1. Visited((Len(stored) \div 3) + 1)
      BY <1>1, <2>1, <2>3 DEF RemoveInv
    <3>2. Visited((Len(stored) \div 3) + 1)'
      BY <2>1, <3>1 DEF Visited
    <3>3. part' \in {"cleanup", "last_visit"}
      BY <2>1, <2>3
    <3>4. part' = "last_visit" => length' = 0
      <4> SUFFICES ASSUME part' = "last_visit" PROVE length' = 0
        OBVIOUS
      <4>1. head = NULL
        BY <2>1
      <4>2. length' = length
        BY <2>1, <4>1 DEF list_remove_head, list
      <4>3. PICK c \in Followed(next, head, length) : Linked(c)
        BY <1>1 DEF LinkedInv
      <4> QED
        BY <1>1, <4>1, <4>2, <4>3, LinkedFacts
    <3>5. RemoveInv'
      BY <3>2, <3>3, <3>4 DEF RemoveInv
    <3> QED
      BY <1>1, <2>1, <2>3, <3>3, <3>5 DEF PrintInv
  <2>4. CASE option # "tail-remove"
    <3>1. TextsPrinted /\ option \in {"tail", "sort"}
      BY <1>1, <2>1, <2>2, <2>4 DEF Options
    <3>2. TextsPrinted'
      BY <2>1, <3>1 DEF TextsPrinted
    <3> QED
      BY <1>1, <2>1, <3>1, <3>2 DEF PrintInv
  <2> QED
    BY <2>3, <2>4
<1> QED
  BY <1>2, <1>3, <1>4, <1>5, <1>6, <1>7, <1>8 DEF HarnessNext

\* lab1 keeps its list in order and prints it as it should.
THEOREM PrintInvariance == ProgramSpec => [](OrderInv /\ PrintInv)
<1>1. ProgramInit => OrderInv /\ PrintInv
  <2> SUFFICES ASSUME ProgramInit PROVE OrderInv /\ PrintInv
    OBVIOUS
  <2>1. CASE program = "lab1"
    <3>1. /\ length = 0 /\ option \in Options /\ stored = <<>>
          /\ part = "read" /\ left = 0 /\ output = <<>>
      BY <2>1 DEF ProgramInit, HarnessInit, list_init
    <3>2. OrderInv
      BY <3>1 DEF OrderInv, OrderOf
    <3>3. RemoveInv
      BY <3>1 DEF RemoveInv
    <3>4. output = [i \in 1..Len(stored) |-> <<stored[i]>>] /\ Len(stored) = 0
      BY <3>1
    <3> QED
      BY <2>1, <3>1, <3>2, <3>3, <3>4 DEF PrintInv
  <2>2. CASE program # "lab1"
    BY <2>2 DEF ProgramInit, OrderInv, PrintInv
  <2> QED
    BY <2>1, <2>2
<1>2. ASSUME WholeInv, WholeInv', OrderInv, PrintInv, [ProgramNext]_program_vars
      PROVE  OrderInv' /\ PrintInv'
  <2>1. CASE program = "lab1" /\ HarnessNext /\ UNCHANGED <<program, threads>>
    BY <1>2, <2>1, OrderNext, PrintNext
  <2>2. CASE program = "uthread" /\ CoopNext /\ UNCHANGED <<program, harness>>
    BY <1>2, <2>2 DEF OrderInv, PrintInv, harness
  <2>3. CASE UNCHANGED program_vars
    <3>1. UNCHANGED <<head, length, next, data, program, option, stored, part,
                      left, output>>
      BY <2>3 DEF program_vars, list, harness
    <3>2. OrderInv'
      <4>1. Followed(next, head, length)' = Followed(next, head, length)
        BY <3>1, Zenon
      <4>2. ASSUME NEW d, OrderOf(d) PROVE OrderOf(d)'
        BY <3>1, <4>2 DEF OrderOf
      <4> QED
        BY <1>2, <3>1, <4>1, <4>2 DEF OrderInv
    <3>3. TextsPrinted' <=> TextsPrinted
      BY <3>1 DEF TextsPrinted
    <3>4. \A k : Visited(k)' <=> Visited(k)
      BY <3>1 DEF Visited
    <3>5. RemoveInv => RemoveInv'
      BY <3>1, <3>3, <3>4 DEF RemoveInv
    <3>6. PrintInv'
      BY <1>2, <3>1, <3>3, <3>5 DEF PrintInv
    <3> QED
      BY <3>2, <3>6
  <2> QED
    BY <1>2, <2>1, <2>2, <2>3 DEF ProgramNext
<1> QED
  BY <1>1, <1>2, WholeInvariance, PTL DEF ProgramSpec

\* A buffer holds a string that begins with the word that was read into it; the
\* buffer of echo, which is cleared after each word, the word itself from the
\* second one on.
HeldInv ==
  program = "lab1" =>
    /\ words \in Seq(Words) /\ Len(words) = Len(stored)
    /\ \A i \in 1..Len(words) :
         /\ stored[i] \in Extensions[words[i]]
         /\ option = "echo" /\ i > 1 => stored[i] = words[i]

\* Every step keeps the words and the buffers together.
LEMMA HeldNext ==
  ASSUME UseType, HeldInv, [ProgramNext]_program_vars
  PROVE  HeldInv'
<1>1. stored \in Seq(Strings)
  BY DEF UseType
<1>2. ASSUME UNCHANGED <<program, option, words, stored>> PROVE HeldInv'
  BY <1>2 DEF HeldInv
<1>3. CASE program = "uthread" /\ program' = program
  BY <1>3 DEF HeldInv
<1>4. ASSUME program = "lab1", read_line, program' = program PROVE HeldInv'
  <2>1. PICK w \in Words : \E s \in Strings :
           /\ words' = Append(words, w) /\ stored' = Append(stored, s)
           /\ s \in Extensions[w]
           /\ option = "echo" /\ stored # <<>> => s = w
    BY <1>4, WordRead
  <2>2. PICK s \in Strings :
           /\ words' = Append(words, w) /\ stored' = Append(stored, s)
           /\ s \in Extensions[w]
           /\ option = "echo" /\ stored # <<>> => s = w
    BY <2>1
  <2>3. PICK n \in Nat : n = Len(stored)
    BY <1>1
  <2>4. /\ words \in Seq(Words) /\ Len(words) = n
        /\ \A i \in 1..n : /\ stored[i] \in Extensions[words[i]]
                           /\ option = "echo" /\ i > 1 => stored[i] = words[i]
    BY <1>4, <2>3 DEF HeldInv
  <2>5. /\ words' \in Seq(Words) /\ Len(words') = n + 1 /\ Len(stored') = n + 1
        /\ words'[n + 1] = w /\ stored'[n + 1] = s
        /\ \A i \in 1..n : words'[i] = words[i] /\ stored'[i] = stored[i]
        /\ n > 0 => stored # <<>>
    BY <1>1, <2>2, <2>3, <2>4
  <2>6. option' = option
    BY <1>4 DEF read_line
  <2>7. ASSUME NEW i \in 1..(n + 1)
        PROVE  /\ stored'[i] \in Extensions[words'[i]]
               /\ option' = "echo" /\ i > 1 => stored'[i] = words'[i]
    <3>1. CASE i \in 1..n
      BY <2>4, <2>5, <2>6, <3>1
    <3>2. CASE i = n + 1
      BY <2>2, <2>5, <2>6, <3>2
    <3> QED
      BY <3>1, <3>2
  <2> QED
    BY <2>5, <2>7 DEF HeldInv
<1>5. CASE program = "lab1" /\ HarnessNext /\ UNCHANGED <<program, threads>>
  <2>1. \/ read_line
        \/ UNCHANGED <<option, words, stored>>
    BY <1>5 DEF HarnessNext, Echo, InsertWord, MallocFails, StopReading, Visit,
                RemoveHead, CleanupList
  <2> QED
    BY <1>2, <1>4, <1>5, <2>1
<1>6. CASE UNCHANGED program_vars
  BY <1>2, <1>6 DEF program_vars, harness
<1> QED
  BY <1>3, <1>5, <1>6 DEF ProgramNext

\* The buffers always hold strings that begin with the words of the file.
THEOREM HeldInvariance == ProgramSpec => []HeldInv
<1>1. ProgramInit => HeldInv
  BY DEF ProgramInit, HarnessInit, HeldInv
<1>2. WholeInv => UseType
  BY DEF WholeInv
<1> QED
  BY <1>1, <1>2, HeldNext, WholeInvariance, PTL DEF ProgramSpec

\* Strings that are in order belong to words of which a larger one comes first
\* only where the smaller one is its beginning.
LEMMA WordOrder ==
  ASSUME NEW v \in Words, NEW w \in Words,
         NEW s \in Extensions[v], NEW t \in Extensions[w], s <= t
  PROVE  v <= w \/ v \in Extensions[w]
<1>1. v \in Nat /\ w \in Nat /\ s \in Nat /\ t \in Nat
  BY WordsAssumption, HarnessAssumption
<1>2. ASSUME w < v, v \notin Extensions[w] PROVE FALSE
  <2>1. t < s
    BY <1>2, WordsAssumption
  <2> QED
    BY <1>1, <2>1
<1> QED
  BY <1>1, <1>2

\* What is printed of the buffers is what the options promise of the words.
LEMMA TextsAreWords ==
  ASSUME UseType, HeldInv, TextsPrinted, program = "lab1", option \in Options
  PROVE  PrintedFor
<1>1. PICK n \in Nat : n = Len(stored)
  BY DEF UseType
<1>2. /\ stored \in Seq(Strings) /\ Len(stored) = n
      /\ words \in Seq(Words) /\ Len(words) = n
      /\ \A i \in 1..n : /\ stored[i] \in Extensions[words[i]]
                         /\ option = "echo" /\ i > 1 => stored[i] = words[i]
  BY <1>1 DEF UseType, HeldInv
<1>3. Shows(stored, words)
  BY <1>2 DEF Shows
<1>4. CASE option = "echo"
  <2>1. output = [i \in 1..n |-> <<stored[i]>>]
    BY <1>2, <1>4 DEF TextsPrinted
  <2>2. Len(output) = n
    BY <2>1
  <2>3. ASSUME NEW i \in 1..n
        PROVE  /\ Shows(output[i], <<words[i]>>)
               /\ i > 1 => output[i] = <<words[i]>>
    <3>1. output[i] = <<stored[i]>>
      BY <2>1
    <3> QED
      BY <1>2, <1>4, <3>1 DEF Shows
  <2> QED
    BY <1>2, <1>4, <2>2, <2>3 DEF PrintedFor
<1>5. CASE option = "tail"
  <2>1. output = <<stored>>
    BY <1>5 DEF TextsPrinted
  <2>2. Len(output) = 1 /\ output[1] = stored
    BY <2>1
  <2> QED
    BY <1>3, <1>5, <2>2 DEF PrintedFor
<1>6. CASE option = "sort"
  <2>1. /\ Len(output) = 1 /\ Len(output[1]) = n
        /\ \E p \in Orders(n) : \A i \in 1..n : output[1][i] = stored[p[i]]
        /\ \A i, j \in 1..n : i < j => output[1][i] <= output[1][j]
    BY <1>2, <1>6 DEF TextsPrinted
  <2>2. PICK p \in Orders(n) : \A i \in 1..n : output[1][i] = stored[p[i]]
    BY <2>1
  <2>3. p \in [1..n -> 1..n]
    BY DEF Orders
  <2> DEFINE ws == [i \in 1..n |-> words[p[i]]]
  <2>4. Len(ws) = n /\ \A i \in 1..n : ws[i] = words[p[i]]
    OBVIOUS
  <2>5. \A i \in 1..n : /\ output[1][i] \in Extensions[words[p[i]]]
                        /\ words[p[i]] \in Words
    BY <1>2, <2>2, <2>3
  <2>6. Shows(output[1], ws)
    <3> HIDE DEF ws
    <3> QED
      BY <2>1, <2>4, <2>5 DEF Shows
  <2>7. ASSUME NEW i \in 1..n, NEW j \in 1..n, i < j
        PROVE  /\ output[1][i] <= output[1][j]
               /\ \/ words[p[i]] <= words[p[j]]
                  \/ words[p[i]] \in Extensions[words[p[j]]]
    <3>1. output[1][i] <= output[1][j]
      BY <2>1, <2>7
    <3> QED
      BY <2>5, <3>1, WordOrder
  <2>8. \E q \in Orders(n) :
          /\ Shows(output[1], [i \in 1..n |-> words[q[i]]])
          /\ \A i, j \in 1..n : i < j =>
               /\ output[1][i] <= output[1][j]
               /\ \/ words[q[i]] <= words[q[j]]
                  \/ words[q[i]] \in Extensions[words[q[j]]]
    BY <2>6, <2>7
  <2> QED
    BY <1>2, <1>6, <2>1, <2>8 DEF PrintedFor
<1>7. CASE option = "tail-remove"
  <2>1. PICK sets \in Nat : sets = n \div 3
    BY Thirds
  <2>2. output = [k \in 1..(sets + 2) |->
                    IF k = sets + 2 THEN <<>> ELSE SubSeq(stored, 3 * k - 2, n)]
    BY <1>2, <1>7, <2>1 DEF TextsPrinted
  <2>3. /\ Len(output) = sets + 2 /\ output[sets + 2] = <<>>
        /\ \A k \in 1..(sets + 1) : output[k] = SubSeq(stored, 3 * k - 2, n)
    <3> DEFINE Rest(k) == SubSeq(stored, 3 * k - 2, n)
    <3>1. output = [k \in 1..(sets + 2) |-> IF k = sets + 2 THEN <<>> ELSE Rest(k)]
      BY <2>2
    <3> HIDE DEF Rest
    <3>2. /\ Len(output) = sets + 2 /\ output[sets + 2] = <<>>
          /\ \A k \in 1..(sets + 1) : output[k] = Rest(k)
      BY <3>1
    <3> QED
      BY <3>2 DEF Rest
  <2>4. output[1] = stored
    <3>1. output[1] = SubSeq(stored, 3 * 1 - 2, n) /\ 3 * 1 - 2 = 0 + 1
      BY <2>3
    <3>2. stored = SubSeq(stored, 0 + 1, Len(stored))
      BY <1>2, FileOrder
    <3> QED
      BY <1>2, <3>1, <3>2
  <2>5. /\ Shows(output[1], words)
        /\ \A k \in 1..(sets + 1) : output[k] = SubSeq(output[1], 3 * k - 2, n)
    BY <1>3, <2>3, <2>4
  <2> QED
    BY <1>2, <1>7, <2>1, <2>3, <2>5 DEF PrintedFor
<1> QED
  BY <1>4, <1>5, <1>6, <1>7 DEF Options

\* When lab1 is through (harness.c:44-148) it has printed one string for each
\* word it read, which begins with the word: each by itself, all in the order of
\* the file, all in the order of the strings, or what is left after each removal
\* of three.  Sorted words are out of order only where one begins the other.
THEOREM PrintedCorrect == ProgramSpec => []Printed
<1>1. UseType /\ HeldInv /\ PrintInv => Printed
  <2> SUFFICES ASSUME UseType, HeldInv, PrintInv, part = "done" PROVE PrintedFor
    BY DEF Printed
  <2>1. program = "lab1" /\ option \in Options
    BY DEF PrintInv
  <2>2. CASE option = "echo"
    BY <2>1, <2>2, TextsAreWords DEF PrintInv, TextsPrinted
  <2>3. CASE option \in {"tail", "sort"}
    BY <2>1, <2>3, TextsAreWords DEF PrintInv
  <2>4. CASE option = "tail-remove"
    BY <2>1, <2>4, TextsAreWords DEF PrintInv, RemoveInv
  <2> QED
    BY <2>1, <2>2, <2>3, <2>4 DEF Options
<1>2. WholeInv => UseType
  BY DEF WholeInv
<1> QED
  BY <1>1, <1>2, WholeInvariance, HeldInvariance, PrintInvariance, PTL

-----------------------------------------------------------------------------
(* The shell of Asmt_2.                                                    *)

\* The children in the process table
Active(p) == child[p].state \in {"setup", "running", "zombie"}

\* A child that is not in the background is the one the shell waits for.
ForegroundInv ==
  \A p \in Pids :
    Active(p) /\ ~child[p].background => step = "wait" /\ child_pid = p

\* A child knows from the fork on where its output will go.
QuietInv ==
  \A p \in Pids :
    child[p].state \in {"setup", "running"} /\ child[p].background
      => child[p].stdout # "terminal" \/ child[p].stdin = "file"

IndInv == TypeOK /\ (step = "wait" => child_pid \in Pids)
          /\ ForegroundInv /\ QuietInv

-----------------------------------------------------------------------------
(* Facts about the operators.                                              *)

LEMMA Product ==
  ASSUME NEW a \in Nat, NEW b \in Nat
  PROVE  a * b \in Nat
  OBVIOUS

\* The sizes stay natural numbers.
LEMMA SizeType ==
  ASSUME NEW n \in Nat, buf_size \in Nat
  PROVE  SizeAfter(n) \in Nat
<1> DEFINE half == BufBase \div 2
<1>1. half \in Nat /\ half > 0
  BY ShellAssumption
<1>2. CASE n <= buf_size
  BY <1>2 DEF SizeAfter
<1>3. CASE n > buf_size
  <2> DEFINE q == (n - buf_size + half - 1) \div half
  <2>1. n - buf_size + half - 1 \in Nat
    BY <1>1, <1>3
  <2>2. q \in Nat
    BY <1>1, <2>1
  <2>3. half * q \in Nat
    BY <1>1, <2>2, Product
  <2> HIDE DEF q
  <2>4. buf_size + half * q \in Nat
    BY <2>3
  <2> QED
    BY <1>3, <2>4 DEF SizeAfter, q
<1> QED
  BY <1>2, <1>3

\* A child that ended or was reaped
LEMMA ChildTypes ==
  /\ NoChild \in Children
  /\ Reaped \in Children /\ Reaped.state = "reaped"
  /\ \A p \in Pids : child[p] \in Children =>
       /\ Zombie(p) \in Children
       /\ Zombie(p).state = "zombie"
       /\ Zombie(p).background = child[p].background
  BY DEF NoChild, Reaped, Zombie, Children

\* The tokens of a line are tokens.
LEMMA TokenizedType ==
  ASSUME NEW line \in Lines, NEW n, NEW t \in Tokenized(line, n)
  PROVE  t \in Seq(Tokens)
<1>1. line \in Seq(Tokens)
  BY ShellAssumption DEF Lines
<1>2. "word" \in Tokens
  BY DEF Tokens
<1>3. Append(line, "word") \in Seq(Tokens)
  BY <1>1, <1>2
<1> QED
  BY <1>1, <1>3 DEF Tokenized

\* What the shell decides by the last token and what the child decides agree,
\* but for a line with an input redirection.
LEMMA Agreement ==
  ASSUME TypeOK, token_buf # <<>>, EndsInBackground
  PROVE  StdoutOf(token_buf) # "terminal" \/ StdinOf(token_buf) = "file"
<1> DEFINE r == find_redirect(token_buf)
<1>1. Len(token_buf) \in 1..Len(token_buf)
  BY DEF TypeOK
<1>2. CASE r = 0
  <2>1. IsBackground(token_buf)
    BY <1>1, <1>2 DEF IsBackground, EndsInBackground
  <2> QED
    BY <1>2, <2>1 DEF StdoutOf
<1>3. CASE r # 0
  BY <1>3 DEF StdoutOf, StdinOf
<1> QED
  BY <1>2, <1>3

-----------------------------------------------------------------------------
(* The invariant.                                                          *)

LEMMA InitInv == Init => IndInv
<1> SUFFICES ASSUME Init PROVE IndInv
  OBVIOUS
<1>1. TypeOK
  <2>1. child \in [Pids -> Children]
    BY ChildTypes DEF Init
  <2>2. token_buf \in Seq(Tokens)
    BY DEF Init
  <2>3. buf_size \in Nat /\ capacity \in Nat
    BY ShellAssumption DEF Init
  <2> QED
    BY <2>1, <2>2, <2>3 DEF Init, TypeOK
<1>2. \A p \in Pids : child[p].state = "none"
  BY DEF Init, NoChild
<1> QED
  BY <1>1, <1>2 DEF Init, IndInv, ForegroundInv, QuietInv, Active

\* A step of the shell that does not touch the children and does not wait
LEMMA ShellStep ==
  ASSUME IndInv, step \in {"prompt", "run"}, step' \in {"prompt", "run", "exited", "undefined"},
         TypeOK', UNCHANGED <<child_pid, child>>
  PROVE  IndInv'
  BY DEF IndInv, ForegroundInv, QuietInv, Active

LEMMA ClearedType ==
  ASSUME TypeOK, Cleared
  PROVE  /\ token_buf' \in Seq(Tokens)
         /\ buf_size' \in Nat /\ capacity' \in Nat /\ zeroed' \in BOOLEAN
  BY ShellAssumption DEF TypeOK, Cleared

\* What a child becomes changes nothing for the others.
LEMMA ChildStep ==
  ASSUME IndInv, NEW p \in Pids, NEW c \in Children,
         Active(p), c.state \in {"running", "zombie"},
         c.background = child[p].background,
         c.state = "running" => /\ child[p].state = "setup"
                                /\ c.stdout = child[p].stdout
                                /\ c.stdin = child[p].stdin,
         child' = [child EXCEPT ![p] = c],
         UNCHANGED <<step, token_buf, buffer, child_pid>>
  PROVE  IndInv'
<1>1. \A q \in Pids : child'[q] = IF q = p THEN c ELSE child[q]
  BY DEF IndInv, TypeOK
<1>2. TypeOK'
  BY DEF IndInv, TypeOK, buffer
<1>3. ForegroundInv'
  BY <1>1 DEF IndInv, ForegroundInv, Active
<1>4. QuietInv'
  BY <1>1 DEF IndInv, QuietInv
<1> QED
  BY <1>2, <1>3, <1>4 DEF IndInv

LEMMA NextInv == IndInv /\ [Next]_vars => IndInv'
<1> SUFFICES ASSUME IndInv, [Next]_vars
             PROVE  IndInv'
  OBVIOUS
<1> USE DEF IndInv
<1>1. ASSUME NEW line \in Lines, NEW n \in Lengths, ReadLine(line, n)
      PROVE  IndInv'
  <2>1. n \in Nat /\ SizeAfter(n) \in Nat
    BY ShellAssumption, SizeType DEF TypeOK
  <2>2. TypeOK'
    BY <1>1, <2>1, TokenizedType DEF ReadLine, TypeOK, buffer
  <2> QED
    BY <1>1, <2>2, ShellStep DEF ReadLine
<1>2. CASE EndOfInput \/ ReallocFails
  <2>1. TypeOK'
    BY <1>2 DEF EndOfInput, ReallocFails, TypeOK, buffer
  <2> QED
    BY <1>2, <2>1, ShellStep DEF EndOfInput, ReallocFails
<1>3. CASE EmptyLine
  <2>1. TypeOK'
    BY <1>3, ClearedType DEF EmptyLine, TypeOK
  <2> QED
    BY <1>3, <2>1, ShellStep DEF EmptyLine
<1>4. CASE Exit
  <2>1. TypeOK'
    BY <1>4, ClearedType DEF Exit, TypeOK
  <2> QED
    BY <1>4, <2>1, ShellStep DEF Exit
<1>5. CASE ForkFails
  <2>1. TypeOK'
    BY <1>5 DEF ForkFails, TypeOK, buffer
  <2> QED
    BY <1>5, <2>1, ShellStep DEF ForkFails
<1>6. CASE WaitPid
  <2>1. child_pid \in Pids
    BY <1>6 DEF WaitPid
  <2>2. \A q \in Pids : child'[q] = IF q = child_pid THEN Reaped ELSE child[q]
    BY <1>6, <2>1 DEF WaitPid, TypeOK
  <2>3. TypeOK'
    BY <1>6, <2>1, ClearedType, ChildTypes DEF WaitPid, TypeOK
  <2>4. ForegroundInv'
    BY <1>6, <2>2, ChildTypes DEF WaitPid, ForegroundInv, Active
  <2>5. QuietInv'
    BY <1>6, <2>2, ChildTypes DEF WaitPid, QuietInv
  <2> QED
    BY <1>6, <2>3, <2>4, <2>5 DEF WaitPid
<1>7. ASSUME NEW p \in Pids, Fork(p)
      PROVE  IndInv'
  <2> DEFINE c == [state |-> "setup", background |-> EndsInBackground,
                   executable |-> Executable(token_buf),
                   stdin |-> StdinOf(token_buf), stdout |-> StdoutOf(token_buf)]
  <2>1. EndsInBackground \in BOOLEAN /\ Executable(token_buf) \in BOOLEAN
    BY DEF EndsInBackground, Executable
  <2>2. /\ StdinOf(token_buf) \in {"terminal", "file"}
        /\ StdoutOf(token_buf) \in {"terminal", "file", "null"}
    BY DEF StdinOf, StdoutOf
  <2>3. c \in Children
    BY <2>1, <2>2 DEF Children
  <2>4. \A q \in Pids : child'[q] = IF q = p THEN c ELSE child[q]
    BY <1>7 DEF Fork, TypeOK
  <2>5. TypeOK'
    <3>1. child' = [child EXCEPT ![p] = c]
      BY <1>7 DEF Fork
    <3>2. child' \in [Pids -> Children]
      BY <2>3, <3>1 DEF TypeOK
    <3>3. CASE EndsInBackground
      BY <1>7, <3>2, <3>3, ClearedType DEF Fork, TypeOK
    <3>4. CASE ~EndsInBackground
      BY <1>7, <3>2, <3>4 DEF Fork, TypeOK, buffer
    <3> QED
      BY <3>3, <3>4
  <2>6. ForegroundInv'
    BY <1>7, <2>4 DEF Fork, ForegroundInv, Active
  <2>7. c.background => c.stdout # "terminal" \/ c.stdin = "file"
    BY <1>7, Agreement DEF Fork
  <2> HIDE DEF c
  <2>8. QuietInv'
    BY <2>4, <2>7 DEF QuietInv
  <2> QED
    BY <1>7, <2>5, <2>6, <2>8 DEF Fork
<1>8. ASSUME NEW p \in Pids, Exec(p)
      PROVE  IndInv'
  <2> DEFINE c == [child[p] EXCEPT !.state = "running"]
  <2>1. /\ c \in Children /\ c.state = "running"
        /\ c.background = child[p].background
        /\ c.stdout = child[p].stdout /\ c.stdin = child[p].stdin
    BY DEF TypeOK, Children
  <2>2. child' = [child EXCEPT ![p] = c]
    BY <1>8 DEF Exec
  <2> HIDE DEF c
  <2> QED
    BY <1>8, <2>1, <2>2, ChildStep DEF Exec, Active
<1>9. ASSUME NEW p \in Pids, SetupFails(p) \/ CommandEnds(p)
      PROVE  IndInv'
  <2>1. child[p] \in Children
    BY DEF TypeOK
  <2> QED
    BY <1>9, <2>1, ChildTypes, ChildStep DEF SetupFails, CommandEnds, Active
<1>10. CASE UNCHANGED vars
  BY <1>10 DEF vars, buffer, TypeOK, ForegroundInv, QuietInv, Active
<1> QED
  BY <1>1, <1>2, <1>3, <1>4, <1>5, <1>6, <1>7, <1>8, <1>9, <1>10
     DEF Next, Runs, Child

LEMMA Invariance == Spec => []IndInv
  BY InitInv, NextInv, PTL DEF Spec

-----------------------------------------------------------------------------
\* The shell keeps its types (shell.c:10-221).
THEOREM TypeCorrect == Spec => []TypeOK
<1>1. IndInv => TypeOK
  BY DEF IndInv
<1> QED
  BY <1>1, Invariance, PTL

\* At the prompt, or when the shell is gone, only children of lines that end with
\* & are left (shell.c:191-195).
THEOREM ForegroundIsReaped == Spec => []ForegroundFirst
<1>1. IndInv => ForegroundFirst
  BY DEF IndInv, ForegroundInv, ForegroundFirst, Active
<1> QED
  BY <1>1, Invariance, PTL

\* A command in the background does not write to the terminal unless its input
\* is redirected (shell.c:134-178).
THEOREM BackgroundIsQuiet == Spec => []QuietInBackground
<1>1. IndInv => QuietInBackground
  BY DEF IndInv, QuietInv, QuietInBackground
<1> QED
  BY <1>1, Invariance, PTL

=============================================================================
