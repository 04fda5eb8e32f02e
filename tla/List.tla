--------------------------------- MODULE List ---------------------------------
(***************************************************************************)
(* Asmt_3/list_t.c and list_item_t.c (Asmt_1 has the same files without    *)
(* list_rotate_one): a linked list of items on the heap, each with a       *)
(* pointer to an object of the client, which list_remove_head frees with   *)
(* its item.  malloc may return the address of an item that was freed.     *)
(*                                                                         *)
(* The operations are actions on the list; programs that use it extend     *)
(* this module.  The prev pointers are written and never read, by no       *)
(* function of the repository, and left out.                               *)
(***************************************************************************)
EXTENDS Integers, Sequences, FiniteSets

CONSTANTS
  Items,   \* the addresses malloc can return for an item
  NULL

ASSUME ItemsAssumption == NULL \notin Items /\ IsFiniteSet(Items)

VARIABLES
  head, tail, length,   \* the list_t; tail dangles while the list is empty
  allocated,            \* the items that are not free
  next, data,           \* the fields of the items
  objects               \* the objects of the client that are not free

list == <<head, tail, length, allocated, next, data, objects>>

\* What following nx from item h gives as the first n items
Followed(nx, h, n) ==
  {c \in [1..n -> Items] : /\ n > 0 => c[1] = h
                           /\ \A i \in 1..(n - 1) : c[i + 1] = nx[c[i]]}

\* list_init
list_init ==
  /\ head = NULL /\ tail = NULL /\ length = 0
  /\ allocated = {}
  /\ next = [i \in Items |-> NULL]
  /\ data = [i \in Items |-> 0]

\* The fields next after list_insert_tail of item new
NextAfterInsert(new) ==
  IF length = 0
  THEN [next EXCEPT ![new] = NULL]
  ELSE [next EXCEPT ![new] = NULL, ![tail] = new]

HeadAfterInsert(new) == IF length = 0 THEN new ELSE head

\* malloc and list_item_init
NewItem(new, v) ==
  /\ new \in Items \ allocated
  /\ allocated' = allocated \cup {new}
  /\ data' = [data EXCEPT ![new] = v]
  /\ length' = length + 1

list_insert_tail(v) ==
  \E new \in Items \ allocated :
    /\ NewItem(new, v)
    /\ next' = NextAfterInsert(new)
    /\ head' = HeadAfterInsert(new)
    /\ tail' = new

\* qsort: the items in any order that the comparison of keys allows
Sorted(c, key) ==
  {d \in [DOMAIN c -> {c[i] : i \in DOMAIN c}] :
     /\ {d[i] : i \in DOMAIN d} = {c[i] : i \in DOMAIN c}
     /\ \A i, j \in DOMAIN d : i < j => key[d[i]] <= key[d[j]]}

\* The pointers are retied in the order of the array.
Retied(nx, items, n) ==
  [i \in Items |->
     IF \E k \in 1..(n - 1) : items[k] = i
     THEN items[(CHOOSE k \in 1..(n - 1) : items[k] = i) + 1]
     ELSE IF i = items[n] THEN NULL ELSE nx[i]]

\* list_insert_tail, the items in an array, qsort by the key of their objects,
\* and the pointers retied
list_insert_sorted(v, key) ==
  \E new \in Items \ allocated :
    /\ NewItem(new, v)
    /\ LET nx == NextAfterInsert(new)
           n == length + 1
       IN  \E c \in Followed(nx, HeadAfterInsert(new), n) :
             \E items \in Sorted(c, [i \in allocated \cup {new} |-> key[data'[i]]]) :
               /\ next' = Retied(nx, items, n)
               /\ head' = items[1]
               /\ tail' = items[n]

\* list_remove_head: nothing is done for an empty list.
list_remove_head ==
  IF head = NULL THEN UNCHANGED list
  ELSE /\ objects' = objects \ {data[head]}
       /\ allocated' = allocated \ {head}
       /\ length' = length - 1
       /\ head' = next[head]
       /\ UNCHANGED <<tail, next, data>>

\* Faulty variant: the old head keeps its next pointer.
list_rotate_one_Circle ==
  /\ head' = next[head]
  /\ next' = [next EXCEPT ![tail] = head]
  /\ tail' = head
  /\ UNCHANGED <<length, allocated, data, objects>>

\* list_rotate_one of a list of two or more items
list_rotate_one ==
  /\ head' = next[head]
  /\ next' = [next EXCEPT ![head] = NULL, ![tail] = head]
  /\ tail' = head
  /\ UNCHANGED <<length, allocated, data, objects>>

\* list_visit_items goes through the n items of c and meets NULL.
Visits(c, n) ==
  /\ c \in Followed(next, head, n)
  /\ IF n = 0 THEN head = NULL ELSE next[c[n]] = NULL

-----------------------------------------------------------------------------
\* c is a whole list.
ChainOf(c) ==
  /\ {c[i] : i \in 1..length} = allocated
  /\ \A i, j \in 1..length : i # j => data[c[i]] # data[c[j]]
  /\ IF length = 0 THEN head = NULL
     ELSE tail = c[length] /\ next[tail] = NULL
  /\ \A i \in 1..length : data[c[i]] \in objects

\* The items are linked from head to tail in a chain of length items that ends
\* with NULL; these are all the items there are, each with an object of its own.
\* head and length agree on whether the list is empty: list_remove_head tests the
\* one, list_insert_tail the other (list_t.c:42 and 96).
ListInv == \E c \in Followed(next, head, length) : ChainOf(c)

============================================================================
