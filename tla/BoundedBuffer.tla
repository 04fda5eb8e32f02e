--------------------------- MODULE BoundedBuffer ---------------------------
(***************************************************************************)
(* What the producer/consumer program of Asmt_5/prodcon keeps: a buffer    *)
(* with one read/write head, from which the last item written is the first *)
(* one read.  BufferLen items may be written; the array has room for one   *)
(* item less, because its place 0 is never used, and the item at the last  *)
(* place is lost.                                                          *)
(***************************************************************************)
EXTENDS Integers, Sequences

CONSTANTS Items, BufferLen, None

VARIABLES
  stack,   \* the items written and not yet read, None for a lost one
  got      \* the item read last, or None

vars == <<stack, got>>

Init == stack = <<>> /\ got = None

\* An item is written only when fewer than BufferLen are there; the last one
\* of BufferLen items is lost.
Put(item) ==
  /\ Len(stack) < BufferLen
  /\ stack' = Append(stack, IF Len(stack) + 1 < BufferLen THEN item ELSE None)
  /\ UNCHANGED got

\* Only an item that was written is read, and only once; in the place of a
\* lost one anything is.
Get ==
  /\ stack # <<>>
  /\ LET top == stack[Len(stack)]
     IN  got' \in IF top = None THEN Items \cup {None} ELSE {top}
  /\ stack' = SubSeq(stack, 1, Len(stack) - 1)

Next == Get \/ \E item \in Items : Put(item)

Spec == Init /\ [][Next]_vars

============================================================================
