------------------------------- MODULE Harness -------------------------------
(***************************************************************************)
(* Asmt_1/harness.c, the program lab1: it reads the words of a file into a *)
(* list and prints the list, by the option as it is, sorted, or again and  *)
(* again while its heads are removed three at a time.                      *)
(*                                                                         *)
(* A string is its rank in the order of strcmp.  read_line does not        *)
(* terminate a word, so that what a buffer holds is not the word but some  *)
(* string that begins with it: the word and what was in the memory behind  *)
(* it.  The two are kept apart: words is what the file has, stored what    *)
(* the buffers hold, which is what is compared and printed.  The file is   *)
(* open: each call of read_line finds a word, or the end of the file or an *)
(* empty line.  Words of more than 40 characters are left out, and so are  *)
(* the tests of the arguments and of fopen.                                *)
(***************************************************************************)
EXTENDS List

CONSTANTS
  MaxWords,    \* bound on the words in the file
  Strings,     \* what a buffer can hold
  Words,       \* what the file can have
  Extensions   \* for each word, the strings that begin with it

ASSUME HarnessAssumption == MaxWords \in Nat /\ Strings \subseteq Nat

\* A word begins with itself.  When a smaller word is not the beginning of a
\* larger one, what begins with the one is smaller than what begins with the
\* other.
ASSUME WordsAssumption ==
  /\ Words \subseteq Nat
  /\ Extensions \in [Words -> SUBSET Strings]
  /\ \A w \in Words : w \in Extensions[w]
  /\ \A v, w \in Words : v < w /\ w \notin Extensions[v] =>
       \A s \in Extensions[v], t \in Extensions[w] : s < t

VARIABLES
  option,   \* argv[2]
  words,    \* the words of the file that were read
  stored,   \* what is in the buffers they were read into, numbered from 0
  part,     \* the part of main that runs
  left,     \* how many heads are still to be removed three at a time
  output    \* what was printed: a sequence of strings for each visit

harness == <<option, words, stored, part, left, output>>

Options == {"echo", "tail", "sort", "tail-remove"}

HarnessInit ==
  /\ list_init
  /\ option \in Options
  /\ words = <<>> /\ stored = <<>>
  /\ objects = IF option = "echo" THEN {} ELSE {0}
  /\ part = "read"
  /\ left = 0
  /\ output = <<>>

\* What a buffer may hold once word w was read into it.  The one of echo is
\* not initialised and filled with '\0' after each word; the others come from
\* malloc, one for each word.
Contents(w) ==
  IF option = "echo" /\ stored # <<>> THEN {w} ELSE Extensions[w]

\* read_line returns true: there is a word in the buffer.
read_line ==
  /\ part = "read"
  /\ Len(stored) < MaxWords
  /\ \E w \in Words : /\ words' = Append(words, w)
                      /\ \E s \in Contents(w) : stored' = Append(stored, s)
  /\ UNCHANGED <<option, part, left>>

\* echo: the buffer is printed.
Echo ==
  /\ option = "echo"
  /\ read_line
  /\ output' = Append(output, <<stored'[Len(stored')]>>)
  /\ UNCHANGED list

\* tail, tail-remove and sort: the buffer is inserted, the next one allocated.
InsertWord ==
  /\ option # "echo"
  /\ read_line
  /\ \/ option # "sort" /\ list_insert_tail(Len(stored))
     \/ option = "sort" /\ list_insert_sorted(Len(stored),
                             [b \in 0..Len(stored) |-> stored'[b + 1]])
  /\ objects' = objects \cup {Len(stored')}
  /\ UNCHANGED output

\* malloc returns NULL, for an item or for a buffer, which is tested by two of
\* the three loops and used by the third one: the process ends.
MallocFails ==
  /\ part = "read" /\ option # "echo"
  /\ part' = "failed"
  /\ UNCHANGED <<list, option, words, stored, left, output>>

\* Faulty variant: a last set of fewer than three is counted.
ThreeSets_Up == (length + 2) \div 3

\* three_sets = (list.length)/3
ThreeSets == length \div 3

\* Faulty variant: the buffer that was not used is not freed.
StopReading_Leak ==
  /\ part = "read"
  /\ left' = IF option = "tail-remove" THEN 3 * ThreeSets ELSE 0
  /\ part' = IF option = "echo" THEN "done" ELSE "visit"
  /\ UNCHANGED <<list, option, words, stored, output>>

\* read_line returns false: the last buffer, which is not used, is freed.
StopReading ==
  /\ part = "read"
  /\ objects' = objects \ {Len(stored)}
  /\ left' = IF option = "tail-remove" THEN 3 * ThreeSets ELSE 0
  /\ part' = IF option = "echo" THEN "done" ELSE "visit"
  /\ UNCHANGED <<head, tail, length, allocated, next, data,
                 option, words, stored, output>>

\* list_visit_items with print_data_string
Visit ==
  /\ part \in {"visit", "last_visit"}
  /\ \E n \in 0..Cardinality(Items) : \E c \in Followed(next, head, n) :
       /\ Visits(c, n)
       /\ output' = Append(output, [i \in 1..n |-> stored[data[c[i]] + 1]])
  /\ part' = IF part = "last_visit" THEN "done"
             ELSE IF left > 0 THEN "remove" ELSE "cleanup"
  /\ UNCHANGED <<list, option, words, stored, left>>

\* One of three calls of list_remove_head in a row
RemoveHead ==
  /\ part = "remove"
  /\ list_remove_head
  /\ left' = left - 1
  /\ part' = IF left' % 3 = 0 THEN "visit" ELSE "remove"
  /\ UNCHANGED <<option, words, stored, output>>

\* cleanup_list
CleanupList ==
  /\ part = "cleanup"
  /\ list_remove_head
  /\ part' = IF head # NULL THEN "cleanup"
             ELSE IF option = "tail-remove" THEN "last_visit" ELSE "done"
  /\ UNCHANGED <<option, words, stored, left, output>>

HarnessNext ==
  \/ Echo \/ InsertWord \/ MallocFails \/ StopReading
  \/ Visit \/ RemoveHead \/ CleanupList

-----------------------------------------------------------------------------
\* The strings of s are those of buffers that the words of ws were read into.
Shows(s, ws) ==
  Len(s) = Len(ws) /\ \A i \in 1..Len(ws) : s[i] \in Extensions[ws[i]]

\* The orders n words can be put in
Orders(n) ==
  {p \in [1..n -> 1..n] : \A i, j \in 1..n : i # j => p[i] # p[j]}

\* What the options print: each word by itself; all in the order of the file;
\* all in the order of the strings printed; and what is left of them after each
\* removal of three and, once, after the removal of all.
PrintedFor ==
  LET n == Len(words) IN
  CASE option = "echo" ->
         /\ Len(output) = n
         /\ \A i \in 1..n : /\ Shows(output[i], <<words[i]>>)
                            /\ i > 1 => output[i] = <<words[i]>>
    [] option = "tail" -> Len(output) = 1 /\ Shows(output[1], words)
    [] option = "sort" ->
         /\ Len(output) = 1
         /\ \E p \in Orders(n) :
              /\ Shows(output[1], [i \in 1..n |-> words[p[i]]])
              /\ \A i, j \in 1..n : i < j =>
                   /\ output[1][i] <= output[1][j]
                   /\ \/ words[p[i]] <= words[p[j]]
                      \/ words[p[i]] \in Extensions[words[p[j]]]
    [] OTHER ->
         /\ Len(output) = n \div 3 + 2
         /\ Shows(output[1], words)
         /\ \A k \in 1..(n \div 3 + 1) :
              output[k] = SubSeq(output[1], 3 * k - 2, n)
         /\ output[n \div 3 + 2] = <<>>

\* When the program is through (harness.c:44-148), each option has printed one
\* string for each word, in its order.  A string begins with its word and may go
\* on with what was in the memory behind it; echo prints the word itself, but
\* for the first one.  sort has the strings in order, not the words: a larger
\* word comes first where the smaller one is its beginning, but never
\* otherwise, which is how it "does not seem to sort correctly" (line 84).
Printed == part = "done" => PrintedFor

============================================================================
