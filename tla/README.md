# TLA+ models of the CS4414 assignments

The repository holds seven assignments of an operating-systems course. This
directory models all of them that keep state, step by step as the code takes
them, checks the models with TLC and proves the main invariants with TLAPS.

## Inventory

| Part | State | Operations | What is hard | What makes it correct |
|---|---|---|---|---|
| Preemptive threads, `Asmt_4/uthread.c` | circular list of threads by priority (`head_thread`, `tail_thread`, `next`), `current_thread`, `live_uthreads`, per mutex an owner and a sorted wait queue | `uthread_init`, `_create`, `_yield` (also from SIGVTALRM), `_exit`, `_mutex_init`, `_lock`, `_unlock`, `_destroy` | preemption between calls, unlinking from the middle of the ring, equal priorities, spinning waiters | one ring of exactly the live threads, mutual exclusion, hand-off by priority, round robin |
| Its tests, `Asmt_4/*_test.c` | one mutex and a shared counter | calls of the package | | `local == test` |
| Producer/consumer, `Asmt_5/prodcon/prodcon_sem.cpp` | `pos`, the buffer, two semaphores, a mutex | `InsertItem`, `RemoveItem`, two thread loops | interleaving, full and empty buffer, off by one | a stack inside the array that never stops |
| Producer/consumer, `prodcon_cv.cpp` | `pos`, two condition variables, three mutexes | the same | lost and stale wakeups, nested locks | the head stays in the buffer, nobody sleeps for good |
| Philosophers, `Asmt_5/philosophers/philosophers.c` | the bowl's mutex, a condition variable and its mutex, chopsticks, states | `philosopher_thread` and its helpers | missed signals, overtaking, starvation | one eater, chopsticks in one hand, no deadlock, no starvation |
| Water, `Asmt_5/h2o/h2o_sem.cpp` | `num_h`, three semaphores, a mutex | `H`, `O`, `CreateAtom`, `main` | anonymous semaphore posts, atomicity of `num_h` | whole molecules, every possible match is made |
| Whales, `Asmt_5/whales/whales.c` (`whalesnew.c`, `ajrwhales.c` are earlier drafts) | `male`, `female`, two linked queues, three semaphores, all without a lock | `create_male`, `create_female`, `create_whale`, `main` | data races, one post for two waiters, a tail pointer that moves from node to node, a pointer to a loop variable | whole queues, pairs with a matchmaker |
| Log readers, `Asmt_5/*/*_stats.*` | sums over a log | sequential parsing | | totals agree with the log |
| Cooperative threads, `Asmt_3/uthread.c` | `thread_queue`, a list of threads whose head is taken to be the running one, a saved context per thread, the handler's context | `uthread_init`, `_create`, `_yield`, `_exit`, `uthread_handler` | contexts saved in the wrong thread, pointers to freed items | a FIFO queue of threads, everyone is run |
| List, `list_t.c` and `list_item_t.c` of `Asmt_1` and `Asmt_3` | items on the heap, `head`, `tail`, `length` | `list_insert_tail`, `_sorted`, `list_remove_head`, `list_rotate_one`, `list_visit_items` | stale pointers, memory handed out again, `head` and `length` that must agree | the list is a chain of all its items |
| Harness, `Asmt_1/harness.c` | the list of words, the buffer of the next word | the options `echo`, `tail`, `sort` and `tail-remove` | words that are not terminated, an allocation ahead of the last read, numbers that are no multiple of three | prints what its option asks for, frees what it allocated |
| Shell, `Asmt_2/shell.c` | buffers of the current line, the children | read, tokenise, redirect, fork, exec, wait | children that end at any time, one of several calls that fails, reused buffers | waits for what it should wait for, background commands are silent, the prompt comes back |
| File recovery, `Asmt_6/recover.c` | the mapped image, the search position, bytes copied, `used_block_array` | `find_inode`, `check_inode`, `copy_dblock`, `copy_i1block`, `unwind_iblock`, `guess_file_extension` | images that hold anything, three levels of indirection, partial blocks | sound files byte for byte, no index outside the image, an end |
| `Asmt_0` | | prints a line | | |

The parts are separate programs. They meet only in the C library (`qsort`,
`malloc`), POSIX threads and semaphores, and signals; those are modelled by how
the code uses them.

The hazards found on the way, each at its line, are in `PROJECT.json`.

## Modules

| Module | Models | Runs | Proofs |
|---|---|---|---|
| `Uthread`, `MCUthread` | `Asmt_4/uthread.c` | `uthread` | `UthreadProofs` |
| `ProdconSem`, refining `BoundedBuffer` | `prodcon_sem.cpp` | `prodcon_sem` | `ProdconSemProofs` |
| `ProdconCv`, `MCProdconCv` | `prodcon_cv.cpp` | `prodcon_cv`, `prodcon_cv_told` | `ProdconCvProofs` |
| `Philosophers` | `philosophers.c` | `philosophers` | `PhilosophersProofs` |
| `H2O`, refining `Water` | `h2o_sem.cpp` | `h2o` | `H2OProofs` |
| `Whales` | `whales.c` | `whales`, `whales_resolved` | `WhalesProofs` |
| `List` | `list_t.c`, `list_item_t.c` | through `ListPrograms` | `ProgramProofs` |
| `CoopThreads`, extending `List` | `Asmt_3/uthread.c` | through `ListPrograms` | `ProgramProofs` |
| `Harness`, extending `List` | `Asmt_1/harness.c` | through `ListPrograms` | `ProgramProofs` |
| `ListPrograms`, `MCListPrograms`, composing the two, refining `RunQueue` | the programs linked with the list | `lists` | `ProgramProofs` |
| `Shell` | `shell.c` | `shell` | `ProgramProofs` |
| `Recover`, `MCRecover` | `recover.c` | `recover`, `recover_triple` | `RecoverProofs` |

Operators whose comment starts with "Faulty variant" are wrong versions of the
definition after them. No specification uses them; they are there to show that
each property fails when the code is wrong in that way.

### Uthread

A library call is one action with the name of the C function. `Linked` is the
walk along `next`, `Sorted` the results `qsort` may give (C leaves the order of
equal keys open; `QsortStable` restricts it to that of glibc's merge sort),
`Retied` the loop that ties the sorted buffer. `uthread_mutex_lock` is two
actions, the enqueueing with signals blocked and `Acquire`, the end of the spin
loop; between the two the thread can only be switched away from. The handler of
SIGVTALRM calls `uthread_yield`, so that action stands for both, and for the
spin loop's own call.

`uthread_create` allocates and sorts `live_uthreads` entries and fills as many
as the ring has, plus one. When these differ the sort reads memory that was
never written. From then on nothing can be said: `status` becomes `undefined`.
`status` is `exit` when the last thread has exited and `crash` when the main
thread exits before it created anything (`head_thread` is NULL at line 265).

One mutex is modelled. Clients are assumed not to lock a mutex they hold, not to
unlock one they do not hold and not to exit while they hold one. Calling
`uthread_mutex_destroy` on a mutex nobody uses does nothing.

Left out: a signal inside `uthread_create`, `uthread_yield` or `uthread_exit`,
which do not block signals. That is a weakness of the code (see the hazard at
line 239): a call that is interrupted half-way leaves a ring and
saved contexts of which nothing can be promised.

### ProdconSem and BoundedBuffer

A round of either thread is wait, lock, load `pos`, store, unlock, post. The
load and the store of `++pos` and `pos--` are two steps, otherwise the mutex
would have nothing to do.

The array has `bufferlen` bytes, indices 0 to `bufferlen - 1` (line 159), and the
program uses indices 1 to `bufferlen`. The access to the last one is outside the
array: `Written` leaves the array as it is, and `ReadFrom` gives anything, since
the byte belongs to somebody else. That the write damages the heap so that the
process aborts is left out.

`BoundedBuffer` is what the program keeps, which is less than a stack of
`bufferlen` items: it takes that many, but the last one is lost (`None`), and
what is read in its place is arbitrary. `Refines` maps the places `1..pos` to
that stack, so it says both that the off-by-one does its harm and that it does no
other.

### ProdconCv

Producers and consumers are mirror images, so one set of actions serves both:
`Own` is the condition variable a thread waits on, `Other` the one it signals,
`CanGoOn` the test of line 88 or 125. A signal wakes any one of the waiting
threads. `spurious` counts the returns of `pthread_cond_wait` that nobody
signalled, at most `MaxSpurious`; the bounds on the head are stated relative to
it. The line numbers in the map name one of the two mirrored functions.

### Philosophers

`philosopher_thread` is one action per access to shared state, the names are
those of the calls. `bowl` is the owner of `chopstick_manipulation_lock`,
`canEat` that of `canEat_mutex`, `queue` the threads on `canEat_cv`, woken in
order of arrival as the REPORT assumes; `SpuriousWakeup` may take one out at any
time.

### H2O and Water

Each atom is a thread; `is_first` and `loaded` are the locals of `H`. `Water`
has only numbers: hydrogens and oxygens not bonded yet, and molecules. A
molecule is formed when the second hydrogen of a pair takes an oxygen
(`WaitO`); everything else that follows only tells the other two atoms.

### Whales

A whale is a thread. The counts and the queues have no lock; what keeps two
whales apart is the sleep of `main` between two of them (line 305). The model
takes that sleep as long enough, so that a whale's code up to its first
`sem_wait` is one step, `create_whale`, with the three branches of the code
(`BecomeMatchMaker`, `FindMate`, `WaitForMate`); when that step happens, and in
which order the threads start, is open.
From then on a whale goes from wait to wait. The queues are the pointers of the
code: `queue` is the head, a node that belongs to no waiting whale, and the
`tail` in the head is handed on to the next head at every match. `line` is
auxiliary, the waiting whales in order. `MainReturns` ends the process when
nobody can go on, as the sleep of lines 310-312 is meant to see to.

### List, CoopThreads, Harness, ListPrograms, RunQueue

`List` has the operations of `list_t.c` on `head`, `tail`, `length` and the
`next` and `data` pointers of a small heap of items. `malloc` returns any item
that is not allocated, in particular one that was just freed, so that a stale
pointer meets its new owner. `list_insert_sorted` is modelled by what its sort
and its three pieces of retying code do to every `next`. The `prev` pointers are
never read in the repository and left out.

`CoopThreads` is the package on top of it. A thread's number stands for its
code, `running` is whose code runs and `ucp` whose code the context saved in a
`thread_t` goes on with: the package takes the head of the list to be the
running thread, and the two can disagree if it is wrong. `Harness` is the
program `lab1`: one action per word read, per item removed and so on. A string
is its rank for `strcmp`. `read_line` does not terminate a word, so that the
model has two sequences: `words`, what the file has, and `stored`, what the
buffers hold, any string that begins with the word (`Extensions`). Memory from
`malloc` may hold anything; the buffer of `echo` is on the stack and cleared
after each word (`Contents`). Items are compared and printed by `stored`, and
`Printed` says what this means for `words`.

`ListPrograms` runs one of the two. `RunQueue` is what `uthread.h` promises, a
sequence of threads whose head runs; `Refines` maps the list to it by following
`next`.

### Shell

`ReadLine` is a whole line, one of all sequences of tokens, with the number of
its characters, on which the sizes of the buffers depend (`SizeAfter`). The line
is then run: `exit`, an empty line, `fork` and its failure. A child is a record;
its setup (redirections and `execvp`), its end and its reaping by the shell
interleave with the shell and the other child. What is read without having been
written, beyond the last token or in a buffer that was not cleared, is one more
word or none; a write behind the input buffer, which a short line after a long
one can cause, leads to `undefined`, about which nothing is said.

### Recover

A disk is given by what the program can tell of it: for every block the integers
written in it, and for every word where uid and gid match, the inode the program
reads there. A byte of data is its block and its place in it, so that `out`, the
output file, says where every byte came from. `ds`, `i1s` and `i2s` are the
rests of the arrays the three nested loops still have to go through; `level` is
the level of indirection main is at, `copied` the counter of `copy_i1block` and
`data_copied` that of main. `CopyDirect` and `CopyIndirect` copy one block each.
The tests for negative or too large entries in main's loops (lines 120, 155,
204, 206, 263, 288) are never true after `check_inode` and `unwind_iblock`, which
is what `BlocksInRange` says, and have no action. An inode is assumed to lie
within the image; near its ends `find_inode` does not see to that.

`unwind_iblock` looks at the entry where its loop stopped. If the loop ran to the
end that is the int behind `block_buffer`: `PastBuffer` says which outcomes of the
comparison with zero are possible. `lost` counts the blocks of the file that
were dropped because of it; the program has no such variable.

`Content` says what the file is: byte by byte, by arithmetic on the layout of the
inode, and not by loops.

## Runs

| Run | Instance | Shows |
|---|---|---|
| `uthread` | main and 3 threads, priorities 1, 2 and main's own, stable `qsort` | `RingInv`: the live threads are one circle by priority. `ThreadBufFits`: the buffer of `uthread_create` is large enough. `QueueInv`, `MutualExclusion`, `HandOff`, `NoBarging`: the wait queue and the mutex. `TopRuns`: round robin. `TopWaiterServed`: a waiter among its equals gets the mutex, both for main and for one thread that stands for the others. `PriorityRespected`: timer ticks lead to the highest priority |
| `prodcon_sem` | `bufferlen` 3, 2 items | `SemaphoresCount`: the semaphores count items and places. `Refines`: a stack that loses the item behind the array. `BothProgress` |
| `prodcon_cv` | 3 producers, 3 consumers, 2 spurious wakeups, symmetry | `WritesBounded`, `ReadsBounded`: how far the head can stray. `MutexesHeld`, `NoLockCycle`: the mutexes |
| `prodcon_cv_told` (violation) | 1 and 1, no spurious wakeup | a lost signal stops the program |
| `philosophers` | 4 philosophers | `BowlExclusive`, `ChopsticksHeld`, `DeadlockFree`, `StarvationFree` |
| `h2o` | 6 atoms, every mix of kinds | `WaterIsBonded`, `Refines`, `MatchesResolved` |
| `whales` | 6 whales, every mix of sexes | `QueueInv`: no queue is ever lost. `OnePairAtATime`. `LeftBehind`: exactly who still waits when main returns. `ComesToRest`: every permit of a matchmaker is taken |
| `whales_resolved` (violation) | 5 whales | a matched whale waits for ever |
| `lists` | 4 items, 4 threads, 4 words of 3 kinds, 4 strings | `ListInv`: the list is one chain of all its items. `Refines`: the threads are a FIFO queue. `EveryThreadRuns`. `Printed`: what `lab1` prints of the words of its file. `EndsClean`: it frees everything |
| `shell` | lines of up to 4 tokens, 4 lengths, 2 children | `ForegroundFirst`: the shell reaps what it waits for. `QuietInBackground`. `PromptReturns`, whatever fails |
| `recover` | see below | `BlocksInRange`, `CountsAgree`, `UnusedNotCopied`, `Recovered`: each sound file of up to two levels of indirection, `Terminates` |
| `recover_triple` (violation) | one file with distinct blocks | the third level of indirection |

### Why the bounds are enough

`uthread` has room for a head, a thread in the middle, a tail and a thread to
create, for two threads of equal priority beside one of another, and for an
owner with three waiters. Once a thread has exited, the next `uthread_create` is
undefined, so that longer histories add nothing. Orders of equal keys that only
an unstable `qsort` gives are covered by the proofs. `prodcon_sem` fills and
empties the buffer and has two places inside the array and one behind it. In `prodcon_cv` the limits are reached: a
bound smaller by one fails. Four philosophers are the owner, a woken one, a
waiting one and one that overtakes. Six atoms make two molecules, so that the
posts of one can be taken by the atoms of the other. Six whales are two matches
with their matchmakers, so that a tail pointer is handed on twice and a permit
can be taken by a whale of the other pair.

`lists` has as many items as threads and words: an item that an exit freed can
be used again while the others are live, and four words are one more than the
three that `tail-remove` takes at a time. The words are "a", "ab" and "b", and
what is behind "a" may make it "ab" or "ac": words of which one begins the
other, so that `sort` does print them in the wrong order, and one that is apart
from both. In `shell` a buffer of 10 characters grows by 5: the lengths are one
below, at and one above its size and one that takes two rounds; four tokens
reach the limit of the token buffer and are a command, a redirection with its
file and `&`; two children are one in the background that ends while the shell
waits for the other.

`recover` has one direct and one indirect block in an inode, two bytes and two
pointers in a block, and three kinds of disk: a file with all blocks different,
for every size from none to a part of the third level, so that a byte from the
wrong block shows; two blocks with every choice of pointers to themselves, each
other and past the end, for the indices and the termination; and three matches,
one of them no inode, at distances just below, at and above the length of an
inode.

`prodcon_cv`, `h2o`, `lists` and `shell` do not check for deadlock: there the
program does stop, with every thread on its condition variable (the finding of
`prodcon_cv_told`), with atoms that have no match, and at its end.

### Fairness

* Uthread: the interval timer makes the running thread yield again and again
  (weak fairness of `uthread_yield`). A thread that is run again and again gets
  through its spin loop and its critical section, though it may be preempted in
  every slice (strong fairness of `Acquire` and `uthread_mutex_unlock`): a time
  slice is longer than one iteration. Creating and exiting are the client's
  choice and carry no fairness.
* ProdconSem, H2O: a thread that can go on does (weak fairness). No thread can
  keep the mutex busy for ever, since it runs out of semaphore units or ends.
* Philosophers: sleeps are finite, so weak fairness for every step that waits
  for no mutex; strong fairness for the ones that do, since a mutex of the
  library lets nobody find it free for ever without getting it. Spurious wakeups
  are never relied on. That a signal wakes the first in the queue is the
  REPORT's assumption on the library; POSIX does not promise it, and without it
  `StarvationFree` does not follow.
* Whales: `main` goes on and so does every whale that can (weak fairness); which
  waiter a permit goes to is open.
* ListPrograms: `lab1` is one thread that runs on, and its file has an end. A
  cooperative thread calls `uthread_yield` or `uthread_exit` or returns in the
  end, the contract of such a package; creating threads carries no fairness.
* Shell: the shell and the children run and the commands end (weak fairness).
  The user need not type.
* Recover: one process that runs on (weak fairness of its next step).

## Findings

1. `prodcon_cv.cpp:98`: a signal the consumer sends at any time before the
   producer waits, even before the producer's first lock, is lost and the program
   hangs. (The waits have no predicate either: consumers do read from an empty
   buffer. `ReadsBounded` says by how much.)
2. `whales.c:107`: a matchmaker posts `maker_avail` once for the two whales that
   wait on it. Of every matched pair one still waits when `main` returns, which
   lines 310-311 say is late enough for every match. `LeftBehind` says what is
   left exactly.
3. `recover.c:273`: in the third level of indirection the doubly indirect block
   of the inode is unwound again and again instead of the entries.

Seen but without a run:

* `uthread.c:392`: a waiter of higher priority than the owner spins for ever,
  because `uthread_yield` does not leave the highest priority. The report says
  the loop makes the owner run.
* `uthread.c:182`: `live_uthreads` is never lowered, so that after an exit the
  next `uthread_create` sorts entries it did not write.
* `uthread.c:290`: `uthread_exit` goes on with a successor of equal priority
  although a more urgent thread may have been created since the last yield,
  against the comment of line 251.
* `prodcon_sem.cpp:53`: indices 1..`bufferlen` of an array of `bufferlen`. The
  comment of line 18 calls `canWrite` the writes that can safely be completed;
  the last of them is outside the array, and `Refines` says what becomes of it.
* `philosophers.c:133`: a philosopher who has just become hungry overtakes the
  ones that wait. The REPORT says requests are served in order. The conclusion
  it draws, that nobody starves, holds all the same.
* `shell.c:209`: `buf_size` keeps the size of a long line when `input_buf` is
  made small again; the next line can be written past its end. At the end of
  the input (line 38) the loop for a newline does not end. A background command
  with `<` writes to the terminal (line 134), against the comment above it.
* `harness.c:84`: "Does not seem to sort correctly". It does not: the words are
  not terminated, and what is behind them in the buffers is compared and printed
  too. `Printed` says how wrong it can get: the strings are in order, and of two
  words the larger one comes first only where the smaller one is its beginning.
  Also `echo` prints its first word with what follows it on the stack.
  `list_t.c:62` leaves a `prev` pointer as it was.
* `recover.c:608`: an indirect block full of block numbers may be dropped.
  `recover.c:365`: a false match hides an inode that begins less than 23 words
  behind it; the comment says the search goes on one byte further.

## Proofs

All theorems hold for every value of the constants allowed by the named
assumptions of the modules.

`UthreadProofs`: `TypeCorrect`, `RingCorrect`, `BufferCorrect`, `QueueCorrect`,
`MutexCorrect`, `HandOffCorrect`, `NoBargingCorrect`, for every finite set of
threads, every set of priorities and every `qsort`. The inductive invariant is
`TypeOK`, `RingInv`, `CountInv` (the ring has at most `live_uthreads` members),
`QueueInv` and `OwnerInv` (who holds the mutex is `locking_thread`).
Mutual exclusion needs `OwnerInv`, which needs to know that the owner stays in
the queue, which is `QueueInv`; the buffer needs the ring, since its size is
that of the walk along `next`. The proof that exits keep the ring describes the
circle by a sequence and takes one element out of it.

`ProdconSemProofs`: `TypeCorrect`, `SemaphoresCorrect` and `Refinement`, for a
buffer of any length. The inductive invariant adds to `SemaphoresCount` that the
owner of the mutex is the thread between lock and unlock, that the value a
thread loaded is still `pos` when it stores, and that every place up to `pos`
inside the array was written. Inserting and removing are steps of the stack, all
others stutter; the place behind the array is the lost item of the stack.

`ProdconCvProofs`: `MutexesCorrect`, `NoLockCycleCorrect`, `WritesCorrect`,
`ReadsCorrect` and `TypeCorrect`, for any numbers of threads and spurious
wakeups. `MutexesHeld` is inductive by itself, and the absence of a circle
follows from it. The bounds on the head need `CheckInv`, that what a thread found
out about `pos` still holds when it signals, since it holds `mutex`, and
`GivenInv`: `pos` and the producers that were woken are no more than the
consumers that have given a write away since they last removed an item. The
other side, `ReadsBounded`, is inductive: a producer that signals has seen
`pos > 0`, and the consumer it wakes was not counted before.

`PhilosophersProofs`: `TypeCorrect`, `BowlCorrect`, `ChopsticksCorrect` and
`DeadlockFreedom`, for any number of philosophers. Deadlock freedom rests on
`SomeoneOut`: somebody is not on the way into the wait. It is inductive because
a philosopher turns that way only when refused by the owner of the bowl, who is
not. With it, the owner of `canEat_mutex`, else the owner of the bowl, else that
somebody can go on.

`H2OProofs`: `WaterCorrect`, `Refinement` and `TypeCorrect`, for any number of
atoms. The invariant has where an atom can be, that the mutex is held around the
update of `num_h` (`MutexInv`) so that what was read of it is still true when it
is stored (`LoadInv`), that the first hydrogens lead the second ones by one at
most (`PairInv`), and that each semaphore holds what was posted and not taken
(`SemInv`). A second hydrogen that takes an oxygen is a step of `Water` because
by `PairInv` there are as many first ones; `StoreNumH` and `PostO` create an atom
there, all other steps stutter.

`WhalesProofs`: `TypeCorrect`, `QueueCorrect`, `PairsCorrect` and
`LeftBehindCorrect`, for any number of whales. To `QueueInv` and `OnePairAtATime`
the invariant adds `NodesInv` (a node is in one queue, once), without which
writing to one queue could change the other, and the counts: permits and whales
that went are the matchmakers (`MakersCount`), whales that joined are waiting or
were matched two at a time (`JoinedInv`), somebody waits for every matchmaker
(`ReadyInv`), and `main` returns at rest (`RestInv`).

`ProgramProofs`, about the list: `ListIsWhole`, `ThreadsRefineRunQueue` and
`PrintedCorrect`, for any finite heap and any numbers of threads, words and
strings. `LinkedInv` says that some chain goes once through every allocated item
and ends at `tail`; `InsertedTail`, `SortedFacts` with `RetiedFacts`,
`RemovedHead` and `RotatedOne` give the chain after each operation. Objects stay
apart (`DataInv`) because a new item gets the next number in turn, which no
object has yet; `lab1` needs `AheadInv` for it, that the buffer of the next word
is allocated already. There is only one chain of a given length from the head
(`OneChain`), so that what follows `next` - the queue that `RunQueue` sees, the
array of the sort, a visit - goes through just that one.

* The refinement adds `ThreadInv`: the head of the list is the thread that runs,
  and the context in a `thread_t` is that thread's own. `uthread_create`,
  `uthread_yield`, `uthread_exit` (or the end of the process) and the handler are
  `Create`, `Yield`, `Exit` and `Resume`; all other steps stutter.
* `Printed` adds `OrderInv` (the list is in the order of the file, or of the
  strings in the buffers), `PrintInv` (what is printed so far of the buffers, by
  option and part) and `HeldInv` (a buffer begins with its word).
  Its hardest cases are `sort`, where each buffer is printed once
  because different items have different buffers, and `tail-remove`, where
  `RemoveInv` relates the visits made, the heads still to be removed and the
  length of the list. `TextsAreWords` goes from the buffers to the words; for
  `sort` it uses `WordOrder`, which rests on `WordsAssumption`: if the smaller of
  two words is not the beginning of the other, whatever follows the two in memory
  does not change their order.

`ProgramProofs`, about the shell: `ForegroundIsReaped` and `BackgroundIsQuiet`,
for all sizes of the buffers, all lines and any number of children. The invariant
is `TypeOK`, `ForegroundInv` (a child not in the background is the one the shell
waits for) and `QuietInv` (a child's output is decided at the fork), which rests
on lemmas about the tests the shell and the child make of the same line.

`RecoverProofs`: `TypeCorrect`, `MemorySafe`, `CountsCorrect`, `UnusedCorrect` and
`RecoveredCorrect`, for every set of disks, all sizes of blocks and inodes and
either outcome behind the buffer. For the first four the invariant adds to the
properties that `copied` is zero outside `copy_i1block`. The range of the block
numbers follows from `check_inode` for the ones in the inode and from the loop of
`unwind_iblock` for all others. `Recovered` needs three more parts. `PositionInv`:
while a sound inode is copied, what `ds`, `i1s` and `i2s` have left is the rest
of the file that `Content` describes, counted from the bytes in `out`, with one
case for each of the three places the copying loops can be in (`InDirect`,
`InTable`, `InIndirect`). `SearchInv`: every sound inode
behind the search position that no match hides has its file. `NamesInv`: the
numbers of the files are handed out once. What is said of all places of a loop
or of a chain is proved from the least place where it would fail (`Least`), since
induction rules with a parameter are out of the prover's reach.

Only model-checked: everything about fairness (`TopRuns`, `TopWaiterServed`,
`PriorityRespected`, `BothProgress`, `StarvationFree`, `MatchesResolved`,
`ComesToRest`, `EveryThreadRuns`, `EndsClean`, `PromptReturns`, `Terminates`),
which is out of reach of the prover. Every invariant and every action property
of a passing run, and each of the three refinements, is proved.

## Not modelled

* SIGVTALRM inside `uthread_create`, `uthread_yield` and `uthread_exit` of
  `Asmt_4`, and before its handler is installed: nothing in the code protects
  against it. A model would need the saved contexts as state; its properties
  would be the assertion of line 213 and "the running thread is
  `current_thread`". This is what is left to do.
* Two whales inside `create_male` and `create_female` at the same time, a data
  race that the sleep of `main` keeps away in practice.
* The log readers: sequential sums over a text, in floating point.
* `whalesnew.c` and `ajrwhales.c`: drafts that the Makefile does not build.
* The table of signatures in `guess_file_extension`, the drawing of the buffers,
  all printing beyond what `Printed` says, and `Asmt_0`.
