------------------------------- MODULE Recover -------------------------------
(***************************************************************************)
(* The file recovery tool of Asmt_6/recover.c.  It scans a disk image for  *)
(* words that look like the uid and gid of an inode and copies the blocks  *)
(* such an inode points to, directly and through one, two or three levels  *)
(* of indirect blocks, to a file.                                          *)
(*                                                                         *)
(* A disk is what the program can tell of the image: the block numbers     *)
(* written in every block (any integers, the block may hold anything) and, *)
(* for every word where an inode begins whose uid and gid match, that      *)
(* inode.  A byte is named by its block and its place in the block.        *)
(***************************************************************************)
EXTENDS Integers, Sequences

CONSTANTS N_DBLOCKS, N_IBLOCKS, BLOCK_SIZE,
          PointersPerBlock,   \* BLOCK_SIZE / sizeof (int)
          InodeWords,         \* sizeof (inode_t) / sizeof (int)
          Disks,              \* the images
          PastBuffer          \* may the int behind block_buffer be zero?

Inode == [size : Int, dblocks : [1..N_DBLOCKS -> Int],
          iblocks : [1..N_IBLOCKS -> Int], i2block : Int, i3block : Int]

ASSUME SizesAssumption ==
  /\ N_DBLOCKS \in Nat
  /\ N_IBLOCKS \in Nat
  /\ BLOCK_SIZE \in Nat
  /\ PointersPerBlock \in Nat
  /\ InodeWords \in Nat

ASSUME PastBufferAssumption == PastBuffer \in SUBSET BOOLEAN

ASSUME DisksAssumption ==
  \A d \in Disks :
    /\ d.max_block_number \in Nat
    /\ d.block \in [0..(d.max_block_number - 1) ->
                      [1..PointersPerBlock -> Int]]
    /\ DOMAIN d.inode \subseteq Nat
    /\ \A p \in DOMAIN d.inode : d.inode[p] \in Inode

VARIABLES
  disk,         \* the mapped image
  pc,           \* where main is
  search_ptr,   \* word from which the next inode is looked for
  f,            \* word where the inode found last begins
  file_num,     \* name of the output file
  level,        \* levels of indirection being followed
  ds,           \* data blocks still to be copied by the innermost loop
  i1s,          \* indirect blocks still to be copied at this level
  i2s,          \* doubly indirect blocks still to be followed
  i1block,      \* block_num of the running copy_i1block
  data_copied,  \* main's count of copied bytes
  copied,       \* data_copied of the running copy_i1block
  out,          \* bytes in the output file
  used,         \* used_block_array
  files,        \* the finished output files
  lost          \* history: blocks of this file unwind_iblock refused

vars == <<disk, pc, search_ptr, f, file_num, level, ds, i1s, i2s, i1block,
          data_copied, copied, out, used, files, lost>>

Blocks == 0..(disk.max_block_number - 1)

Bytes == Blocks \X (1..BLOCK_SIZE)

InRange(b) == b \in Blocks

Node == disk.inode[f]

Init ==
  /\ disk \in Disks
  /\ pc = "search"
  /\ search_ptr = 0
  /\ f = 0
  /\ file_num = 0
  /\ level = 0
  /\ ds = <<>>
  /\ i1s = <<>>
  /\ i2s = <<>>
  /\ i1block = 0
  /\ data_copied = 0
  /\ copied = 0
  /\ out = <<>>
  /\ used = [b \in Blocks |-> "IS_UNKNOW"]
  /\ files = <<>>
  /\ lost = 0

-----------------------------------------------------------------------------
(* The functions that main calls                                           *)

\* Inode p is the first one whose uid is at or behind search_ptr; the uid is
\* the third word of an inode.
find_inode(p) ==
  /\ p + 2 >= search_ptr
  /\ \A q \in DOMAIN disk.inode : q + 2 >= search_ptr => p <= q

\* Faulty variant: the bound of the comment, "<= DF.size/BL.size".
check_inode_AtMost(node) ==
  /\ \A i \in 1..N_DBLOCKS : node.dblocks[i] \in 0..disk.max_block_number
  /\ \A i \in 1..N_IBLOCKS : node.iblocks[i] \in 0..disk.max_block_number
  /\ node.i2block \in 0..disk.max_block_number
  /\ node.i3block \in 0..disk.max_block_number

check_inode(node) ==
  /\ \A i \in 1..N_DBLOCKS : InRange(node.dblocks[i])
  /\ \A i \in 1..N_IBLOCKS : InRange(node.iblocks[i])
  /\ InRange(node.i2block)
  /\ InRange(node.i3block)

\* The bytes copy_dblock writes, the result of the call if it is no error.
Copied(bytes) ==
  IF bytes < 0 THEN 0 ELSE IF bytes > BLOCK_SIZE THEN BLOCK_SIZE ELSE bytes

\* Faulty variant: only whole blocks are marked.
copy_dblock_MarkWhole(b, bytes) ==
  /\ out' = out \o [i \in 1..Copied(bytes) |-> <<b, i>>]
  /\ used' = IF bytes < BLOCK_SIZE THEN used
             ELSE [used EXCEPT ![b] = "IS_DBLOCK"]

copy_dblock(b, bytes) ==
  /\ out' = out \o [i \in 1..Copied(bytes) |-> <<b, i>>]
  /\ used' = IF bytes < 0 THEN used ELSE [used EXCEPT ![b] = "IS_DBLOCK"]

\* The loop of unwind_iblock leaves block_buffer at its entry n + 1, the first
\* that is no block number, or behind its end.
Stops(b, n) ==
  /\ \A i \in 1..n : InRange(disk.block[b][i])
  /\ n < PointersPerBlock => ~InRange(disk.block[b][n + 1])

\* The test whether the entry where the loop stopped is zero.
StopsAtZero(b, n) ==
  IF n < PointersPerBlock THEN {disk.block[b][n + 1] = 0} ELSE PastBuffer

\* unwind_iblock returns the n first entries of block b ...
unwind_iblock(b, n) ==
  /\ Stops(b, n)
  /\ FALSE \in StopsAtZero(b, n)
  /\ used' = [used EXCEPT ![b] = "IS_IBLOCK"]

\* ... or NO_POINTERS_IN_IBLOCK.
NoPointers(b) ==
  \E n \in 0..PointersPerBlock : Stops(b, n) /\ TRUE \in StopsAtZero(b, n)

-----------------------------------------------------------------------------
(* The steps of main                                                       *)

\* The search goes on behind the inode.
NextInode ==
  /\ search_ptr' = f + InodeWords
  /\ file_num' = file_num + 1
  /\ pc' = "search"

FindInode ==
  /\ pc = "search"
  /\ \E p \in DOMAIN disk.inode : find_inode(p) /\ f' = p
  /\ pc' = "check"
  /\ UNCHANGED <<disk, search_ptr, file_num, level, ds, i1s, i2s, i1block,
                 data_copied, copied, out, used, files, lost>>

SearchComplete ==
  /\ pc = "search"
  /\ \A p \in DOMAIN disk.inode : ~find_inode(p)
  /\ pc' = "done"
  /\ UNCHANGED <<disk, search_ptr, f, file_num, level, ds, i1s, i2s, i1block,
                 data_copied, copied, out, used, files, lost>>

InodeInvalid ==
  /\ pc = "check"
  /\ ~check_inode(Node)
  /\ NextInode
  /\ UNCHANGED <<disk, f, level, ds, i1s, i2s, i1block, data_copied, copied,
                 out, used, files, lost>>

\* The output file is opened and the loop over the direct blocks begins.
OpenOutput ==
  /\ pc = "check"
  /\ check_inode(Node)
  /\ pc' = "dblocks"
  /\ level' = 0
  /\ ds' = Node.dblocks
  /\ data_copied' = 0
  /\ out' = <<>>
  /\ lost' = 0
  /\ UNCHANGED <<disk, search_ptr, f, file_num, i1s, i2s, i1block, copied,
                 used, files>>

\* Faulty variant: the position is not advanced.
CopyDirect_Stay ==
  /\ pc = "dblocks"
  /\ ds # <<>>
  /\ copy_dblock(Head(ds), Node.size - data_copied)
  /\ data_copied' = data_copied + Copied(Node.size - data_copied)
  /\ UNCHANGED <<disk, pc, search_ptr, f, file_num, level, ds, i1s, i2s,
                 i1block, copied, files, lost>>

CopyDirect ==
  /\ pc = "dblocks"
  /\ ds # <<>>
  /\ copy_dblock(Head(ds), Node.size - data_copied)
  /\ data_copied' = data_copied + Copied(Node.size - data_copied)
  /\ ds' = Tail(ds)
  /\ UNCHANGED <<disk, pc, search_ptr, f, file_num, level, i1s, i2s, i1block,
                 copied, files, lost>>

\* One level is done and the file is not complete: the next one begins.
More == data_copied < Node.size

FollowIblocks ==
  /\ pc = "dblocks"
  /\ ds = <<>>
  /\ More
  /\ pc' = "iblocks"
  /\ level' = 1
  /\ i1s' = Node.iblocks
  /\ UNCHANGED <<disk, search_ptr, f, file_num, ds, i2s, i1block, data_copied,
                 copied, out, used, files, lost>>

\* Faulty variant: the triply indirect block is taken for the doubly indirect one.
FollowI2block_I3 ==
  /\ pc = "iblocks"
  /\ i1s = <<>>
  /\ level = 1
  /\ More
  /\ \E n \in 0..PointersPerBlock :
       /\ unwind_iblock(Node.i3block, n)
       /\ i1s' = SubSeq(disk.block[Node.i3block], 1, n)
  /\ level' = 2
  /\ UNCHANGED <<disk, pc, search_ptr, f, file_num, ds, i2s, i1block,
                 data_copied, copied, out, files, lost>>

FollowI2block ==
  /\ pc = "iblocks"
  /\ i1s = <<>>
  /\ level = 1
  /\ More
  /\ \E n \in 0..PointersPerBlock :
       /\ unwind_iblock(Node.i2block, n)
       /\ i1s' = SubSeq(disk.block[Node.i2block], 1, n)
  /\ level' = 2
  /\ UNCHANGED <<disk, pc, search_ptr, f, file_num, ds, i2s, i1block,
                 data_copied, copied, out, files, lost>>

FollowI3block ==
  /\ pc = "iblocks"
  /\ i1s = <<>>
  /\ level = 2
  /\ More
  /\ \E n \in 0..PointersPerBlock :
       /\ unwind_iblock(Node.i3block, n)
       /\ i2s' = SubSeq(disk.block[Node.i3block], 1, n)
  /\ level' = 3
  /\ UNCHANGED <<disk, pc, search_ptr, f, file_num, ds, i1s, i1block,
                 data_copied, copied, out, files, lost>>

\* The block unwound for an entry of the triply indirect block is the inode's
\* doubly indirect block, not the entry.
FollowI2ofI3 ==
  /\ pc = "iblocks"
  /\ i1s = <<>>
  /\ level = 3
  /\ i2s # <<>>
  /\ \E n \in 0..PointersPerBlock :
       /\ unwind_iblock(Node.i2block, n)
       /\ i1s' = SubSeq(disk.block[Node.i2block], 1, n)
  /\ i2s' = Tail(i2s)
  /\ UNCHANGED <<disk, pc, search_ptr, f, file_num, level, ds, i1block,
                 data_copied, copied, out, files, lost>>

\* main gives up when a doubly or triply indirect block has no pointers.
NoPointersFatal ==
  /\ pc = "iblocks"
  /\ i1s = <<>>
  /\ \/ level = 1 /\ More /\ NoPointers(Node.i2block)
     \/ level = 2 /\ More /\ NoPointers(Node.i3block)
     \/ level = 3 /\ i2s # <<>> /\ NoPointers(Node.i2block)
  /\ pc' = "exit"
  /\ lost' = lost + 1
  /\ UNCHANGED <<disk, search_ptr, f, file_num, level, ds, i1s, i2s, i1block,
                 data_copied, copied, out, used, files>>

\* copy_i1block: the block is unwound ...
EnterI1block ==
  /\ pc = "iblocks"
  /\ i1s # <<>>
  /\ data_copied <= Node.size
  /\ \E n \in 0..PointersPerBlock :
       /\ unwind_iblock(Head(i1s), n)
       /\ ds' = SubSeq(disk.block[Head(i1s)], 1, n)
  /\ i1block' = Head(i1s)
  /\ i1s' = Tail(i1s)
  /\ copied' = 0
  /\ pc' = "copy_i1block"
  /\ UNCHANGED <<disk, search_ptr, f, file_num, level, i2s, data_copied, out,
                 files, lost>>

\* ... or skipped: too many bytes have been copied, or it has no pointers.
SkipI1block ==
  /\ pc = "iblocks"
  /\ i1s # <<>>
  /\ data_copied > Node.size \/ NoPointers(Head(i1s))
  /\ i1s' = Tail(i1s)
  /\ lost' = lost + 1
  /\ UNCHANGED <<disk, pc, search_ptr, f, file_num, level, ds, i2s, i1block,
                 data_copied, copied, out, used, files>>

\* Faulty variant: what this call has copied already is not subtracted.
CopyIndirect_NoLocal ==
  /\ pc = "copy_i1block"
  /\ ds # <<>>
  /\ copy_dblock(Head(ds), Node.size - data_copied)
  /\ copied' = copied + Copied(Node.size - data_copied)
  /\ ds' = Tail(ds)
  /\ UNCHANGED <<disk, pc, search_ptr, f, file_num, level, i1s, i2s, i1block,
                 data_copied, files, lost>>

CopyIndirect ==
  /\ pc = "copy_i1block"
  /\ ds # <<>>
  /\ copy_dblock(Head(ds), Node.size - data_copied - copied)
  /\ copied' = copied + Copied(Node.size - data_copied - copied)
  /\ ds' = Tail(ds)
  /\ UNCHANGED <<disk, pc, search_ptr, f, file_num, level, i1s, i2s, i1block,
                 data_copied, files, lost>>

ReturnI1block ==
  /\ pc = "copy_i1block"
  /\ ds = <<>>
  /\ used' = [used EXCEPT ![i1block] = "IS_IBLOCK"]
  /\ data_copied' = data_copied + copied
  /\ copied' = 0
  /\ pc' = "iblocks"
  /\ UNCHANGED <<disk, search_ptr, f, file_num, level, ds, i1s, i2s, i1block,
                 out, files, lost>>

\* Nothing is left to copy, or no block to copy it from.
CopyingOver ==
  \/ pc = "dblocks" /\ ds = <<>> /\ ~More
  \/ pc = "iblocks" /\ i1s = <<>> /\ level < 3 /\ ~More
  \/ pc = "iblocks" /\ i1s = <<>> /\ level = 3 /\ i2s = <<>>

\* The output file is closed and gets its final name.
CloseOutput ==
  /\ CopyingOver
  /\ files' = Append(files, [name |-> file_num, inode |-> f,
                                 bytes |-> out, lost |-> lost])
  /\ NextInode
  /\ UNCHANGED <<disk, f, level, ds, i1s, i2s, i1block, data_copied, copied,
                 out, used, lost>>

\* The output file cannot be opened or written, memory is short, fork fails.
IOError ==
  /\ \/ pc = "check" /\ check_inode(Node)
     \/ pc \in {"dblocks", "copy_i1block"} /\ ds # <<>>
     \/ CopyingOver
  /\ pc' = "exit"
  /\ UNCHANGED <<disk, search_ptr, f, file_num, level, ds, i1s, i2s, i1block,
                 data_copied, copied, out, used, files, lost>>

Ended == pc \in {"done", "exit"} /\ UNCHANGED vars

MainStep ==
  \/ FindInode \/ SearchComplete \/ InodeInvalid \/ OpenOutput \/ CopyDirect
  \/ FollowIblocks \/ FollowI2block \/ FollowI3block \/ FollowI2ofI3
  \/ NoPointersFatal \/ EnterI1block \/ SkipI1block \/ CopyIndirect
  \/ ReturnI1block \/ CloseOutput

Next == MainStep \/ IOError \/ Ended

Spec == Init /\ [][Next]_vars

\* A running process goes on.
FairSpec == Spec /\ WF_vars(MainStep)

-----------------------------------------------------------------------------
(* What a file is                                                          *)

\* Entry i, from 0, of block b.
Pointer(b, i) == IF InRange(b) THEN disk.block[b][i + 1] ELSE -1

P1 == PointersPerBlock
P2 == PointersPerBlock * PointersPerBlock

\* The block that holds the q-th block's worth of the file, from 0, by the
\* layout of the inode (recover.h:36-50).
BlockOf(node, q) ==
  LET q1 == q - N_DBLOCKS
      q2 == q1 - N_IBLOCKS * P1
      q3 == q2 - P2
  IN CASE q1 < 0 -> node.dblocks[q + 1]
       [] q1 >= 0 /\ q2 < 0 -> Pointer(node.iblocks[q1 \div P1 + 1], q1 % P1)
       [] q2 >= 0 /\ q3 < 0 ->
            Pointer(Pointer(node.i2block, q2 \div P1), q2 % P1)
       [] OTHER ->
            Pointer(Pointer(Pointer(node.i3block, q3 \div P2),
                            (q3 % P2) \div P1), q3 % P1)

Content(node) ==
  [k \in 1..node.size |->
     <<BlockOf(node, (k - 1) \div BLOCK_SIZE), ((k - 1) % BLOCK_SIZE) + 1>>]

\* Every block the file needs can be reached, with `most' blocks at most.
Intact(node, most) ==
  /\ node.size \in 0..(most * BLOCK_SIZE)
  /\ \A k \in 1..node.size : InRange(BlockOf(node, (k - 1) \div BLOCK_SIZE))

\* The blocks that a file has without and with the triply indirect block.
UpToDouble == N_DBLOCKS + N_IBLOCKS * P1 + P2
UpToTriple == UpToDouble + P2 * P1

Sound(p, most) ==
  /\ check_inode(disk.inode[p])
  /\ Intact(disk.inode[p], most)

\* No inode found earlier reaches into the words where p is recognised.
Apart(p) ==
  \A q \in DOMAIN disk.inode : q < p => q + InodeWords <= p + 2

-----------------------------------------------------------------------------
(* Properties                                                              *)

TypeOK ==
  /\ disk \in Disks
  /\ pc \in {"search", "check", "dblocks", "iblocks", "copy_i1block", "done",
             "exit"}
  /\ search_ptr \in Nat
  /\ f \in Nat
  /\ pc \in {"check", "dblocks", "iblocks", "copy_i1block"}
       => f \in DOMAIN disk.inode
  /\ file_num \in Nat
  /\ level \in 0..3
  /\ ds \in Seq(Int)
  /\ i1s \in Seq(Int)
  /\ i2s \in Seq(Int)
  /\ i1block \in Int
  /\ data_copied \in Nat
  /\ copied \in Nat
  /\ out \in Seq(Int \X (1..BLOCK_SIZE))
  /\ used \in [Blocks -> {"IS_UNKNOW", "IS_DBLOCK", "IS_IBLOCK"}]
  /\ files \in Seq([name : Nat, inode : DOMAIN disk.inode,
                    bytes : Seq(Int \X (1..BLOCK_SIZE)), lost : Nat])
  /\ lost \in Nat

\* Whatever the image holds, every number the program takes for a block is one
\* of the image: neither the mapping nor used_block_array is indexed outside
\* (recover.c:539, 548, 590, 598 and 613).
BlocksInRange ==
  /\ pc \in {"dblocks", "iblocks", "copy_i1block"} => check_inode(Node)
  /\ pc \in {"dblocks", "copy_i1block"} => ds \in Seq(Blocks)
  /\ pc \in {"iblocks", "copy_i1block"} =>
       /\ i1s \in Seq(Blocks)
       /\ level = 3 => i2s \in Seq(Blocks)
  /\ pc = "copy_i1block" => i1block \in Blocks

\* The two counters of main and copy_i1block add up to what was written, and
\* no file gets longer than its inode says (recover.c:122-135, 157-170, 573-585).
CountsAgree ==
  pc \in {"dblocks", "iblocks", "copy_i1block"} =>
    /\ data_copied + copied = Len(out)
    /\ Len(out) <= (IF Node.size < 0 THEN 0 ELSE Node.size)

\* A block listed as unused at the end is in none of the recovered files
\* (recover.c:376-392).
UnusedNotCopied ==
  \A b \in Blocks : used[b] = "IS_UNKNOW" =>
    /\ \A k \in 1..Len(out) : out[k][1] # b
    /\ \A i \in 1..Len(files) :
         \A k \in 1..Len(files[i].bytes) : files[i].bytes[k][1] # b

\* Every sound inode that an earlier match does not hide is recovered byte for
\* byte, into a file of its own (recover.c:89-368).
RecoveredUpTo(most) ==
  pc = "done" =>
    /\ \A p \in DOMAIN disk.inode : Apart(p) /\ Sound(p, most) =>
         \E i \in 1..Len(files) :
           /\ files[i].inode = p
           /\ files[i].lost > 0 \/ files[i].bytes = Content(disk.inode[p])
    /\ \A i, j \in 1..Len(files) : i # j => files[i].name # files[j].name

\* It is so for the files that need no triply indirect block.
Recovered == RecoveredUpTo(UpToDouble)

\* "For the I3 block access it, and build an array of I2 blocks it points to.
\* Iterate through this array and for each one, access it" (recover.c:238-241).
TripleRecovered == RecoveredUpTo(UpToTriple)

\* The program comes to an end on every image, also where pointers form a
\* cycle (recover.c:89, 365).
Terminates == <>(pc \in {"done", "exit"})

==============================================================================
