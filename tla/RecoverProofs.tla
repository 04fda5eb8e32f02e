---------------------------- MODULE RecoverProofs ----------------------------
(***************************************************************************)
(* Proofs about the file recovery tool, for every image and every size of  *)
(* block and inode, and whatever lies behind block_buffer.                 *)
(***************************************************************************)
EXTENDS Recover, SequenceTheorems, WellFoundedInduction, TLAPS

Copying == {"dblocks", "iblocks", "copy_i1block"}

\* copy_i1block's counter is zero unless such a call runs or was cut off.
CopiedInv == pc \notin {"copy_i1block", "exit"} => copied = 0

Inv == TypeOK /\ BlocksInRange /\ CopiedInv /\ CountsAgree /\ UnusedNotCopied

\* What TypeOK says of the image and the current inode.
LEMMA DiskFacts ==
  ASSUME TypeOK
  PROVE  /\ disk.max_block_number \in Nat
         /\ Blocks \subseteq Nat
         /\ disk.block \in [Blocks -> [1..PointersPerBlock -> Int]]
         /\ pc \in Copying \cup {"check"} =>
              /\ Node \in Inode
              /\ Node.size \in Int
              /\ Node.dblocks \in [1..N_DBLOCKS -> Int]
              /\ Node.iblocks \in [1..N_IBLOCKS -> Int]
<1>1. /\ disk.max_block_number \in Nat
      /\ disk.block \in [0..(disk.max_block_number - 1) ->
                           [1..PointersPerBlock -> Int]]
      /\ \A p \in DOMAIN disk.inode : disk.inode[p] \in Inode
  BY DisksAssumption DEF TypeOK
<1>2. Blocks \subseteq Nat
  BY <1>1 DEF Blocks
<1>3. disk.block \in [Blocks -> [1..PointersPerBlock -> Int]]
  BY <1>1 DEF Blocks
<1>4. ASSUME pc \in Copying \cup {"check"} PROVE Node \in Inode
  <2>1. f \in DOMAIN disk.inode
    BY <1>4 DEF TypeOK, Copying
  <2> QED
    BY <1>1, <2>1 DEF Node
<1>5. ASSUME Node \in Inode
      PROVE  /\ Node.size \in Int
             /\ Node.dblocks \in [1..N_DBLOCKS -> Int]
             /\ Node.iblocks \in [1..N_IBLOCKS -> Int]
  BY <1>5 DEF Inode
<1> QED
  BY <1>1, <1>2, <1>3, <1>4, <1>5

\* An array of block numbers is a sequence of them (main's loops over
\* f->dblocks and f->iblocks).
LEMMA ArrayIsSeq ==
  ASSUME NEW n \in Nat, NEW S, NEW T, NEW a \in [1..n -> T],
         \A i \in 1..n : a[i] \in S
  PROVE  a \in Seq(S)
<1>1. a \in [1..n -> S]
  OBVIOUS
<1> QED
  BY <1>1, SeqDef

\* Block numbers are integers (the buffers of recover.c:190 and 562).
LEMMA BlockSeq ==
  ASSUME TypeOK, NEW s \in Seq(Blocks)
  PROVE  s \in Seq(Int)
<1>1. Blocks \subseteq Int
  BY DiskFacts
<1>2. Len(s) \in Nat /\ s \in [1..Len(s) -> Blocks]
  BY LenProperties
<1> QED
  BY <1>1, <1>2, ArrayIsSeq

\* The entries unwind_iblock returns are block numbers.
LEMMA Unwound ==
  ASSUME TypeOK, NEW b \in Blocks, NEW n \in 0..PointersPerBlock, Stops(b, n)
  PROVE  SubSeq(disk.block[b], 1, n) \in Seq(Blocks)
<1> DEFINE s == disk.block[b]
<1>1. s \in [1..PointersPerBlock -> Int]
  BY DiskFacts
<1>2. s \in Seq(Int) /\ Len(s) = PointersPerBlock
  BY <1>1, ArrayIsSeq, SizesAssumption, LenProperties, SeqDef
<1>3. \A i \in 1..n : s[i] \in Blocks
  BY DEF Stops, InRange
<1>4. n \in Nat /\ n <= Len(s)
  BY <1>2, SizesAssumption
<1>5. SubSeq(s, 1, n) = [i \in 1..n |-> s[i]]
  BY <1>2, <1>4, SizesAssumption
<1> HIDE DEF s
<1>6. [i \in 1..n |-> s[i]] \in [1..n -> Blocks]
  BY <1>3
<1> QED
  BY <1>4, <1>5, <1>6, SeqDef DEF s

\* What copy_dblock writes and marks.
LEMMA Written ==
  ASSUME TypeOK, NEW b \in Blocks, NEW bytes \in Int, copy_dblock(b, bytes)
  PROVE  /\ Copied(bytes) \in Nat
         /\ bytes >= 0 => Copied(bytes) <= bytes
         /\ bytes < 0 => Copied(bytes) = 0
         /\ out' \in Seq(Int \X (1..BLOCK_SIZE))
         /\ Len(out') = Len(out) + Copied(bytes)
         /\ \A k \in 1..Len(out') :
              \/ k <= Len(out) /\ out'[k] = out[k]
              \/ bytes >= 0 /\ out'[k][1] = b
         /\ used' \in [Blocks -> {"IS_UNKNOW", "IS_DBLOCK", "IS_IBLOCK"}]
         /\ \A c \in Blocks : used'[c] = "IS_UNKNOW" => used[c] = "IS_UNKNOW"
         /\ bytes >= 0 => used'[b] = "IS_DBLOCK"
<1> DEFINE new == [i \in 1..Copied(bytes) |-> <<b, i>>]
           Byte == Int \X (1..BLOCK_SIZE)
<1>1. /\ Copied(bytes) \in Nat
      /\ Copied(bytes) <= BLOCK_SIZE
      /\ bytes >= 0 => Copied(bytes) <= bytes
      /\ bytes < 0 => Copied(bytes) = 0
  BY SizesAssumption DEF Copied
<1>2. b \in Int
  BY DiskFacts
<1>3. new \in [1..Copied(bytes) -> Byte]
  <2>1. \A i \in 1..Copied(bytes) : i \in 1..BLOCK_SIZE
    BY <1>1, SizesAssumption
  <2> QED
    BY <1>2, <2>1
<1>4. new \in Seq(Byte) /\ Len(new) = Copied(bytes)
  BY <1>1, <1>3, SeqDef, LenProperties
<1>5. out \in Seq(Byte)
  BY DEF TypeOK
<1>6. out' = out \o new
  BY DEF copy_dblock
<1>7. \A i \in 1..Len(new) : new[i][1] = b
  BY <1>4
<1>8. ASSUME Len(new) # 0 PROVE bytes >= 0
  BY <1>1, <1>4, <1>8
<1> HIDE DEF new, Byte
<1>9. out' \in Seq(Byte) /\ Len(out') = Len(out) + Len(new)
  BY <1>4, <1>5, <1>6, ConcatProperties
<1>10. ASSUME NEW k \in 1..Len(out')
       PROVE  \/ k <= Len(out) /\ out'[k] = out[k]
              \/ bytes >= 0 /\ out'[k][1] = b
  <2>1. CASE k <= Len(out)
    BY <1>4, <1>5, <1>6, <1>9, <2>1
  <2>2. CASE k > Len(out)
    <3>1. Len(out) \in Nat /\ Len(new) \in Nat
      BY <1>4, <1>5
    <3>2. k - Len(out) \in 1..Len(new)
      BY <1>9, <2>2, <3>1
    <3>3. out'[k] = new[k - Len(out)]
      BY <1>4, <1>5, <1>6, <2>2, <3>1, <3>2
    <3> QED
      BY <1>7, <1>8, <3>1, <3>2, <3>3
  <2> QED
    BY <2>1, <2>2, <1>5, <1>9
<1>11. /\ used' \in [Blocks -> {"IS_UNKNOW", "IS_DBLOCK", "IS_IBLOCK"}]
       /\ \A c \in Blocks : used'[c] = "IS_UNKNOW" => used[c] = "IS_UNKNOW"
       /\ bytes >= 0 => used'[b] = "IS_DBLOCK"
  BY DEF copy_dblock, TypeOK
<1> QED
  BY <1>1, <1>4, <1>9, <1>10, <1>11 DEF Byte

-----------------------------------------------------------------------------

\* The invariant holds when main begins to search.
LEMMA InitInv == Init => Inv
<1> SUFFICES ASSUME Init PROVE Inv
  OBVIOUS
<1>1. TypeOK
  <2>1. \A S : <<>> \in Seq(S)
    BY EmptySeq
  <2>2. used \in [Blocks -> {"IS_UNKNOW", "IS_DBLOCK", "IS_IBLOCK"}]
    BY DEF Init
  <2> QED
    BY <2>1, <2>2 DEF Init, TypeOK
<1>2. BlocksInRange /\ CopiedInv /\ CountsAgree
  BY DEF Init, BlocksInRange, CopiedInv, CountsAgree
<1>3. UnusedNotCopied
  BY DEF Init, UnusedNotCopied
<1> QED
  BY <1>1, <1>2, <1>3 DEF Inv

\* Marking a block keeps used_block_array an array of marks, and no block
\* becomes unused by it (recover.c:590, 613).
LEMMA Marked ==
  ASSUME TypeOK, UnusedNotCopied, NEW b \in Blocks,
         used' = [used EXCEPT ![b] = "IS_IBLOCK"],
         UNCHANGED <<disk, out, files>>
  PROVE  /\ used' \in [Blocks -> {"IS_UNKNOW", "IS_DBLOCK", "IS_IBLOCK"}]
         /\ UnusedNotCopied'
<1>1. /\ used' \in [Blocks -> {"IS_UNKNOW", "IS_DBLOCK", "IS_IBLOCK"}]
      /\ \A c \in Blocks : used'[c] = "IS_UNKNOW" => used[c] = "IS_UNKNOW"
  BY DEF TypeOK
<1> QED
  BY <1>1 DEF UnusedNotCopied, Blocks

\* Steps that write nothing and mark nothing.
LEMMA Quiet ==
  ASSUME UnusedNotCopied, UNCHANGED <<disk, out, used, files>>
  PROVE  UnusedNotCopied'
BY DEF UnusedNotCopied, Blocks

\* A block that has been copied is not unused (recover.c:546-548).
LEMMA CopiedIsUsed ==
  ASSUME TypeOK, UnusedNotCopied, NEW b \in Blocks, NEW bytes \in Int,
         copy_dblock(b, bytes), UNCHANGED <<disk, files>>
  PROVE  UnusedNotCopied'
<1>1. Blocks' = Blocks
  BY DEF Blocks
<1> SUFFICES ASSUME NEW c \in Blocks, used'[c] = "IS_UNKNOW"
             PROVE  /\ \A k \in 1..Len(out') : out'[k][1] # c
                    /\ \A i \in 1..Len(files) :
                         \A k \in 1..Len(files[i].bytes) :
                           files[i].bytes[k][1] # c
  BY <1>1 DEF UnusedNotCopied
<1>2. used[c] = "IS_UNKNOW" /\ (bytes >= 0 => c # b)
  BY Written
<1>3. ASSUME NEW k \in 1..Len(out') PROVE out'[k][1] # c
  <2>1. Len(out) \in Nat /\ Len(out') \in Nat
    BY Written, LenProperties DEF TypeOK
  <2>2. \/ k <= Len(out) /\ out'[k] = out[k]
        \/ bytes >= 0 /\ out'[k][1] = b
    BY <1>3, Written
  <2>3. CASE k <= Len(out) /\ out'[k] = out[k]
    BY <1>2, <2>1, <2>3 DEF UnusedNotCopied
  <2>4. CASE bytes >= 0 /\ out'[k][1] = b
    BY <1>2, <2>4
  <2> QED
    BY <2>2, <2>3, <2>4
<1> QED
  BY <1>2, <1>3 DEF UnusedNotCopied

\* Every step keeps the invariant.
LEMMA NextInv == Inv /\ [Next]_vars => Inv'
<1> SUFFICES ASSUME Inv, [Next]_vars PROVE Inv'
  OBVIOUS
<1> USE DEF Inv
<1>1. CASE FindInode
  <2>1. TypeOK'
    BY <1>1, DisksAssumption DEF FindInode, TypeOK, Blocks
  <2>2. BlocksInRange'
    BY <1>1 DEF FindInode, BlocksInRange, Blocks, Node, check_inode, InRange
  <2>3. CopiedInv' /\ CountsAgree'
    BY <1>1 DEF FindInode, CopiedInv, CountsAgree, Node
  <2>4. UnusedNotCopied'
    BY <1>1, Quiet DEF FindInode
  <2> QED
    BY <2>1, <2>2, <2>3, <2>4 DEF Inv
<1>2. CASE SearchComplete
  <2>1. TypeOK'
    BY <1>2 DEF SearchComplete, TypeOK, Blocks
  <2>2. BlocksInRange'
    BY <1>2
       DEF SearchComplete, BlocksInRange, Blocks, Node, check_inode, InRange
  <2>3. CopiedInv' /\ CountsAgree'
    BY <1>2 DEF SearchComplete, CopiedInv, CountsAgree, Node
  <2>4. UnusedNotCopied'
    BY <1>2, Quiet DEF SearchComplete
  <2> QED
    BY <2>1, <2>2, <2>3, <2>4 DEF Inv
<1>3. CASE InodeInvalid
  <2>1. TypeOK'
    BY <1>3, SizesAssumption DEF InodeInvalid, TypeOK, Blocks, NextInode
  <2>2. BlocksInRange'
    BY <1>3
       DEF InodeInvalid, BlocksInRange, Blocks, Node, check_inode, InRange,
           NextInode
  <2>3. CopiedInv' /\ CountsAgree'
    BY <1>3 DEF InodeInvalid, CopiedInv, CountsAgree, Node, NextInode
  <2>4. UnusedNotCopied'
    BY <1>3, Quiet DEF InodeInvalid, NextInode
  <2> QED
    BY <2>1, <2>2, <2>3, <2>4 DEF Inv
<1>4. CASE OpenOutput
  <2>1. /\ Node \in Inode
        /\ Node.size \in Int
        /\ Node.dblocks \in [1..N_DBLOCKS -> Int]
    BY <1>4, DiskFacts DEF OpenOutput, Copying
  <2>2. ds' \in Seq(Int) /\ ds' \in Seq(Blocks)
    BY <1>4, <2>1, ArrayIsSeq, SizesAssumption
       DEF OpenOutput, check_inode, InRange
  <2>3. out' \in Seq(Int \X (1..BLOCK_SIZE)) /\ Len(out') = 0
    BY <1>4, EmptySeq DEF OpenOutput
  <2>4. TypeOK'
    BY <1>4, <2>2, <2>3 DEF OpenOutput, TypeOK, Blocks
  <2>5. BlocksInRange'
    BY <1>4, <2>2
       DEF OpenOutput, BlocksInRange, Blocks, Node, check_inode, InRange
  <2>6. CopiedInv' /\ CountsAgree'
    BY <1>4, <2>1, <2>3 DEF OpenOutput, CopiedInv, CountsAgree, Node
  <2>7. UnusedNotCopied'
    BY <1>4, <2>3 DEF OpenOutput, UnusedNotCopied, Blocks
  <2> QED
    BY <2>4, <2>5, <2>6, <2>7
<1>5. CASE CopyDirect
  <2> DEFINE bytes == Node.size - data_copied
  <2>1. Node.size \in Int /\ Blocks \subseteq Nat
    BY <1>5, DiskFacts DEF CopyDirect, Copying
  <2>2. bytes \in Int
    BY <2>1 DEF TypeOK
  <2>3. /\ Head(ds) \in Blocks
        /\ Tail(ds) \in Seq(Blocks)
        /\ Tail(ds) \in Seq(Int)
    BY <1>5 DEF CopyDirect, BlocksInRange, TypeOK
  <2> HIDE DEF bytes
  <2>4. /\ copy_dblock(Head(ds), bytes)
        /\ data_copied' = data_copied + Copied(bytes)
    BY <1>5 DEF CopyDirect, bytes
  <2>5. /\ Copied(bytes) \in Nat
        /\ bytes >= 0 => Copied(bytes) <= bytes
        /\ bytes < 0 => Copied(bytes) = 0
        /\ out' \in Seq(Int \X (1..BLOCK_SIZE))
        /\ Len(out') = Len(out) + Copied(bytes)
        /\ used' \in [Blocks -> {"IS_UNKNOW", "IS_DBLOCK", "IS_IBLOCK"}]
    BY <2>2, <2>3, <2>4, Written
  <2>6. TypeOK'
    BY <1>5, <2>3, <2>4, <2>5 DEF CopyDirect, TypeOK, Blocks
  <2>7. BlocksInRange'
    BY <1>5, <2>3
       DEF CopyDirect, BlocksInRange, Blocks, Node, check_inode, InRange
  <2>8. CopiedInv' /\ CountsAgree'
    <3>1. copied = 0 /\ data_copied = Len(out) /\ data_copied \in Nat
      BY <1>5 DEF CopyDirect, CopiedInv, CountsAgree, TypeOK
    <3>2. Len(out) <= (IF Node.size < 0 THEN 0 ELSE Node.size)
      BY <1>5 DEF CopyDirect, CountsAgree
    <3>3. Len(out') <= (IF Node.size < 0 THEN 0 ELSE Node.size)
      BY <2>1, <2>5, <3>1, <3>2, SMTT(30) DEF bytes
    <3> QED
      BY <1>5, <2>4, <2>5, <3>1, <3>3
         DEF CopyDirect, CopiedInv, CountsAgree, Node
  <2>9. UnusedNotCopied'
    BY <1>5, <2>2, <2>3, <2>4, CopiedIsUsed DEF CopyDirect
  <2> QED
    BY <2>6, <2>7, <2>8, <2>9
<1>6. CASE FollowIblocks
  <2>1. Node.iblocks \in [1..N_IBLOCKS -> Int]
    BY <1>6, DiskFacts DEF FollowIblocks, Copying
  <2>2. i1s' \in Seq(Int) /\ i1s' \in Seq(Blocks)
    BY <1>6, <2>1, ArrayIsSeq, SizesAssumption
       DEF FollowIblocks, BlocksInRange, check_inode, InRange
  <2>3. TypeOK'
    BY <1>6, <2>2 DEF FollowIblocks, TypeOK, Blocks
  <2>4. BlocksInRange'
    BY <1>6, <2>2
       DEF FollowIblocks, BlocksInRange, Blocks, Node, check_inode, InRange
  <2>5. CopiedInv' /\ CountsAgree'
    BY <1>6 DEF FollowIblocks, CopiedInv, CountsAgree, Node
  <2>6. UnusedNotCopied'
    BY <1>6, Quiet DEF FollowIblocks
  <2> QED
    BY <2>3, <2>4, <2>5, <2>6
<1>7. CASE FollowI2block
  <2>1. Node.i2block \in Blocks /\ Blocks \subseteq Nat
    BY <1>7, DiskFacts DEF FollowI2block, BlocksInRange, check_inode, InRange
  <2>2. PICK n \in 0..PointersPerBlock :
          /\ unwind_iblock(Node.i2block, n)
          /\ i1s' = SubSeq(disk.block[Node.i2block], 1, n)
    BY <1>7 DEF FollowI2block
  <2>3. i1s' \in Seq(Blocks)
    BY <2>1, <2>2, Unwound DEF unwind_iblock
  <2>4. i1s' \in Seq(Int)
    BY <2>3, BlockSeq
  <2>5. /\ used' \in [Blocks -> {"IS_UNKNOW", "IS_DBLOCK", "IS_IBLOCK"}]
        /\ UnusedNotCopied'
    BY <1>7, <2>1, <2>2, Marked DEF FollowI2block, unwind_iblock
  <2>6. TypeOK'
    BY <1>7, <2>1, <2>4, <2>5 DEF FollowI2block, TypeOK, Blocks
  <2>7. BlocksInRange'
    BY <1>7, <2>1, <2>3
       DEF FollowI2block, BlocksInRange, Blocks, Node, check_inode, InRange
  <2>8. CopiedInv' /\ CountsAgree'
    BY <1>7 DEF FollowI2block, CopiedInv, CountsAgree, Node
  <2> QED
    BY <2>5, <2>6, <2>7, <2>8
<1>8. CASE FollowI3block
  <2>1. Node.i3block \in Blocks /\ Blocks \subseteq Nat
    BY <1>8, DiskFacts DEF FollowI3block, BlocksInRange, check_inode, InRange
  <2>2. PICK n \in 0..PointersPerBlock :
          /\ unwind_iblock(Node.i3block, n)
          /\ i2s' = SubSeq(disk.block[Node.i3block], 1, n)
    BY <1>8 DEF FollowI3block
  <2>3. i2s' \in Seq(Blocks)
    BY <2>1, <2>2, Unwound DEF unwind_iblock
  <2>4. i2s' \in Seq(Int)
    BY <2>3, BlockSeq
  <2>5. /\ used' \in [Blocks -> {"IS_UNKNOW", "IS_DBLOCK", "IS_IBLOCK"}]
        /\ UnusedNotCopied'
    BY <1>8, <2>1, <2>2, Marked DEF FollowI3block, unwind_iblock
  <2>6. TypeOK'
    BY <1>8, <2>1, <2>4, <2>5 DEF FollowI3block, TypeOK, Blocks
  <2>7. BlocksInRange'
    BY <1>8, <2>1, <2>3
       DEF FollowI3block, BlocksInRange, Blocks, Node, check_inode, InRange
  <2>8. CopiedInv' /\ CountsAgree'
    BY <1>8 DEF FollowI3block, CopiedInv, CountsAgree, Node
  <2> QED
    BY <2>5, <2>6, <2>7, <2>8
<1>9. CASE FollowI2ofI3
  <2>1. Node.i2block \in Blocks /\ Blocks \subseteq Nat
    BY <1>9, DiskFacts DEF FollowI2ofI3, BlocksInRange, check_inode, InRange
  <2>2. PICK n \in 0..PointersPerBlock :
          /\ unwind_iblock(Node.i2block, n)
          /\ i1s' = SubSeq(disk.block[Node.i2block], 1, n)
    BY <1>9 DEF FollowI2ofI3
  <2>3. i1s' \in Seq(Blocks)
    BY <2>1, <2>2, Unwound DEF unwind_iblock
  <2>4. i1s' \in Seq(Int)
    BY <2>3, BlockSeq
  <2>5. /\ used' \in [Blocks -> {"IS_UNKNOW", "IS_DBLOCK", "IS_IBLOCK"}]
        /\ UnusedNotCopied'
    BY <1>9, <2>1, <2>2, Marked DEF FollowI2ofI3, unwind_iblock
  <2>6. TypeOK'
    BY <1>9, <2>1, <2>4, <2>5 DEF FollowI2ofI3, TypeOK, Blocks
  <2>7. BlocksInRange'
    BY <1>9, <2>1, <2>3, SMTT(30)
       DEF FollowI2ofI3, BlocksInRange, Blocks, Node, check_inode, InRange
  <2>8. CopiedInv' /\ CountsAgree'
    BY <1>9 DEF FollowI2ofI3, CopiedInv, CountsAgree, Node
  <2> QED
    BY <2>5, <2>6, <2>7, <2>8
<1>10. CASE NoPointersFatal
  <2>1. TypeOK'
    BY <1>10 DEF NoPointersFatal, TypeOK, Blocks
  <2>2. BlocksInRange'
    BY <1>10
       DEF NoPointersFatal, BlocksInRange, Blocks, Node, check_inode, InRange
  <2>3. CopiedInv' /\ CountsAgree'
    BY <1>10 DEF NoPointersFatal, CopiedInv, CountsAgree, Node
  <2>4. UnusedNotCopied'
    BY <1>10, Quiet DEF NoPointersFatal
  <2> QED
    BY <2>1, <2>2, <2>3, <2>4 DEF Inv
<1>11. CASE EnterI1block
  <2>1. Head(i1s) \in Blocks /\ Blocks \subseteq Nat
    BY <1>11, DiskFacts DEF EnterI1block, BlocksInRange, check_inode, InRange
  <2>2. PICK n \in 0..PointersPerBlock :
          /\ unwind_iblock(Head(i1s), n)
          /\ ds' = SubSeq(disk.block[Head(i1s)], 1, n)
    BY <1>11 DEF EnterI1block
  <2>3. ds' \in Seq(Blocks)
    BY <2>1, <2>2, Unwound DEF unwind_iblock
  <2>4. ds' \in Seq(Int)
    BY <2>3, BlockSeq
  <2>5. /\ used' \in [Blocks -> {"IS_UNKNOW", "IS_DBLOCK", "IS_IBLOCK"}]
        /\ UnusedNotCopied'
    BY <1>11, <2>1, <2>2, Marked DEF EnterI1block, unwind_iblock
  <2>6. TypeOK'
    BY <1>11, <2>1, <2>4, <2>5 DEF EnterI1block, TypeOK, Blocks
  <2>7. BlocksInRange'
    BY <1>11, <2>1, <2>3
       DEF EnterI1block, BlocksInRange, Blocks, Node, check_inode, InRange
  <2>8. CopiedInv' /\ CountsAgree'
    BY <1>11 DEF EnterI1block, CopiedInv, CountsAgree, Node
  <2> QED
    BY <2>5, <2>6, <2>7, <2>8
<1>12. CASE SkipI1block
  <2>1. TypeOK'
    BY <1>12 DEF SkipI1block, TypeOK, Blocks
  <2>2. BlocksInRange'
    BY <1>12 DEF SkipI1block, BlocksInRange, Blocks, Node, check_inode, InRange
  <2>3. CopiedInv' /\ CountsAgree'
    BY <1>12 DEF SkipI1block, CopiedInv, CountsAgree, Node
  <2>4. UnusedNotCopied'
    BY <1>12, Quiet DEF SkipI1block
  <2> QED
    BY <2>1, <2>2, <2>3, <2>4 DEF Inv
<1>13. CASE CopyIndirect
  <2> DEFINE bytes == Node.size - data_copied - copied
  <2>1. Node.size \in Int /\ Blocks \subseteq Nat
    BY <1>13, DiskFacts DEF CopyIndirect, Copying
  <2>2. bytes \in Int
    BY <2>1 DEF TypeOK
  <2>3. /\ Head(ds) \in Blocks
        /\ Tail(ds) \in Seq(Blocks)
        /\ Tail(ds) \in Seq(Int)
    BY <1>13 DEF CopyIndirect, BlocksInRange, TypeOK
  <2> HIDE DEF bytes
  <2>4. /\ copy_dblock(Head(ds), bytes)
        /\ copied' = copied + Copied(bytes)
    BY <1>13 DEF CopyIndirect, bytes
  <2>5. /\ Copied(bytes) \in Nat
        /\ bytes >= 0 => Copied(bytes) <= bytes
        /\ bytes < 0 => Copied(bytes) = 0
        /\ out' \in Seq(Int \X (1..BLOCK_SIZE))
        /\ Len(out') = Len(out) + Copied(bytes)
        /\ used' \in [Blocks -> {"IS_UNKNOW", "IS_DBLOCK", "IS_IBLOCK"}]
    BY <2>2, <2>3, <2>4, Written
  <2>6. TypeOK'
    BY <1>13, <2>3, <2>4, <2>5, SMTT(30) DEF CopyIndirect, TypeOK, Blocks
  <2>7. BlocksInRange'
    BY <1>13, <2>3
       DEF CopyIndirect, BlocksInRange, Blocks, Node, check_inode, InRange
  <2>8. CopiedInv' /\ CountsAgree'
    <3>1. /\ data_copied + copied = Len(out)
          /\ data_copied \in Nat
          /\ copied \in Nat
      BY <1>13 DEF CopyIndirect, CopiedInv, CountsAgree, TypeOK
    <3>2. Len(out) <= (IF Node.size < 0 THEN 0 ELSE Node.size)
      BY <1>13 DEF CopyIndirect, CountsAgree
    <3>3. Len(out') <= (IF Node.size < 0 THEN 0 ELSE Node.size)
      <4>1. bytes = Node.size - Len(out) /\ Len(out) \in Nat
        BY <2>1, <3>1 DEF bytes
      <4>2. CASE bytes >= 0
        BY <2>1, <2>5, <4>1, <4>2
      <4>3. CASE bytes < 0
        BY <2>1, <2>5, <3>2, <4>1, <4>3
      <4> QED
        BY <2>2, <4>2, <4>3
    <3>4. pc' = "copy_i1block" /\ Node' = Node /\ data_copied' = data_copied
      BY <1>13 DEF CopyIndirect, Node
    <3>5. data_copied' + copied' = Len(out')
      <4> DEFINE c == Copied(bytes)
      <4>1. c \in Nat /\ copied' = copied + c /\ Len(out') = Len(out) + c
        BY <2>4, <2>5
      <4> HIDE DEF c
      <4> QED
        BY <3>1, <3>4, <4>1
    <3> QED
      BY <3>3, <3>4, <3>5 DEF CopiedInv, CountsAgree
  <2>9. UnusedNotCopied'
    BY <1>13, <2>2, <2>3, <2>4, CopiedIsUsed DEF CopyIndirect
  <2> QED
    BY <2>6, <2>7, <2>8, <2>9
<1>14. CASE ReturnI1block
  <2>1. i1block \in Blocks
    BY <1>14 DEF ReturnI1block, BlocksInRange
  <2>2. /\ used' \in [Blocks -> {"IS_UNKNOW", "IS_DBLOCK", "IS_IBLOCK"}]
        /\ UnusedNotCopied'
    BY <1>14, <2>1, Marked DEF ReturnI1block
  <2>3. TypeOK'
    BY <1>14, <2>2 DEF ReturnI1block, TypeOK, Blocks
  <2>4. BlocksInRange'
    BY <1>14
       DEF ReturnI1block, BlocksInRange, Blocks, Node, check_inode, InRange
  <2>5. CopiedInv' /\ CountsAgree'
    BY <1>14 DEF ReturnI1block, CopiedInv, CountsAgree, Node, TypeOK
  <2> QED
    BY <2>2, <2>3, <2>4, <2>5
<1>15. CASE CloseOutput
  <2> DEFINE file == [name |-> file_num, inode |-> f, bytes |-> out,
                      lost |-> lost]
             File == [name : Nat, inode : DOMAIN disk.inode,
                      bytes : Seq(Int \X (1..BLOCK_SIZE)), lost : Nat]
  <2>1. file \in File
    BY <1>15 DEF CloseOutput, CopyingOver, TypeOK
  <2>2. files \in Seq(File)
    BY DEF TypeOK
  <2>3. files' = Append(files, file) /\ file.bytes = out
    BY <1>15 DEF CloseOutput
  <2> HIDE DEF file, File
  <2>4. /\ files' \in Seq(File)
        /\ Len(files') = Len(files) + 1
        /\ \A i \in 1..Len(files) : files'[i] = files[i]
        /\ files'[Len(files) + 1] = file
    BY <2>1, <2>2, <2>3, AppendProperties
  <2>5. TypeOK'
    BY <1>15, <2>4, SizesAssumption
       DEF CloseOutput, NextInode, TypeOK, Blocks, File
  <2>6. BlocksInRange'
    BY <1>15 DEF CloseOutput, NextInode, BlocksInRange
  <2>7. CopiedInv' /\ CountsAgree'
    BY <1>15 DEF CloseOutput, CopyingOver, NextInode, CopiedInv, CountsAgree
  <2>8. UnusedNotCopied'
    <3>1. Len(files) \in Nat
      BY <2>2, LenProperties
    <3>2. \A i \in 1..Len(files') :
            \/ i \in 1..Len(files) /\ files'[i].bytes = files[i].bytes
            \/ files'[i].bytes = out
      BY <2>3, <2>4, <3>1
    <3> QED
      BY <1>15, <3>2 DEF CloseOutput, UnusedNotCopied, Blocks
  <2> QED
    BY <2>5, <2>6, <2>7, <2>8
<1>16. CASE IOError
  <2>1. TypeOK'
    BY <1>16 DEF IOError, TypeOK, Blocks, CopyingOver
  <2>2. BlocksInRange'
    BY <1>16
       DEF IOError, BlocksInRange, Blocks, Node, check_inode, InRange,
           CopyingOver
  <2>3. CopiedInv' /\ CountsAgree'
    BY <1>16 DEF IOError, CopiedInv, CountsAgree, Node, CopyingOver
  <2>4. UnusedNotCopied'
    BY <1>16, Quiet DEF IOError, CopyingOver
  <2> QED
    BY <2>1, <2>2, <2>3, <2>4 DEF Inv
<1>17. CASE Ended \/ UNCHANGED vars
  <2> USE <1>17 DEF Ended, vars
  <2>1. TypeOK'
    BY DEF TypeOK, Blocks
  <2>2. BlocksInRange'
    BY DEF BlocksInRange, Blocks, Node, check_inode, InRange
  <2>3. CopiedInv' /\ CountsAgree'
    BY DEF CopiedInv, CountsAgree, Node
  <2>4. UnusedNotCopied'
    BY Quiet
  <2> QED
    BY <2>1, <2>2, <2>3, <2>4
<1> QED
  BY <1>1, <1>2, <1>3, <1>4, <1>5, <1>6, <1>7, <1>8, <1>9, <1>10, <1>11,
     <1>12, <1>13, <1>14, <1>15, <1>16, <1>17 DEF Next, MainStep

\* The invariant holds throughout.
THEOREM Invariance == Spec => []Inv
BY InitInv, NextInv, PTL DEF Spec

\* The variables keep their types on every image.
THEOREM TypeCorrect == Spec => []TypeOK
<1>1. Inv => TypeOK
  BY DEF Inv
<1> QED
  BY <1>1, Invariance, PTL

\* Whatever a disk holds, the program takes no number for a block that is not
\* one of the image.
THEOREM MemorySafe == Spec => []BlocksInRange
<1>1. Inv => BlocksInRange
  BY DEF Inv
<1> QED
  BY <1>1, Invariance, PTL

\* The counters tell what was written, and no file exceeds its inode's size.
THEOREM CountsCorrect == Spec => []CountsAgree
<1>1. Inv => CountsAgree
  BY DEF Inv
<1> QED
  BY <1>1, Invariance, PTL

\* A block reported as unused is in no recovered file.
THEOREM UnusedCorrect == Spec => []UnusedNotCopied
<1>1. Inv => UnusedNotCopied
  BY DEF Inv
<1> QED
  BY <1>1, Invariance, PTL

-----------------------------------------------------------------------------
(* Byte for byte: where the copying stands in the file                     *)

\* Loops over f->iblocks (level 1) and over the entries of f->i2block (level
\* 2) follow a table of indirect blocks: how many there are, the table, and
\* the block's worth of the file from which on its entry r, from 0, leads.
Width(l) == IF l = 1 THEN N_IBLOCKS ELSE P1

Table(l) == IF l = 1 THEN Node.iblocks ELSE disk.block[Node.i2block]

Start(l, r) ==
  (IF l = 1 THEN N_DBLOCKS ELSE N_DBLOCKS + N_IBLOCKS * P1) + P1 * r

\* The blocks still to be copied by the innermost loop are those of the file
\* from the q-th on, up to `end' or to the end of the file.
DataLeft(q, end) ==
  /\ q + Len(ds) <= end
  /\ \A i \in 1..Len(ds) : ds[i] = BlockOf(Node, q + i - 1)
  /\ q + Len(ds) = end \/ Node.size <= BLOCK_SIZE * (q + Len(ds))

\* The indirect blocks still to be followed are the table's from r on, up to
\* its end or to the end of the file.
TableLeft(r) ==
  /\ r + Len(i1s) <= Width(level)
  /\ \A i \in 1..Len(i1s) : i1s[i] = Table(level)[r + i]
  /\ \/ r + Len(i1s) = Width(level)
     \/ Node.size <= BLOCK_SIZE * Start(level, r + Len(i1s))

InDirect ==
  \E q \in 0..N_DBLOCKS :
    Len(out) = BLOCK_SIZE * q /\ DataLeft(q, N_DBLOCKS)

InTable ==
  \E r \in 0..Width(level) :
    Len(out) = BLOCK_SIZE * Start(level, r) /\ TableLeft(r)

InIndirect ==
  \E r \in 0..(Width(level) - 1) :
    /\ TableLeft(r + 1)
    /\ \E q \in Start(level, r)..Start(level, r + 1) :
         Len(out) = BLOCK_SIZE * q /\ DataLeft(q, Start(level, r + 1))

\* The file of a sound inode, as far as it is written, is a beginning of the
\* inode's content, and main stands at the block that comes next.
PositionInv ==
  pc \in Copying /\ Sound(f, UpToDouble) /\ lost = 0 =>
    /\ \A k \in 1..Len(out) : out[k] = Content(Node)[k]
    /\ level \in (IF pc = "dblocks" THEN {0} ELSE 1..2)
    /\ \/ Len(out) = Node.size
       \/ pc = "dblocks" /\ InDirect
       \/ pc = "iblocks" /\ InTable
       \/ pc = "copy_i1block" /\ InIndirect

\* Inode p has its file.
HasFile(p) ==
  \E i \in 1..Len(files) :
    /\ files[i].inode = p
    /\ files[i].lost > 0 \/ files[i].bytes = Content(disk.inode[p])

\* The inodes behind which the search has gone have their files.
SearchInv ==
  \A p \in DOMAIN disk.inode : Apart(p) /\ Sound(p, UpToDouble) =>
    /\ pc = "search" /\ p + 2 < search_ptr => HasFile(p)
    /\ pc \in Copying \cup {"check"} /\ p < f => HasFile(p)
    /\ pc = "done" => HasFile(p)

\* The next file gets a name of its own.
NamesInv ==
  \A i \in 1..Len(files) :
    /\ files[i].name < file_num
    /\ \A j \in 1..Len(files) : i # j => files[i].name # files[j].name

FileInv == Inv /\ PositionInv /\ SearchInv /\ NamesInv

\* A set of numbers that is not empty has a least element.
LEMMA Least ==
  ASSUME NEW T, T \subseteq Nat, T # {}
  PROVE  \E x \in T : \A y \in T : x <= y
<1> DEFINE R == OpToRel(<, Nat)
<1>1. IsWellFoundedOn(R, Nat)
  BY NatLessThanWellFounded
<1>2. \A x, y \in Nat : x < y => <<x, y>> \in R
  BY DEF OpToRel
<1> HIDE DEF R
<1>3. PICK x \in T : \A y \in T : ~(<<y, x>> \in R)
  BY <1>1, WFMin
<1>4. \A y \in T : ~(y < x)
  BY <1>2, <1>3
<1> QED
  BY <1>4

\* Multiplication and division of block counts.
LEMMA TimesNext ==
  ASSUME NEW a \in Nat, NEW b \in Nat
  PROVE  a * b \in Nat /\ a * (b + 1) = a * b + a
OBVIOUS

\* A product grows with its factor.
LEMMA TimesMono ==
  ASSUME NEW a \in Nat, NEW b \in Nat, NEW c \in Nat, b <= c
  PROVE  a * b <= a * c
OBVIOUS

\* The quotient and the remainder that BlockOf and Content take.
LEMMA Division ==
  ASSUME NEW p \in Nat, NEW r \in Nat, NEW s \in Nat, s < p
  PROVE  /\ (p * r + s) \div p = r
         /\ (p * r + s) % p = s
<1> DEFINE a == p * r + s
           d == a \div p
           m == a % p
<1>1. a \in Nat /\ p > 0
  OBVIOUS
<1> HIDE DEF a
<1>2. d \in Int /\ m \in 0..(p - 1) /\ a = p * d + m
  BY <1>1
<1> HIDE DEF d, m
<1>3. p * d + m = p * r + s
  BY <1>2 DEF a
<1>4. ~(d >= r + 1)
  <2> SUFFICES ASSUME d >= r + 1 PROVE FALSE
    OBVIOUS
  <2>1. p * d >= p * (r + 1)
    BY <1>2
  <2> QED
    BY <1>2, <1>3, <2>1
<1>5. ~(r >= d + 1)
  <2> SUFFICES ASSUME r >= d + 1 PROVE FALSE
    OBVIOUS
  <2>1. p * r >= p * (d + 1)
    BY <1>2
  <2> QED
    BY <1>2, <1>3, <2>1
<1>6. d = r
  BY <1>2, <1>4, <1>5
<1>7. m = s
  BY <1>2, <1>3, <1>6
<1> QED
  BY <1>6, <1>7 DEF a, d, m

\* Byte i of the q-th block's worth of a file.
LEMMA ContentAt ==
  ASSUME NEW q \in Nat, NEW i \in 1..BLOCK_SIZE, Node.size \in Int,
         BLOCK_SIZE * q + i <= Node.size
  PROVE  Content(Node)[BLOCK_SIZE * q + i] = <<BlockOf(Node, q), i>>
<1> DEFINE k == BLOCK_SIZE * q + i
<1>1. BLOCK_SIZE \in Nat /\ BLOCK_SIZE * q \in Nat
  BY SizesAssumption
<1>2. k \in 1..Node.size /\ k - 1 = BLOCK_SIZE * q + (i - 1)
  BY <1>1
<1>3. (k - 1) \div BLOCK_SIZE = q /\ (k - 1) % BLOCK_SIZE = i - 1
  <2> DEFINE j == i - 1
  <2>1. j \in Nat /\ j < BLOCK_SIZE
    BY <1>1
  <2> HIDE DEF j
  <2>2. /\ (BLOCK_SIZE * q + j) \div BLOCK_SIZE = q
        /\ (BLOCK_SIZE * q + j) % BLOCK_SIZE = j
    BY <1>1, <2>1, Division
  <2>3. k - 1 = BLOCK_SIZE * q + j
    BY <1>2 DEF j
  <2> HIDE DEF k
  <2>4. (k - 1) \div BLOCK_SIZE = q /\ (k - 1) % BLOCK_SIZE = j
    BY <2>2, <2>3
  <2> QED
    BY <2>4 DEF j
<1> HIDE DEF k
<1>4. Content(Node)[k] = <<BlockOf(Node, (k - 1) \div BLOCK_SIZE),
                           ((k - 1) % BLOCK_SIZE) + 1>>
  BY <1>2 DEF Content
<1>5. Content(Node)[k] = <<BlockOf(Node, q), i>>
  BY <1>3, <1>4
<1> QED
  BY <1>5 DEF k

\* A block's worth that cannot be reached lies behind the end of a sound file.
LEMMA Needed ==
  ASSUME NEW q \in Nat, Node.size \in Int, Sound(f, UpToDouble),
         ~InRange(BlockOf(Node, q))
  PROVE  Node.size <= BLOCK_SIZE * q
<1> SUFFICES ASSUME Node.size > BLOCK_SIZE * q PROVE FALSE
  BY SizesAssumption
<1> DEFINE k == BLOCK_SIZE * q + 1
<1>1. BLOCK_SIZE \in Nat /\ BLOCK_SIZE * q \in Nat
  BY SizesAssumption
<1>2. BLOCK_SIZE # 0
  <2>1. Node.size \in 0..(UpToDouble * BLOCK_SIZE)
    BY DEF Sound, Intact, Node
  <2> SUFFICES ASSUME BLOCK_SIZE = 0 PROVE FALSE
    OBVIOUS
  <2>2. UpToDouble \in Nat
    BY SizesAssumption DEF UpToDouble, P1, P2
  <2>3. UpToDouble * BLOCK_SIZE = 0 /\ BLOCK_SIZE * q = 0
    BY <2>2
  <2> QED
    BY <2>1, <2>3
<1>3. k \in 1..Node.size /\ k - 1 = BLOCK_SIZE * q + 0
  BY <1>1
<1>4. (k - 1) \div BLOCK_SIZE = q
  BY <1>1, <1>2, <1>3, Division
<1> HIDE DEF k
<1>5. InRange(BlockOf(Node, (k - 1) \div BLOCK_SIZE))
  BY <1>3 DEF Sound, Intact, Node
<1> QED
  BY <1>4, <1>5

\* Entry s of the indirect block that entry r of the table leads to.
LEMMA BlockAt ==
  ASSUME NEW r \in Nat, NEW l \in 1..2, r < Width(l), NEW s \in Nat, s < P1,
         check_inode(Node)
  PROVE  /\ Start(l, r) \in Nat
         /\ BlockOf(Node, Start(l, r) + s) = Pointer(Table(l)[r + 1], s)
<1> DEFINE q == Start(l, r) + s
           q1 == q - N_DBLOCKS
           q2 == q1 - N_IBLOCKS * P1
           q3 == q2 - P2
<1>1. N_DBLOCKS \in Nat /\ N_IBLOCKS \in Nat /\ P1 \in Nat
  BY SizesAssumption DEF P1
<1>2. N_IBLOCKS * P1 \in Nat /\ P1 * r \in Nat /\ P1 * r + s \in Nat
  BY <1>1
<1>3. Start(l, r) \in Nat
  BY <1>1, <1>2 DEF Start
<1>4. (P1 * r + s) \div P1 = r /\ (P1 * r + s) % P1 = s
  BY <1>1, Division
<1>5. BlockOf(Node, q) =
        CASE q1 < 0 -> Node.dblocks[q + 1]
          [] q1 >= 0 /\ q2 < 0 ->
               Pointer(Node.iblocks[q1 \div P1 + 1], q1 % P1)
          [] q2 >= 0 /\ q3 < 0 ->
               Pointer(Pointer(Node.i2block, q2 \div P1), q2 % P1)
          [] OTHER ->
               Pointer(Pointer(Pointer(Node.i3block, q3 \div P2),
                               (q3 % P2) \div P1), q3 % P1)
  BY DEF BlockOf
<1>6. CASE l = 1
  <2>1. q1 = P1 * r + s
    BY <1>1, <1>2, <1>6 DEF Start
  <2>2. P1 * r + P1 <= N_IBLOCKS * P1
    <3>1. r + 1 <= N_IBLOCKS
      BY <1>1, <1>6 DEF Width
    <3>2. P1 * (r + 1) <= P1 * N_IBLOCKS
      BY <1>1, <3>1, TimesMono
    <3> QED
      BY <1>1, <3>2
  <2>3. q1 \in Int /\ q2 \in Int /\ q1 >= 0 /\ q2 < 0
    BY <1>1, <1>2, <2>1, <2>2
  <2> HIDE DEF q, q1, q2, q3
  <2>4. q1 \div P1 = r /\ q1 % P1 = s
    BY <1>4, <2>1
  <2>5. BlockOf(Node, q) = Pointer(Node.iblocks[q1 \div P1 + 1], q1 % P1)
    BY <1>5, <2>3
  <2>6. BlockOf(Node, q) = Pointer(Table(l)[r + 1], s)
    BY <1>6, <2>4, <2>5 DEF Table
  <2> QED
    BY <1>3, <2>6 DEF q
<1>7. CASE l = 2
  <2>1. q2 = P1 * r + s
    BY <1>1, <1>2, <1>7 DEF Start
  <2>2. P1 * r + P1 <= P2
    <3>1. r + 1 <= P1
      BY <1>1, <1>7 DEF Width
    <3>2. P1 * (r + 1) <= P1 * P1
      BY <1>1, <3>1, TimesMono
    <3> QED
      BY <1>1, <3>2 DEF P1, P2
  <2>3. P2 \in Nat
    BY <1>1 DEF P1, P2
  <2>4. /\ q1 \in Int /\ q2 \in Int /\ q3 \in Int
        /\ q2 >= 0 /\ q3 < 0 /\ q1 >= 0
    BY <1>1, <1>2, <1>3, <2>1, <2>2, <2>3
  <2> HIDE DEF q, q1, q2, q3
  <2>5. q2 \div P1 = r /\ q2 % P1 = s
    BY <1>4, <2>1
  <2>6. BlockOf(Node, q) =
          Pointer(Pointer(Node.i2block, q2 \div P1), q2 % P1)
    BY <1>5, <2>4
  <2>7. Pointer(Node.i2block, r) = Table(l)[r + 1]
    BY <1>7 DEF Pointer, Table, check_inode
  <2>8. BlockOf(Node, q) = Pointer(Table(l)[r + 1], s)
    BY <2>5, <2>6, <2>7
  <2> QED
    BY <1>3, <2>8 DEF q
<1> QED
  BY <1>6, <1>7

\* The direct blocks are the first of the file.
LEMMA DirectAt ==
  ASSUME NEW q \in Nat, q < N_DBLOCKS
  PROVE  BlockOf(Node, q) = Node.dblocks[q + 1]
<1> DEFINE q1 == q - N_DBLOCKS
           q2 == q1 - N_IBLOCKS * P1
           q3 == q2 - P2
<1>1. q1 \in Int /\ q1 < 0
  BY SizesAssumption
<1>2. BlockOf(Node, q) =
        CASE q1 < 0 -> Node.dblocks[q + 1]
          [] q1 >= 0 /\ q2 < 0 ->
               Pointer(Node.iblocks[q1 \div P1 + 1], q1 % P1)
          [] q2 >= 0 /\ q3 < 0 ->
               Pointer(Pointer(Node.i2block, q2 \div P1), q2 % P1)
          [] OTHER ->
               Pointer(Pointer(Pointer(Node.i3block, q3 \div P2),
                               (q3 % P2) \div P1), q3 % P1)
  BY DEF BlockOf
<1>3. q2 \in Int /\ q2 < 0
  BY <1>1, SizesAssumption DEF P1
<1> HIDE DEF q1, q2, q3
<1> QED
  BY <1>1, <1>2, <1>3

\* Content and the position do not depend on what a step of the search or of
\* the bookkeeping changes.
LEMMA SamePlace ==
  ASSUME UNCHANGED <<disk, f>>
  PROVE  /\ Node' = Node
         /\ \A p, m : Sound(p, m)' = Sound(p, m)
         /\ \A q : BlockOf(Node, q)' = BlockOf(Node, q)
         /\ Content(Node)' = Content(Node)
<1>1. Node' = Node
  BY DEF Node
<1>2. \A p, m : Sound(p, m)' = Sound(p, m)
  BY DEF Sound, check_inode, Intact, InRange, Blocks, BlockOf, Pointer
<1>3. \A q : BlockOf(Node, q)' = BlockOf(Node, q)
  BY DEF Node, BlockOf, Pointer, InRange, Blocks
<1>4. Content(Node)' = Content(Node)
  BY DEF Content, Node, BlockOf, Pointer, InRange, Blocks
<1> QED
  BY <1>1, <1>2, <1>3, <1>4

\* A copied block takes the file on by what is left of it, a block at most.
LEMMA Extends ==
  ASSUME TypeOK, pc \in Copying, NEW q \in Nat, NEW b \in Blocks,
         Len(out) = BLOCK_SIZE * q, Len(out) <= Node.size,
         b = BlockOf(Node, q),
         \A k \in 1..Len(out) : out[k] = Content(Node)[k],
         copy_dblock(b, Node.size - Len(out))
  PROVE  /\ \A k \in 1..Len(out') : out'[k] = Content(Node)[k]
         /\ Len(out') = Node.size \/ Len(out') = BLOCK_SIZE * (q + 1)
<1> DEFINE bytes == Node.size - Len(out)
           c == Copied(bytes)
           new == [i \in 1..c |-> <<b, i>>]
<1>1. Node.size \in Int /\ BLOCK_SIZE \in Nat /\ Len(out) \in Nat
  BY DiskFacts, SizesAssumption DEF TypeOK
<1>2. bytes \in Int /\ bytes >= 0
  BY <1>1
<1>3. /\ c \in Nat /\ c <= BLOCK_SIZE /\ c <= bytes
      /\ c = BLOCK_SIZE \/ c = bytes
  BY <1>1, <1>2 DEF Copied
<1>4. out' = out \o new
  BY DEF copy_dblock
<1>5. Len(out') = Len(out) + c
  BY <1>2, Written
<1> HIDE DEF bytes
<1>6. Len(new) = c /\ new \in Seq(Int \X (1..BLOCK_SIZE))
  <2> HIDE DEF c
  <2>1. b \in Int /\ \A i \in 1..c : i \in 1..BLOCK_SIZE
    BY <1>1, <1>3, DiskFacts
  <2>2. new \in [1..c -> Int \X (1..BLOCK_SIZE)]
    BY <2>1
  <2> QED
    BY <1>3, <2>2, SeqDef, LenProperties
<1>7. out \in Seq(Int \X (1..BLOCK_SIZE))
  BY DEF TypeOK
<1>8. ASSUME NEW k \in 1..Len(out') PROVE out'[k] = Content(Node)[k]
  <2>1. CASE k <= Len(out)
    <3>1. out'[k] = out[k]
      BY <1>4, <1>6, <1>7, <2>1, <1>1
    <3> QED
      BY <2>1, <3>1, <1>1
  <2>2. CASE k > Len(out)
    <3> DEFINE i == k - Len(out)
    <3>1. i \in 1..c /\ i \in 1..BLOCK_SIZE /\ k = Len(out) + i
      BY <1>1, <1>3, <1>5, <2>2
    <3>2. new[i] = <<b, i>>
      BY <3>1
    <3> HIDE DEF new, c
    <3>3. out'[k] = new[i]
      BY <1>1, <1>4, <1>5, <1>6, <1>7, <2>2, <3>1
    <3>4. BLOCK_SIZE * q + i <= Node.size /\ k = BLOCK_SIZE * q + i
      BY <1>1, <1>3, <3>1 DEF bytes
    <3> HIDE DEF i
    <3>5. Content(Node)[BLOCK_SIZE * q + i] = <<BlockOf(Node, q), i>>
      BY <1>1, <3>1, <3>4, ContentAt
    <3> QED
      BY <3>2, <3>3, <3>4, <3>5
  <2> QED
    BY <2>1, <2>2, <1>1, <1>5, <1>3
<1>9. Len(out') = Node.size \/ Len(out') = BLOCK_SIZE * (q + 1)
  <2> HIDE DEF c
  <2>1. BLOCK_SIZE * (q + 1) = BLOCK_SIZE * q + BLOCK_SIZE
    BY <1>1, TimesNext
  <2> QED
    BY <1>1, <1>3, <1>5, <2>1 DEF bytes
<1> QED
  BY <1>8, <1>9

\* When nothing of the file is left, the call of copy_dblock writes nothing.
LEMMA WritesNothing ==
  ASSUME TypeOK, NEW b \in Blocks, copy_dblock(b, 0)
  PROVE  out' = out
<1>1. Copied(0) = 0
  BY SizesAssumption DEF Copied
<1>2. out' = out \o [i \in 1..Copied(0) |-> <<b, i>>]
  BY DEF copy_dblock
<1>3. [i \in 1..Copied(0) |-> <<b, i>>] = <<>>
  BY <1>1
<1>4. out \in Seq(Int \X (1..BLOCK_SIZE))
  BY DEF TypeOK
<1> QED
  BY <1>2, <1>3, <1>4, ConcatEmptySeq

\* The step of a loop over data blocks, in main and in copy_i1block.
LEMMA NextData ==
  ASSUME NEW q \in Nat, NEW end \in Nat, DataLeft(q, end),
         ds \in Seq(Int), ds # <<>>, ds' = Tail(ds), UNCHANGED <<disk, f>>
  PROVE  q + 1 <= end /\ Head(ds) = BlockOf(Node, q) /\ DataLeft(q + 1, end)'
<1>1. /\ Len(ds) \in Nat /\ Len(ds) >= 1
      /\ Tail(ds) \in Seq(Int) /\ Len(Tail(ds)) = Len(ds) - 1
      /\ \A i \in 1..(Len(ds) - 1) : Tail(ds)[i] = ds[i + 1]
      /\ Head(ds) = ds[1]
  BY EmptySeq
<1>2. Head(ds) = BlockOf(Node, q) /\ q + 1 <= end
  <2>1. ds[1] = BlockOf(Node, q + 1 - 1)
    BY <1>1 DEF DataLeft
  <2>2. q + 1 - 1 = q
    OBVIOUS
  <2> QED
    BY <1>1, <2>1, <2>2 DEF DataLeft
<1>3. (q + 1) + Len(ds') = q + Len(ds)
  BY <1>1
<1>4. ASSUME NEW i \in 1..Len(ds')
      PROVE  ds'[i] = BlockOf(Node, (q + 1) + i - 1)
  <2>1. ds'[i] = ds[i + 1] /\ i + 1 \in 1..Len(ds)
    BY <1>1
  <2>2. ds[i + 1] = BlockOf(Node, q + (i + 1) - 1)
    BY <2>1 DEF DataLeft
  <2>3. q + (i + 1) - 1 = (q + 1) + i - 1
    OBVIOUS
  <2> QED
    BY <2>1, <2>2, <2>3
<1>5. Node' = Node /\ \A x : BlockOf(Node, x)' = BlockOf(Node, x)
  BY SamePlace
<1>6. DataLeft(q + 1, end)'
  BY <1>3, <1>4, <1>5 DEF DataLeft
<1> QED
  BY <1>2, <1>6

\* Facts about the file of a sound inode while it is copied.
LEMMA SoundFacts ==
  ASSUME Inv, PositionInv, pc \in Copying, Sound(f, UpToDouble), lost = 0
  PROVE  /\ Node.size \in Nat
         /\ Len(out) \in Nat
         /\ Len(out) <= Node.size
         /\ data_copied + copied = Len(out)
         /\ pc # "copy_i1block" => data_copied = Len(out)
         /\ Node.size <= BLOCK_SIZE * UpToDouble
         /\ check_inode(Node)
         /\ \A k \in 1..Len(out) : out[k] = Content(Node)[k]
         /\ level \in (IF pc = "dblocks" THEN {0} ELSE 1..2)
<1>1. Node.size \in 0..(UpToDouble * BLOCK_SIZE) /\ check_inode(Node)
  BY DEF Sound, Intact, Node
<1>2. Node.size \in Int /\ Len(out) \in Nat
  BY DiskFacts DEF Inv, TypeOK
<1>3. UpToDouble \in Nat /\ BLOCK_SIZE \in Nat
  BY SizesAssumption DEF UpToDouble, P1, P2
<1>4. UpToDouble * BLOCK_SIZE \in Nat
      /\ UpToDouble * BLOCK_SIZE = BLOCK_SIZE * UpToDouble
  BY <1>3
<1>5. Node.size \in Nat /\ Node.size <= BLOCK_SIZE * UpToDouble
  BY <1>1, <1>2, <1>4
<1>6. data_copied + copied = Len(out) /\ Len(out) <= Node.size
  BY <1>5 DEF Inv, CountsAgree, Copying
<1>7. pc # "copy_i1block" => data_copied = Len(out)
  BY <1>6 DEF Inv, CopiedInv, TypeOK, Copying
<1> QED
  BY <1>1, <1>2, <1>5, <1>6, <1>7 DEF PositionInv

\* The numbers of the layout.
LEMMA Layout ==
  ASSUME NEW l \in 1..2
  PROVE  /\ Width(l) \in Nat
         /\ \A r \in Nat :
              Start(l, r) \in Nat /\ Start(l, r + 1) = Start(l, r) + P1
         /\ P1 \in Nat
<1>1. N_DBLOCKS \in Nat /\ N_IBLOCKS \in Nat /\ P1 \in Nat
  BY SizesAssumption DEF P1
<1>2. N_IBLOCKS * P1 \in Nat
  BY <1>1
<1>3. ASSUME NEW r \in Nat
      PROVE  Start(l, r) \in Nat /\ Start(l, r + 1) = Start(l, r) + P1
  <2>1. P1 * r \in Nat /\ P1 * (r + 1) = P1 * r + P1
    BY <1>1, TimesNext
  <2> QED
    BY <1>1, <1>2, <2>1 DEF Start
<1> QED
  BY <1>1, <1>3 DEF Width

\* Where a level begins.
LEMMA StartOf ==
  /\ Start(1, 0) = N_DBLOCKS
  /\ Start(1, N_IBLOCKS) = N_DBLOCKS + N_IBLOCKS * P1
  /\ Start(2, 0) = N_DBLOCKS + N_IBLOCKS * P1
  /\ Start(2, P1) = UpToDouble
<1>1. N_DBLOCKS \in Nat /\ N_IBLOCKS \in Nat /\ P1 \in Nat
  BY SizesAssumption DEF P1
<1>2. P1 * 0 = 0 /\ P1 * N_IBLOCKS = N_IBLOCKS * P1 /\ P1 * P1 = P2
  BY <1>1 DEF P1, P2
<1>3. N_IBLOCKS * P1 \in Nat /\ P2 \in Nat
  BY <1>1, <1>2
<1> QED
  BY <1>1, <1>2, <1>3 DEF Start, UpToDouble

\* main's loop over the direct blocks keeps its place.
LEMMA PositionDirect ==
  ASSUME Inv, PositionInv, CopyDirect, Sound(f, UpToDouble), lost = 0
  PROVE  /\ \A k \in 1..Len(out') : out'[k] = Content(Node)[k]
         /\ Len(out') = Node.size \/ InDirect'
<1> USE DEF Inv
<1>1. pc = "dblocks" /\ pc \in Copying /\ ds # <<>> /\ ds' = Tail(ds)
      /\ UNCHANGED <<disk, f>>
  BY DEF CopyDirect, Copying
<1>2. /\ Node.size \in Nat /\ Len(out) \in Nat /\ Len(out) <= Node.size
      /\ data_copied = Len(out)
      /\ \A k \in 1..Len(out) : out[k] = Content(Node)[k]
  BY <1>1, SoundFacts
<1>3. Head(ds) \in Blocks /\ ds \in Seq(Int)
  BY <1>1 DEF BlocksInRange, TypeOK
<1>4. copy_dblock(Head(ds), Node.size - Len(out))
  BY <1>2 DEF CopyDirect
<1>5. CASE Len(out) = Node.size
  <2>1. copy_dblock(Head(ds), 0)
    BY <1>2, <1>4, <1>5
  <2>2. out' = out
    BY <1>3, <2>1, WritesNothing
  <2> QED
    BY <1>2, <1>5, <2>2
<1>6. CASE InDirect
  <2>1. PICK q \in 0..N_DBLOCKS :
          Len(out) = BLOCK_SIZE * q /\ DataLeft(q, N_DBLOCKS)
    BY <1>6 DEF InDirect
  <2>2. q \in Nat /\ N_DBLOCKS \in Nat
    BY SizesAssumption
  <2>3. /\ q + 1 <= N_DBLOCKS
        /\ Head(ds) = BlockOf(Node, q)
        /\ DataLeft(q + 1, N_DBLOCKS)'
    BY <1>1, <1>3, <2>1, <2>2, NextData
  <2>4. /\ \A k \in 1..Len(out') : out'[k] = Content(Node)[k]
        /\ Len(out') = Node.size \/ Len(out') = BLOCK_SIZE * (q + 1)
    BY <1>1, <1>2, <1>3, <1>4, <2>1, <2>2, <2>3, Extends
  <2>5. q + 1 \in 0..N_DBLOCKS
    BY <2>2, <2>3
  <2> QED
    BY <2>3, <2>4, <2>5 DEF InDirect
<1> QED
  BY <1>1, <1>5, <1>6 DEF PositionInv

\* copy_i1block's loop keeps its place.
LEMMA PositionIndirect ==
  ASSUME Inv, PositionInv, CopyIndirect, Sound(f, UpToDouble), lost = 0
  PROVE  /\ \A k \in 1..Len(out') : out'[k] = Content(Node)[k]
         /\ Len(out') = Node.size \/ InIndirect'
<1> USE DEF Inv
<1>1. /\ pc = "copy_i1block" /\ pc \in Copying /\ ds # <<>> /\ ds' = Tail(ds)
      /\ UNCHANGED <<disk, f, i1s, level>>
  BY DEF CopyIndirect, Copying
<1>2. /\ Node.size \in Nat /\ Len(out) \in Nat /\ Len(out) <= Node.size
      /\ data_copied + copied = Len(out)
      /\ \A k \in 1..Len(out) : out[k] = Content(Node)[k]
      /\ level \in 1..2
  BY <1>1, SoundFacts
<1>3. Head(ds) \in Blocks /\ ds \in Seq(Int)
  BY <1>1 DEF BlocksInRange, TypeOK
<1>4. copy_dblock(Head(ds), Node.size - Len(out))
  <2>1. data_copied \in Nat /\ copied \in Nat
    BY DEF TypeOK
  <2>2. Node.size - data_copied - copied = Node.size - Len(out)
    BY <1>2, <2>1
  <2> QED
    BY <2>2 DEF CopyIndirect
<1>5. CASE Len(out) = Node.size
  <2>1. copy_dblock(Head(ds), 0)
    BY <1>2, <1>4, <1>5
  <2>2. out' = out
    BY <1>3, <2>1, WritesNothing
  <2> QED
    BY <1>2, <1>5, <2>2
<1>6. CASE InIndirect
  <2>1. PICK r \in 0..(Width(level) - 1) :
          /\ TableLeft(r + 1)
          /\ \E q \in Start(level, r)..Start(level, r + 1) :
               Len(out) = BLOCK_SIZE * q /\ DataLeft(q, Start(level, r + 1))
    BY <1>6 DEF InIndirect
  <2>2. PICK q \in Start(level, r)..Start(level, r + 1) :
          Len(out) = BLOCK_SIZE * q /\ DataLeft(q, Start(level, r + 1))
    BY <2>1
  <2>3. /\ Start(level, r) \in Nat /\ Start(level, r + 1) \in Nat
        /\ Width(level) \in Nat
    <3>1. /\ Width(level) \in Nat
          /\ \A x \in Nat : Start(level, x) \in Nat
      BY <1>2, Layout
    <3>2. r \in Nat /\ r + 1 \in Nat
      BY <3>1
    <3> QED
      BY <3>1, <3>2
  <2>4. q \in Nat
    BY <2>3
  <2>5. /\ q + 1 <= Start(level, r + 1)
        /\ Head(ds) = BlockOf(Node, q)
        /\ \A e \in {Start(level, r + 1)} : DataLeft(q + 1, e)'
    BY <1>1, <1>3, <2>2, <2>3, <2>4, NextData
  <2>6. /\ \A k \in 1..Len(out') : out'[k] = Content(Node)[k]
        /\ Len(out') = Node.size \/ Len(out') = BLOCK_SIZE * (q + 1)
    BY <1>1, <1>2, <1>3, <1>4, <2>2, <2>4, <2>5, Extends
  <2>7. q + 1 \in Start(level, r)..Start(level, r + 1)
    BY <2>3, <2>5
  <2>8. /\ Width(level)' = Width(level) /\ Table(level)' = Table(level)
        /\ \A x : Start(level, x)' = Start(level, x)
    BY <1>1 DEF Width, Table, Start, Node
  <2>9. TableLeft(r + 1)'
    BY <1>1, <2>1, <2>8 DEF TableLeft, Node
  <2>10. DataLeft(q + 1, Start(level, r + 1))'
    BY <2>5, <2>8
  <2>11. ASSUME Len(out') = BLOCK_SIZE * (q + 1) PROVE InIndirect'
    BY <2>7, <2>8, <2>9, <2>10, <2>11 DEF InIndirect
  <2> QED
    BY <2>6, <2>11
<1> QED
  BY <1>1, <1>5, <1>6 DEF PositionInv

\* Opening the output file puts main at the first direct block.
LEMMA PositionOpen ==
  ASSUME Inv, OpenOutput
  PROVE  InDirect' /\ Len(out') = 0
<1> USE DEF Inv
<1>1. Node.dblocks \in [1..N_DBLOCKS -> Int] /\ N_DBLOCKS \in Nat
  BY DiskFacts, SizesAssumption DEF OpenOutput
<1>2. ds' = Node.dblocks /\ Node' = Node /\ out' = <<>>
  BY DEF OpenOutput, Node
<1>3. Len(ds') = N_DBLOCKS
  BY <1>1, <1>2, ArrayIsSeq
<1>4. Len(out') = 0 /\ Len(out') = BLOCK_SIZE * 0
  BY <1>2, SizesAssumption
<1>5. ASSUME NEW i \in 1..Len(ds') PROVE ds'[i] = BlockOf(Node, 0 + i - 1)
  <2>1. i \in 1..N_DBLOCKS /\ 0 + i - 1 = i - 1
    BY <1>3, <1>1
  <2>2. (i - 1) - N_DBLOCKS < 0 /\ (i - 1) + 1 = i
    BY <1>1, <2>1
  <2>3. BlockOf(Node, i - 1) = Node.dblocks[(i - 1) + 1]
    BY <1>1, <2>1, <2>2, DirectAt
  <2> QED
    BY <1>2, <2>1, <2>2, <2>3
<1>6. \A q : BlockOf(Node, q)' = BlockOf(Node, q)
  BY SamePlace DEF OpenOutput
<1>7. DataLeft(0, N_DBLOCKS)'
  BY <1>1, <1>2, <1>3, <1>5, <1>6 DEF DataLeft
<1> QED
  BY <1>1, <1>4, <1>7 DEF InDirect

\* The loop over f->iblocks begins where the direct blocks end.
LEMMA PositionIblocks ==
  ASSUME Inv, PositionInv, FollowIblocks, Sound(f, UpToDouble), lost = 0
  PROVE  InTable'
<1> USE DEF Inv
<1>1. /\ pc = "dblocks" /\ pc \in Copying /\ ds = <<>> /\ More
      /\ level' = 1 /\ i1s' = Node.iblocks
      /\ UNCHANGED <<disk, f, out>> /\ Node' = Node
  BY DEF FollowIblocks, Copying, Node
<1>2. /\ Node.size \in Nat /\ Len(out) \in Nat /\ data_copied = Len(out)
  BY <1>1, SoundFacts
<1>3. Len(out) # Node.size
  BY <1>1, <1>2 DEF More
<1>4. PICK q \in 0..N_DBLOCKS :
        Len(out) = BLOCK_SIZE * q /\ DataLeft(q, N_DBLOCKS)
  BY <1>1, <1>3 DEF PositionInv, InDirect
<1>5. /\ Node.iblocks \in [1..N_IBLOCKS -> Int]
      /\ N_IBLOCKS \in Nat /\ N_DBLOCKS \in Nat /\ BLOCK_SIZE \in Nat
  BY <1>1, DiskFacts, SizesAssumption
<1>6. Len(out) = BLOCK_SIZE * N_DBLOCKS
  <2>1. Len(ds) = 0 /\ q \in Nat /\ q + Len(ds) = q
    BY <1>1, <1>5
  <2>2. q = N_DBLOCKS \/ Node.size <= BLOCK_SIZE * q
    BY <1>4, <2>1 DEF DataLeft
  <2>3. Len(out) < Node.size
    BY <1>1, <1>2 DEF More
  <2> QED
    BY <1>2, <1>4, <2>2, <2>3
<1>7. Width(level)' = N_IBLOCKS /\ Table(level)' = Node.iblocks
  BY <1>1 DEF Width, Table
<1>8. Start(level, 0)' = N_DBLOCKS
  <2>1. P1 * 0 = 0
    BY SizesAssumption DEF P1
  <2> QED
    BY <1>1, <1>5, <2>1 DEF Start
<1>9. Len(i1s') = N_IBLOCKS
  BY <1>1, <1>5, ArrayIsSeq
<1>10. TableLeft(0)'
  <2>1. \A i \in 1..N_IBLOCKS : 0 + i = i
    BY <1>5
  <2>2. 0 + Len(i1s') = Width(level)'
    BY <1>5, <1>7, <1>9
  <2> QED
    BY <1>1, <1>5, <1>7, <1>9, <2>1, <2>2 DEF TableLeft
<1>11. 0 \in 0..Width(level)' /\ Len(out') = BLOCK_SIZE * Start(level, 0)'
  BY <1>1, <1>5, <1>6, <1>7, <1>8
<1> QED
  BY <1>10, <1>11 DEF InTable

\* At the end of a loop over indirect blocks the bytes of the whole table have
\* been copied, unless the file is complete.
LEMMA TableOver ==
  ASSUME Inv, PositionInv, pc = "iblocks", i1s = <<>>, More,
         Sound(f, UpToDouble), lost = 0
  PROVE  level = 1 /\ Len(out) = BLOCK_SIZE * (N_DBLOCKS + N_IBLOCKS * P1)
<1> USE DEF Inv
<1>1. /\ Node.size \in Nat /\ Len(out) \in Nat /\ data_copied = Len(out)
      /\ Node.size <= BLOCK_SIZE * UpToDouble
      /\ level \in 1..2
  BY SoundFacts DEF Copying
<1>2. Len(out) < Node.size
  BY <1>1 DEF More
<1>3. PICK r \in 0..Width(level) :
        Len(out) = BLOCK_SIZE * Start(level, r) /\ TableLeft(r)
  BY <1>1, <1>2 DEF PositionInv, InTable, Copying
<1>4. Width(level) \in Nat /\ r \in Nat
  <2>1. Width(level) \in Nat
    BY <1>1, Layout
  <2> QED
    BY <2>1
<1>5. Len(i1s) = 0 /\ r + Len(i1s) = r
  BY <1>4
<1>6. BLOCK_SIZE * Start(level, r) \in Nat
  BY <1>1, <1>3
<1>7. r = Width(level)
  BY <1>1, <1>2, <1>3, <1>5 DEF TableLeft
<1>8. CASE level = 1
  BY <1>3, <1>7, <1>8, StartOf DEF Width
<1>9. CASE level = 2
  <2>1. Len(out) = BLOCK_SIZE * UpToDouble
    BY <1>3, <1>7, <1>9, StartOf DEF Width
  <2> QED
    BY <1>1, <1>2, <2>1
<1> QED
  BY <1>1, <1>8, <1>9

\* The n first entries of an indirect block, as the loops read them.
LEMMA FirstEntries ==
  ASSUME TypeOK, NEW b \in Blocks, NEW n \in 0..PointersPerBlock
  PROVE  /\ Len(SubSeq(disk.block[b], 1, n)) = n
         /\ \A i \in 1..n : SubSeq(disk.block[b], 1, n)[i] = disk.block[b][i]
<1> DEFINE s == disk.block[b]
<1>1. s \in [1..PointersPerBlock -> Int]
  BY DiskFacts
<1>2. s \in Seq(Int) /\ Len(s) = PointersPerBlock
  BY <1>1, ArrayIsSeq, SizesAssumption, LenProperties, SeqDef
<1>3. n \in Nat /\ n <= Len(s)
  BY <1>2, SizesAssumption
<1>4. SubSeq(s, 1, n) = [i \in 1..n |-> s[i]]
  BY <1>2, <1>3, SizesAssumption
<1> HIDE DEF s
<1>5. Len(SubSeq(s, 1, n)) = n /\ \A i \in 1..n : SubSeq(s, 1, n)[i] = s[i]
  BY <1>3, <1>4
<1> QED
  BY <1>5 DEF s

\* The loop over the entries of f->i2block begins where f->iblocks end, and an
\* entry that unwind_iblock leaves out is not needed.
LEMMA PositionI2block ==
  ASSUME Inv, PositionInv, FollowI2block, Sound(f, UpToDouble), lost = 0
  PROVE  InTable'
<1> USE DEF Inv
<1>1. /\ pc = "iblocks" /\ pc \in Copying /\ i1s = <<>> /\ More
      /\ level' = 2
      /\ UNCHANGED <<disk, f, out>> /\ Node' = Node
  BY DEF FollowI2block, Copying, Node
<1>2. PICK n \in 0..PointersPerBlock :
        /\ Stops(Node.i2block, n)
        /\ i1s' = SubSeq(disk.block[Node.i2block], 1, n)
  BY DEF FollowI2block, unwind_iblock
<1>3. Node.size \in Nat /\ check_inode(Node)
  BY <1>1, SoundFacts
<1>4. Node.i2block \in Blocks /\ Blocks \subseteq Nat
  BY <1>3, DiskFacts DEF check_inode, InRange
<1>5. PointersPerBlock \in Nat /\ P1 = PointersPerBlock /\ n \in Nat /\ n <= P1
  BY SizesAssumption DEF P1
<1>6. Width(2) = P1 /\ Table(2) = disk.block[Node.i2block]
  BY DEF Width, Table
<1>7. Len(i1s') = n /\ \A i \in 1..n : i1s'[i] = Table(2)[i]
  BY <1>2, <1>4, <1>6, FirstEntries
<1>8. ASSUME n # P1 PROVE Node.size <= BLOCK_SIZE * Start(2, n)
  <2>1. n < P1 /\ 0 < P1
    BY <1>5, <1>8
  <2>2. ~InRange(Table(2)[n + 1])
    BY <1>2, <1>5, <1>6, <2>1 DEF Stops
  <2>3. /\ Start(2, n) \in Nat
        /\ BlockOf(Node, Start(2, n) + 0) = Pointer(Table(2)[n + 1], 0)
    BY <1>3, <1>5, <1>6, <2>1, BlockAt
  <2>4. Start(2, n) + 0 = Start(2, n)
    BY <2>3
  <2>5. Pointer(Table(2)[n + 1], 0) = -1 /\ ~InRange(-1)
    BY <1>4, <2>2 DEF Pointer, InRange
  <2>6. ~InRange(BlockOf(Node, Start(2, n)))
    BY <2>3, <2>4, <2>5
  <2> QED
    BY <1>3, <2>3, <2>6, Needed
<1>9. /\ Width(level)' = Width(2) /\ Table(level)' = Table(2)
      /\ \A x : Start(level, x)' = Start(2, x)
  BY <1>1 DEF Width, Table, Start
<1>10. TableLeft(0)'
  <2>1. \A i \in 1..n : 0 + i = i
    BY <1>5
  <2>2. 0 + Len(i1s') = n /\ Len(i1s') = n
    BY <1>5, <1>7
  <2>3. \A i \in 1..Len(i1s') : i1s'[i] = Table(level)'[0 + i]
    BY <1>7, <1>9, <2>1
  <2>4. \/ 0 + Len(i1s') = Width(level)'
        \/ Node'.size <= BLOCK_SIZE * Start(level, 0 + Len(i1s))'
    BY <1>1, <1>6, <1>8, <1>9, <2>2
  <2>5. 0 + Len(i1s') <= Width(level)'
    BY <1>5, <1>6, <1>9, <2>2
  <2> QED
    BY <1>1, <2>3, <2>4, <2>5 DEF TableLeft
<1>11. Len(out') = BLOCK_SIZE * Start(level, 0)'
  <2>1. Len(out) = BLOCK_SIZE * (N_DBLOCKS + N_IBLOCKS * P1)
    BY <1>1, TableOver
  <2>2. Start(2, 0) = N_DBLOCKS + N_IBLOCKS * P1
    BY StartOf
  <2> QED
    BY <1>1, <1>9, <2>1, <2>2
<1>12. 0 \in 0..Width(level)'
  BY <1>5, <1>6, <1>9
<1> QED
  BY <1>1, <1>10, <1>11, <1>12 DEF InTable

\* copy_i1block begins with the block at which the file stands, and an entry
\* that unwind_iblock leaves out is not needed.
LEMMA PositionEnter ==
  ASSUME Inv, PositionInv, EnterI1block, Sound(f, UpToDouble), lost = 0,
         Len(out) # Node.size
  PROVE  InIndirect'
<1> USE DEF Inv
<1> DEFINE b == Head(i1s)
<1>1. /\ pc = "iblocks" /\ pc \in Copying /\ i1s # <<>> /\ i1s' = Tail(i1s)
      /\ UNCHANGED <<disk, f, out, level>> /\ Node' = Node
  BY DEF EnterI1block, Copying, Node
<1>2. PICK n \in 0..PointersPerBlock :
        Stops(b, n) /\ ds' = SubSeq(disk.block[b], 1, n)
  BY DEF EnterI1block, unwind_iblock
<1>3. Node.size \in Nat /\ check_inode(Node) /\ level \in 1..2
  BY <1>1, SoundFacts
<1>4. b \in Blocks /\ Blocks \subseteq Nat /\ i1s \in Seq(Int)
  BY <1>1, DiskFacts, SMTT(30) DEF BlocksInRange, TypeOK
<1>5. PointersPerBlock \in Nat /\ P1 = PointersPerBlock /\ n \in Nat /\ n <= P1
  BY SizesAssumption DEF P1
<1>6. PICK r \in 0..Width(level) :
        Len(out) = BLOCK_SIZE * Start(level, r) /\ TableLeft(r)
  BY <1>1 DEF PositionInv, InTable
<1>7. /\ Len(i1s) \in Nat /\ Len(i1s) >= 1
      /\ Tail(i1s) \in Seq(Int) /\ Len(Tail(i1s)) = Len(i1s) - 1
      /\ \A i \in 1..(Len(i1s) - 1) : Tail(i1s)[i] = i1s[i + 1]
      /\ b = i1s[1]
  BY <1>1, <1>4, EmptySeq
<1>8. Width(level) \in Nat /\ r \in Nat
  <2>1. Width(level) \in Nat
    BY <1>3, Layout
  <2> QED
    BY <2>1
<1>9. r < Width(level) /\ b = Table(level)[r + 1]
  BY <1>6, <1>7, <1>8 DEF TableLeft
<1>10. Start(level, r) \in Nat /\ Start(level, r + 1) = Start(level, r) + P1
  BY <1>3, <1>8, Layout
<1>11. \A i \in Nat : i < P1 =>
         BlockOf(Node, Start(level, r) + i) = disk.block[b][i + 1]
  BY <1>3, <1>4, <1>8, <1>9, BlockAt DEF Pointer, InRange
<1>12. Len(ds') = n /\ \A i \in 1..n : ds'[i] = disk.block[b][i]
  BY <1>2, <1>4, FirstEntries
<1> HIDE DEF b
<1>13. ASSUME n # P1 PROVE Node.size <= BLOCK_SIZE * (Start(level, r) + n)
  <2>1. n < P1
    BY <1>5, <1>13
  <2>2. ~InRange(disk.block[b][n + 1])
    BY <1>2, <1>5, <2>1 DEF Stops
  <2>3. ~InRange(BlockOf(Node, Start(level, r) + n))
    BY <1>5, <1>11, <2>1, <2>2
  <2>4. Start(level, r) + n \in Nat
    BY <1>5, <1>10
  <2> QED
    BY <1>3, <2>3, <2>4, Needed
<1>14. /\ Width(level)' = Width(level) /\ Table(level)' = Table(level)
       /\ \A x : Start(level, x)' = Start(level, x)
  BY <1>1 DEF Width, Table, Start
<1>15. DataLeft(Start(level, r), Start(level, r + 1))'
  <2> DEFINE q == Start(level, r)
  <2>1. q + Len(ds') = q + n /\ q + n <= Start(level, r + 1)
        /\ (q + n = Start(level, r + 1) \/ n # P1)
    BY <1>5, <1>10, <1>12
  <2>2. ASSUME NEW i \in 1..Len(ds')
        PROVE  ds'[i] = BlockOf(Node, q + i - 1)
    <3>1. i \in 1..n /\ i - 1 \in Nat /\ i - 1 < P1 /\ (i - 1) + 1 = i
          /\ q + (i - 1) = q + i - 1
      BY <1>5, <1>10, <1>12
    <3>2. BlockOf(Node, q + (i - 1)) = disk.block[b][(i - 1) + 1]
      BY <1>11, <3>1
    <3> QED
      BY <1>12, <3>1, <3>2
  <2>3. \A x : BlockOf(Node, x)' = BlockOf(Node, x)
    BY <1>1, SamePlace
  <2> QED
    BY <1>1, <1>13, <1>14, <2>1, <2>2, <2>3 DEF DataLeft
<1>16. TableLeft(r + 1)'
  <2>1. (r + 1) + Len(i1s') = r + Len(i1s)
    BY <1>1, <1>7, <1>8
  <2>2. ASSUME NEW i \in 1..Len(i1s')
        PROVE  i1s'[i] = Table(level)[(r + 1) + i]
    <3>1. i1s'[i] = i1s[i + 1] /\ i + 1 \in 1..Len(i1s)
      BY <1>1, <1>7
    <3>2. i1s[i + 1] = Table(level)[r + (i + 1)]
      BY <1>6, <1>14, <3>1 DEF TableLeft
    <3>3. r + (i + 1) = (r + 1) + i
      BY <1>8
    <3> QED
      BY <3>1, <3>2, <3>3
  <2>3. \/ (r + 1) + Len(i1s') = Width(level)'
        \/ Node'.size <= BLOCK_SIZE * Start(level, (r + 1) + Len(i1s))'
    BY <1>1, <1>6, <1>14, <2>1 DEF TableLeft
  <2>4. (r + 1) + Len(i1s') <= Width(level)'
    BY <1>6, <1>14, <2>1 DEF TableLeft
  <2> QED
    BY <1>14, <2>2, <2>3, <2>4 DEF TableLeft
<1>17. r \in 0..(Width(level)' - 1)
  BY <1>8, <1>9, <1>14
<1>18. /\ Start(level, r)' \in Start(level, r)'..Start(level, r + 1)'
       /\ Len(out') = BLOCK_SIZE * Start(level, r)'
  BY <1>1, <1>5, <1>6, <1>10, <1>14
<1> QED
  BY <1>14, <1>15, <1>16, <1>17, <1>18 DEF InIndirect

\* copy_i1block returns to the place behind its block.
LEMMA PositionReturn ==
  ASSUME Inv, PositionInv, ReturnI1block, Sound(f, UpToDouble), lost = 0,
         Len(out) # Node.size
  PROVE  InTable'
<1> USE DEF Inv
<1>1. /\ pc = "copy_i1block" /\ pc \in Copying /\ ds = <<>>
      /\ UNCHANGED <<disk, f, out, level, i1s>> /\ Node' = Node
  BY DEF ReturnI1block, Copying, Node
<1>2. /\ Node.size \in Nat /\ level \in 1..2
      /\ Len(out) \in Nat /\ Len(out) <= Node.size
  BY <1>1, SoundFacts
<1>3. PICK r \in 0..(Width(level) - 1) :
        /\ TableLeft(r + 1)
        /\ \E q \in Start(level, r)..Start(level, r + 1) :
             Len(out) = BLOCK_SIZE * q /\ DataLeft(q, Start(level, r + 1))
  BY <1>1 DEF PositionInv, InIndirect
<1>4. PICK q \in Start(level, r)..Start(level, r + 1) :
        Len(out) = BLOCK_SIZE * q /\ DataLeft(q, Start(level, r + 1))
  BY <1>3
<1>5. /\ Width(level) \in Nat /\ r \in Nat
      /\ Start(level, r) \in Nat /\ Start(level, r + 1) \in Nat
  <2>1. /\ Width(level) \in Nat
        /\ \A x \in Nat : Start(level, x) \in Nat
    BY <1>2, Layout
  <2>2. r \in Nat /\ r + 1 \in Nat
    BY <2>1
  <2> QED
    BY <2>1, <2>2
<1>6. q \in Nat /\ Len(ds) = 0 /\ q + Len(ds) = q
  BY <1>1, <1>5
<1>7. q = Start(level, r + 1)
  BY <1>2, <1>4, <1>6 DEF DataLeft
<1>8. /\ Width(level)' = Width(level) /\ Table(level)' = Table(level)
      /\ \A x : Start(level, x)' = Start(level, x)
  BY <1>1 DEF Width, Table, Start
<1>9. TableLeft(r + 1)'
  BY <1>1, <1>3, <1>8 DEF TableLeft
<1>10. r + 1 \in 0..Width(level)'
  BY <1>5, <1>8
<1>11. Len(out') = BLOCK_SIZE * Start(level, r + 1)'
  BY <1>1, <1>4, <1>7, <1>8
<1> QED
  BY <1>9, <1>10, <1>11 DEF InTable

\* Every step keeps the position.
LEMMA NextPosition ==
  ASSUME Inv, PositionInv, [Next]_vars
  PROVE  PositionInv'
<1> DEFINE Begun(s) == \A k \in 1..Len(s) : s[k] = Content(Node)[k]
<1> SUFFICES ASSUME (pc \in Copying)', Sound(f, UpToDouble)', lost' = 0
             PROVE  /\ Begun(out)'
                    /\ (level \in (IF pc = "dblocks" THEN {0} ELSE 1..2))'
                    /\ \/ (Len(out) = Node.size)'
                       \/ (pc = "dblocks" /\ InDirect)'
                       \/ (pc = "iblocks" /\ InTable)'
                       \/ (pc = "copy_i1block" /\ InIndirect)'
  BY DEF PositionInv
<1>1. ASSUME UNCHANGED <<disk, f>>
      PROVE  /\ Node' = Node /\ Sound(f, UpToDouble)
             /\ Content(Node)' = Content(Node)
  <2>1. Sound(f, UpToDouble)' = Sound(f, UpToDouble)
    BY <1>1, ZenonT(40) DEF Sound, check_inode, Intact, InRange, Blocks, BlockOf, Pointer
  <2> QED
    BY <1>1, <2>1, SamePlace
<1>2. CASE OpenOutput
  <2>1. InDirect' /\ Len(out') = 0
    BY <1>2, PositionOpen
  <2>2. pc' = "dblocks" /\ level' = 0
    BY <1>2 DEF OpenOutput
  <2> QED
    BY <2>1, <2>2
<1>3. CASE CopyDirect
  <2>1. /\ UNCHANGED <<disk, f, pc, level, lost>>
        /\ pc = "dblocks" /\ pc \in Copying
    BY <1>3 DEF CopyDirect, Copying
  <2>2. /\ \A k \in 1..Len(out') : out'[k] = Content(Node)[k]
        /\ Len(out') = Node.size \/ InDirect'
    BY <1>1, <1>3, <2>1, PositionDirect
  <2>3. level = 0
    BY <1>1, <2>1, SoundFacts
  <2> QED
    BY <1>1, <2>1, <2>2, <2>3
<1>4. CASE FollowIblocks
  <2>1. /\ UNCHANGED <<disk, f, out, lost>> /\ pc = "dblocks" /\ pc \in Copying
        /\ pc' = "iblocks" /\ level' = 1
    BY <1>4 DEF FollowIblocks, Copying
  <2>2. InTable'
    BY <1>1, <1>4, <2>1, PositionIblocks
  <2>3. Begun(out)
    BY <1>1, <2>1, SoundFacts
  <2> QED
    BY <1>1, <2>1, <2>2, <2>3
<1>5. CASE FollowI2block
  <2>1. /\ UNCHANGED <<disk, f, out, lost>> /\ pc = "iblocks" /\ pc \in Copying
        /\ pc' = "iblocks" /\ level' = 2
    BY <1>5 DEF FollowI2block, Copying
  <2>2. InTable'
    BY <1>1, <1>5, <2>1, PositionI2block
  <2>3. Begun(out)
    BY <1>1, <2>1, SoundFacts
  <2> QED
    BY <1>1, <2>1, <2>2, <2>3
<1>6. ~FollowI3block
  <2> SUFFICES ASSUME FollowI3block PROVE FALSE
    OBVIOUS
  <2>1. /\ UNCHANGED <<disk, f, lost>> /\ pc = "iblocks" /\ level = 2
        /\ i1s = <<>> /\ More
    BY DEF FollowI3block
  <2> QED
    BY <1>1, <2>1, TableOver
<1>7. ~FollowI2ofI3
  <2> SUFFICES ASSUME FollowI2ofI3 PROVE FALSE
    OBVIOUS
  <2>1. UNCHANGED <<disk, f, lost>> /\ pc = "iblocks" /\ level = 3
    BY DEF FollowI2ofI3
  <2> QED
    BY <1>1, <2>1 DEF PositionInv, Copying
<1>8. CASE EnterI1block
  <2>1. /\ UNCHANGED <<disk, f, out, level, lost>> /\ pc = "iblocks"
        /\ pc \in Copying /\ pc' = "copy_i1block"
    BY <1>8 DEF EnterI1block, Copying
  <2>2. Begun(out) /\ level \in 1..2
    BY <1>1, <2>1, SoundFacts
  <2>3. Len(out) = Node.size \/ InIndirect'
    BY <1>1, <1>8, <2>1, PositionEnter
  <2> QED
    BY <1>1, <2>1, <2>2, <2>3
<1>9. ~SkipI1block /\ ~NoPointersFatal
  BY DEF SkipI1block, NoPointersFatal, Inv, TypeOK
<1>10. CASE CopyIndirect
  <2>1. /\ UNCHANGED <<disk, f, pc, level, lost>> /\ pc = "copy_i1block"
        /\ pc \in Copying
    BY <1>10 DEF CopyIndirect, Copying
  <2>2. /\ \A k \in 1..Len(out') : out'[k] = Content(Node)[k]
        /\ Len(out') = Node.size \/ InIndirect'
    BY <1>1, <1>10, <2>1, PositionIndirect
  <2>3. level \in 1..2
    BY <1>1, <2>1, SoundFacts
  <2> QED
    BY <1>1, <2>1, <2>2, <2>3
<1>11. CASE ReturnI1block
  <2>1. /\ UNCHANGED <<disk, f, out, level, lost>> /\ pc = "copy_i1block"
        /\ pc \in Copying /\ pc' = "iblocks"
    BY <1>11 DEF ReturnI1block, Copying
  <2>2. Begun(out) /\ level \in 1..2
    BY <1>1, <2>1, SoundFacts
  <2>3. Len(out) = Node.size \/ InTable'
    BY <1>1, <1>11, <2>1, PositionReturn
  <2> QED
    BY <1>1, <2>1, <2>2, <2>3
<1>12. ~(FindInode \/ SearchComplete \/ InodeInvalid \/ CloseOutput \/ IOError)
  BY DEF FindInode, SearchComplete, InodeInvalid, CloseOutput, NextInode,
         IOError, Copying
<1>13. CASE UNCHANGED vars
  <2>1. UNCHANGED <<disk, f, pc, level, lost, out, ds, i1s>> /\ Node' = Node
    BY <1>1, <1>13 DEF vars
  <2>2. \A q, e : DataLeft(q, e) => DataLeft(q, e)'
    BY <2>1, SamePlace DEF DataLeft
  <2>3. /\ Width(level)' = Width(level) /\ Table(level)' = Table(level)
        /\ \A x : Start(level, x)' = Start(level, x)
    BY <2>1 DEF Width, Table, Start
  <2>4. \A r : TableLeft(r) => TableLeft(r)'
    BY <2>1, <2>3 DEF TableLeft
  <2>5. (InDirect => InDirect') /\ (InTable => InTable')
    BY <2>1, <2>2, <2>3, <2>4 DEF InDirect, InTable
  <2>6. InIndirect => InIndirect'
    BY <2>1, <2>2, <2>3, <2>4 DEF InIndirect
  <2> QED
    BY <1>1, <2>1, <2>5, <2>6 DEF PositionInv
<1> QED
  BY <1>2, <1>3, <1>4, <1>5, <1>6, <1>7, <1>8, <1>9, <1>10, <1>11, <1>12,
     <1>13 DEF Next, MainStep, Ended

\* The finished file of a sound inode is the inode's content.
LEMMA Complete ==
  ASSUME Inv, PositionInv, CopyingOver, Sound(f, UpToDouble), lost = 0
  PROVE  out = Content(Node)
<1>1. pc \in Copying /\ pc # "copy_i1block"
  BY DEF CopyingOver, Copying
<1>2. /\ Node.size \in Nat /\ Len(out) \in Nat /\ Len(out) <= Node.size
      /\ data_copied = Len(out)
      /\ \A k \in 1..Len(out) : out[k] = Content(Node)[k]
      /\ level \in 0..2
  BY <1>1, SoundFacts
<1>3. ~More
  BY <1>2 DEF CopyingOver
<1>4. Len(out) = Node.size
  BY <1>2, <1>3 DEF More
<1>5. out \in [1..Node.size -> Int \X (1..BLOCK_SIZE)]
  BY <1>4 DEF Inv, TypeOK
<1>6. Content(Node) = [k \in 1..Node.size |-> Content(Node)[k]]
  BY DEF Content
<1> QED
  BY <1>2, <1>4, <1>5, <1>6

\* Every step keeps what is known of the inodes searched and of the names.
LEMMA NextSearch ==
  ASSUME Inv, PositionInv, SearchInv, NamesInv, [Next]_vars
  PROVE  SearchInv' /\ NamesInv'
<1> USE DEF Inv
<1> DEFINE Good(p) == Apart(p) /\ Sound(p, UpToDouble)
<1>1. disk' = disk
  BY DEF Next, MainStep, FindInode, SearchComplete, InodeInvalid, OpenOutput,
    CopyDirect, FollowIblocks, FollowI2block, FollowI3block, FollowI2ofI3,
    NoPointersFatal, EnterI1block, SkipI1block, CopyIndirect, ReturnI1block,
    CloseOutput, IOError, Ended, vars
<1>2. \A p : /\ Good(p) <=> Good(p)'
             /\ Content(disk.inode[p])' = Content(disk.inode[p])
  BY <1>1 DEF Apart, Sound, check_inode, Intact, InRange, Blocks, BlockOf,
    Pointer, Content
<1>3. ASSUME files' = files PROVE \A p : HasFile(p) <=> HasFile(p)'
  BY <1>2, <1>3 DEF HasFile
<1>4. /\ search_ptr \in Nat /\ f \in Nat /\ file_num \in Nat
      /\ InodeWords \in Nat
      /\ \A p \in DOMAIN disk.inode : p \in Nat
  BY SizesAssumption, DisksAssumption DEF TypeOK
<1>5. Len(files) \in Nat /\ \A i \in 1..Len(files) : files[i].name \in Nat
  <2> DEFINE File == [name : Nat, inode : DOMAIN disk.inode,
                      bytes : Seq(Int \X (1..BLOCK_SIZE)), lost : Nat]
  <2>1. files \in Seq(File) /\ \A x \in File : x.name \in Nat
    BY DEF TypeOK
  <2> HIDE DEF File
  <2> QED
    BY <2>1
<1>6. ASSUME files' = files, file_num' \in Nat, file_num' >= file_num
      PROVE  NamesInv'
  BY <1>4, <1>5, <1>6 DEF NamesInv
<1>7. CASE FindInode
  <2>1. /\ files' = files /\ file_num' = file_num
        /\ pc = "search" /\ pc' = "check" /\ f' \in DOMAIN disk.inode
        /\ \A q \in DOMAIN disk.inode : q + 2 >= search_ptr => f' <= q
    BY <1>7 DEF FindInode, find_inode
  <2>2. ASSUME NEW p \in DOMAIN disk.inode, Good(p), p < f' PROVE HasFile(p)
    BY <1>4, <2>1, <2>2 DEF SearchInv
  <2>3. SearchInv'
    BY <1>1, <1>2, <1>3, <2>1, <2>2 DEF SearchInv, Copying
  <2> QED
    BY <1>4, <1>6, <2>1, <2>3
<1>8. CASE SearchComplete
  <2>1. /\ files' = files /\ file_num' = file_num
        /\ pc = "search" /\ pc' = "done"
        /\ \A p \in DOMAIN disk.inode : ~find_inode(p)
    BY <1>8 DEF SearchComplete
  <2>2. ASSUME NEW p \in DOMAIN disk.inode PROVE p + 2 < search_ptr
    <3> DEFINE T == {q \in DOMAIN disk.inode : q + 2 >= search_ptr}
    <3>1. T \subseteq Nat
      BY <1>4
    <3>2. ASSUME T # {} PROVE FALSE
      <4>1. PICK q \in T : \A y \in T : q <= y
        BY <3>1, <3>2, Least
      <4>2. find_inode(q)
        BY <4>1 DEF find_inode
      <4> QED
        BY <2>1, <4>2
    <3> QED
      BY <1>4, <3>2
  <2>3. SearchInv'
    BY <1>1, <1>2, <1>3, <2>1, <2>2 DEF SearchInv, Copying
  <2> QED
    BY <1>4, <1>6, <2>1, <2>3
<1>9. ASSUME pc \in Copying \cup {"check"}, NextInode, f' = f,
             \A p \in DOMAIN disk.inode :
               Good(p) /\ ((p < f /\ HasFile(p)) \/ p = f) => HasFile(p)'
      PROVE  SearchInv'
  <2>1. /\ search_ptr' = f + InodeWords /\ pc' = "search"
        /\ f \in DOMAIN disk.inode
    BY <1>9 DEF NextInode, TypeOK, Copying
  <2>2. ASSUME NEW p \in DOMAIN disk.inode, Good(p), p + 2 < f + InodeWords
        PROVE  HasFile(p)'
    <3>1. ~(f < p)
      <4>1. f < p => f + InodeWords <= p + 2
        BY <2>1, <2>2 DEF Apart
      <4> QED
        BY <1>4, <2>2, <4>1
    <3>2. p < f \/ p = f
      BY <1>4, <3>1
    <3> QED
      BY <1>9, <2>2, <3>2 DEF SearchInv
  <2> QED
    BY <1>1, <1>2, <2>1, <2>2 DEF SearchInv, Copying
<1>10. CASE InodeInvalid
  <2>1. /\ files' = files /\ file_num' = file_num + 1 /\ pc = "check"
        /\ NextInode /\ f' = f /\ ~check_inode(Node)
    BY <1>10 DEF InodeInvalid, NextInode
  <2>2. ~Good(f)
    BY <2>1 DEF Sound, Node
  <2>3. SearchInv'
    BY <1>3, <1>9, <2>1, <2>2
  <2> QED
    BY <1>4, <1>6, <2>1, <2>3
<1>11. CASE CloseOutput
  <2> DEFINE file == [name |-> file_num, inode |-> f, bytes |-> out,
                      lost |-> lost]
             File == [name : Nat, inode : DOMAIN disk.inode,
                      bytes : Seq(Int \X (1..BLOCK_SIZE)), lost : Nat]
  <2>1. /\ file \in File
        /\ file.name = file_num /\ file.inode = f /\ file.bytes = out
        /\ file.lost = lost
    BY <1>11 DEF CloseOutput, CopyingOver, TypeOK
  <2>2. files \in Seq(File)
    BY DEF TypeOK
  <2>3. /\ files' = Append(files, file) /\ file_num' = file_num + 1
        /\ NextInode /\ f' = f /\ CopyingOver /\ pc \in Copying
    BY <1>11 DEF CloseOutput, NextInode, CopyingOver, Copying
  <2> HIDE DEF file, File
  <2>4. /\ Len(files') = Len(files) + 1
        /\ \A i \in 1..Len(files) : files'[i] = files[i]
        /\ files'[Len(files) + 1] = file
    BY <2>1, <2>2, <2>3, AppendProperties
  <2>5. ASSUME NEW p, HasFile(p) PROVE HasFile(p)'
    BY <1>2, <1>5, <2>4, <2>5 DEF HasFile
  <2>6. ASSUME Good(f) PROVE HasFile(f)'
    <3>1. lost \in Nat
      BY DEF TypeOK
    <3>2. lost > 0 \/ out = Content(disk.inode[f])
      BY <2>3, <2>6, <3>1, Complete DEF Node
    <3>3. Len(files) + 1 \in 1..Len(files')
      BY <1>5, <2>4
    <3> QED
      BY <1>2, <2>1, <2>3, <2>4, <3>2, <3>3 DEF HasFile
  <2>7. SearchInv'
    BY <1>9, <2>3, <2>5, <2>6
  <2>8. NamesInv'
    <3>1. ASSUME NEW i \in 1..Len(files')
          PROVE  \/ i \in 1..Len(files) /\ files'[i].name = files[i].name
                 \/ i = Len(files) + 1 /\ files'[i].name = file_num
      BY <1>5, <2>1, <2>4
    <3>2. ASSUME NEW i \in 1..Len(files') PROVE files'[i].name < file_num'
      BY <1>4, <1>5, <2>3, <3>1 DEF NamesInv
    <3>3. ASSUME NEW i \in 1..Len(files'), NEW j \in 1..Len(files'), i # j
          PROVE  files'[i].name # files'[j].name
      <4>1. \A k \in 1..Len(files) : files[k].name # file_num
        BY <1>4, <1>5 DEF NamesInv
      <4> QED
        BY <3>1, <3>3, <4>1 DEF NamesInv
    <3> QED
      BY <3>2, <3>3 DEF NamesInv
  <2> QED
    BY <2>7, <2>8
<1>12. ASSUME UNCHANGED <<f, files, file_num>>, pc \in Copying \cup {"check"},
              pc' \in Copying \cup {"exit"}
       PROVE  SearchInv' /\ NamesInv'
  <2>1. SearchInv'
    BY <1>1, <1>2, <1>3, <1>12 DEF SearchInv, Copying
  <2> QED
    BY <1>4, <1>6, <1>12, <2>1
<1>13. CASE UNCHANGED vars
  <2>1. UNCHANGED <<f, files, file_num, pc, search_ptr>>
    BY <1>13 DEF vars
  <2>2. SearchInv'
    BY <1>1, <1>2, <1>3, <2>1 DEF SearchInv
  <2> QED
    BY <1>4, <1>6, <2>1, <2>2
<1>14. CASE OpenOutput \/ CopyDirect \/ FollowIblocks \/ FollowI2block
            \/ FollowI3block \/ FollowI2ofI3
  BY <1>12, <1>14 DEF OpenOutput, CopyDirect, FollowIblocks, FollowI2block,
     FollowI3block, FollowI2ofI3, Copying
<1>15. CASE NoPointersFatal \/ EnterI1block \/ SkipI1block \/ CopyIndirect
            \/ ReturnI1block \/ IOError
  BY <1>12, <1>15 DEF NoPointersFatal, EnterI1block, SkipI1block,
     CopyIndirect, ReturnI1block, IOError, CopyingOver, Copying
<1> QED
  BY <1>7, <1>8, <1>10, <1>11, <1>13, <1>14, <1>15 DEF Next, MainStep, Ended

\* The strengthened invariant holds throughout.
THEOREM FileInvariance == Spec => []FileInv
<1>1. Init => FileInv
  <2> SUFFICES ASSUME Init PROVE FileInv
    OBVIOUS
  <2>1. Inv /\ TypeOK
    BY InitInv DEF Inv
  <2>2. PositionInv /\ NamesInv
    BY DEF Init, PositionInv, NamesInv, Copying
  <2>3. \A p \in DOMAIN disk.inode : p \in Nat
    BY <2>1, DisksAssumption DEF TypeOK
  <2>4. SearchInv
    BY <2>3 DEF Init, SearchInv, Copying
  <2> QED
    BY <2>1, <2>2, <2>4 DEF FileInv
<1>2. FileInv /\ [Next]_vars => FileInv'
  BY NextInv, NextPosition, NextSearch DEF FileInv
<1> QED
  BY <1>1, <1>2, PTL DEF Spec

\* When the search is over, every sound inode that no earlier match hides and
\* that needs no triply indirect block has been recovered byte for byte, unless
\* the program itself gave a block up, and no file took the name of another.
THEOREM RecoveredCorrect == Spec => []Recovered
<1>1. FileInv => Recovered
  BY DEF FileInv, SearchInv, NamesInv, HasFile, Recovered, RecoveredUpTo
<1> QED
  BY <1>1, FileInvariance, PTL

==============================================================================
