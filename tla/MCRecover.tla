------------------------------ MODULE MCRecover ------------------------------
(***************************************************************************)
(* Disks for module Recover: one direct and one indirect block in an       *)
(* inode, two pointers and two bytes in a block.                           *)
(***************************************************************************)
EXTENDS Recover, TLC

Ino(size, d, i1, i2, i3) ==
  [size |-> size, dblocks |-> <<d>>, iblocks |-> <<i1>>, i2block |-> i2,
   i3block |-> i3]

\* Disks as a file system writes them: the blocks of the file are all
\* different.  Its data are in blocks 1 to 15, in this order.
Tree == [b \in 0..25 |->
  CASE b = 16 -> <<2, 3>>
    [] b = 17 -> <<19, 20>>
    [] b = 18 -> <<21, 22>>
    [] b \in 19..20 -> <<4 + 2 * (b - 19), 5 + 2 * (b - 19)>>
    [] b \in 21..22 -> <<23 + 2 * (b - 21), (24 + 2 * (b - 21)) % 26>>
    [] b \in 23..25 -> <<8 + 2 * (b - 23), 9 + 2 * (b - 23)>>
    [] OTHER -> <<1000, -1>>]

OnTree(inodes) == [max_block_number |-> 26, block |-> Tree, inode |-> inodes]

TreeInode(size) == Ino(size, 1, 16, 17, 18)

TreeDisks == {OnTree(0 :> TreeInode(size)) : size \in 0..26}

\* Three matches, of which the second is no inode and may be so near that the
\* first or the third of them hides or is hidden.
CrowdedDisks ==
  {OnTree(a :> TreeInode(3) @@ b :> Ino(4, 26, 0, 0, 0) @@ c :> TreeInode(1)) :
     a \in 0..1, b \in {8, 10, 12}, c \in {17, 19, 20, 22, 24}}

\* Disks of two blocks that hold anything, with pointers to themselves, to
\* each other and beyond the end.
SmallDisks ==
  {[max_block_number |-> 2, block |-> (0 :> <<w, x>> @@ 1 :> <<y, z>>),
    inode |-> (0 :> Ino(size, 1, p[1], p[2], p[3]))] :
     w \in 0..2, x \in 0..2, y \in 0..2, z \in 0..2, size \in {-1, 3, 13, 17},
     p \in {<<0, 1, 0>>, <<1, 0, 1>>, <<1, 1, 0>>,
            <<2, 0, 0>>, <<0, 2, 0>>, <<0, 0, 2>>}}

AnyDisks == TreeDisks \cup CrowdedDisks \cup SmallDisks
==============================================================================
