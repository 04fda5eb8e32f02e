SPECIFICATION FairSpec
CONSTANTS
  N_DBLOCKS = 1
  N_IBLOCKS = 1
  BLOCK_SIZE = 2
  PointersPerBlock = 2
  InodeWords = 12
  Disks <- AnyDisks
  PastBuffer = {TRUE, FALSE}
INVARIANTS BlocksInRange CountsAgree UnusedNotCopied Recovered
PROPERTIES Terminates
