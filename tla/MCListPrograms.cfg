\* Both programs end.
CHECK_DEADLOCK FALSE
SPECIFICATION FairProgramSpec
CONSTANTS
  Items = {i1, i2, i3, i4}
  NULL = null
  MaxThreads = 4
  MaxWords = 4
  Strings = {1, 2, 3, 4}
  Words = {1, 2, 4}
  Extensions <- MCExtensions
INVARIANTS ListInv Printed
PROPERTIES Refines EveryThreadRuns EndsClean
