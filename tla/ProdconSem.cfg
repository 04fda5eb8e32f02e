SPECIFICATION FairSpec
CONSTANTS
  BufferLen = 3
  Items = {x, y}
  None = none
INVARIANTS SemaphoresCount
PROPERTIES Refines BothProgress
