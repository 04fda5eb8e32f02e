SPECIFICATION FairSpec
CONSTANTS
  Threads = {main, a, b, c}
  Main = main
  Priorities = {1, 2}
  NULL = null
  QsortStable = TRUE
INVARIANTS RingInv ThreadBufFits QueueInv MutualExclusion
PROPERTIES HandOff NoBarging TopRuns TopWaiterServed PriorityRespected
