SPECIFICATION FairSpec
CONSTANTS
  NumWhales = 6
INVARIANTS QueueInv OnePairAtATime LeftBehind
PROPERTIES ComesToRest
