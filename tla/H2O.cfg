\* Atoms that have no match wait for ever.
CHECK_DEADLOCK FALSE
CONSTANTS
  NumAtoms = 6
SPECIFICATION FairSpec
INVARIANTS WaterIsBonded
PROPERTIES Refines MatchesResolved
