SPECIFICATION Spec
CONSTANTS
  NumWhales = 5
INVARIANT MatchesResolved
