\* The shell ends.
CHECK_DEADLOCK FALSE
SPECIFICATION FairSpec
CONSTANTS
  BufBase = 10
  TokenBase = 4
  MaxTokens = 4
  Lengths = {9, 10, 11, 16}
  MaxForks = 2
INVARIANTS ForegroundFirst QuietInBackground
PROPERTIES PromptReturns
