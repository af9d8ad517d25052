SPECIFICATION Spec
CONSTANTS
  Workers = {w1}
  MaxCrashes = 0
INVARIANT
  CompletionIsKept
