SPECIFICATION FairSpec
CONSTANTS
  Workers = {w1, w2}
  MaxItems = 2
  MaxCrashes = 2
INVARIANTS
  NoGhostRunner
  NothingSwallowed
PROPERTY
  KeepsBoard
  
