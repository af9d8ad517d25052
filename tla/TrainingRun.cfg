SPECIFICATION FairSpec
CONSTANTS
  Workers = {w1, w2}
  MaxCrashes = 1
INVARIANTS
  StatusBacked
  NoGhostRunner
  CursorNeverAhead
PROPERTY
  KeepsBoard
  EveryRunEnds
