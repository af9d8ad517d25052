SPECIFICATION FairSpec
CONSTANTS
  Workers = {w1}
  MaxItems = 1
  MaxCrashes = 1
PROPERTY
  EveryRunEnds
