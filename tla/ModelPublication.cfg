SPECIFICATION Spec
CONSTANTS
  Workers = {w1, w2}
  Runs = {g1, g2}
  NoRun = NoRun
  Nobody = Nobody
INVARIANT
  PublishedPassed
