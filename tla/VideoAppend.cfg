SPECIFICATION Spec
CONSTANTS
  w1 = w1
  w2 = w2
  b1 = b1
  b2 = b2
  v1 = v1
  v2 = v2
  Workers = {w1, w2}
  Batches = {b1, b2}
  Videos = {v1, v2}
  NoBatch = NoBatch
  MaxTroubles = 2
SYMMETRY Symmetry
INVARIANTS
  TypeOK
  RowsHaveFiles
  KeptStaysUnlessContested
  ManifestAgrees
PROPERTY
  NothingLeft
