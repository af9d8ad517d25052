SPECIFICATION Spec
CONSTANTS
  Jobs = {j1, j2}
  Folders = {candidates, selected}
  Home = candidates
  Nowhere = nowhere
  Requests = {r1}
  NoRequest = none
  Annotators = {a1, a2}
  Shapes = {s1, s2}
  NoShape = none
  Archives = {a, b}
  NoArchive = none
  Collections = {c, d}
  Batches = {fb}
  Videos = {u, v}
  Nobody = nobody
  Names = {x, y}
  NoName = none
  Shipped = shipped
  Bare = y
INVARIANTS
  TypeOK FramesHold EditsAreSeen ImportedIsItsArchive ReleaseHasItsFiles BackupsHold
  SplitsSound RetriesEnd LeaksAreFound GatePassesMatch CaptureFilesHold ImageBatchHolds
  CascadeSpares
PROPERTIES KeepsBoard JobsEnd PurgedFromBin
CHECK_DEADLOCK FALSE
