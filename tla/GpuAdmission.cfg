SPECIFICATION FairSpec
CONSTANTS
  t1 = t1
  i1 = i1
  r1 = r1
  r2 = r2
  e1 = e1
  key = key
  Trains = {t1}
  Infers = {i1}
  Retries = {r1, r2}
  Recovers = {e1}
  KeyOf <- MCKeyOf
  Nobody = Nobody
INVARIANTS
  TypeOK
  SharedOnlyByBypass
  OneChildUnlessOverlapped
PROPERTY
  GuardComesFree
