SPECIFICATION FairSpec
CONSTANTS
  Callers = {c1, c2, c3}
  Workers = {w1, w2}
  Attempts = 3
  None = None
INVARIANTS
  TypeOK
  StorageAgrees
  EncodingEarned
PROPERTY EncodingEnds
PROPERTY ImplementsAssetLedger
CHECK_DEADLOCK FALSE
