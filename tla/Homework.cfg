SPECIFICATION FairSpec
CONSTANTS
  Callers = {c1, c2}
  Workers = {w1, w2}
  Versions = {v1}
  Attempts = 2
  None = None
INVARIANTS
  TypeOK
  RowsAgree
PROPERTY ImplementsSubmissionLedger
PROPERTY PrecheckHappens
PROPERTY OneFeedback
