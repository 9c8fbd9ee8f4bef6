SPECIFICATION FairSpec
CONSTANTS
  Callers = {c1, c2}
  Workers = {w1, w2}
  MaxSessions = 1
  MaxEgresses = 2
  Attempts = 2
INVARIANTS
  TypeOK
  RecordingMatchesSession
  OptOutRespected
  EventsMatchSessions
PROPERTY ImplementsSessionLedger
PROPERTY EndedIsRecorded
