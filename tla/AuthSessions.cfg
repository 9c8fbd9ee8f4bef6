SPECIFICATION FairSpec
CONSTANTS
  Phones = {p1}
  Requests = {1, 2}
  MaxRows = 3
  MaxCutOffs = 1
  MaxKills = 1
  NoPhone = NoPhone
INVARIANTS
  TypeOK
  PhoneNeverReplays
  OneSession
  NoFalseAlarm
PROPERTY RequestsEnd
CHECK_DEADLOCK FALSE
