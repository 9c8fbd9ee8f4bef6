SPECIFICATION Spec
CONSTANTS
  teacher = teacher
  Teachers <- MCTeachers
  Owner <- MCOwner
  Subs = {s1, s2}
  Callers = {c1, c2}
  Instances = {n1}
  BatchSize = 2
SYMMETRY Symmetry
INVARIANTS
  TypeOK
  OneLivePerTeacher
  EventsTellTheTruth
PROPERTIES
  TrialRunsItsCourse
  ImplementsLedger
