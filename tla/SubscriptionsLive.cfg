SPECIFICATION FairSpec
CONSTANTS
  teacher = teacher
  Teachers <- MCTeachers
  Owner <- MCOwner
  Subs = {s1, s2}
  Callers = {c1}
  Instances = {n1}
  BatchSize = 1
PROPERTY LapsedTrialsExpire
