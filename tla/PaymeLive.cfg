SPECIFICATION FairSpec
CONSTANTS
  teacher = teacher
  student = student
  group = group
  Teachers <- MCTeachers
  Students <- MCStudents
  Groups <- MCGroups
  Owner <- MCOwner
  Subs = {s1}
  Workers = {w1}
  Payments = {p1, p2}
  Invoices = {i1, i2}
  About <- OnePlaceOneSub
PROPERTY PaymentsSettle
