SPECIFICATION Spec
CONSTANTS
  teacher = teacher
  student = student
  group = group
  Teachers <- MCTeachers
  Students <- MCStudents
  Groups <- MCGroups
  Owner <- MCOwner
  Subs = {}
  Workers = {w1}
  Payments = {p1, p2}
  Invoices = {i1}
  About <- AllForOnePlace
PROPERTY PerformMarksInvoice
