SPECIFICATION Spec
CONSTANTS
  Places = {p1}
  Callers = {c1}
  None = None
PROPERTY ApprovalEnrolls
