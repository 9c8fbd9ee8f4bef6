SPECIFICATION Spec
CONSTANTS
  Places = {p1, p2}
  Callers = {c1, c2}
  None = None
SYMMETRY Symmetry
INVARIANTS
  TypeOK
  RowsAgree
PROPERTY ImplementsEnrollmentLedger
