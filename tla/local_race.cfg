SPECIFICATION Spec
CONSTANTS
  Procs = {p1, p2}
  Names = {n1, n2}
  Creds = {c1}
  None = None
INVARIANT FileNeverBlank
