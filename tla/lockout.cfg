SPECIFICATION Spec
CONSTANTS
  Ips = {a, b, c, d}
  Nobody = Nobody
  Threads = {t1, t2, t3}
  LockoutMax = 3
  StateMax = 2
SYMMETRY Symmetry
INVARIANTS
  TypeOK
  GuessesBounded
  SizeBounded
PROPERTY
  ForgottenLast
