SPECIFICATION Spec
CONSTANTS
  Procs = {p1, p2}
  Names = {n1, n2}
  Creds = {c1, c2}
  None = None
SYMMETRY Symmetry
VIEW Seen
INVARIANTS
  TypeOK
  FileWhole
  DefaultListed
  ListedHasPair
  AnswerWhole
