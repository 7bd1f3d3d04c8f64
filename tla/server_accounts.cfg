SPECIFICATION Spec
CONSTANTS
  Names = {n1, n2}
  GoodKeys = {g1, g2}
  BadKeys = {b}
  MasterKeys = {m1, m2}
  Reqs = {r1, r2}
  NoKey = NoKey
INVARIANTS
  TypeOK
  UpMeansReadable
  PermsBelong
  UnknownIsTransient
PROPERTY
  KeepsRegistry
