SPECIFICATION FairSpec
CONSTANTS
  Texts = {bt, eth}
  Short = Short
  None = None
  Requests = {r1, r2}
  Ttl = 3
  Load = 1
INVARIANTS
  TypeOK
  ServedFresh
  QuietIsCurrent
PROPERTY
  OptionsCome
