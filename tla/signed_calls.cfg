SPECIFICATION Spec
CONSTANTS
  Attempts = 2
  OpenTimeout = 1
  WriteTimeout = 1
  ReadTimeout = 2
  Pieces = 1
  BaseSleep = 1
  Backoff <- MCBackoff
  Jitter = 1
  RecvWindow = 2
  Deadlines = {3, 100}
  RetryAfter = {0, 4}
  Skews <- MCSkews
INVARIANTS
  TypeOK
  EstimateNeverAhead
  PromptIsAccepted
  VerifiedIsProven
  ElapsedBounded
CHECK_DEADLOCK FALSE
