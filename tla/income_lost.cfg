SPECIFICATION Spec
CONSTANTS
  Ids <- MCIds
  Stamp <- MCStamp
  Spans <- MCSpans
  Week = 4
  Limit = 2
INVARIANT IncomeComplete
