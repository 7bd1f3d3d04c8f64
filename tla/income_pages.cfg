SPECIFICATION FairSpec
CONSTANTS
  Ids <- MCIds
  Stamp <- MCStamp
  Spans <- MCSpans
  Week = 4
  Limit = 2
INVARIANTS TypeOK EachRowOnce NoInstantLost
PROPERTY IncomeEnds
