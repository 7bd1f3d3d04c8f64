SPECIFICATION PageFairSpec
CONSTANTS
  Tasks = {t1, t2}
  NoTask = NoTask
INVARIANTS PageTypeOK ResultIsOwn ResultIsKept
PROPERTIES AnswersStick JobsSettle PollingEnds
