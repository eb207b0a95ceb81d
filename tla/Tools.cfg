\* The tools at the interface's door and the model's, timers, and what is shown.
SPECIFICATION RuntimeSpec
CONSTANTS
  Timers = {t1}
  MaxDuration = 2
  MaxItemSeq = 3
  ListRequests <- MCListRequests
  FloatMax = 10
  I64Max = 3000
  SpanMax = 2900
  DateMax = 4000
  Requests <- MCRequests
  Texts <- MCTexts
INVARIANTS OneTicker GeneratedIdsDistinct AnswerIsExact DoorsAgree ShownIsClean
PROPERTIES RunningTimerRests
CHECK_DEADLOCK FALSE
