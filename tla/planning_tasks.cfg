SPECIFICATION Spec
CONSTANTS
  a1 = a1
  a2 = a2
  p1 = p1
  Segments = {a1, a2}
  First = a1
  Readers = {}
  MaxEvents = 3
  MaxBatch = 2
  MaxRetries = 1
  MaxSteps = 1
  MaxCrashes = 1
  MaxFaults = 1
  StreamsText = TRUE
  AnswersAnytime = TRUE
INVARIANTS TypeOK SeqsDense RunningHasTask
CHECK_DEADLOCK FALSE
