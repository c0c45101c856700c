SPECIFICATION Spec
CONSTANTS
  a1 = a1
  a2 = a2
  p1 = p1
  Segments = {a1}
  First = a1
  Readers = {p1}
  MaxEvents = 20
  MaxBatch = 2
  MaxRetries = 0
  MaxSteps = 1
  MaxCrashes = 0
  MaxFaults = 0
  StreamsText = TRUE
  AnswersAnytime = FALSE
INVARIANTS NoEventMissed
CHECK_DEADLOCK FALSE
