SPECIFICATION FairSpec
CONSTANTS
  a1 = a1
  a2 = a2
  p1 = p1
  Segments = {a1, a2}
  First = a1
  Readers = {p1}
  MaxEvents = 20
  MaxBatch = 2
  MaxRetries = 1
  MaxSteps = 1
  MaxCrashes = 0
  MaxFaults = 0
  StreamsText = FALSE
  AnswersAnytime = FALSE
INVARIANTS DeliveredHasPlan
PROPERTIES FeedSpec ProductsKept Settles
CHECK_DEADLOCK FALSE
