SPECIFICATION FairSpec
CONSTANTS
  h1 = h1
  h2 = h2
  p1 = p1
  MaxTurns = 2
  Threads = {h1}
  Pages = {p1}
  MaxHistory = 2
  MaxChunks = 1
INVARIANTS NothingSkipped EndMeansSaved OneStory
PROPERTIES ConnectionsEnd
CHECK_DEADLOCK FALSE
