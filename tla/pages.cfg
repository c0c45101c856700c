SPECIFICATION PagesSpec
CONSTANTS
  w1 = w1
  w2 = w2
  Texts <- TwoTexts
  Known <- OneText
  Seed <- SeedText
  Batches <- MixedBatches
  MAX_EVENTS = 2
  MaxNotices = 0
  MaxAdvances = 3
  MaxSteps = 2
  MaxTroubles = 1
  Script <- ToolThenText
  MaxReplies = 2
  MaxStreams = 1
  MaxSelects = 1
  MaxReloads = 1
  Pages = {"gift", "chat"}
INVARIANTS ShownIsStored ToldInTheEnd PageShowsAll
PROPERTIES GiftSettles
CHECK_DEADLOCK FALSE
