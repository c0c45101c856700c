SPECIFICATION Spec
CONSTANTS
  Services = {"mcp", "threads", "monitors", "products", "archive", "gifts", "chat"}
  a = a
  b = b
  Threads = {1, 2}
  Listing = {2}
  ThreadIds = {a, b}
  Goods <- MCGoods
  Categories = {"bedroom", "study"}
  Subtotals = {0, 2}
  MAX_EVENTS = 4
  MAX_PER_CAT = 1
  MAX_DECISION_RETRIES = 1
  MaxProcs = 2
  MaxIds = 3
  MaxStrays = 3
  MaxLate = 1
  MaxDeaths = 1
  MaxRequests = 4
  MaxFailures = 1
  MaxNotices = 5
  MaxFound = 3
  MaxDropped = 1
  MaxDecisions = 2
  MaxRounds = 1
  Monitored = {"price", "deal", "coupon", "rank", "shop", "agent"}
  Prices = {0, 6600, 9504, 10000}
  Full = 10000
  Ranks = 5
  WindowDays = 1
  SoonDays = 1
  MinFace = 5
  MaxDay = 3
  MaxChecks = 2
  Shelves <- MCShelves
  MaxSteps = 3
  MaxGiftCalls = 2
  MaxAnswers = 1
  Records = {1, 2}
  Loops = {1}
  MaxWrites = 3
  MaxMishaps = 1
  PickLists <- MCPicks
  MaxTexts = 1
  MaxStreamCalls = 3
  MaxAtOnce = 2
  MaxParts = 4
  MaxLag = 1
INVARIANTS OneProcess FailuresArePaid ListsAgree NoticesAreTrue  DocsAgree 
            PageIsHistory
CHECK_DEADLOCK FALSE
