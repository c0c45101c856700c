SPECIFICATION Spec
CONSTANTS
  Components = {"loop", "tool call", "belt", "tools", "context", "files"}
  Turns = {t1, t2}
  t1 = t1
  t2 = t2
  Known = {"default", "mini"}
  Asked = {"default", "mini", "gone"}
  DefaultModel = "default"
  GraphModel = "mini"
  Ttl = 1
  StepLimit = 8
  RunLimit = 1
  MaxPerAnswer = 1
  MaxOutages = 2
  MaxClock = 1
  Tools = {"coroutine", "function"}
  MaxRetries = 2
  InThread = {"function"}
  Servers = {"taobao", "other"}
  HARDCODED = {"taobao"}
  ServedBy <- MCServed
  WHITELIST = {"search", "goods"}
  LocalTools = {"find_archive"}
  UserTools = {"find_archive"}
  ALLOWED = {"find_archive"}
  Configured = {"search", "goods"}
  Users = {"u1", "u2"}
  Chats = {1}
  Lookups = {2}
  CACHE_TTL = 1
  MaxEvents = 2
  n1 = n1
  Paths = {n1}
  MaxCalls = 2
  MaxPerStep = 2
  MaxWork = 1
  MaxTurns = 2
  Results <- MCResults
  Trigger = 10
  Retention = 6
  Threshold = 2
  MaxModelCalls = 4
  MaxToolCalls = 2
  PathParts <- MCPathParts
  FileNames <- MCFileNames
  Longer <- MCLonger
  Disk <- MCDisk
  Texts <- MCTexts
  Words = {"u", "v"}
  Outputs <- MCOutputs
  PageSize = 3
  SkillNames = {"calm", "bold"}
  MaxChanges = 2
INVARIANTS LoopServes BeltsAreTrue CallsAnswered WorkKept SummaryIsSafe FilesAreFound
PROPERTIES TurnsEnd EveryStartEnds ServersReturn
CHECK_DEADLOCK FALSE
