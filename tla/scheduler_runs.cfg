SPECIFICATION MCSpec
CONSTANTS
  t1 = t1
  e1 = e1
  e2 = e2
  Tasks = {t1}
  Runs = {e1, e2}
  LockOutlived = FALSE
  MaxFailures = 1
  Sides = {"scheduler", "page"}
  Tabs = {"tab"}
  FEED_LIMIT = 1
  FEED_SCAN = 2
  Overtakes = FALSE
  StaysOpen = FALSE
  MaxLogs = 2
  MaxMessages = 1
  MaxRequests = 2
  MaxVisits = 2
  MaxCuts = 1
  MaxCleanUps = 1
INVARIANTS OneAtATime CountsExact RunningLogIsTrue FinishedIsTold
            
 
CHECK_DEADLOCK FALSE
