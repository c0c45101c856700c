SPECIFICATION Spec
CONSTANTS
  c1 = c1
  c2 = c2
  None = None
  Turns = {c1, c2}
  MaxCalls = 2
INVARIANTS ToolsAreOwn
CHECK_DEADLOCK FALSE
