SPECIFICATION Spec
CONSTANTS
  t1 = t1
  t2 = t2
  e1 = e1
  s1 = s1
  ToolCalls = {t1, t2}
  EventAcks = {}
  StreamStarts = {}
  Timeout <- CallDeadlines
  MaxQuiet = 1
  InboxMax = 1
  Works = {"call_tool", "exec"}
  None = None
CHECK_DEADLOCK FALSE
INVARIANTS
  WaitersToldOnce
PROPERTIES
  NotClippedMidWork
  ImplementsOneShot
