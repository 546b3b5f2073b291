SPECIFICATION FairSpec
CONSTANTS
  t1 = t1
  t2 = t2
  e1 = e1
  s1 = s1
  ToolCalls = {}
  EventAcks = {e1}
  StreamStarts = {s1}
  Timeout <- CallDeadlines
  MaxQuiet = 1
  InboxMax = 1
  Works = {}
  None = None
CHECK_DEADLOCK FALSE
PROPERTIES
  AckBounded
  ClosedEndsCalls
