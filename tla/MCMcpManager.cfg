SPECIFICATION Spec
CONSTANTS
  Session = {s1, s2}
  Chan = {h1, h2}
  Loop = {l1, l2}
  Starter = Starter
  Closer = Closer
  Reloader = {r1}
  Login = {}
  Lister = {}
  Caller = {}
  Config = {c1, c2, off}
  Disabled = {off}
  None = None
  Patient = TRUE
CHECK_DEADLOCK FALSE
SYMMETRY Symmetry
INVARIANTS
  
  NothingInstalledAfterClose
  
  AgentHasTheTools
