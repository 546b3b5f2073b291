SPECIFICATION Spec
CONSTANTS
  Session = {s1, s2}
  Chan = {h1, h2}
  Loop = {l1, l2}
  Starter = Starter
  Closer = Closer
  Reloader = {}
  Login = {p1}
  Lister = {t1, t2}
  Caller = {}
  Config = {c1}
  Disabled = {}
  None = None
  Patient = TRUE
CHECK_DEADLOCK FALSE
SYMMETRY Symmetry
INVARIANTS
  ToolsOfTheSession
