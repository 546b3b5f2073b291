SPECIFICATION FairSpec
CONSTANTS
  Session = {s1, s2}
  Chan = {h1, h2, h3}
  Loop = {l1}
  Starter = Starter
  Closer = Closer
  Reloader = {}
  Login = {}
  Lister = {}
  Caller = {k1}
  Config = {c1}
  Disabled = {}
  None = None
  Patient = TRUE
CHECK_DEADLOCK FALSE
PROPERTIES
  CallersAnswered
  CloseEnds
