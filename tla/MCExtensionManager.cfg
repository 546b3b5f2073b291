SPECIFICATION Spec
CONSTANTS
  Exts = {a, b}
  Packaged = {}
  AuthExts = {a, b}
  Rank <- MCRank
  ClashExts = {}
  Boot = Boot
  Reloads = {r1}
  Ones = {o1, o2}
  Stops = {s1}
  Instances <- MCInstances
  MaxEdits = 1
  None = None
CHECK_DEADLOCK FALSE
SYMMETRY Symmetry
CONSTRAINT RacedUnedited
INVARIANTS
  RunsOnceAndKnown
  StopIsFinal
  AuthOwnerIsUp
  ToolsAnswered
