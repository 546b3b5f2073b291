SPECIFICATION Spec
CONSTANTS
  Prompts = {p1, p2}
  Loads = {l1}
  Releases = {r1}
  Reaper = Reaper
  Closer = Closer
  Entry = {e1, e2}
  Transcript = {t1, t2, t3}
  First = t1
  Outsider = Outsider
  MaxCrashes = 2
  None = None
CHECK_DEADLOCK FALSE
CONSTRAINT RacedInOneServer
SYMMETRY Symmetry
INVARIANTS
  TornDownOnce
  RehydrateReplacesNothing
  TurnsKept
PROPERTIES
  NoRevival
