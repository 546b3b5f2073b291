SPECIFICATION SessionSpec
CONSTANTS
  m1 = m1
  m2 = m2
  r1 = r1
  r2 = r2
  Store = {p1, p2}
  File = {f1, f2, f3}
  ReadOnly = {}
  NoStore = NoStore
  NoFile = NoFile
  MaxEntries = 4
  Crashes = TRUE
  MaxExposed = 1
  Message = {m1, m2}
  Restart = {r1, r2}
  Context = {brief}
  Briefing = brief
  Prompt = Prompt
  None = None
  MaxReplies = 4
  MaxCallers = 3
CONSTRAINTS
  FewExposed
  FewFiles
  FewEntries
  FewCallers
  FewReplies
  Unhurried
CHECK_DEADLOCK FALSE
SYMMETRY SessionSymmetry
\* In the place of CarriedOnce: NeverCarriedTwice.
INVARIANTS
  SingleWriter
  MemoryIsOnDisk
  ParentsComeFirst
  NothingForgotten
  CarriedOnce
  NotRunningForever
  ContextsInPlace
PROPERTIES
  AppendOnly
