SPECIFICATION FilesSpec
CONSTANTS
  Store = {p1}
  File = {f1, f2, archive}
  ReadOnly = {archive}
  NoStore = NoStore
  NoFile = NoFile
  MaxEntries = 4
  Crashes = FALSE
  MaxExposed = 1
  Commander = Commander
  Event = {e1}
  Reader = {r1}
  Transcript = {t1, t2, t3}
  First = t1
  Legacy = {t2}
  None = None
  MaxState = 2
  MaxEdits = 1
  MaxSwitches = 1
  MaxDeaths = 1
  MaxErrors = 1
  a1 = a1
  a2 = a2
  b1 = b1
  q1 = q1
  q2 = q2
  Writer = {a1, a2, b1}
  Process = {q1, q2}
  Keep = 2
  Full = 1
  Owner <- WriterOwner
  Nobody = Nobody
  MaxLines = 3
CONSTRAINTS
  FewExposed
  FewFaults
CHECK_DEADLOCK FALSE
INVARIANTS
  AckedSurvives
  SettingsInPlace
  NothingIsLost
PROPERTIES
  ReadOnlyUntouched
