SPECIFICATION Spec
CONSTANTS
  w1 = w1
  w2 = w2
  s1 = s1
  s2 = s2
  Worker = {w1, w2}
  Store = {s1, s2}
  Owner <- Processes
  Account = {a1, a2}
  Spare = {a3}
  Default = Default
  NoSlot = NoSlot
  NoCred = NoCred
  Nobody = Nobody
  MaxTokens = 2
  MaxCalls = 3
  Faults = TRUE
CHECK_DEADLOCK FALSE
SYMMETRY ProcessSymmetry
INVARIANTS
  SpentOnce
  NobodyStranded
PROPERTIES
  OtherSlotsKept
