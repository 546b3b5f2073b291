SPECIFICATION FairSpec
CONSTANTS
  Worker = {w1, w2, w3}
  Key = {k1, k2}
  Nobody = Nobody
  MaxChanges = 4
  MaxClock = 1
  Faults = TRUE
  Crashes = TRUE
CHECK_DEADLOCK FALSE
INVARIANTS
  SavedWhenIdle
  LatestWins
PROPERTIES
  DiskNeverGoesBack
  EventuallySaved
