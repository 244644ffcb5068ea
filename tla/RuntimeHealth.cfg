SPECIFICATION HealthSpec
CONSTANTS
  Workers = {w1, w2}
  Loads = {l1, l2}
  Second = 2
  Stale = 0
  KeyLife = 3
  ReadTime = 1
  CacheTTL = 1
  Horizon = 4
  MaxTimeouts = 1
  MaxLoads = 2
  MaxPings = 2
SYMMETRY Symmetry
CHECK_DEADLOCK FALSE
INVARIANTS
  OkMeansRecentPing
  DegradedHasAReason
PROPERTIES
  PanelNeverGoesBack
