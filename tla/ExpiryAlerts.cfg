SPECIFICATION Spec
CONSTANTS
  Tasks = {t1, t2}
  Kinds = {"ssl"}
  Thresholds = {0, 1}
  NoDate = NoDate
  Horizon = 1
  LastExpiry = 1
  MaxFailures = 1
  MaxCrashes = 1
  MaxMoves = 1
SYMMETRY Symmetry
CHECK_DEADLOCK FALSE
INVARIANTS
  RecordedThresholdsWereSent
  WarnedOncePerThreshold
  ExpiringDateIsWarned
