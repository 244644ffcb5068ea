SPECIFICATION LimiterSpec
CONSTANTS
  MaxAttempts = 2
  WindowSeconds = 2
  Second = 2
  Horizon = 10
  MaxRefused = 2
CHECK_DEADLOCK FALSE
INVARIANTS
  WindowIsLimited
PROPERTIES
  RetryAfterIsEnough
  RefinesSlidingWindow
