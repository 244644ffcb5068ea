SPECIFICATION PollingSpec
CONSTANTS
  Clicks = {k1, k2}
  Polls = {p1, p2}
  NoPolling = NoPolling
  MaxClicks = 2
  MaxChecks = 2
  MaxTimeouts = 2
  MaxFailures = 1
CHECK_DEADLOCK FALSE
PROPERTIES
  CompletedMeansChecked
  TimersStop
  PollingTerminates
