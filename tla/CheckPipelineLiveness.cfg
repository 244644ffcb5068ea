SPECIFICATION FairSpec
CONSTANTS
  Monitors = {m1}
  Workers = {w1, w2}
  Requests = {r1}
  Incidents = {i1}
  Results <- TwoResults
  NoMonitor = NoMonitor
  NoIncident = NoIncident
  NoTx = NoTx
  MaxQueue = 1
  MaxAborts = 1
PROPERTY DueMonitorIsChecked
