SPECIFICATION Spec
CONSTANTS
  Monitors = {m1}
  Workers = {w1, w2}
  Requests = {r1}
  Incidents = {i1, i2}
  Results <- TwoResults
  NoMonitor = NoMonitor
  NoIncident = NoIncident
  NoTx = NoTx
  MaxQueue = 1
  MaxAborts = 1
SYMMETRY Symmetry
INVARIANTS
  AtMostOneOpenIncident
  StatusMatchesIncidents
  IncidentsAnnounced
PROPERTIES
  ChecksKeepConfiguration
  RefinesLifecycle
  RefinesTurns
