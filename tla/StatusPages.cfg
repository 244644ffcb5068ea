SPECIFICATION Spec
CONSTANTS
  Pages = {p1, p2}
  Slugs = {s1, s2}
  Monitors = {m1, m2}
  m1 = m1
  m2 = m2
  Requests = {r1, r2}
  Bodies <- MCBodies
  NoPage = NoPage
  NoSlug = NoSlug
  Unset = Unset
  IncidentLimit = 1
  MaxIncidents = 2
  MaxRequests = 3
  MaxFailures = 1
SYMMETRY Symmetry
CHECK_DEADLOCK FALSE
INVARIANTS
  DownMonitorHasItsIncident
PROPERTIES
  ReplacementIsExact
  ConflictMeansSlugTaken
