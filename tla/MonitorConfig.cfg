SPECIFICATION Spec
CONSTANTS
  Requests = {r1, r2}
  Regions = {a, b, c}
  Catalogue = {a, b}
  a = a
  b = b
  c = c
  NoRegion = NoRegion
  Unset = Unset
  Bodies <- MCBodies
INVARIANTS
  AtLeastOneRegion
PROPERTIES
  ActiveRegionStaysMapped
  TimeoutStaysWithinInterval
