SPECIFICATION Spec
CONSTANTS
  Emails = {e1, e2}
  Subs = {g1, g2}
  e1 = e1
  e2 = e2
  g1 = g1
  g2 = g2
  Profiles <- MCProfiles
  Requests = {r1, r2, r3}
  NoSub = NoSub
  MaxLetters = 2
  MaxFailures = 1
SYMMETRY Symmetry
CHECK_DEADLOCK FALSE
INVARIANTS
  UnverifiedHasItsLetter
PROPERTIES
  VerifiedKeepsPassword
  LinkIsKept
  OnlyOverlapsCollide
