SPECIFICATION Spec
CONSTANTS
  Calls = {c1, c2}
  MaxTokens = 5
  MaxLost = 2
  MaxErrors = 1
  MaxSignOuts = 1
SYMMETRY Symmetry
CHECK_DEADLOCK FALSE
INVARIANTS
  StoredTokenUsable
  OneLiveTokenPerLogin
PROPERTIES
  LoneCallKeepsSession
