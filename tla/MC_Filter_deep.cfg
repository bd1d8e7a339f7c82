CONSTANTS
  Keys <- PlainKeys
  ScalarValues = {"s"}
  KeyPatterns <- DeepKeyPatterns
  MaxRules = 2
  MaxElems = 1
  MaxMembers = 1
  Depth = 3
  TopScalars = FALSE
SPECIFICATION Spec
INVARIANT FilterKeepsWhitelistedLeaves
INVARIANT FilterIdempotent
CHECK_DEADLOCK FALSE
