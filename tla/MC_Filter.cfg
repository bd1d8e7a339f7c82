CONSTANTS
  Keys <- PlainKeys
  ScalarValues = {"s"}
  KeyPatterns <- SampleKeyPatterns
  MaxRules = 2
  MaxElems = 2
  MaxMembers = 2
  Depth = 1
  TopScalars = TRUE
SPECIFICATION Spec
INVARIANT FilterKeepsWhitelistedLeaves
INVARIANT FilterIdempotent
CHECK_DEADLOCK FALSE
