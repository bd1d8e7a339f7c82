CONSTANTS
  Keys <- PlainKeys
  ScalarValues = {"s"}
  KeyPatterns <- OnlyA
  MaxRules = 1
  MaxElems = 1
  MaxMembers = 2
  Depth = 1
  TopScalars = TRUE
SPECIFICATION Spec
INVARIANT SpecWhitelist
CHECK_DEADLOCK FALSE
