CONSTANTS
  Keys <- CleanedKeys
  ScalarValues = {"s"}
  KeyPatterns <- TopMembers
  MaxRules = 1
  MaxElems = 1
  MaxMembers = 2
  Depth = 1
  TopScalars = FALSE
SPECIFICATION Spec
INVARIANT SpecWhitelist
CHECK_DEADLOCK FALSE
