CONSTANTS
  NameAlphabet = {"a", "b", "/"}
  PatternExtra = {"*", "?"}
  MaxLen = 4
SPECIFICATION Spec
INVARIANT MatchAgreesWithGlob
CHECK_DEADLOCK FALSE
