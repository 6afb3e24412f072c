SPECIFICATION Spec
CONSTANTS
  Width = 3
  Names = {"x", "a", "t", "c", "k", "b"}
  BinaryOperators = {"+", "-", "%"}
  Predicates = {"<=", ">=", "u>"}
  Constants = {0, 2}
  Models <- MCModels
  MaxInstructions = 4
  MaxComputed = 2
  MaxCompared = 1
  MaxLost = 2
  MaxDepth = 2
INVARIANTS
  ValueKept
  PathKept
CHECK_DEADLOCK FALSE
