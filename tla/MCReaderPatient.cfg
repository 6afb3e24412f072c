SPECIFICATION FairSpec
CONSTANTS
  Patient = TRUE
  Spurious = FALSE
  MaxInstructions = 6
INVARIANTS
  InstructionIntact
  StaysAlive
PROPERTIES
  TakesTurns
CHECK_DEADLOCK FALSE
