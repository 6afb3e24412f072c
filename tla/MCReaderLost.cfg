SPECIFICATION FairSpec
CONSTANTS
  Patient = TRUE
  Spurious = FALSE
  MaxInstructions = 2
PROPERTIES
  InstructionTaken
CHECK_DEADLOCK FALSE
