SPECIFICATION FairSpec
CONSTANTS
  Patient = FALSE
  Spurious = TRUE
  MaxInstructions = 3
INVARIANTS
  TypeOK
  InOrder
  WakeFindsInstruction
PROPERTIES
  NeverBackwards
  NotificationArrives
CHECK_DEADLOCK FALSE
