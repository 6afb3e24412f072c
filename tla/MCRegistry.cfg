SPECIFICATION FairSpec
CONSTANTS
  Sessions = {"hello", "isPrime"}
  MaxMessages = 4
INVARIANTS
  TypeOK
  InstructionReachesItsTree
  LateReplyOnce
  DiesOfConnection
PROPERTIES
  StartAnswered
CHECK_DEADLOCK FALSE
