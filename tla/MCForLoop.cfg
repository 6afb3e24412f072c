SPECIFICATION FairSpec
CONSTANTS
  NULL = NULL
  Entry = "entry"
  Blocks <- ForBlocks
  FunctionBlocks <- ForBlocks
  Code <- ForCode
  Span <- ForSpan
  Lines = {3}
  StepCounts <- Steps
  FirstKinds = {"proceed"}
  MaxPairs = 0
  MaxNodes = 16
  MaxInstructions = 1
INVARIANTS
  LoopBounded
CHECK_DEADLOCK FALSE
