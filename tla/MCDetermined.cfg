SPECIFICATION FairSpec
CONSTANTS
  NULL = NULL
  Entry = "entry"
  Blocks <- LoopBlocks
  FunctionBlocks <- LoopFunction
  Code <- LoopCode
  Span <- LoopSpan
  Lines = {4}
  StepCounts <- Steps
  FirstKinds = {"proceed"}
  MaxPairs = 0
  MaxNodes = 20
  MaxInstructions = 1
INVARIANTS
  OnlyDeterminedBlock
CHECK_DEADLOCK FALSE
