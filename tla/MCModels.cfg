SPECIFICATION FairSpec
CONSTANTS
  NULL = NULL
  Entry = "entry"
  Blocks <- ModelBlocks
  FunctionBlocks <- ModelFunction
  Code <- ModelCode
  Span <- ModelSpan
  Lines = {3}
  StepCounts <- Steps
  FirstKinds = {"proceed", "exclude"}
  MaxPairs = 3
  MaxNodes = 20
  MaxInstructions = 4
INVARIANTS
  CallStackKept
  OnlyAnswersLost
CHECK_DEADLOCK FALSE
