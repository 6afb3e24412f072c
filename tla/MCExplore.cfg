SPECIFICATION FairSpec
CONSTANTS
  NULL = NULL
  Entry = "entry"
  Blocks <- LoopBlocks
  FunctionBlocks <- LoopFunction
  Code <- LoopCode
  Span <- LoopSpan
  Lines = {4}
  StepCounts <- Steps
  FirstKinds = {"proceed"}
  MaxPairs = 0
  MaxNodes = 20
  MaxInstructions = 3
INVARIANTS
  TypeOK
  ReportedOnce
  ParentReportedFirst
  OutputReachesUser
  FrontierCovered
  FrontierDisjoint
  SearchOrder
  LoopBounded
  SecondBranchPruned
PROPERTIES
  ExecutedIsFinal
  RoundStaysInside
  RoundEnds
  GuidesSearch
CHECK_DEADLOCK FALSE
