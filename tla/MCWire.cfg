SPECIFICATION Spec
CONSTANTS
  IntBits = 4
  LargestBits = 7
  MaxExponent = 4
  StackLimit = 3
  RightMargin = 9
  Requests <- MCRequests
  Reply <- MCReply
  MaxRecv = 30
  Scalars <- MCScalars
  Names <- MCNames
  MaxSize = 3
  MaxCalls = 3
  Pieces <- MCPieces
  MaxPieces = 4
INVARIANTS
  
  ComparesAndConverts
  IntactOrNothing
CHECK_DEADLOCK FALSE
