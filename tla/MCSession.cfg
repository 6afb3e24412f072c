SPECIFICATION FairSpec
CONSTANTS
  MaxUploads = 3
  MaxRequests = 3
  MaxPatient = 5
  MaxNodes = 3
INVARIANTS
  TypeOK
  NothingTwice
  TreeFollows
  OwnReply
  StaysUp
  OwnFile
PROPERTY LoopsEnd
CHECK_DEADLOCK FALSE
