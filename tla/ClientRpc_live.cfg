SPECIFICATION FairSpec
CONSTANTS
  MaxCalls = 2
  MaxNotices = 2
  ClientDepth = 1
  ServerDepth = 1
  Room = 1
  Outcomes <- AnyOutcome
  MayHang = TRUE
INVARIANTS
  NothingPending
  OneAnswer
  NoticesInOrder
PROPERTIES
  CallsReturn
  CloseEnds
CHECK_DEADLOCK FALSE
