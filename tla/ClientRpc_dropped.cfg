SPECIFICATION FairSpec
CONSTANTS
  MaxCalls = 2
  MaxNotices = 1
  ClientDepth = 1
  ServerDepth = 1
  Room = 2
  Outcomes <- MayDrop
  MayHang = FALSE
PROPERTY DroppedIsClosed
CHECK_DEADLOCK FALSE
