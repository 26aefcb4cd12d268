SPECIFICATION FairSpec
CONSTANTS
  c1 = c1
  c2 = c2
  Conns = {c1, c2}
  Stuck = {c2}
  Requests = {}
  Depth = 1
  IdleTicks = 0
  Panics = TRUE
  Prompt = TRUE
  None = None
PROPERTY ShutdownEnds
CHECK_DEADLOCK FALSE
