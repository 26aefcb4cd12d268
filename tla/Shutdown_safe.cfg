SPECIFICATION Spec
CONSTANTS
  c1 = c1
  c2 = c2
  Conns = {c1, c2}
  Stuck = {}
  Requests = {"unregister", "shutdown", "other", "refused", "mismatch", "panicking"}
  Depth = 1
  IdleTicks = 2
  Panics = TRUE
  Prompt = TRUE
  None = None
SYMMETRY Interchangeable
INVARIANTS OneNotice NoticeBeforeCut RosterEmptyAtReturn AllCut IdleInTime
CHECK_DEADLOCK FALSE
