SPECIFICATION FairSpec
CONSTANTS
  c1 = c1
  c2 = c2
  c3 = c3
  Conns = {c1, c2}
  Calls <- LiveCalls
  Vanishing = {c1}
  Profiles <- OneProfile
  UsedKinds = {"sentence_mirror"}
  Foci <- NoFoci
  UsedTopics = {"roster_changed", "named_results_changed"}
  Depth = 1
  IdModulus = 4
  MaxRegistrations = 2
  MaxCouplers = 1
  None = None
INVARIANTS
  SubscribersLive
PROPERTIES
  GoneLeaveRoster
CHECK_DEADLOCK FALSE
