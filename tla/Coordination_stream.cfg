SPECIFICATION Spec
CONSTANTS
  Conns = {c1, c2}
  c1 = c1
  c2 = c2
  c3 = c3
  Calls <- StreamCalls
  Vanishing = {}
  Profiles <- OneProfile
  UsedKinds = {"sentence_mirror"}
  Foci <- StreamFoci
  UsedTopics = {"roster_changed"}
  Depth = 2
  IdModulus = 4
  MaxRegistrations = 2
  MaxCouplers = 2
  None = None
INVARIANTS
  TypeOK
  FollowersUpToDate
  RemovalIsBarrier
  MirrorsRoster
CHECK_DEADLOCK FALSE
