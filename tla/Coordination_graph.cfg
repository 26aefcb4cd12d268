SPECIFICATION Spec
CONSTANTS
  Conns = {c1, c2, c3}
  c1 = c1
  c2 = c2
  c3 = c3
  Calls <- GraphCalls
  Vanishing = {}
  Profiles <- GraphProfiles
  UsedKinds = {"sentence_mirror"}
  Foci <- NoFoci
  UsedTopics = {}
  Depth = 1
  IdModulus = 5
  MaxRegistrations = 3
  MaxCouplers = 3
  None = None
SYMMETRY QuietSymmetry
INVARIANTS
  CouplerEndsLive
  CouplersAcyclic
  OwnersAgree
CHECK_DEADLOCK FALSE
