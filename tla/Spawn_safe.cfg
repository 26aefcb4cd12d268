SPECIFICATION FairSpec
CONSTANTS
  c1 = c1
  c2 = c2
  d1 = d1
  d2 = d2
  d3 = d3
  Clients = {c1, c2}
  Daemons = {d1, d2, d3}
  Past = Past
  None = None
INVARIANTS NoSplitBrain EpochTells ListeningIsReachable RefusedByDaemons
PROPERTIES OneInCharge EveryoneReturns
CHECK_DEADLOCK FALSE
