SPECIFICATION Spec
CONSTANTS
  c1 = c1
  c2 = c2
  n1 = n1
  n2 = n2
  q1 = q1
  q2 = q2
  Clients = {c1, c2}
  Names = {n1, n2}
  Queries = {q1, q2}
  MaxHandles = 3
  MaxStarts = 3
  None = None
SYMMETRY Interchangeable
INVARIANTS MemoryMatchesDisk AnnouncedNames AnswersHold
PROPERTY NamesAreDurable
CHECK_DEADLOCK FALSE
