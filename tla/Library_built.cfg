SPECIFICATION Spec
CONSTANTS
  NumericModulus = 256
  BaseLayers <- MCBaseLayers
  FeatPairs <- MCFeatPairs
  Rank <- MCRank
  Sources <- MCSources
  Rebuilds <- MCRebuilds
  Calls <- MCCalls
  MaxBuilds = 2
  MaxOpens = 1
INVARIANTS
  OneBuild
  FinishedOpens
  OpenedIsBuilt
  AnswersFollowText
  ProjectionsFollowEdges
CHECK_DEADLOCK FALSE
CONSTRAINT Followed
