CONSTANTS
  NodeId = {1, 2, 3}
  Payload = {p}
  Condition <- MCConditions
  MaxEdges = 3
  GivenDags <- MCNoDags
SPECIFICATION FairSpec
INVARIANTS TypeOK InDegreeExact BuildCorrect TopologicalOrder
PROPERTY BuildTerminates
CHECK_DEADLOCK FALSE
