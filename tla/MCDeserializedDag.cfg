CONSTANTS
  NodeId = {1, 2, 3}
  Payload = {p}
  Condition <- MCConditions
  MaxEdges = 2
  GivenDags <- MCGivenDags
SPECIFICATION DeserializedSpec
INVARIANT CyclesRejected
CHECK_DEADLOCK FALSE
