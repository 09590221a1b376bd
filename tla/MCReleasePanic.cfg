CONSTANTS
  NodeId = {1, 2, 3}
  Payload = {"yes", "no", "mute"}
  Condition <- MCConditions
  Dags <- MCDags
  Value <- MCValue
  NodeFn <- MCNodeFn
  NodeError = {"Execution"}
  NoInput = NoInput
  PanicAborts = TRUE
SPECIFICATION FairSpec
PROPERTY RunReturns
CHECK_DEADLOCK FALSE
