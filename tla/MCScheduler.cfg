CONSTANTS
  NodeId = {1, 2, 3}
  Payload = {"yes", "no", "mute"}
  Condition <- MCConditions
  Dags <- MCDags
  Value <- MCValue
  NodeFn <- MCNodeFn
  NodeError = {"Execution"}
  NoInput = NoInput
  PanicAborts = FALSE
SPECIFICATION FairSpec
INVARIANTS TypeOK InDegreeExact InputsComplete AttestationDetermined ConditionsDecide
INVARIANTS EventsCausal LogMatchesResult BatchIsDepth
PROPERTIES RunReturns ActorsStop ImplementsWorkflow
CHECK_DEADLOCK FALSE
