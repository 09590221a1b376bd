CONSTANTS
  Workflow = {"long", "short"}
  EventCount <- MCEventCount
  Client = {c1, c2}
  Eager = {c1}
  Capacity = 2
SPECIFICATION FairSpec
INVARIANTS GapFree WorkflowInOrder UpToDate
PROPERTY DeliveredOrEnded
CHECK_DEADLOCK FALSE
