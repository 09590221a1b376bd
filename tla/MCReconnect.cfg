CONSTANTS
  OperatorId = {o1, o2}
  Client = {"a", "b", "g"}
  Resource <- MCResource
  Capability = {"Cpu", "Gpu"}
  Offer <- MCGpuOffer
  Request <- MCRequest
  NoOperator = NoOperator
  MaxOutcomes = 1
SPECIFICATION Spec
INVARIANT NoDoubleBooking
CHECK_DEADLOCK FALSE
