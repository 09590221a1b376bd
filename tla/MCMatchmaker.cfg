CONSTANTS
  OperatorId = {o1, o2}
  Client = {"a", "b", "g"}
  Resource <- MCResource
  Capability = {"Cpu", "Gpu"}
  Offer <- MCOffer
  Request <- MCRequest
  NoOperator = NoOperator
  MaxOutcomes = 1
SPECIFICATION Spec
INVARIANTS TypeOK NoPhantomLoad NeverOvercommitted Accounted
CHECK_DEADLOCK FALSE
