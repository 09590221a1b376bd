CONSTANTS
  Node = {n1, n2}
  Outside = {x}
SPECIFICATION FairSpec
PROPERTY EventsPropagate
CHECK_DEADLOCK FALSE
