CONSTANTS
  Operator = {o1, o2}
  Workflow = {w1, w2}
  OutputHash = {h1, h2}
  NoRecord = NoRecord
  MaxSends = 3
SPECIFICATION Spec
INVARIANTS EventsAreRecords RefusedOnlyIfRecorded
CHECK_DEADLOCK FALSE
