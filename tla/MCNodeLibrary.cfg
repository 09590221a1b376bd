CONSTANTS
  Wiring <- MCWiring
  Json <- MCJson
  Workflows <- MCWorkflows
  Bodies <- MCBodies
  HostsIn <- MCHostsIn
SPECIFICATION Spec
INVARIANTS ValidatedWiringRuns MedianCorrect MajorityDecides
CHECK_DEADLOCK FALSE
