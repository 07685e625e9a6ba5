SPECIFICATION WorkerSpec
CONSTANTS
  Jobs = {j1, j2}
  Producers = {p1, p2}
  None = None
  MaxSeq = 3
  Tokens = {1, 2, 3}
  MaxReports = 1
  Reporting = {j1}
INVARIANTS
  IdleMeansServed
  NoLostWakeup
  StreamIsWhole
PROPERTIES
  ImplementsLanes
  ServesQueue
  BegunEnds
CHECK_DEADLOCK FALSE
