SPECIFICATION ClusterSpec
CONSTANTS
  Clock = {a, b}
  MAX_LOGICAL = 1
  MaxMillis = 2
  Node = {a, b, c}
  Running = {a, b}
  Meshed = {a, c}
  Targets = {"Bootstrapping", "Healthy"}
  MaxChanges = 2
  MaxFaults = 1
  MaxMsgs = 1
  MaxTime = 2
  None = None
  VnodesPerNode = 2
  Replicas = 2
INVARIANTS ClockTypeOK BoundedDrift TypeOK RingIsHealthy RecordsAuthentic
PROPERTIES AheadOfPersisted StrictlyIncreasing RecordsAdvance OwnersMoveLittle
CHECK_DEADLOCK FALSE
