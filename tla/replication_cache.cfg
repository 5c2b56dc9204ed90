SPECIFICATION FairSpec
CONSTANTS
  Node = {n1,f1}
  Owners = {n1}
  Coordinators = {n1}
  Docs = {d1,d2}
  IKeys = {k1}
  NoDoc = NoDoc  NoKey = NoKey  Absent = Absent
  R = 1  W = 1
  Kinds = {"write"}
  MaxOps = 2  MaxInFlight = 2  MaxTime = 2
  MAX_ENTRIES = 4  MaxFaults = 2
INVARIANTS CacheMatchesAcks
CHECK_DEADLOCK FALSE
PROPERTIES OperationsEnd HintsReachTarget
