SPECIFICATION Spec
CONSTANTS
  Node = {n1,n2,n3}
  Owners = {n1,n2,n3}
  Coordinators = {n1}
  Docs = {d1}
  IKeys = {}
  NoDoc = NoDoc  NoKey = NoKey  Absent = Absent
  R = 2  W = 2
  Kinds = {"write","read"}
  MaxOps = 3  MaxInFlight = 1  MaxTime = 2
  MAX_ENTRIES = 4  MaxFaults = 3
SYMMETRY Symmetric
INVARIANTS LaterWriteWins
CHECK_DEADLOCK FALSE
