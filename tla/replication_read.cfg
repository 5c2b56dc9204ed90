SPECIFICATION Spec
CONSTANTS
  Node = {n1,n2,n3,f1}
  Owners = {n1,n2,n3}
  Coordinators = {f1}
  Docs = {d1}
  IKeys = {}
  NoDoc = NoDoc  NoKey = NoKey  Absent = Absent
  R = 2  W = 2
  Kinds = {"write","read"}
  MaxOps = 3  MaxInFlight = 2  MaxTime = 2
  MAX_ENTRIES = 4  MaxFaults = 2
SYMMETRY Symmetric
INVARIANTS FreshRead
CHECK_DEADLOCK FALSE
