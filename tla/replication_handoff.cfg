SPECIFICATION Spec
CONSTANTS
  Node = {n1,n2,f1}
  Owners = {n1,n2}
  Coordinators = {n1,f1}
  Docs = {d1}
  IKeys = {}
  NoDoc = NoDoc  NoKey = NoKey  Absent = Absent
  R = 2  W = 2
  Kinds = {"write","delete"}
  MaxOps = 2  MaxInFlight = 2  MaxTime = 2
  MAX_ENTRIES = 4  MaxFaults = 2
SYMMETRY Symmetric
INVARIANTS TypeOK CopiesIntact EqualVersionsSameCopy AckedByW HandoffComplete
CHECK_DEADLOCK FALSE
