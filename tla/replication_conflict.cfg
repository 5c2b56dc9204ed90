SPECIFICATION ScriptSpec
CONSTANTS
  Node = {n1,n2,n3}
  Owners = {n1,n2,n3}
  Coordinators = {n1,n2}
  Docs = {d1}
  IKeys = {}
  NoDoc = NoDoc  NoKey = NoKey  Absent = Absent
  R = 2  W = 2
  Kinds = {"write","delete","read"}
  MaxOps = 4  MaxInFlight = 4  MaxTime = 2
  MAX_ENTRIES = 4  MaxFaults = 0
SYMMETRY Symmetric
INVARIANTS CausallyLaterWins
CHECK_DEADLOCK FALSE
