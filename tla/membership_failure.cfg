SPECIFICATION FairSpec
CONSTANTS
  Node = {a, b}
  Running = {a, b}
  Meshed = {a, b}
  Targets = {}
  MaxChanges = 0
  MaxFaults = 1
  MaxMsgs = 1
  MaxTime = 8
  None = None
PROPERTIES FailureSpreads
