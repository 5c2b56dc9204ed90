SPECIFICATION Spec
CONSTANTS
  Node = {a, b}
  Running = {a, b}
  Meshed = {a, b}
  Targets = {}
  MaxChanges = 0
  MaxFaults = 0
  MaxMsgs = 2
  MaxTime = 8
  None = None
PROPERTIES DownIfNoRecovery
CHECK_DEADLOCK FALSE
