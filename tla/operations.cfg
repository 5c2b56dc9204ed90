SPECIFICATION Spec
CONSTANTS
  Value = {1, 2}
  Retention = 1  MaxTime = 3  MaxCalls = 3  MaxWrites = 1  MaxCrashes = 1  Nothing = Nothing
  Client = {c1, c2}  Background = {t1, t2}  BackgroundLimit = 1  MaxRounds = 5
  Latency = {1, 2, 3}  Threshold = 2  WindowSize = 20  BudgetPercent = 40  MaxRequests = 22  MaxSwitches = 2
INVARIANTS RestoreIsExact ArtifactsMatch SleepsOnlyIfBlocked P95IsQuantile RollbackOnBreach
PROPERTIES RetentionKept
CHECK_DEADLOCK FALSE
