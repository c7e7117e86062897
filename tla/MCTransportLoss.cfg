SPECIFICATION Spec
CONSTANTS
  Event = {e1}
  Oversized = {}
  Receiver = {r1}
  Evictor = {k1}
  BatchSize = 2
  MaxAttempts = 3
  MaxFaults = 1
  Nothing = Nothing
CHECK_DEADLOCK FALSE

INVARIANT FailuresReachTheQueue
