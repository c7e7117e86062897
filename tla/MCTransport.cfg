SPECIFICATION FairSpec
CONSTANTS
  Event = {e1, e2}
  Oversized = {e2}
  Receiver = {r1}
  Evictor = {k1, k2}
  BatchSize = 2
  MaxAttempts = 3
  MaxFaults = 1
  Nothing = Nothing
CHECK_DEADLOCK FALSE

INVARIANTS TypeOK AcknowledgedIsCarried MessagesAreReadable
PROPERTY KeepsDelivery
