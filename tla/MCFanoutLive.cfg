SPECIFICATION FairSpec
CONSTANTS
  b1 = b1  b2 = b2  a1 = a1  w1 = w1  w2 = w2  w3 = w3
  local = local  peer = peer
  Belief = {b1, b2}
  Action = {}
  Support <- NoSupport
  Event = {e1, e2}
  Consumer = {local, peer}
  Worker = {w1, w2}
  ConsumerOf <- OneEach
  BatchLimit = 1
  MaxCrashes = 1
  AgentsStop = FALSE
  RowsExpire = FALSE
  NoEvent = NoEvent
CHECK_DEADLOCK FALSE

INVARIANT NoResidue
PROPERTIES KeepsDelivery MemoryComesClean
