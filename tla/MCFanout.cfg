SPECIFICATION Spec
CONSTANTS
  b1 = b1  b2 = b2  a1 = a1  w1 = w1  w2 = w2  w3 = w3
  local = local  peer = peer
  Belief = {b1, b2}
  Action = {a1}
  Support <- MCSupport
  Event = {e1, e2}
  Consumer = {local, peer}
  Worker = {w1, w2, w3}
  ConsumerOf <- ThreeWorkers
  BatchLimit = 2
  MaxCrashes = 1
  AgentsStop = TRUE
  RowsExpire = TRUE
  NoEvent = NoEvent
SYMMETRY Ids
CHECK_DEADLOCK FALSE

INVARIANTS TypeOK ExactlyOnce ReceiptsAccount
PROPERTY OnlyLateActionsEscape
