SPECIFICATION Spec
CONSTANTS
  b1 = b1  b2 = b2  a1 = a1  w1 = w1  w2 = w2  w3 = w3
  local = local  peer = peer
  Belief = {b1, b2}
  Action = {a1}
  Support <- MCSupport
  Event = {e1, e2}
  Consumer = {local}
  Worker = {w1, w2}
  ConsumerOf <- TwoWorkers
  BatchLimit = 2
  MaxCrashes = 0
  AgentsStop = TRUE
  RowsExpire = FALSE
  NoEvent = NoEvent
CHECK_DEADLOCK FALSE

INVARIANT NoResidue
