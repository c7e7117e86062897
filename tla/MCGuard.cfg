SPECIFICATION FairSpec
CONSTANTS
  b1 = b1  b2 = b2  d1 = d1  d2 = d2
  Belief = {b1, b2}
  Writer = {alice}
  Operator = {alice, bob}
  Receipt = {r1}
  Decision = {d1, d2}
  Policies <- TwoPolicies
  Authority <- MCAuthority
  AuthRequired = TRUE
  Nobody = Nobody
  NoReceipt = NoReceipt
  NoDecision = NoDecision

INVARIANTS TypeOK QuarantineRevokes PermitSettlesAction DoomedIsQueued AllowIsEarned
PROPERTIES ExecutesOnActiveEvidence DoomedIsAborted
