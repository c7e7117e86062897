SPECIFICATION Spec
CONSTANTS
  b1 = b1  b2 = b2  c1 = c1  c2 = c2  c3 = c3
  Agent = {1, 2, 3, 4, 5}
  Enrolled = {1, 2, 3, 4}
  Belief = {b1, b2}
  Owner <- MCOwner
  Call = {c1, c2, c3}
  Expiring = {b1}
  NoIncident = NoIncident
  NoDoc = NoDoc
SYMMETRY Calls
CHECK_DEADLOCK FALSE

INVARIANTS
  TypeOK ChainGoesForward RootsTellHeadsApart ExternalCopyAgrees BundleCoversIncident
