SPECIFICATION Spec
CONSTANTS
  b1 = b1  b2 = b2  b3 = b3  s1 = s1  i1 = i1  i2 = i2  c1 = c1  c2 = c2
  Belief = {b1, b2, b3}
  Agent = {a1}
  Source = {s1, s2}
  Incident = {i1, i2}
  Content = {c1}
  Near <- MCNear
  Verdicts = {}
  Rank <- MCRank
  Untrusted = {s1}
  ProvenanceRequired = TRUE
  NoSource = NoSource
  Genesis = Genesis
SYMMETRY Ids
CHECK_DEADLOCK FALSE

INVARIANTS TypeOK RecantedOriginsStayOut AuthorityNeverGrows EachFlippedOnce
