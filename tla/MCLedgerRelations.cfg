SPECIFICATION Spec
CONSTANTS
  b1 = b1  b2 = b2  b3 = b3  s1 = s1  i1 = i1  i2 = i2  c1 = c1  c2 = c2
  Belief = {b1, b2}
  Agent = {a1}
  Source = {s1, s2}
  Incident = {i1, i2}
  Content = {c1, c2}
  Near <- MCNear
  Verdicts = {"entails", "contradicts"}
  Rank <- MCRank
  Untrusted = {s1}
  ProvenanceRequired = FALSE
  NoSource = NoSource
  Genesis = Genesis
SYMMETRY PairIds
CHECK_DEADLOCK FALSE

INVARIANTS ActiveRestsOnActive ChainTellsDeletions
