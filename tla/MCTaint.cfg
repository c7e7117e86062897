SPECIFICATION Spec
CONSTANTS
  Belief <- MCBelief
  Stores <- MCStores
  Threshold = 1
  MaxK = 3
  MaxRounds = 2
CHECK_DEADLOCK FALSE

INVARIANTS TypeOK ReturnsContract EdgesExplainClosure IndependentSourceHolds RoundsMakeProgress
