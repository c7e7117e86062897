SPECIFICATION FairSpec
CONSTANTS
  Request = {r1, r2, r3}
  Key = {k1}
  Digest = {g1, g2}
  Window = 1
  NoKey = NoKey
  NoCall = NoCall
  Free = Free
  MaxRetries = 2
  MaxNow = 1
CHECK_DEADLOCK FALSE

INVARIANTS TypeOK OncePerWindow AnswersAreTrue ConflictsAreReal
PROPERTIES KeepsPromise EveryCallEnds
