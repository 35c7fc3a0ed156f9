CONSTANTS
  Versions = {v1}
  Contents = {h1, h2}
  Generations = {1}
  Workers = {w1, w2}
  MaxAttempts = 2
  MaxChanges = 3
  MaxFaults = 2
  Hazards = {}
  None = None
SPECIFICATION FairSpec
INVARIANTS TypeOK VectorTrue DoneIsIndexed
PROPERTIES NewerTextEmbedded
CHECK_DEADLOCK FALSE
