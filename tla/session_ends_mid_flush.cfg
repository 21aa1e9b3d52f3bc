SPECIFICATION Spec
CONSTANTS
  Kinds = {"payments"}
  Items = {1, 2}
  Photographed = {}
  MAX_QUEUED_FIXES = 1
  MaxBatch = 1
  Together <- MCTogether
  MaxTroubles = 1
  Requests = {"a"}
  MaxGen = 1
CHECK_DEADLOCK FALSE
INVARIANTS
  DroppedOnlyIfJudged
