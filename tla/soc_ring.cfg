SPECIFICATION Spec
CONSTANTS
  NCores = 4
  Skipped = {1}
  Nodes = {"a", "b"}
  NodeOf <- TwoNodes
  NoNode = "none"
  NBits = 3
  WordBits = 2
  Special <- SpecialBits
  LoopCnt = 3
  Disturbed <- FaultyPairs
  CreateFails = TRUE
  NoBit = NoBit
INVARIANTS ScanReady ReleasedUnused
PROPERTIES InLockstep TestEnds
CHECK_DEADLOCK FALSE
