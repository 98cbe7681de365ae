SPECIFICATION FairSpec
CONSTANTS
  t1 = t1
  t2 = t2
  Foreign = {}
  HighWater = 2
  Lens <- MCLens
  MaxRx = 1
  MaxCalls = 3
INVARIANTS ClosedOnce LeavesOthersAlone
PROPERTIES PeerEndNoticed OutputDrains
