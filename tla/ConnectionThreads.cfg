SPECIFICATION Spec
CONSTANTS
  t1 = t1
  t2 = t2
  Foreign <- MCTwo
  HighWater = 2
  Lens <- MCDataLens
  MaxRx = 1
  MaxCalls = 3
SYMMETRY MCSymmetry
INVARIANTS ConnectedIsLive OutputIsWatched
PROPERTY NoMessageAfterClose
