SPECIFICATION Spec
CONSTANTS
  Socket = {a, b, c}
  MaxMsg = 1
  MaxHeard = 1
  MaxGone = 1
  MaxWalks = 2
SYMMETRY SocketSymmetry
INVARIANTS
  EveryStableViewerReached
CHECK_DEADLOCK FALSE
