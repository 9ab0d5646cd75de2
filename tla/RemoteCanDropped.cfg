SPECIFICATION RemoteCanFairSpec
CONSTANTS
  Socket = {s1, s2}
  NoSocket = null
  MaxConnect = 1
  MaxClose = 1
  MaxDrop = 0
  MaxAttempt = 2
  MaxFrame = 1
  Capacity = 1
PROPERTIES
  DroppedIsRetried
CHECK_DEADLOCK FALSE
