SPECIFICATION Spec
CONSTANTS
  Client = {c1}
  Record = {r1}
  Rest = Rest
  Skew <- NoSkew
  Workers = 1
  MaxVer = 2
  MaxTime = 3
  MaxFaults = 0
  MaxRest = 0
INVARIANTS
  LaterVersionWins
CHECK_DEADLOCK FALSE
