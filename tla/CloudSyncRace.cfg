SPECIFICATION Spec
CONSTANTS
  Client = {c1, c2}
  Record = {r1}
  Rest = Rest
  Skew <- NoSkew
  Workers = 2
  MaxVer = 2
  MaxTime = 3
  MaxFaults = 0
  MaxRest = 0
PROPERTIES
  NeverOverwritesNewer
CHECK_DEADLOCK FALSE
