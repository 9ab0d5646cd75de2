SPECIFICATION FairSpec
CONSTANTS
  Client = {c1}
  Record = {r1, r2}
  Rest = Rest
  Skew <- NoSkew
  Workers = 2
  MaxVer = 1
  MaxTime = 2
  MaxFaults = 1
  MaxRest = 1
PROPERTIES
  SettlesEventually
  FlushTerminates
CHECK_DEADLOCK FALSE
