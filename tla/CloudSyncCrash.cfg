SPECIFICATION Spec
CONSTANTS
  Client = {c1}
  Record = {r1}
  Rest = Rest
  Skew <- NoSkew
  Workers = 1
  MaxVer = 1
  MaxTime = 2
  MaxFaults = 1
  MaxRest = 0
INVARIANTS
  EveryRowQueued
CHECK_DEADLOCK FALSE
