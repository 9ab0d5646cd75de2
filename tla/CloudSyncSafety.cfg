SPECIFICATION Spec
CONSTANTS
  Client = {c1, c2}
  Record = {r1}
  Rest = Rest
  Skew <- FirstAhead
  Workers = 2
  MaxVer = 2
  MaxTime = 2
  MaxFaults = 1
  MaxRest = 0
INVARIANTS
  TypeOK
  NoLostSync
  ConflictIsGenuine
PROPERTIES
  ImplementsContract
CHECK_DEADLOCK FALSE
