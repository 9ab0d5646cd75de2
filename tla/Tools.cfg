SPECIFICATION ToolsSpec
CONSTANTS
  Scan = {scan1, scan2}
  EnvEntries = 3
  Entries = 5
  MaxMinute = 2
  Protocol = {hs_can, ls_can, kline}
  NoProtocol = none
  MaxChannel = 4
  MaxUnread = 2
  Seed <- Seeds
  MaxSnapshots = 1
  Cal = {c1, c2, c3, c4}
  NoCal = none
  Requested = {c1}
  MaxDeps = 2
  Oem = {gm, ford}
  Dirs = 2
  MaxEdits = 1
  ArbIds = {x, y}
  Payload <- Payloads
  Gap <- Gaps
  MinFrames = 3
  MaxSent = 3
  MaxFilters = 1
  Vins <- CarVins
  Username = {n1, n2}
  Password = {p1, p2}
  NoPassword = none
  Registration = {r1, r2, r3}
  Hours = 1
  MaxHour = 2
INVARIANTS
  ToolsTypeOK
  JsonWithinLog
  RunRecorded
  AnswersOfThisChannel
  SessionFollowsTransport
  ReadingsAsDocumented
  KeyDeterminesSeed
  DependenciesFirst
  ResolvedOrCircular
  OnePluginPerOem
  StatsMatchFrames
  SlipsDetected
  RegisteredOnce
PROPERTIES
  ProbeFindsAll
  ResolveEnds
  HistoryEnds
CHECK_DEADLOCK FALSE
