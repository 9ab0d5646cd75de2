SPECIFICATION AndroidSpec
CONSTANTS
  Socket = {s1, s2, s3}
  NoSocket = null
  MaxConnect = 2
  MaxClose = 1
  MaxDrop = 1
  MaxAttempt = 2
  MaxFrame = 2
  Capacity = 1
  adapter = adapter
  listener = listener
  camera = camera
  Device = {adapter, listener, camera}
  NoDevice = nodevice
  Has <- AdaptersHave
  MaxOpen = 3
  MaxAsk = 2
  MaxUnplug = 1
INVARIANTS
  AndroidTypeOK
  ConnectionsConserved
  FramesConserved
  GatewayReissued
  TransfersReachTheDevice
  ClaimsCanBeReleased
  GrantedToTheCaller
PROPERTIES
  Reconnects
CHECK_DEADLOCK FALSE
