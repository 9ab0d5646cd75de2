SPECIFICATION Spec
CONSTANTS
  Check <- TwoChecks
  DtcCheck = "blocking_dtcs"
  Image <- TwoImages
  Size <- ThreeAndTwo
  MaxSent = 6
INVARIANTS
  TypeOK
  CheckpointBehindTransfer
  CompleteFromStart
PROPERTIES
  TouchedOnlyWhenClear
