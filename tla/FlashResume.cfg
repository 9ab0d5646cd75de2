SPECIFICATION Spec
CONSTANTS
  Check <- TwoChecks
  DtcCheck = "blocking_dtcs"
  Image <- TwoImages
  Size <- TwoAndOne
  MaxSent = 4
INVARIANTS
  CompleteMeansWritten
