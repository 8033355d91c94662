SPECIFICATION Spec
CONSTANTS
  Plans <- PlansLong
  MaxUploads = 1
  MaxLoss = 2
  MaxRetry = 2
  SlowLink = TRUE
  SendFaults = TRUE
  PublishFaults = TRUE
INVARIANTS FirstUpload
PROPERTIES ImplementsContract
CHECK_DEADLOCK FALSE
