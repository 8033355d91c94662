SPECIFICATION Spec
CONSTANTS
  Plans <- PlansGood
  MaxUploads = 2
  MaxLoss = 1
  MaxRetry = 1
  SlowLink = FALSE
  SendFaults = TRUE
  PublishFaults = FALSE
INVARIANTS UploadedIsOnboard
CHECK_DEADLOCK FALSE
