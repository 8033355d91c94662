SPECIFICATION FairSpec
CONSTANTS
  Plans <- PlansAll
  MaxUploads = 2
  MaxLoss = 2
  MaxRetry = 2
  SlowLink = FALSE
  SendFaults = FALSE
  PublishFaults = FALSE
INVARIANTS TypeOK UploadedIsOnboard UploadsApart
PROPERTIES ImplementsContract UploadConcludes
CHECK_DEADLOCK FALSE
