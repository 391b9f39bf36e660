SPECIFICATION Spec
CONSTANTS
  None = None
  Contents = {"blue", "red"}
  Unnamed = "unnamed"
  SampleCount = 2
  MaxFiles = 2
  MaxMedia = 4
  MaxItems = 2
  MaxChanges = 1
  MaxRequests = 2
  Disturbances = 1
INVARIANT RetryUsesTheUpload
CHECK_DEADLOCK FALSE
