SPECIFICATION Spec
CONSTANTS
  None = None
  Contents = {"blue", "red"}
  Unnamed = "unnamed"
  SampleCount = 2
  MaxFiles = 2
  MaxMedia = 4
  MaxItems = 3
  MaxChanges = 1
  MaxRequests = 2
  Disturbances = 1
INVARIANTS
  SavedPhotoIsTheChosenOne
  OriginalIsUntouched
  UploadedOnce
  OneItemPerDraft
PROPERTY NothingIsOverwrittenUnseen
CHECK_DEADLOCK FALSE
