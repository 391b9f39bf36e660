SPECIFICATION FairSpec
CONSTANTS
  m1 = m1
  p1 = p1
  p2 = p2
  NoAsset = NoAsset
  Assets <- OneAsset
  Processes <- OneProcess
  Kinds <- MixedKinds
  MayDeleteAccount = TRUE
  Faults = {"crash", "storeError", "dbError", "lostReply"}
  FaultBudget = 1
  MaxPuts = 1
INVARIANT AccountGoneIsErased
PROPERTIES
  DeletionIsFinal
  UploadIsDecided
  DeletionCompletes
  AccountDeletionCompletes
CHECK_DEADLOCK FALSE
