SPECIFICATION FairSpec
CONSTANTS
  m1 = m1
  p1 = p1
  p2 = p2
  NoAsset = NoAsset
  Assets <- OneAsset
  Processes <- OneProcess
  Kinds <- AllKinds
  MayDeleteAccount = FALSE
  Faults = {"crash", "storeError", "dbError", "lostReply"}
  FaultBudget = 1
  MaxPuts = 2
PROPERTIES
  ErasedLeavesNothing
  EveryRecordIsHandled
CHECK_DEADLOCK FALSE
