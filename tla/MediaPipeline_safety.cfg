SPECIFICATION Spec
CONSTANTS
  m1 = m1
  p1 = p1
  p2 = p2
  NoAsset = NoAsset
  Assets <- OneAsset
  Processes <- TwoProcesses
  Kinds <- PhotoKind
  MayDeleteAccount = FALSE
  Faults = {"crash", "storeError", "dbError", "rebalance", "latePut"}
  FaultBudget = 1
  MaxPuts = 2
INVARIANTS
  ReadyIsReadable
  SourceIsKept
SYMMETRY AnyProcess
CHECK_DEADLOCK FALSE
