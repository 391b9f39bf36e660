SPECIFICATION Spec
CONSTANTS
  Workers = {w1, w2}
  MaxAttempts = 2
  FaultBudget = 2
SYMMETRY Symmetry
INVARIANTS
  TypeOK
  AtMostOneRemoteTask
  NotStartedMeansNothingOutside
  HoldFollowsStatus
  SubmissionsAreBounded
PROPERTIES
  CanceledIsNeverSubmitted
  StaleWorkerChangesNothing
  ReconciledOnCurrentEvidence
CHECK_DEADLOCK FALSE
