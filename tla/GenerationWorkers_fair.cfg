SPECIFICATION FairSpec
CONSTANTS
  Workers = {w1, w2}
  MaxAttempts = 2
  FaultBudget = 1
PROPERTIES
  ImplementsLifecycle
CHECK_DEADLOCK FALSE
