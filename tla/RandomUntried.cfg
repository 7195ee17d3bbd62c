CONSTANTS
  Timeouts = {8}
  PrescanBudget = 3
  PrescanSpare = 2
  RetryDelay = 2
  MgmtTimeout = 4
  MaxCalls = 2
SPECIFICATION Spec
INVARIANT BothTypesTried
CHECK_DEADLOCK FALSE
