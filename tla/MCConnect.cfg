CONSTANTS
  Timeouts <- MCTimeouts
  PrescanBudget = 3
  PrescanSpare = 2
  RetryDelay = 2
  MgmtTimeout = 4
  MaxCalls = 2
SPECIFICATION FairSpec
INVARIANTS
  TypeOK
  DeadlineKept
  RetriesRightly
  KnownTypeOnly
PROPERTIES
  ConnectEnds
CHECK_DEADLOCK FALSE
