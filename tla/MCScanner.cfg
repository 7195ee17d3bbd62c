CONSTANTS
  Users = {u1, u2}
  Scans = {p}
  Nobody = nobody
  MaxSocks = 3
SPECIFICATION FairSpec
INVARIANTS
  IInv
  OneSocketPerScan
  PrescanCleansUp
  AnswersOwnCommand
PROPERTIES
  CallsEnd
CHECK_DEADLOCK FALSE
