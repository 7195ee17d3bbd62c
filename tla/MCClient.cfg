CONSTANTS
  Users = {u1, u2}
  MaxConns = 2
  MaxCalls = 6
SPECIFICATION Spec
INVARIANTS
  IInv
  AgreesWithSocket
  LossReportedOnce
  SubscriptionsAgree
CHECK_DEADLOCK FALSE
