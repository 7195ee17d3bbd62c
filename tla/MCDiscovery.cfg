CONSTANTS
  MaxHandle = 5
  MaxPage = 2
  Dbs <- MCDbs
  MaxLies = 1
SPECIFICATION Spec
INVARIANTS
  IInv
  Complete
  RangeIsProper
PROPERTIES
  MovesForward
CHECK_DEADLOCK FALSE
