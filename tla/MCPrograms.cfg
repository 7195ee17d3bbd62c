CONSTANTS
  MaxFaults = 2
  Jobs <- MCJobs
SPECIFICATION Spec
CHECK_DEADLOCK FALSE
INVARIANTS
  IInv
  OneResultPerCell
  LeftIsExplained
  LossIsTold
  CtrlCEnds
  OutcomeIsTrue
