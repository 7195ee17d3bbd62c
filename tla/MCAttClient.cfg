CONSTANTS
  r1 = r1
  r2 = r2
  x = x
  w = w
  Reqs = {r1, r2, x}
  Expects <- MCExpects
  NoReq = NoReq
  Asides = {w}
  PeerMtus <- MCPeerMtus
  MaxDup = 1
  MaxPeerMtuReq = 1
SPECIFICATION FairSpec
INVARIANTS
  IInv
  OnlyUnsettledStray
  NoUnexpectedOpcode
  SilenceIsNotNegotiated
PROPERTIES
  ServesInOrder
  EveryCallEnds
CHECK_DEADLOCK FALSE
