CONSTANTS
  r1 = r1
  r2 = r2
  x = x
  w = w
  Reqs = {r1, r2, x}
  Expects <- MCExpects
  NoReq = NoReq
  Asides = {w}
  PeerMtus <- MCPeerMtus
  MaxDup = 1
  MaxPeerMtuReq = 1
SPECIFICATION Spec
INVARIANT AnswersOwnRequest
CHECK_DEADLOCK FALSE
