CONSTANTS
  AttrLens <- MCAttrLens
  PeerMtus <- MCPeerMtus
  MaxPeerMtuReq = 2
SPECIFICATION FairSpec
INVARIANTS
  IInv
  WholeUnlessRaced
  NotCutByOurMtu
PROPERTIES
  ReadIsBounded
CHECK_DEADLOCK FALSE
