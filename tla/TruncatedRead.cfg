CONSTANTS
  AttrLens <- MCAttrLens
  PeerMtus <- MCPeerMtus
  MaxPeerMtuReq = 2
SPECIFICATION Spec
INVARIANT NeverTruncated
CHECK_DEADLOCK FALSE
