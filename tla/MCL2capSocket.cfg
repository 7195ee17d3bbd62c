CONSTANTS
  Senders = {s1, s2, s3}
  Connector = connector
  Nobody = nobody
  Cap = 1
  MaxConns = 3
SPECIFICATION FairSpec
INVARIANTS
  IInv
  WaitersAreWatched
PROPERTIES
  LoneSendEnds
CHECK_DEADLOCK FALSE
