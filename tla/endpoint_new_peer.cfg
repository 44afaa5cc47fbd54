SPECIFICATION FairSpec
CONSTANTS
  Peers        = {"c1", "c2", "p1"}
  Capacity     = 1
  Contacts     = {"c1", "c2"}
  ExternalIp   = "none"
  ExternalPort = "none"
  ForwardPort  = TRUE
  Slow         = TRUE
  Lossy        = {"c1", "c2", "p1"}
  LocalAddr    <- Local
  VisibleAddr  <- Seen
  Routes       <- Open
INVARIANTS
  EndpointTypeOK
  Verified
PROPERTIES
  NewPeerReturns
  FailureClosesAll
CHECK_DEADLOCK FALSE
