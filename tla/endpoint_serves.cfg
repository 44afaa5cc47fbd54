SPECIFICATION ServingSpec
CONSTANTS
  Peers        = {"c1", "c2", "p1", "p2"}
  Capacity     = 2
  Contacts     = {"c1", "c2"}
  ExternalIp   = "none"
  ExternalPort = "port3"
  ForwardPort  = FALSE
  Slow         = FALSE
  Lossy        = {"p1"}
  LocalAddr    <- Local
  VisibleAddr  <- Seen
  Routes       <- Open
PROPERTIES
  Bootstraps
  EveryPeerServed
  CloseEndsListener
CHECK_DEADLOCK FALSE
