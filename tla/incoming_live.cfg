SPECIFICATION ListenerSpec
CONSTANTS
  NumUni    = 1
  NumBi     = 1
  MaxFrames = 2
  ChanCap   = 1
  Kinds     = {"UserMsg", "EchoReq"}
  Losses    = {"TimedOut", "Reset"}
  PeerMay   = {"part"}
  AppMay    = {"drop", "close"}
INVARIANTS
  TypeOK
PROPERTIES
  LossEndsIncoming
  DropClosesConnection
  EchoServed
CHECK_DEADLOCK FALSE
