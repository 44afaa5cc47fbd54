SPECIFICATION Spec
CONSTANTS
  NumUni    = 1
  NumBi     = 1
  MaxFrames = 2
  ChanCap   = 1
  Kinds     = {"UserMsg", "Malformed", "EchoReq", "VerificationReq", "Response"}
  Losses    = {"TimedOut", "Reset"}
  PeerMay   = {"part", "finish", "reset"}
  AppMay    = {"keep", "drop"}
INVARIANTS
  InOrder
  BenignLossSilent
  NothingSkipped
  EndMeansLost
  LossPropagated
  CutMessageReported
  BenignLossComplete
  RepliesMatch
  RequestsServed
  BiListensWhileHeld
CHECK_DEADLOCK FALSE
