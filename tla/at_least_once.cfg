SPECIFICATION FairMessaging
CONSTANTS
  NumUni    = 2
  NumBi     = 0
  MaxFrames = 2
  ChanCap   = 1
  Kinds     = {"UserMsg", "Malformed"}
  Losses    = {}
  PeerMay   = {"part", "finish"}
  AppMay    = {}
  Calls     = {1, 2}
  Messages <- BothPlain
  Keepers   = {2}
  MayDrop   = {}
PROPERTY AtLeastOnce
CHECK_DEADLOCK FALSE
