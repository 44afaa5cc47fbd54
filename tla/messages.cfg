SPECIFICATION FairKeepers
CONSTANTS
  NumUni    = 2
  NumBi     = 0
  MaxFrames = 2
  ChanCap   = 1
  Kinds     = {"UserMsg", "Malformed"}
  Losses    = {"TimedOut"}
  PeerMay   = {"part", "finish"}
  AppMay    = {"drop"}
  Calls     = {1, 2}
  Messages <- OddAndPlain
  Keepers   = {2}
  MayDrop   = {1}
INVARIANTS StopsBehindMessage
PROPERTIES DeliveryKept OkReceived
CHECK_DEADLOCK FALSE
