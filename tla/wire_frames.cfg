SPECIFICATION FairSpec
CONSTANTS
  Base        = 3
  Lens        = {0, 1, 81}
  Writers     = {"app", "handler"}
  MaxCalls    = 2
  Losses      = {"reset", "benign", "failed"}
  AppOutlives = FALSE
INVARIANTS
  WireTypeOK
  CutReported
PROPERTIES
  InSync
  Delivered
CHECK_DEADLOCK FALSE
