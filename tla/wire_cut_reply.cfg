SPECIFICATION Spec
CONSTANTS
  Base        = 3
  Lens        = {1}
  Writers     = {"app", "handler"}
  MaxCalls    = 2
  Losses      = {}
  AppOutlives = TRUE
INVARIANTS
  ArrivesAsSent
CHECK_DEADLOCK FALSE
