SPECIFICATION FairSpec
CONSTANTS
  initial_retry_interval    = 2
  max_retry_interval        = 4
  retry_delay_multiplier    = 15
  retry_delay_rand_factor   = 5
  retrying_max_elapsed_time = 12
INVARIANTS
  AtMostOnce
  FailureTrue
PROPERTIES
  SendReturns
CHECK_DEADLOCK FALSE
