SPECIFICATION FairSpec
CONSTANTS
  initial_retry_interval = 1
  max_retry_interval = 2
  retry_delay_multiplier = 20
  retry_delay_rand_factor = 5
  retrying_max_elapsed_time = 6
  Addrs = {"a1", "a2", "a3"}
  Invalid = {"a3"}
  Lossy = {"a2"}
  UpTimes = {0, 2, 20}
  Configs <- MCConfigs
  DEFAULT_IDLE_TIMEOUT = 3
  MaxVarInt = 8
  ECHO_SERVICE_QUERY_TIMEOUT = 4
  Answers = {"EchoResp", "Other", "Finished", "Reset"}
  MayClose = TRUE
INVARIANTS CallInTime RetryCatches
PROPERTIES FirstSucceeds CallReturns
CHECK_DEADLOCK FALSE
