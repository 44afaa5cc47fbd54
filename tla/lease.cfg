SPECIFICATION FairSpec
CONSTANTS
  Second              = 4
  upnp_lease_duration = 10
  MaxSecs             = 50
  Latency             = 3
INVARIANTS
  LeaseTypeOK
  MappingEnds
  RenewedInTime
PROPERTIES
  MappingRestored
  RenewalStops
CHECK_DEADLOCK FALSE
