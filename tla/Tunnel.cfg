SPECIFICATION FairSpec
CONSTANTS
  Dpd = 1
  IdleTimeout = 0
  TryMtu = TRUE
  PERIODIC_CHECK_TIME = 1
  SelectTime = 1
  UDP_SWITCH_TIME = 0
  MIN_MTU = 1
  AgreedMtu = 1
  Mss = {1}
  UdpOffered = TRUE
  MaxAge = 6
CHECK_DEADLOCK FALSE
INVARIANT SilenceBounded
PROPERTIES ProbedOrAway UdpFallback
