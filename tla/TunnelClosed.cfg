SPECIFICATION Spec
CONSTANTS
  Dpd = 0
  IdleTimeout = 1
  TryMtu = TRUE
  PERIODIC_CHECK_TIME = 1
  SelectTime = 1
  UDP_SWITCH_TIME = 0
  MIN_MTU = 3
  AgreedMtu = 9
  Mss = {3, 9}
  UdpOffered = TRUE
  MaxAge = 3
CHECK_DEADLOCK FALSE
INVARIANT ClosedNotUsed
