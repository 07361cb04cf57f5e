\* One slot for procs, used again and again; two client addresses,
\* two TLS session IDs.
CONSTANTS
  Procs = {p1}
  Addrs = {a1, a2}
  Ids = {i1, i2}
  None = None
  UDP_FD_RESEND_TIME = 1
  ACTIVE_SESSION_TIMEOUT = 1
  SessionExpiration = 1
  MaxCache = 1
  ConnectScript = TRUE
  MaxQueue = 2
SPECIFICATION Spec
INVARIANTS LoginAgreed CacheSound
PROPERTIES UdpComesBack
