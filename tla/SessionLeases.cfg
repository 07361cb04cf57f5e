SPECIFICATION Spec
CONSTANTS
  Sids = {s1}
  CookieTimeout = 0
  AuthSlack = 0
  AcctEnabled = FALSE
  MaxTime = 0
  MaxUsers = 3
  MaxCookies = 1
  MaxBytes = 1
  MaxTotal = 0
  Procs = {p1, p2, p3}
  NoProc = NoProc
  Users = {u1}
  Pool = {a1, a2}
  NoIP = NoIP
  MaxClients = 0
  MaxSameClients = 2
  DenyRoaming = FALSE
  ConnectScript = FALSE
  MaxReports = 1
CHECK_DEADLOCK FALSE
SYMMETRY Symmetry
INVARIANTS HoldersAreProcs LeasesExclusive ConnectedHasLease SameClientsBounded
