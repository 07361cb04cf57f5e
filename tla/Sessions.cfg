SPECIFICATION FairSpec
CONSTANTS
  Sids = {s1}
  CookieTimeout = 0
  AuthSlack = 0
  AcctEnabled = TRUE
  MaxTime = 1
  MaxUsers = 2
  MaxCookies = 1
  MaxBytes = 0
  MaxTotal = 1
  Procs = {p1, p2}
  NoProc = NoProc
  Users = {u1}
  Pool = {a1}
  NoIP = NoIP
  MaxClients = 2
  MaxSameClients = 0
  DenyRoaming = TRUE
  ConnectScript = TRUE
  MaxReports = 1
CHECK_DEADLOCK FALSE
INVARIANT LeasesExclusive
PROPERTIES CookiesServed KilledIsRemoved
