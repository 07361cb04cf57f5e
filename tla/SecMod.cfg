SPECIFICATION SecModSpec
CONSTANTS
  Sids = {s1, s2}
  CookieTimeout = 1
  AuthSlack = 1
  AcctEnabled = TRUE
  MaxTime = 4
  MaxUsers = 2
  MaxCookies = 2
  MaxBytes = 1
  MaxTotal = 1
CHECK_DEADLOCK FALSE
SYMMETRY SidSymmetry
INVARIANTS SecModTypeOK HeldNotReclaimed CompletedCountExact AcctBalanced
PROPERTIES TotalsKept TicketSpec
