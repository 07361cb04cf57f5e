\* One connection at a time, two conversations; one user has a password and a certificate.
\* A banned address ends the behaviour: its ban does not end here.
CONSTANTS
  Workers = {w1}
  Sids = {s1, s2}
  Users = {u1, u2}
  CertUsers = {u1}
  Registered = {u1}
  Addrs = {a1}
  Configs <- Lists
  MaxTries = 2
  PamPrompts = 2
  MaxBanScore = 2
  MaxRequests = 3
  CiscoCompat = FALSE
  Keep = Keep
  None = None
SPECIFICATION Spec
INVARIANTS CookieProven GuessesBounded
PROPERTIES LoginEnds
CHECK_DEADLOCK FALSE
