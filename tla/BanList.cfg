SPECIFICATION FairSpec
CONSTANTS
  IPs = {a}
  MaxBanScore = 3
  MinReauthTime = 2
  BanResetTime = 3
  PointsConnect = 1
  PointsPassword = 2
  PointsKkdcp = 1
  MaxTime = 9
  MaxScore = 8
  MaxPosts = 2
CHECK_DEADLOCK FALSE
INVARIANTS LockoutBounded
PROPERTIES BanStands BanNotExtended BanEnds
