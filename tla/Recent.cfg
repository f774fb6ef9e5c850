SPECIFICATION RecentSpec
CONSTANTS
  Clients = {r1, r2, r3}
  TTL = 2
  MaxVersion = 3
  MaxTime = 5
  NoList = NoList
INVARIANTS
  CachesAgree
CHECK_DEADLOCK FALSE
