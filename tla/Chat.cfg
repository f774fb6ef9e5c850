SPECIFICATION Spec
CONSTANTS
  a1 = a1
  g1 = g1
  g2 = g2
  Users = {a1, g1, g2}
  Admin = a1
  Sockets = {s1, s2, s3}
  Messages = {m1, m2}
  MaxRoom = 2
  Nobody = Nobody
  NoUser = NoUser
SYMMETRY Symmetry
INVARIANTS
  RegistryLive
  FallsOutOnlyByAnother
  OnlyTheGapIsMissed
  OnlyOwnRooms
  HeardIsSent
CHECK_DEADLOCK FALSE
