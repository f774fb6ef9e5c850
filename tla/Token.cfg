SPECIFICATION Spec
CONSTANTS
  a1 = a1
  u1 = u1
  Users = {a1, u1}
  roleOf <- Roles
  Tokens = {t1, t2, t3}
  Second = 2
  AccessTTL = 1
  RefreshTTL = 2
  Margin = 1
  MaxTime = 4
  NoUser = NoUser
  NoToken = NoToken
SYMMETRY Symmetry
INVARIANTS
  BlockedStaysOut
  NoneOutlivesExpiry
  AdminsOnly
PROPERTY
  AnswersAsRegistry
CHECK_DEADLOCK FALSE
