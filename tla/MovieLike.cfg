SPECIFICATION Spec
CONSTANTS
  Movies = {m1}
  Users = {u1}
  Requests = {r1, r2}
  NoUser = NoUser
INVARIANTS
  NoDanglingLike
PROPERTIES
  ButtonsSpec
  EveryPressEnds
