SPECIFICATION PipelineSpec
CONSTANTS
  Users = {u1}
  NoUser = NoUser
  Requests = {r1, r2, r3}
  Limit = 2
  MaxMinute = 1
  Sessions = {s1}
  Movies = {m1}
  NoMovie = NoMovie
  MaxViews = 2
SYMMETRY Alike
INVARIANTS
  OverrunBounded
  RefusedAfterLimit
  ViewsLostByOverlapOnly
