SPECIFICATION Spec
CONSTANTS
  Movies = {1, 2, 3, 4, 5}
  likeCount <- Counts
  createdAt <- Times
  Millisecond = 3
  Matching = {1, 2, 3, 4, 5}
  Titled = FALSE
  Orders <- SixOrders
  Take = 2
INVARIANTS
  NothingMissed
  NothingRepeated
PROPERTIES
  CursorMoves
