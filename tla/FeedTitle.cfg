SPECIFICATION Spec
CONSTANTS
  Movies = {1, 2, 3}
  likeCount <- Counts
  createdAt <- Times
  Millisecond = 3
  Matching = {2, 3}
  Titled = TRUE
  Orders <- IdDesc
  Take = 1
INVARIANTS
  PagesFiltered
