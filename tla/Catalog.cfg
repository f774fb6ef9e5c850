SPECIFICATION Spec
CONSTANTS
  Genres = {"g1"}
  Directors = {"d1"}
  Titles = {"a", "b"}
  Files = {"f1"}
  Posts <- Posts2
  Patches <- Patches3
  Catalog <- CatalogNone
  MaxId = 2
  Requests = {r1, r2}
SYMMETRY Symmetry
INVARIANTS
  SomebodyMoves
  DetailsOwned
  FilesInPlace
  TitlesUnique
  RowsWhole
  RemovedStaysRemoved
  AnswerIsKept
PROPERTIES
  PatchSetsGenres
  ActsAtOnce
