SPECIFICATION Spec
CONSTANTS
  Videos = {v1, v2}
  Requests = {r1, r2}
  Attempts = 3
  MaxCrashes = 3
  NoVideo = NoVideo
INVARIANTS
  MovieHasFile
  NothingLost
  SharedOnlyByOverlap
PROPERTIES
  JobsEnd
CHECK_DEADLOCK FALSE
