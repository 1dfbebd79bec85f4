\* Two segments in three runs, from segment 0 or 1 of the stream.
CONSTANTS
  Segments = 2
  Starts = {0, 1}
  Length <- SomeLengths
  MaxRuns = 3
SPECIFICATION Spec
INVARIANTS
  OwnSegment
  Reuses
PROPERTY
  DoneStays
CHECK_DEADLOCK FALSE
