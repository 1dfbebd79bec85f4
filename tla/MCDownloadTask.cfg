\* Two threads, three segments; every segment but the last is requeued once.
\* Fails is 1 for the others and 5 for the last one.
CONSTANTS
  w1 = w1
  w2 = w2
  NoSegment = NoSegment
  Worker = {w1, w2}
  Segment = {0, 1, 2}
  Segments = 3
  FailThreshold = 1
  RequeueFailed = 1
  RequeueLast = FALSE
SPECIFICATION FairSpec
INVARIANTS
  TypeOK
  OnePlace
  MergeWindow
  MissedExactly
  LostAfterAllTries
  ProgressAdds
  RequeuedShown
PROPERTIES
  LostIsFinal
  ImplementsFeed
  TaskEnds
