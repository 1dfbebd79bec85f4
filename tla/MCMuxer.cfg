\* Two segments per stream, and one run after the first.
CONSTANTS
  Segments = 2
  Options <- Ordinary
  MaxRuns = 2
SPECIFICATION FairSpec
INVARIANTS
  FinalComplete
  MergeBar
PROPERTIES
  DeletesOnlyMerged
  MainEnds
