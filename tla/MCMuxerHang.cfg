\* One segment per stream, all the defaults, one run.
CONSTANTS
  Segments = 1
  Options <- Defaults
  MaxRuns = 1
SPECIFICATION FairSpec
PROPERTY
  MuxingFinishes
