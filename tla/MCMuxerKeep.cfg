\* One segment per stream, --disable-resume and --keep-files.
CONSTANTS
  Segments = 1
  Options <- DeleteAndKeep
  MaxRuns = 1
SPECIFICATION Spec
PROPERTY
  DeletesOnlyMerged
