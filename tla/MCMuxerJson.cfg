\* One segment per stream, --merger download-only and nothing else.
CONSTANTS
  Segments = 1
  Options <- DownloadOnly
  MaxRuns = 1
SPECIFICATION Spec
INVARIANT
  JsonUsable
