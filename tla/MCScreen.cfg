\* An audio thread, a video thread and a merger, two operations each.
CONSTANTS
  audio = audio
  video = video
  merger = merger
  log = log
  none = none
  Goroutines <- Threads
  Loggers = {log}
  Ops <- SomeOps
  MaxOps = 2
SPECIFICATION FairSpec
INVARIANTS
  ScreenCurrent
  LogKept
PROPERTIES
  NeverOlder
  CallsReturn
