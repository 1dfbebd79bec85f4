\* Three segments over three workers: batches 0..1 and 2..2, and one worker
\* that only steals.  Each segment may be requeued twice.
CONSTANTS
  Segments = 3
  Threads = 3
  RequeueLimit = 2
SPECIFICATION FairSpec
INVARIANTS
  TypeOK
  NoOrphanedWork
  DelayHonoured
PROPERTIES
  ImplementsPool
  EverythingFinishes
