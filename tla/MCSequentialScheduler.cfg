\* Three threads, three segments, each requeued at most twice.
CONSTANTS
  w1 = w1
  w2 = w2
  w3 = w3
  Worker = {w1, w2, w3}
  Max = 3
  RequeueLimit = 2
SPECIFICATION FairSpec
INVARIANTS
  TypeOK
  DelayHonoured
PROPERTIES
  ImplementsPool
  EverythingFinishes
