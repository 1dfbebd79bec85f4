\* Two threads and two requesters, each with up to three clients, of which
\* two may be disposed of; two tries; one response that is dropped.
CONSTANTS
  t1 = t1
  t2 = t2
  Thread = {t1, t2}
  Address = {"a", "b"}
  RetryThreshold = 2
  MaxClients = 3
  MaxLoops = 1
SPECIFICATION FairSpec
INVARIANTS
  NotClosedInUse
  ClosedOnce
PROPERTY
  ClosedByLastRequest
