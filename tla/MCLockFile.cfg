\* Two instances of one command, one with another temporary directory and the
\* same output, and a merge in the first directory, each started over and over;
\* five lock files are created, after which an instance that finds none cannot
\* go on: CHECK_DEADLOCK FALSE.
CONSTANTS
  i1 = i1
  i2 = i2
  i3 = i3
  m = m
  Instance = {i1, i2, i3, m}
  Name = {"temp", "other", "output", "merged"}
  LocksOf <- FourInstances
  MaxFiles = 5
SYMMETRY InstanceSymmetry
SPECIFICATION LockSpec
CHECK_DEADLOCK FALSE
INVARIANTS
  ExclusiveUntilRemoved
  SecondLockHolds
