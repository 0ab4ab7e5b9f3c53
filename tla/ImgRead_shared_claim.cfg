SPECIFICATION Spec
CONSTANTS
  a = a
  b = b
  c = c
  Zero = Zero
  Values = {a, b, c, Zero}
  Tools = {t1, t2}
  Source <- Disk
  Ranges <- SomeRanges
  FirstFiles <- Found
  MaxInodes = 4
  MaxRuns = 2
  MaxFaults = 0
  MaxCrashes = 0
INVARIANT FileIsWhole
CHECK_DEADLOCK FALSE
