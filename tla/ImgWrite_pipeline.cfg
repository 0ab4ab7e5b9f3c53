SPECIFICATION WriteSpec
CONSTANTS
  a = a
  b = b
  c = c
  Zero = Zero
  Values = {a, b, c, Zero}
  Tools = {t1}
  Source <- Disk
  Ranges <- SomeRanges
  FirstFiles <- Found
  Asks <- SomeAsks
  FirstGuest <- Guest
  PipeData <- SomePipes
  FirstFeed <- Feed
  Lengths = {1, 5}
  CHUNK = 2
  MaxInodes = 4
  MaxRuns = 2
  MaxFaults = 2
  MaxCrashes = 2
  MaxWrites = 1
  MaxChanges = 2
INVARIANTS
  FileIsWhole
  CopyIsWhole
  NoPartialLeft
  OnlyTheRange
  TakesOneInput
  DoneIsDurable
CHECK_DEADLOCK FALSE
