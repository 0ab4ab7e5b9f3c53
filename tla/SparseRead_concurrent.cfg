SPECIFICATION ReadFairSpec
CONSTANTS
  BlockCount = 2
  SectorsPerBlock = 2
  CellsPerSector = 1
  DataOffset = 1
  TableOffset = 3
  BAT_UNALLOCATED = 99
  Writers = {w1, w2}
  Readers = {r1}
  Payloads = {a}
  old = old
  Existing = {old}
  Zero = Zero
  Stale = Stale
  None = None
  Unread = Unread
  Requests <- WriteRanges
  ReadRequests <- ReadRanges
  InitialImages <- FreshAndHalf
  Capacity = 14
  MaxCalls = 2
  MaxFaults = 1
  MaxCrashes = 0
  MaxReads = 1
INVARIANTS
  ReadsAreCurrent
  FillsTheRange
  ReadsInsideFile
PROPERTIES
  ReadsReturn
  WriteReturns
CHECK_DEADLOCK FALSE
