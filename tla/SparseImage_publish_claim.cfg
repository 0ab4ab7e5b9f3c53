SPECIFICATION Spec
CONSTANTS
  BlockCount = 2
  SectorsPerBlock = 2
  CellsPerSector = 1
  DataOffset = 1
  TableOffset = 3
  BAT_UNALLOCATED = 99
  Writers = {w1}
  Payloads = {a}
  old = old
  Existing = {old}
  Zero = Zero
  Stale = Stale
  None = None
  Requests <- SectorRequests
  InitialImages <- ForeignOnly
  Capacity = 14
  MaxCalls = 1
  MaxFaults = 0
  MaxCrashes = 1
INVARIANTS
  PublishesOnlyWritten
