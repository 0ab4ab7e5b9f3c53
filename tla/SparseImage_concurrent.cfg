SPECIFICATION Spec
CONSTANTS
  BlockCount = 2
  SectorsPerBlock = 2
  CellsPerSector = 2
  DataOffset = 1
  TableOffset = 3
  BAT_UNALLOCATED = 10
  Writers = {w1, w2}
  Payloads = {a, b}
  old = old
  Existing = {old}
  Zero = Zero
  Stale = Stale
  None = None
  Requests <- PartRequests
  InitialImages <- FreshAndForeign
  Capacity = 14
  MaxCalls = 3
  MaxFaults = 2
  MaxCrashes = 0
SYMMETRY Interchangeable
INVARIANTS
  TypeOK
  TailIsFree
  BlocksDisjoint
  ReadBack
PROPERTIES
  OnlyOwnChunk
  TailSettles
