SPECIFICATION Spec
CONSTANTS
  BlockCount = 2
  SectorsPerBlock = 2
  CellsPerSector = 1
  DataOffset = 1
  TableOffset = 3
  BAT_UNALLOCATED = 99
  Writers = {w1, w2}
  Payloads = {a, b}
  old = old
  Existing = {old}
  Zero = Zero
  Stale = Stale
  None = None
  Requests <- SectorRequests
  InitialImages <- FreshAndDamaged
  Capacity = 17
  MaxCalls = 2
  MaxFaults = 2
  MaxCrashes = 2
SYMMETRY Interchangeable
INVARIANTS
  AlwaysOpens
  ReadBack
  NewFooterIsDurable
  LayoutInv
PROPERTIES
  IsVirtualDisk
