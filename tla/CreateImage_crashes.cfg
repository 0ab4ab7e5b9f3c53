SPECIFICATION FairSpec
CONSTANTS
  Asks <- SomeAsks
  OldFiles <- SomeFiles
  Missing = Missing
  exact <- Rounded
  ENTRIES_PER_SECTOR = 2
  CHUNK_SECTORS = 3
  MAX_CREATE_BAT_ENTRIES = 8
  MAX_FILE = 11
  MaxCreates = 2
  MaxFaults = 1
  MaxCrashes = 1
INVARIANTS
  OpensAsAsked
  CreatedIsWhole
  NothingLeft
PROPERTIES
  CreateEnds
CHECK_DEADLOCK FALSE
