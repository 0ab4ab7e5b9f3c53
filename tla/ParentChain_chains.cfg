SPECIFICATION FairSpec
CONSTANTS
  child = child
  middle = middle
  base = base
  elsewhere = elsewhere
  Names = {child, middle, base}
  NotNames = {elsewhere}
  Missing = Missing
  None = None
  Images <- AllImages
  Directories <- AllDirectories
  MAX_PARENT_DEPTH = 3
  MaxChanges = 1
INVARIANTS
  DepthBounded
  ChainIsDeclared
  ReadsNearest
  OnlyCallerRefused
PROPERTIES
  OpenEnds
