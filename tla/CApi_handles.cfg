SPECIFICATION Spec
CONSTANTS
  NoOffset = 1000
  BITS = 1
  BAT_UNALLOCATED = 99
  Files <- AllFiles
  Sizes = {0, 2}
  exact <- Rounded
  Written = {1}
  MaxDevices = 4
INVARIANTS
  Ownership
  FooterOffLimits
  AcceptsExactlySound
PROPERTIES
  ReadOnlyUntouched
CHECK_DEADLOCK FALSE
