SPECIFICATION Spec
CONSTANTS
  Base = 2
  Size = 6
  SectorSize = 2
  Granule = 2
  DriveLen = 7
  MaxRequest = 4
  MaxErrors = 2
INVARIANT BytesFromTheirPlace
CHECK_DEADLOCK FALSE
